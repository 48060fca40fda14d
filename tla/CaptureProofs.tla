---------------------------- MODULE CaptureProofs ----------------------------
(***************************************************************************)
(* Theorems about Capture, for all adapters, keywords and arguments, and   *)
(* whatever lists the libraries give.                                      *)
(***************************************************************************)
EXTENDS Capture, MessagePackerProofs, FiniteSetTheorems

(* What is read as an option's value is one of the arguments.              *)
LEMMA ValueIsWord ==
  ASSUME NEW args \in Arguments, NEW option
  PROVE  ValueOf(args, option) \subseteq Words
<1>1. PICK n \in 0 .. MaxArgs : args \in [1 .. n -> Words]
  BY DEF Arguments
<1>2. n \in Nat /\ Len(args) = n /\ DOMAIN args = 1 .. n
  BY <1>1, CaptureAssumption
<1> QED
  BY <1>1, <1>2 DEF ValueOf

(* Whatever the arguments, room->port is a port.                           *)
LEMMA PortIsPort ==
  ASSUME NEW args \in Arguments
  PROVE  PortOf(args) \in 0 .. PortMax
<1> DEFINE asked == ValueOf(args, "-port")
<1>1. \A w \in asked : w.number \in Int
  BY ValueIsWord, CaptureAssumption
<1>2. asked # {} => (CHOOSE w \in asked : TRUE).number \in Int
  BY <1>1
<1>3. ASSUME NEW k \in Int PROVE PortOrDefault(k) \in 0 .. PortMax
  BY CaptureAssumption DEF PortOrDefault
<1> QED
  BY <1>2, <1>3 DEF PortOf

(* The keyword occurs in the descriptions of some adapters.                *)
LEMMA KeywordsAreAdapters ==
  ASSUME NEW args \in Arguments
  PROVE  KeywordsOf(args) \subseteq Adapters
<1> DEFINE asked == ValueOf(args, "-deviceKeywords")
<1>1. \A w \in Words : w.within \subseteq Adapters
  BY CaptureAssumption
<1>2. asked # {} => (CHOOSE w \in asked : TRUE) \in Words
  BY ValueIsWord
<1> QED
  BY <1>1, <1>2, CaptureAssumption DEF KeywordsOf

(* The adapter found in a list is one that the keyword matches.            *)
LEMMA MatchIsKeyword ==
  ASSUME NEW list
  PROVE  FirstMatch(list) \subseteq keywords
BY DEF FirstMatch

-----------------------------------------------------------------------------
(* Both searches have found adapters that the keyword matches.             *)
Found ==
  /\ main \in {"device", "capturing"} => mac # {} /\ mac \subseteq keywords
  /\ main = "capturing" => device # {} /\ device \subseteq keywords

(* Frames come once the capture is on.  What was forwarded last carries    *)
(* the mark of its direction's buffer, and when both searches agree, the   *)
(* direction says whether the frame was addressed to the capture device.   *)
Marked ==
  /\ seen.fate # "none" => main = "capturing"
  /\ seen.fate = "forwarded" => (out.isSnd = IsSnd("rcv") <=> seen.dir = "rcv")
  /\ seen.fate # "none" /\ mac = device => (seen.dir = "rcv" <=> arrived)

(* The conjunction is inductive.                                           *)
CaptureInv == CaptureTypeOK /\ PackerInv /\ Found /\ Marked

(* It holds before the arguments are read.                                 *)
LEMMA CaptureInitInv == CaptureInit => CaptureInv
<1> SUFFICES ASSUME CaptureInit PROVE CaptureInv
  OBVIOUS
<1>1. PackerTypeOK /\ PackerInv
  BY PackerTypeInit, PackerInitInv DEF CaptureInit
<1>2. CaptureTypeOK
  BY <1>1, CaptureAssumption DEF CaptureInit, CaptureTypeOK
<1>3. Found /\ Marked
  BY DEF CaptureInit, PackerInit, Found, Marked
<1> QED
  BY <1>1, <1>2, <1>3 DEF CaptureInv

(* What leaves the packer alone keeps what is known of it.                 *)
LEMMA PackerUnchanged ==
  ASSUME CaptureInv, UNCHANGED packerVars
  PROVE  PackerTypeOK' /\ PackerInv'
BY DEF CaptureInv, CaptureTypeOK, packerVars, PackerTypeOK, PackerInv, PackerTypes,
       HeldBeginsWithLatest, NeverTwiceRunning, DropIsComparable

(* The steps of the start: the arguments give a port and a keyword, each   *)
(* search finds an adapter that the keyword matches or ends the program.   *)
LEMMA StartInv ==
  ASSUME CaptureInv, ReadArguments \/ FindMac \/ OpenDevice \/ GiveUpStart
  PROVE  CaptureInv'
<1>1. PackerTypeOK' /\ PackerInv' /\ UNCHANGED <<seen, out>>
  <2>1. UNCHANGED packerVars
    BY DEF ReadArguments, FindMac, OpenDevice, GiveUpStart
  <2> QED
    BY <2>1, PackerUnchanged DEF packerVars
<1>2. seen.fate = "none"
  BY DEF CaptureInv, Marked, ReadArguments, FindMac, OpenDevice, GiveUpStart, MainGoes
<1>3. Marked'
  BY <1>1, <1>2 DEF Marked
<1>4. CASE ReadArguments
  <2>1. port' \in 0 .. PortMax /\ keywords' \subseteq Adapters
    BY <1>4, PortIsPort, KeywordsAreAdapters DEF ReadArguments
  <2>2. CaptureTypeOK'
    BY <1>1, <1>4, <2>1 DEF CaptureInv, CaptureTypeOK, ReadArguments, MainGoes
  <2>3. Found'
    BY <1>4 DEF ReadArguments, MainGoes, Found
  <2> QED
    BY <1>1, <1>3, <2>2, <2>3 DEF CaptureInv
<1>5. CASE FindMac
  <2>1. mac' # {} /\ mac' \subseteq keywords
    BY <1>5, MatchIsKeyword DEF FindMac
  <2>2. CaptureTypeOK'
    BY <1>1, <1>5, <2>1 DEF CaptureInv, CaptureTypeOK, FindMac, MainGoes
  <2>3. Found'
    BY <1>5, <2>1 DEF FindMac, MainGoes, Found
  <2> QED
    BY <1>1, <1>3, <2>2, <2>3 DEF CaptureInv
<1>6. CASE OpenDevice
  <2>1. device' # {} /\ device' \subseteq keywords
    BY <1>6, MatchIsKeyword DEF OpenDevice
  <2>2. CaptureTypeOK'
    BY <1>1, <1>6, <2>1 DEF CaptureInv, CaptureTypeOK, OpenDevice, MainGoes
  <2>3. Found'
    BY <1>6, <2>1 DEF CaptureInv, OpenDevice, MainGoes, Found
  <2> QED
    BY <1>1, <1>3, <2>2, <2>3 DEF CaptureInv
<1>7. CASE GiveUpStart
  <2>1. CaptureTypeOK' /\ Found'
    BY <1>1, <1>7 DEF CaptureInv, CaptureTypeOK, Found, GiveUpStart
  <2> QED
    BY <1>1, <1>3, <2>1 DEF CaptureInv
<1> QED
  BY <1>4, <1>5, <1>6, <1>7

(* A frame: its first six bytes tell the direction, the direction the      *)
(* mark.                                                                   *)
LEMMA CaptureFrameInv ==
  ASSUME CaptureInv, CaptureFrame
  PROVE  CaptureInv'
<1>1. PICK f \in Frames, to \in SUBSET Adapters :
        /\ f.mine = (to = mac)
        /\ Skip(f) \/ Refuse(f) \/ DropRepeat(f) \/ Forward(f)
        /\ arrived' = (to = device)
  BY DEF CaptureFrame
<1>2. main = "capturing" /\ UNCHANGED <<main, port, keywords, mac, device>>
  BY DEF CaptureFrame
<1>3. PackerTypeOK'
  BY <1>1, PackerTypeStep DEF CaptureInv, CaptureTypeOK
<1>4. PackerInv'
  BY <1>1, QuietInv, DropInv, ForwardInv DEF CaptureInv
<1>5. CaptureTypeOK'
  BY <1>1, <1>2, <1>3 DEF CaptureInv, CaptureTypeOK
<1>6. Found'
  BY <1>2 DEF CaptureInv, Found
<1>7. Marked'
  <2>1. seen'.dir = DirectionOf(f) /\ (DirectionOf(f) = "rcv" <=> to = mac)
    <3>1. seen'.dir = DirectionOf(f)
      BY <1>1 DEF Skip, Refuse, DropRepeat, Forward, See
    <3>2. DirectionOf(f) = "rcv" <=> f.mine
      BY DEF DirectionOf
    <3>3. f.mine <=> to = mac
      BY <1>1, Zenon
    <3> QED
      BY <3>1, <3>2, <3>3
  <2>2. seen'.fate = "forwarded" => (out'.isSnd = IsSnd("rcv") <=> seen'.dir = "rcv")
    <3>1. CASE Forward(f)
      <4>1. out'.isSnd = IsSnd(DirectionOf(f))
        BY <3>1 DEF Forward
      <4> QED
        BY <2>1, <4>1 DEF IsSnd
    <3>2. CASE Skip(f) \/ Refuse(f) \/ DropRepeat(f)
      BY <3>2 DEF Skip, Refuse, DropRepeat, See
    <3> QED
      BY <1>1, <3>1, <3>2
  <2> QED
    BY <1>1, <1>2, <2>1, <2>2 DEF Marked
<1> QED
  BY <1>4, <1>5, <1>6, <1>7 DEF CaptureInv

(* CaptureInv is an invariant of the start and of the capture.             *)
THEOREM CaptureInvariant == CaptureSpec => []CaptureInv
<1>1. CaptureInv /\ [CaptureNext]_captureVars => CaptureInv'
  <2>1. CaptureInv /\ UNCHANGED captureVars => CaptureInv'
    <3> SUFFICES ASSUME CaptureInv, UNCHANGED captureVars PROVE CaptureInv'
      OBVIOUS
    <3>1. UNCHANGED packerVars /\ UNCHANGED startVars /\ UNCHANGED <<seen, out>>
      BY DEF captureVars, packerVars
    <3>2. PackerTypeOK' /\ PackerInv'
      BY <3>1, PackerUnchanged
    <3> QED
      BY <3>1, <3>2 DEF CaptureInv, CaptureTypeOK, Found, Marked, startVars
  <2> QED
    BY <2>1, StartInv, CaptureFrameInv DEF CaptureNext, Exited
<1> QED
  BY CaptureInitInv, <1>1, PTL DEF CaptureSpec

(* The variables have their types; whatever the arguments, the port is one *)
(* that can be listened on.                                                *)
THEOREM CaptureTypeCorrect == CaptureSpec => []CaptureTypeOK
<1>1. CaptureInv => CaptureTypeOK
  BY DEF CaptureInv
<1> QED
  BY <1>1, CaptureInvariant, PTL

(* A keyword that matches one adapter only makes both searches agree.      *)
LEMMA BothFindIt ==
  ASSUME CaptureInv, main = "capturing", Cardinality(keywords) = 1
  PROVE  mac = device
<1>1. IsFiniteSet(keywords)
  BY FS_Subset, CaptureAssumption DEF CaptureInv, CaptureTypeOK
<1>2. PICK x : keywords = {x}
  BY <1>1, FS_Singleton
<1>3. mac = {x} /\ device = {x}
  BY <1>2 DEF CaptureInv, Found
<1> QED
  BY <1>3

(* With such a keyword the address that directions are told by is that of  *)
(* the capture device, in whatever order the two libraries list adapters.  *)
THEOREM OneAdapterFound == CaptureSpec => []OneAdapter
<1>1. CaptureInv => OneAdapter
  BY BothFindIt DEF OneAdapter
<1> QED
  BY <1>1, CaptureInvariant, PTL

(* With such a keyword a message is the one of the rcv buffer exactly when *)
(* its packet was addressed to the capture device.                         *)
THEOREM MarksArrivals == CaptureSpec => []MarkedAsArrived
<1>1. CaptureInv => MarkedAsArrived
  BY BothFindIt DEF CaptureInv, Marked, MarkedAsArrived
<1> QED
  BY <1>1, CaptureInvariant, PTL

(* No direction forwards a payload twice running, in the whole program.    *)
THEOREM CaptureNeverRepeats == CaptureSpec => []NeverTwiceRunning
<1>1. CaptureInv => NeverTwiceRunning
  BY DEF CaptureInv, PackerInv
<1> QED
  BY <1>1, CaptureInvariant, PTL
=============================================================================

------------------------- MODULE MessagePackerProofs -------------------------
(***************************************************************************)
(* Theorems about MessagePacker, for every set of byte values, every bound *)
(* on payloads and every initial contents of the buffers.                  *)
(***************************************************************************)
EXTENDS MessagePacker, TLAPS

(* A payload is a sequence of at most MaxLen bytes.                        *)
LEMMA PayloadLength ==
  ASSUME NEW p \in Payloads
  PROVE  /\ p \in Seq(Bytes)
         /\ Len(p) \in 0 .. MaxLen
<1>1. PICK n \in 0 .. MaxLen : p \in [1 .. n -> Bytes]
  BY DEF Payloads
<1> QED
  BY <1>1, PackerAssumption

(* A payload laid over a buffer makes a buffer.                            *)
LEMMA OverlayIsBuffer ==
  ASSUME NEW d \in Directions, NEW p \in Payloads,
         held \in [Directions -> [1 .. MaxLen -> Bytes]]
  PROVE  Overlay(d, p) \in [1 .. MaxLen -> Bytes]
<1>1. ASSUME NEW i \in 1 .. MaxLen
      PROVE  (IF i <= Len(p) THEN p[i] ELSE held[d][i]) \in Bytes
  <2>1. held[d][i] \in Bytes
    OBVIOUS
  <2>2. i <= Len(p) => p[i] \in Bytes
    BY PayloadLength
  <2> QED
    BY <2>1, <2>2
<1> QED
  BY <1>1 DEF Overlay

(* The buffer of each direction begins with the payload it forwarded last. *)
HeldBeginsWithLatest ==
  \A d \in Directions : latest[d].some =>
    \A i \in 1 .. Len(latest[d].data) : held[d][i] = latest[d].data[i]

(* The types the argument needs.                                           *)
PackerTypes ==
  /\ held \in [Directions -> [1 .. MaxLen -> Bytes]]
  /\ latest \in [Directions -> {Nothing} \cup {Just(p) : p \in Payloads}]

(* The conjunction is inductive.                                           *)
PackerInv ==
  PackerTypes /\ HeldBeginsWithLatest /\ NeverTwiceRunning /\ DropIsComparable

(* Nothing has been forwarded at first.                                    *)
LEMMA PackerInitInv == PackerInit => PackerInv
BY DEF PackerInit, PackerInv, PackerTypes, HeldBeginsWithLatest,
       NeverTwiceRunning, DropIsComparable, Nothing

(* A frame that is not forwarded changes only what was seen last.          *)
LEMMA QuietInv ==
  ASSUME NEW f \in Frames, PackerInv, Skip(f) \/ Refuse(f)
  PROVE  PackerInv'
BY DEF PackerInv, PackerTypes, HeldBeginsWithLatest, NeverTwiceRunning,
       DropIsComparable, Skip, Refuse, See

(* A drop shows that the payload agrees with the held one, which begins    *)
(* with what was forwarded last.                                           *)
LEMMA DropInv ==
  ASSUME NEW f \in Frames, PackerInv, DropRepeat(f)
  PROVE  PackerInv'
<1> DEFINE d == DirectionOf(f)
           p == f.payload
<1>1. /\ d \in Directions
      /\ UNCHANGED <<held, out, latest>>
      /\ SameAsHeld(d, p)
      /\ seen'.fate = "repeat" /\ seen'.data = p /\ seen'.before = latest[d]
  BY DEF DropRepeat, See, DirectionOf, Directions
<1>2. PackerTypes' /\ HeldBeginsWithLatest'
  BY <1>1 DEF PackerInv, PackerTypes, HeldBeginsWithLatest
<1>3. NeverTwiceRunning'
  BY <1>1 DEF NeverTwiceRunning
<1>4. DropIsComparable'
  <2> HIDE DEF d, p
  <2>1. ASSUME latest[d].some, NEW i \in 1 .. Len(p), i <= Len(latest[d].data)
        PROVE  p[i] = latest[d].data[i]
    <3>1. held[d][i] = p[i]
      BY <1>1, <2>1 DEF SameAsHeld
    <3>2. i \in 1 .. Len(latest[d].data)
      <4>1. i \in Nat /\ i >= 1
        OBVIOUS
      <4>2. Len(latest[d].data) \in Nat
        <5>1. PICK q \in Payloads : latest[d] = Just(q)
          BY <1>1, <2>1 DEF PackerInv, PackerTypes, Nothing
        <5> QED
          BY <5>1, PayloadLength, PackerAssumption DEF Just
      <4> QED
        BY <2>1, <4>1, <4>2
    <3>3. held[d][i] = latest[d].data[i]
      BY <1>1, <2>1, <3>2 DEF PackerInv, HeldBeginsWithLatest
    <3> QED
      BY <3>1, <3>3
  <2> QED
    BY <1>1, <2>1 DEF DropIsComparable
<1> QED
  BY <1>2, <1>3, <1>4 DEF PackerInv

(* A payload is forwarded when it differs from the held one, and then      *)
(* begins it.                                                              *)
LEMMA ForwardInv ==
  ASSUME NEW f \in Frames, PackerInv, Forward(f)
  PROVE  PackerInv'
<1> DEFINE d == DirectionOf(f)
           p == f.payload
<1>1. /\ d \in Directions /\ p \in Payloads
      /\ ~SameAsHeld(d, p)
      /\ held' = [held EXCEPT ![d] = Overlay(d, p)]
      /\ latest' = [latest EXCEPT ![d] = Just(p)]
      /\ seen'.fate = "forwarded" /\ seen'.data = p /\ seen'.before = latest[d]
  BY DEF Forward, See, DirectionOf, Directions, Frames
<1> HIDE DEF d, p
<1>2. p \in Seq(Bytes) /\ Len(p) \in Nat /\ Len(p) <= MaxLen /\ MaxLen \in Nat
  BY <1>1, PayloadLength, PackerAssumption
<1>3. Overlay(d, p) \in [1 .. MaxLen -> Bytes]
  BY <1>1, OverlayIsBuffer DEF PackerInv, PackerTypes
<1>4. PackerTypes'
  BY <1>1, <1>3 DEF PackerInv, PackerTypes
<1>5. HeldBeginsWithLatest'
  <2>1. ASSUME NEW e \in Directions, latest'[e].some,
               NEW i \in 1 .. Len(latest'[e].data)
        PROVE  held'[e][i] = latest'[e].data[i]
    <3>1. CASE e = d
      <4>1. held'[e] = Overlay(d, p) /\ latest'[e] = Just(p)
        BY <1>1, <3>1 DEF PackerInv, PackerTypes
      <4>2. i \in 1 .. MaxLen /\ i <= Len(p)
        BY <1>2, <2>1, <4>1 DEF Just
      <4> QED
        BY <4>1, <4>2 DEF Overlay, Just
    <3>2. CASE e # d
      <4>1. held'[e] = held[e] /\ latest'[e] = latest[e]
        BY <1>1, <3>2 DEF PackerInv, PackerTypes
      <4> QED
        BY <2>1, <4>1 DEF PackerInv, HeldBeginsWithLatest
    <3> QED
      BY <3>1, <3>2
  <2> QED
    BY <2>1 DEF HeldBeginsWithLatest
<1>6. NeverTwiceRunning'
  <2>1. SUFFICES ASSUME latest[d] = Just(p) PROVE FALSE
    BY <1>1 DEF NeverTwiceRunning
  <2>2. \A i \in 1 .. Len(p) : held[d][i] = p[i]
    BY <1>1, <2>1 DEF PackerInv, HeldBeginsWithLatest, Just
  <2> QED
    BY <1>1, <2>2 DEF SameAsHeld
<1>7. DropIsComparable'
  BY <1>1 DEF DropIsComparable
<1> QED
  BY <1>4, <1>5, <1>6, <1>7 DEF PackerInv

(* PackerInv is an invariant of the packer.                                *)
THEOREM PackerInvariant == PackerSpec => []PackerInv
<1>1. PackerInv /\ [PackerNext]_packerVars => PackerInv'
  <2>1. PackerInv /\ PackerNext => PackerInv'
    BY QuietInv, DropInv, ForwardInv DEF PackerNext
  <2>2. PackerInv /\ UNCHANGED packerVars => PackerInv'
    BY DEF packerVars, PackerInv, PackerTypes, HeldBeginsWithLatest,
           NeverTwiceRunning, DropIsComparable
  <2> QED
    BY <2>1, <2>2
<1> QED
  BY PackerInitInv, <1>1, PTL DEF PackerSpec

(* Whatever frames arrive, no direction forwards a payload twice running.  *)
THEOREM ForwardsNeverRepeat == PackerSpec => []NeverTwiceRunning
<1>1. PackerInv => NeverTwiceRunning
  BY DEF PackerInv
<1> QED
  BY <1>1, PackerInvariant, PTL

(* What is dropped as a repeat and what was forwarded before it agree as   *)
(* far as both go.                                                         *)
THEOREM DropsAreComparable == PackerSpec => []DropIsComparable
<1>1. PackerInv => DropIsComparable
  BY DEF PackerInv
<1> QED
  BY <1>1, PackerInvariant, PTL

-----------------------------------------------------------------------------
(* The message handed on has the payload of the frame.                     *)
LEMMA ForwardsPayload ==
  ASSUME NEW f \in Frames, PackerTypeOK, Forward(f)
  PROVE  out' = [isSnd |-> IsSnd(DirectionOf(f)), data |-> f.payload]
<1> DEFINE d == DirectionOf(f)
           p == f.payload
<1>1. PICK n \in 0 .. MaxLen : p \in [1 .. n -> Bytes]
  BY DEF Frames, Payloads
<1>2. Len(p) = n /\ n \in Nat /\ n <= MaxLen /\ MaxLen \in Nat
  BY <1>1, PackerAssumption
<1>3. d \in Directions
  BY DEF DirectionOf, Directions
<1>4. held' = [held EXCEPT ![d] = Overlay(d, p)] /\ held'[d] = Overlay(d, p)
  BY <1>3 DEF Forward, PackerTypeOK
<1>5. Overlay(d, p) \in [1 .. MaxLen -> Bytes]
  BY <1>3, OverlayIsBuffer DEF PackerTypeOK, Frames
<1>6. Overlay(d, p) \in Seq(Bytes) /\ Len(Overlay(d, p)) = MaxLen
  BY <1>2, <1>5
<1>7. /\ SubSeq(Overlay(d, p), 1, n) \in Seq(Bytes)
      /\ Len(SubSeq(Overlay(d, p), 1, n)) = n
      /\ \A i \in 1 .. n : SubSeq(Overlay(d, p), 1, n)[i] = Overlay(d, p)[i]
  BY <1>2, <1>6
<1>8. \A i \in 1 .. n : Overlay(d, p)[i] = p[i]
  BY <1>2 DEF Overlay
<1>9. p \in Seq(Bytes)
  BY <1>1, <1>2
<1>10. SubSeq(Overlay(d, p), 1, n) = p
  BY <1>2, <1>7, <1>8, <1>9
<1> QED
  BY <1>2, <1>4, <1>10 DEF Forward

(* The types are kept.                                                     *)
LEMMA PackerTypeStep ==
  ASSUME NEW f \in Frames, PackerTypeOK, Skip(f) \/ Refuse(f) \/ DropRepeat(f) \/ Forward(f)
  PROVE  PackerTypeOK'
<1> DEFINE d == DirectionOf(f)
           Latest == {Nothing} \cup {Just(p) : p \in Payloads}
<1>1. d \in Directions /\ f.payload \in Payloads /\ latest[d] \in Latest
  BY DEF DirectionOf, Directions, Frames, PackerTypeOK
<1>2. Just(f.payload) \in Latest
  BY <1>1
<1>3. seen' \in [dir : Directions, data : Payloads, before : Latest,
                 fate : {"none", "skipped", "invalid", "repeat", "forwarded"}]
  BY <1>1 DEF Skip, Refuse, DropRepeat, Forward, See
<1>4. latest' \in [Directions -> Latest]
  BY <1>1, <1>2 DEF Skip, Refuse, DropRepeat, Forward, PackerTypeOK
<1>5. held' \in [Directions -> [1 .. MaxLen -> Bytes]]
  <2>1. CASE Forward(f)
    <3>1. Overlay(d, f.payload) \in [1 .. MaxLen -> Bytes]
      BY <1>1, OverlayIsBuffer DEF PackerTypeOK
    <3> QED
      BY <1>1, <2>1, <3>1 DEF Forward, PackerTypeOK
  <2> QED
    BY <2>1 DEF Skip, Refuse, DropRepeat, PackerTypeOK
<1>6. out' \in [isSnd : {0, 255}, data : Payloads]
  <2>1. CASE Forward(f)
    BY <1>1, <2>1, ForwardsPayload DEF IsSnd
  <2> QED
    BY <2>1 DEF Skip, Refuse, DropRepeat, PackerTypeOK
<1> QED
  BY <1>3, <1>4, <1>5, <1>6 DEF PackerTypeOK

(* The buffers of any contents have their types.                           *)
LEMMA PackerTypeInit == PackerInit => PackerTypeOK
<1> SUFFICES ASSUME PackerInit PROVE PackerTypeOK
  OBVIOUS
<1>1. << >> \in Payloads
  <2>1. << >> \in [1 .. 0 -> Bytes] /\ 0 \in 0 .. MaxLen
    BY PackerAssumption
  <2> QED
    BY <2>1 DEF Payloads
<1> QED
  BY <1>1 DEF PackerInit, PackerTypeOK, Directions

(* The variables of the packer have their types.                           *)
THEOREM PackerTypeCorrect == PackerSpec => []PackerTypeOK
<1>1. PackerTypeOK /\ [PackerNext]_packerVars => PackerTypeOK'
  <2>1. PackerTypeOK /\ PackerNext => PackerTypeOK'
    BY PackerTypeStep DEF PackerNext
  <2>2. PackerTypeOK /\ UNCHANGED packerVars => PackerTypeOK'
    BY DEF packerVars, PackerTypeOK
  <2> QED
    BY <2>1, <2>2
<1> QED
  BY PackerTypeInit, <1>1, PTL DEF PackerSpec
=============================================================================

------------------------------- MODULE Capture -------------------------------
(***************************************************************************)
(* The start of transport.exe, up to the packets that it captures: the     *)
(* arguments (args_parser.c, main.c), the MAC address and the capture      *)
(* device, which are looked up by keyword in two lists (pcap_helper.c),    *)
(* and the direction of a packet, which main.c tells by that address.      *)
(*                                                                         *)
(* An argument is what the program reads in it, an adapter stands for its  *)
(* MAC address and its description.                                        *)
(***************************************************************************)
EXTENDS MessagePacker, FiniteSets

CONSTANTS
  Adapters,    \* the network adapters of the machine
  Words,       \* the arguments: the option that it is, if any, whether
               \*   parseFilter accepts it, what atoi makes of it, and the
               \*   adapters in whose description it occurs
  Default,     \* DEFAULT_DEVICE_KEY_WORDS, as a member of Words
  DefaultPort, \* DEFAULT_LISTEN_PORT, 32999
  PortMax,     \* 65535
  MaxArgs      \* bound on the number of arguments

Options == {"-addresses", "-port", "-deviceKeywords"}

ASSUME CaptureAssumption ==
  /\ IsFiniteSet(Adapters)
  /\ Words \subseteq [option : Options \cup {"none"}, accepted : BOOLEAN,
                      number : Int, within : SUBSET Adapters]
  /\ Default \in Words
  /\ PortMax \in Nat /\ DefaultPort \in 0 .. PortMax /\ MaxArgs \in Nat

VARIABLES
  main,     \* "start", "adapter", "device", "capturing" or "exit"
  port,     \* room->port
  keywords, \* the adapters in whose description deviceKeywords occurs
  mac,      \* the adapter whose address is helper->mac, at most one
  device,   \* the adapter that is captured on, at most one
  arrived   \* the last frame was addressed to that adapter (ghost)

startVars == <<main, port, keywords, mac, device, arrived>>
captureVars == <<packerVars, startVars>>

Arguments == UNION {[1 .. n -> Words] : n \in 0 .. MaxArgs}

(* The lists of adapters that the two libraries give, in any order; each   *)
(* may lack some.                                                          *)
AdapterLists ==
  UNION {{l \in [1 .. n -> Adapters] : \A i, j \in 1 .. n : l[i] = l[j] => i = j} :
           n \in 0 .. Cardinality(Adapters)}

(* parseStringArg: what follows the option's first occurrence, be it an    *)
(* option; nothing when it is not there or the last.                       *)
ValueOf(args, option) ==
  LET at == {i \in DOMAIN args : args[i].option = option}
  IN  {args[i + 1] : i \in {j \in at : (\A k \in at : j <= k) /\ j < Len(args)}}

(* Mutant: the upper bound is not tested.                                  *)
PortOrMore(number) == IF number < 0 THEN DefaultPort ELSE number

PortOrDefault(number) == IF number < 0 \/ number > PortMax THEN DefaultPort ELSE number

PortOf(args) ==
  LET asked == ValueOf(args, "-port")
  IN  PortOrDefault(IF asked = {} THEN -1 ELSE (CHOOSE w \in asked : TRUE).number)

KeywordsOf(args) ==
  LET asked == ValueOf(args, "-deviceKeywords")
  IN  (IF asked = {} THEN Default ELSE CHOOSE w \in asked : TRUE).within

(* Mutant: the first of the list, whatever its description.                *)
FirstAny(list) == {list[i] : i \in {j \in DOMAIN list : j = 1}}

(* The first adapter of the list in whose description the keyword occurs.  *)
FirstMatch(list) ==
  {list[i] : i \in {j \in DOMAIN list :
     list[j] \in keywords /\ \A k \in 1 .. j - 1 : list[k] \notin keywords}}

CaptureInit ==
  /\ PackerInit
  /\ main = "start" /\ port = DefaultPort /\ keywords = {}
  /\ mac = {} /\ device = {} /\ arrived = FALSE

-----------------------------------------------------------------------------
MainGoes(from, to) == main = from /\ main' = to

ReadArguments ==
  /\ MainGoes("start", "adapter")
  /\ \E args \in Arguments :
       /\ \E w \in ValueOf(args, "-addresses") : w.accepted
       /\ port' = PortOf(args)
       /\ keywords' = KeywordsOf(args)
  /\ UNCHANGED <<packerVars, mac, device, arrived>>

FindMac ==
  /\ MainGoes("adapter", "device")
  /\ \E list \in AdapterLists : mac' = FirstMatch(list) /\ mac' # {}
  /\ UNCHANGED <<packerVars, port, keywords, device, arrived>>

OpenDevice ==
  /\ MainGoes("device", "capturing")
  /\ \E list \in AdapterLists : device' = FirstMatch(list) /\ device' # {}
  /\ UNCHANGED <<packerVars, port, keywords, mac, arrived>>

(* No addresses, or none that parse; no memory; no adapter, no device, or  *)
(* a call of a library fails.                                              *)
GiveUpStart ==
  /\ main \in {"start", "adapter", "device"}
  /\ main' = "exit"
  /\ UNCHANGED <<packerVars, port, keywords, mac, device, arrived>>

(* A frame of the capture device's link, addressed to an adapter or to     *)
(* anyone else: its first six bytes are compared with helper->mac.         *)
CaptureFrame ==
  /\ main = "capturing"
  /\ \E f \in Frames, to \in SUBSET Adapters :
       /\ Cardinality(to) <= 1
       /\ f.mine = (to = mac)
       /\ Skip(f) \/ Refuse(f) \/ DropRepeat(f) \/ Forward(f)
       /\ arrived' = (to = device)
  /\ UNCHANGED <<main, port, keywords, mac, device>>

Exited == main = "exit" /\ UNCHANGED captureVars

CaptureNext ==
  ReadArguments \/ FindMac \/ OpenDevice \/ GiveUpStart \/ CaptureFrame \/ Exited

CaptureSpec == CaptureInit /\ [][CaptureNext]_captureVars

-----------------------------------------------------------------------------
(* Every variable has its type; in particular, the port is one.            *)
CaptureTypeOK ==
  /\ PackerTypeOK
  /\ main \in {"start", "adapter", "device", "capturing", "exit"}
  /\ port \in 0 .. PortMax
  /\ keywords \subseteq Adapters
  /\ mac \subseteq Adapters /\ device \subseteq Adapters
  /\ arrived \in BOOLEAN

(* The keyword is looked for twice, in two lists that need not agree in    *)
(* order or contents (pcap_helper.c:37, 59).  The address is that of the   *)
(* capture device unless the keyword matches several adapters.             *)
OneAdapter ==
  main = "capturing" /\ Cardinality(keywords) = 1 => mac = device

(* A message is the one of the rcv buffer exactly when its packet was      *)
(* addressed to the capture device, unless the keyword matches several     *)
(* adapters (main.c:33, pcap_helper.c:37, 59).  Which value marks that     *)
(* buffer is left open here: FlagMarksSent is about it.                    *)
MarkedAsArrived ==
  seen.fate = "forwarded" /\ Cardinality(keywords) = 1 =>
    (out.isSnd = IsSnd("rcv") <=> arrived)
=============================================================================

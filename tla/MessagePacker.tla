---------------------------- MODULE MessagePacker ----------------------------
(***************************************************************************)
(* From a captured frame to a message (packetHandler in main.c and         *)
(* transformPcapPacketToBuffer in message.c): frames that are cut, too     *)
(* short or inconsistent are refused, payloads that equal what the buffer  *)
(* of their direction holds are dropped as repeats, the others are laid    *)
(* over the buffer and handed to broadcastData.  Capture says which frames *)
(* come, and how main.c tells their direction.                             *)
(*                                                                         *)
(* The capture filter only lets UDP over IPv4 through, so a frame has a    *)
(* well-formed UDP length, at least that of the UDP header.                *)
(***************************************************************************)
EXTENDS Integers, Sequences

CONSTANTS
  Bytes,   \* the values of a payload byte
  MaxLen   \* bound on the length of a payload

ASSUME PackerAssumption == Bytes # {} /\ MaxLen \in Nat

VARIABLES
  held,    \* held[d]: what follows the header in the buffer rcv or snd
  out,     \* the message last handed to broadcastData
  (* The rest is ghost state, read by properties only.                     *)
  seen,    \* the last frame: its direction, its payload, what became of it
           \*   and the payload forwarded before it in its direction
  latest   \* latest[d]: the payload last forwarded in direction d

packerVars == <<held, out, seen, latest>>

Directions == {"rcv", "snd"}
Payloads == UNION {[1 .. n -> Bytes] : n \in 0 .. MaxLen}
Nothing == [some |-> FALSE, data |-> <<>>]
Just(p) == [some |-> TRUE, data |-> p]

(* A frame: whether its first six bytes are helper->mac, the IP header's   *)
(* length in words, what follows the datagram (Ethernet padding), whether  *)
(* the capture cut it (caplen # len).                                      *)
Frames == [mine : BOOLEAN, ihl : {5, 6}, trailer : {0, 2}, cut : BOOLEAN,
           payload : Payloads]

EthernetHeader == 14                  \* MAC_LENGTH + 2
MinFrame == EthernetHeader + 2 + 20 + 8
UdpLength(f) == 8 + Len(f.payload)
Padding(f) == EthernetHeader + 4 * f.ihl
FrameLength(f) == Padding(f) + UdpLength(f) + f.trailer

(* Mutant: memcmp's result, 0 for equal bytes, taken for a truth value.    *)
DirectionReversed(f) == IF f.mine THEN "snd" ELSE "rcv"

DirectionOf(f) == IF f.mine THEN "rcv" ELSE "snd"

(* The isSnd field that mallocMessagePacker gives to the two buffers.      *)
IsSnd(d) == IF d = "rcv" THEN 255 ELSE 0

(* malloc leaves the contents of the buffers unset.                        *)
PackerInit ==
  /\ held \in [Directions -> [1 .. MaxLen -> Bytes]]
  /\ out = [isSnd |-> 0, data |-> <<>>]
  /\ seen = [dir |-> "rcv", data |-> <<>>, fate |-> "none", before |-> Nothing]
  /\ latest = [d \in Directions |-> Nothing]

-----------------------------------------------------------------------------
(* packetHandler: frames that are not looked into.                         *)
Skipped(f) == f.cut \/ FrameLength(f) < MinFrame

(* transformPcapPacketToBuffer: the lengths must agree.                    *)
Inconsistent(f) == UdpLength(f) + Padding(f) # FrameLength(f)

(* Mutants: the comparison forgets the first byte; it looks at one         *)
(* direction's buffer only.                                                *)
SameButFirst(d, p) == \A i \in 2 .. Len(p) : held[d][i] = p[i]
SameAsReceived(d, p) == \A i \in 1 .. Len(p) : held["rcv"][i] = p[i]

(* memcmp of the payload with as many bytes of the buffer.                 *)
SameAsHeld(d, p) == \A i \in 1 .. Len(p) : held[d][i] = p[i]

(* memcpy of the payload over the beginning of the buffer.                 *)
Overlay(d, p) == [i \in 1 .. MaxLen |-> IF i <= Len(p) THEN p[i] ELSE held[d][i]]

See(f, fate) ==
  seen' = [dir |-> DirectionOf(f), data |-> f.payload, fate |-> fate,
           before |-> latest[DirectionOf(f)]]

Skip(f) ==
  /\ Skipped(f)
  /\ See(f, "skipped")
  /\ UNCHANGED <<held, out, latest>>

Refuse(f) ==
  /\ ~Skipped(f)
  /\ Inconsistent(f)
  /\ See(f, "invalid")
  /\ UNCHANGED <<held, out, latest>>

DropRepeat(f) ==
  /\ ~Skipped(f) /\ ~Inconsistent(f)
  /\ SameAsHeld(DirectionOf(f), f.payload)
  /\ See(f, "repeat")
  /\ UNCHANGED <<held, out, latest>>

Forward(f) ==
  LET d == DirectionOf(f) IN
  /\ ~Skipped(f) /\ ~Inconsistent(f)
  /\ ~SameAsHeld(d, f.payload)
  /\ held' = [held EXCEPT ![d] = Overlay(d, f.payload)]
  /\ out' = [isSnd |-> IsSnd(d), data |-> SubSeq(held'[d], 1, Len(f.payload))]
  /\ See(f, "forwarded")
  /\ latest' = [latest EXCEPT ![d] = Just(f.payload)]

PackerNext ==
  \E f \in Frames : Skip(f) \/ Refuse(f) \/ DropRepeat(f) \/ Forward(f)

PackerSpec == PackerInit /\ [][PackerNext]_packerVars

-----------------------------------------------------------------------------
(* Every variable has its type.                                            *)
PackerTypeOK ==
  LET Latest == {Nothing} \cup {Just(p) : p \in Payloads} IN
  /\ held \in [Directions -> [1 .. MaxLen -> Bytes]]
  /\ out \in [isSnd : {0, 255}, data : Payloads]
  /\ seen \in [dir : Directions, data : Payloads, before : Latest,
               fate : {"none", "skipped", "invalid", "repeat", "forwarded"}]
  /\ latest \in [Directions -> Latest]

(* No direction forwards the same payload twice running, whatever arrives  *)
(* in the other direction or is refused in between (message.c:52, 62).     *)
NeverTwiceRunning ==
  seen.fate = "forwarded" => seen.before # Just(seen.data)

(* What memcmp over the length of the new payload really tells: a payload  *)
(* dropped as a repeat, once its direction has forwarded one, begins that  *)
(* one or is begun by it (message.c:52, 62).                               *)
DropIsComparable ==
  seen.fate = "repeat" /\ seen.before.some =>
    \A i \in 1 .. Len(seen.data) :
      i <= Len(seen.before.data) => seen.data[i] = seen.before.data[i]

(* message.c:53 says of what it drops that it is a repeated message: once  *)
(* its direction has forwarded a payload, that same payload again.         *)
DropIsRepeat ==
  seen.fate = "repeat" /\ seen.before.some => seen.before = Just(seen.data)

(* readme.md:39: 255 in the second field marks a packet that the process   *)
(* sent, 0 one that it received.                                           *)
FlagMarksSent ==
  seen.fate = "forwarded" => (out.isSnd = 255 <=> seen.dir = "snd")
=============================================================================

----------------------------- MODULE BufferRing -----------------------------
(***************************************************************************)
(* The ring of message buffers (buffer.c) and the protocol by which the    *)
(* capture thread publishes into it (broadcastData in broadcasting_room.c) *)
(* and the reading threads copy out of it under the buffer's SRW lock      *)
(* (mainLoop and addClient in client.c).                                   *)
(*                                                                         *)
(* A message is its serial number; payload 0 is currentBufferSize = 0.     *)
(* sn is 32 bits in the code: it is only incremented and compared for      *)
(* equality, so below 2^32 publications (MaxSn) it behaves as here.        *)
(***************************************************************************)
EXTENDS Integers

CONSTANTS
  BufferCount,  \* bufferCount of mallocRoom, 1024 in main.c
  Readers,      \* threads that copy buffers out
  MaxSn,        \* bound on the number of publications
  JunkSn        \* values of the sn field that allocMyBuffers leaves unset

(* buffer.c:18 asserts count > 2.                                          *)
ASSUME RingAssumption ==
  /\ BufferCount \in Nat
  /\ BufferCount > 2
  /\ MaxSn \in Nat
  /\ JunkSn \subseteq Nat

VARIABLES
  sn,      \* room->sn
  head,    \* room->buffer
  ring,    \* ring[b]: sn and payload of buffer b
  excl,    \* excl[b]: b->rwlock is held exclusively
  shared,  \* shared[b]: the readers that hold b->rwlock shared
  wpc,     \* where the capture thread is in broadcastData
  copy     \* copy[r]: what reader r's localBuffer holds, with the sn it saw

ringVars == <<sn, head, ring, excl, shared, wpc, copy>>

Buffers == 0 .. BufferCount - 1

(* Mutants of NextOf: the last buffer not linked back to the first; the    *)
(* linking loop one buffer short.                                          *)
NextOfOpen(b) == b + 1
NextOfShort(b) == IF b = BufferCount - 2 THEN 0 ELSE b + 1

(* buffer->next, as allocMyBuffers links it.                               *)
NextOf(b) == IF b = BufferCount - 1 THEN 0 ELSE b + 1

RingInit ==
  /\ sn = 0
  /\ head = 0
  /\ ring \in [Buffers -> [sn : JunkSn, data : {0}]]
  /\ excl = [b \in Buffers |-> FALSE]
  /\ shared = [b \in Buffers |-> {}]
  /\ wpc = "idle"
  /\ copy = [r \in Readers |-> [sn |-> 0, data |-> 0]]

-----------------------------------------------------------------------------
(* The SRW lock: one exclusive holder, or any number of shared ones.       *)
(* Mutant: the exclusive lock does not wait for the readers.               *)
MayLockOverReaders(b) == ~excl[b]

MayLockExclusive(b) == ~excl[b] /\ shared[b] = {}
MayLockShared(b) == ~excl[b]

(* broadcastData, up to the call of broadcast.                             *)
Advance ==
  /\ wpc = "idle"
  /\ sn < MaxSn
  /\ sn' = sn + 1
  /\ head' = NextOf(head)
  /\ wpc' = "lock"
  /\ UNCHANGED <<ring, excl, shared, copy>>

LockExclusive ==
  /\ wpc = "lock"
  /\ MayLockExclusive(head)
  /\ excl' = [excl EXCEPT ![head] = TRUE]
  /\ wpc' = "copy"
  /\ UNCHANGED <<sn, head, ring, shared, copy>>

CopyIn ==
  /\ wpc = "copy"
  /\ ring' = [ring EXCEPT ![head].data = sn]
  /\ wpc' = "stamp"
  /\ UNCHANGED <<sn, head, excl, shared, copy>>

StampAndRelease ==
  /\ wpc = "stamp"
  /\ ring' = [ring EXCEPT ![head].sn = sn]
  /\ excl' = [excl EXCEPT ![head] = FALSE]
  /\ wpc' = "idle"
  /\ UNCHANGED <<sn, head, shared, copy>>

(* A reader takes a buffer's lock shared, copies it whole and releases it. *)
LockShared(r, b) ==
  /\ \A a \in Buffers : r \notin shared[a]
  /\ MayLockShared(b)
  /\ shared' = [shared EXCEPT ![b] = @ \cup {r}]
  /\ UNCHANGED <<sn, head, ring, excl, wpc, copy>>

CopyOut(r, b) ==
  /\ r \in shared[b]
  /\ copy' = [copy EXCEPT ![r] = ring[b]]
  /\ shared' = [shared EXCEPT ![b] = @ \ {r}]
  /\ UNCHANGED <<sn, head, ring, excl, wpc>>

RingNext ==
  \/ Advance \/ LockExclusive \/ CopyIn \/ StampAndRelease
  \/ \E r \in Readers, b \in Buffers : LockShared(r, b) \/ CopyOut(r, b)

RingSpec == RingInit /\ [][RingNext]_ringVars

-----------------------------------------------------------------------------
(* The publications whose payload is in the ring, and those released.      *)
Written == IF wpc \in {"lock", "copy"} THEN sn - 1 ELSE sn
Released == IF wpc = "idle" THEN sn ELSE sn - 1

(* The buffer that publication k goes to.                                  *)
BufferOf(k) == k % BufferCount

(* Every variable has its type.                                            *)
RingTypeOK ==
  /\ sn \in 0 .. MaxSn
  /\ head \in Buffers
  /\ ring \in [Buffers -> [sn : Nat, data : Nat]]
  /\ excl \in [Buffers -> BOOLEAN]
  /\ shared \in [Buffers -> SUBSET Readers]
  /\ wpc \in {"idle", "lock", "copy", "stamp"}
  /\ copy \in [Readers -> [sn : Nat, data : Nat]]

(* At every moment, also in the middle of a publication, the ring holds    *)
(* the last BufferCount messages that were written, each in the buffer a   *)
(* reader that counts buffers from the start would look for it, and        *)
(* nothing else: what the cursor arithmetic of mainLoop (client.c:136)     *)
(* silently relies on.                                                     *)
RingHoldsLatest ==
  /\ \A k \in 1 .. Written :
       Written - k < BufferCount => ring[BufferOf(k)].data = k
  /\ \A b \in Buffers :
       ring[b].data # 0 =>
         /\ ring[b].data \in 1 .. Written
         /\ Written - ring[b].data < BufferCount

(* The lock protocol implements the atomic log: a copy is always one whole *)
(* message out of the last BufferCount released ones, or an empty buffer   *)
(* while the ring has not been filled (client.c:138-142, 40-44 against     *)
(* broadcasting_room.c:44-50).                                             *)
Log == INSTANCE BroadcastLog
         WITH Window <- BufferCount, published <- Released, got <- copy

LogSpec == Log!LogSpec
=============================================================================

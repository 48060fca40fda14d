-------------------------------- MODULE Room --------------------------------
(***************************************************************************)
(* The broadcasting room: the capture thread publishes into the ring of    *)
(* buffers and signals the clients on the list, the listener adds clients, *)
(* each client's thread follows the ring with a cursor of its own, one     *)
(* buffer per token of its semaphore.  Composes BufferRing and ClientList: *)
(* each action is the conjunction of a step of the one, or of both, with   *)
(* what the code does to the client's cursor.                              *)
(***************************************************************************)
EXTENDS BufferRing, ClientList

CONSTANT Acceptor  \* the listener, as a reader of the ring

ASSUME RoomAssumption ==
  /\ Acceptor \notin Clients
  /\ Readers = Clients \cup {Acceptor}

VARIABLES
  lbuf,    \* the parameter buffer of addClient
  cursor,  \* cursor[c]: c->buffer
  csn,     \* csn[c]: c->sn, the serial number c expects
  (* The rest is ghost state, read by properties only.                     *)
  pos,     \* pos[c]: the publication that c's cursor stands for
  told     \* told[c]: the last publication that c was signalled for

clientVars == <<cursor, csn, pos, told>>
roomVars == <<lbuf, cursor, csn, pos, told>>
vars == <<ringVars, listVars, roomVars>>

Init ==
  /\ RingInit
  /\ ListInit
  /\ lbuf = 0
  /\ cursor = [c \in Clients |-> 0]
  /\ csn = [c \in Clients |-> 0]
  /\ pos = [c \in Clients |-> 0]
  /\ told = [c \in Clients |-> 0]

(* Publications whose walk has loaded the head of the list.                *)
Announced == IF wpc = "idle" /\ mpc # "load" THEN sn ELSE sn - 1

-----------------------------------------------------------------------------
(* The capture thread: broadcastData calls broadcast when the buffer is    *)
(* released, and is called again when broadcast has returned.              *)

BeginPublication == Advance /\ CaptureAt("idle") /\ UNCHANGED <<listVars, roomVars>>
LockHead == LockExclusive /\ CaptureAt("idle") /\ UNCHANGED <<listVars, roomVars>>
FillHead == CopyIn /\ CaptureAt("idle") /\ UNCHANGED <<listVars, roomVars>>
ReleaseHead == StampAndRelease /\ CallBroadcast /\ UNCHANGED roomVars

SignalClient ==
  /\ Signal
  /\ told' = [told EXCEPT ![curr] = sn]
  /\ UNCHANGED <<ringVars, lbuf, cursor, csn, pos>>

WalkOn ==
  /\ \/ LoadHead \/ KeepClient \/ UnlinkClient
     \/ WaitAstray \/ CloseAstray \/ Reap \/ WalkIntoFreed
  /\ UNCHANGED <<ringVars, roomVars>>

CaptureNext ==
  BeginPublication \/ LockHead \/ FillHead \/ ReleaseHead \/ SignalClient \/ WalkOn

-----------------------------------------------------------------------------
(* The listener.  room->buffer is read, without a lock, when addClient is  *)
(* called; what it then points to is copied later, under that buffer's     *)
(* lock.                                                                   *)

AcceptClient(c) ==
  /\ Accept(c)
  /\ lbuf' = head
  /\ pos' = [pos EXCEPT ![c] = sn]
  /\ UNCHANGED <<ringVars, cursor, csn, told>>

LockSnapshot == GreetLock /\ LockShared(Acceptor, lbuf) /\ UNCHANGED roomVars

CopySnapshot ==
  /\ GreetCopy
  /\ CopyOut(Acceptor, lbuf)
  /\ csn' = [csn EXCEPT ![new] = ring[lbuf].sn]
  /\ UNCHANGED <<lbuf, cursor, pos, told>>

(* Mutant: writeAll sends until something has been sent.                   *)
SendSnapshotOfSome ==
  /\ GreetOk
  /\ copy[Acceptor].data # 0
  /\ UNCHANGED <<ringVars, roomVars>>

SendSnapshot == GreetOk /\ UNCHANGED <<ringVars, roomVars>>

(* An empty buffer is not sent, so that cannot fail.                       *)
SnapshotFails ==
  /\ GreetFails
  /\ copy[Acceptor].data # 0
  /\ UNCHANGED <<ringVars, roomVars>>

(* Mutant: the new client starts at the buffer after its snapshot.         *)
JoinOneOn ==
  /\ GreetAgain
  /\ cursor' = [cursor EXCEPT ![new] = NextOf(lbuf)]
  /\ UNCHANGED <<ringVars, lbuf, csn, pos, told>>

SendSnapshotAgain ==
  /\ GreetAgain
  /\ cursor' = [cursor EXCEPT ![new] = lbuf]
  /\ UNCHANGED <<ringVars, lbuf, csn, pos, told>>

Register ==
  /\ Publish
  /\ told' = [told EXCEPT ![new] = Announced]
  /\ UNCHANGED <<ringVars, lbuf, cursor, csn, pos>>

ListenerElse ==
  /\ AcceptLast \/ AllocNode \/ AllocFails \/ Spawn \/ StoreHandle \/ StoreIntoFreed
  /\ UNCHANGED <<ringVars, roomVars>>

ListenerNext ==
  \/ \E c \in Clients : AcceptClient(c)
  \/ LockSnapshot \/ CopySnapshot \/ SendSnapshot \/ SnapshotFails
  \/ SendSnapshotAgain \/ Register \/ ListenerElse

-----------------------------------------------------------------------------
(* A client's thread.  Each token moves the cursor one buffer on.          *)

(* Mutants: the cursor is not wrapped; a token moves it to the newest      *)
(* buffer.                                                                 *)
StepUnwrapped(c) ==
  /\ TakeToken(c)
  /\ cursor' = [cursor EXCEPT ![c] = @ + 1]
  /\ csn' = [csn EXCEPT ![c] = @ + 1]
  /\ pos' = [pos EXCEPT ![c] = @ + 1]
  /\ UNCHANGED <<ringVars, lbuf, told>>

StepToNewest(c) ==
  /\ TakeToken(c)
  /\ cursor' = [cursor EXCEPT ![c] = head]
  /\ csn' = [csn EXCEPT ![c] = sn]
  /\ pos' = [pos EXCEPT ![c] = sn]
  /\ UNCHANGED <<ringVars, lbuf, told>>

StepCursor(c) ==
  /\ TakeToken(c)
  /\ cursor' = [cursor EXCEPT ![c] = NextOf(@)]
  /\ csn' = [csn EXCEPT ![c] = @ + 1]
  /\ pos' = [pos EXCEPT ![c] = @ + 1]
  /\ UNCHANGED <<ringVars, lbuf, told>>

LockBuffer(c) == ThreadLock(c) /\ LockShared(c, cursor[c]) /\ UNCHANGED roomVars

(* Mutant: the shared lock is not released.                                *)
CopyAndKeepLock(c) ==
  /\ ThreadCopy(c)
  /\ c \in shared[cursor[c]]
  /\ copy' = [copy EXCEPT ![c] = ring[cursor[c]]]
  /\ csn' = [csn EXCEPT ![c] = ring[cursor[c]].sn]
  /\ UNCHANGED <<sn, head, ring, excl, shared, wpc, lbuf, cursor, pos, told>>

(* A serial number other than the expected one is logged and adopted.      *)
CopyBuffer(c) ==
  /\ ThreadCopy(c)
  /\ CopyOut(c, cursor[c])
  /\ csn' = [csn EXCEPT ![c] = ring[cursor[c]].sn]
  /\ UNCHANGED <<lbuf, cursor, pos, told>>

SendBuffer(c) == SendOk(c) /\ UNCHANGED <<ringVars, roomVars>>

SendBufferFails(c) ==
  /\ SendFails(c)
  /\ copy[c].data # 0
  /\ UNCHANGED <<ringVars, roomVars>>

GiveUp(c) == (Stop(c) \/ Return(c)) /\ UNCHANGED <<ringVars, roomVars>>

(* What a thread does between sends, and the sends.                        *)
ThreadLocal(c) == StepCursor(c) \/ LockBuffer(c) \/ CopyBuffer(c) \/ GiveUp(c)
ThreadSend(c) == SendBuffer(c) \/ SendBufferFails(c)

-----------------------------------------------------------------------------
(* pcap_loop polls on while no packet comes; after undefined behaviour     *)
(* nothing is specified.                                                   *)
Idle == (ub \/ (wpc = "idle" /\ mpc = "idle")) /\ UNCHANGED vars

Next ==
  \/ CaptureNext
  \/ ListenerNext
  \/ \E c \in Clients : ThreadLocal(c) \/ ThreadSend(c)
  \/ Idle

(* Threads that can run do run.  Packets and connections need not come,    *)
(* and a send or a wait that went astray may block for ever.               *)
Fairness ==
  /\ WF_vars(LockHead \/ FillHead \/ ReleaseHead \/ SignalClient \/ (WalkOn /\ mpc # "stray"))
  /\ WF_vars(CopySnapshot)
  /\ \A c \in Clients : WF_vars(ThreadLocal(c))

Spec == Init /\ [][Next]_vars /\ Fairness

(* The peers read what they are sent: every send returns, and so the       *)
(* listener goes on with a client it has accepted.                         *)
ReadingSpec ==
  /\ Spec
  /\ \A c \in Clients : WF_vars(ThreadSend(c))
  /\ WF_vars(ListenerNext /\ lpc \notin {"accept", "closed"})

-----------------------------------------------------------------------------
(* How far the cursor of c, once its tokens are used up, is from the       *)
(* publication it was last signalled for: 0 for a client that gets every   *)
(* message when it is published, 1 for one that looks into the buffer that *)
(* has yet to be filled, negative for one that lags behind.                *)
Drift(c) == pos[c] + sem[c] - told[c]

(* Every variable has its type.                                            *)
TypeOK ==
  /\ RingTypeOK
  /\ ListTypeOK
  /\ lbuf \in Buffers
  /\ cursor \in [Clients -> Buffers]
  /\ csn \in [Clients -> Nat]
  /\ pos \in [Clients -> Nat]
  /\ told \in [Clients -> 0 .. MaxSn]

(* The listener's unlocked read of room->buffer (broadcasting_room.c:118)  *)
(* puts a new client at most one publication ahead of the announcements,   *)
(* and no later step moves it further ahead.                               *)
AtMostOneAhead == \A c \in Clients : Registered(c) => Drift(c) <= 1

(* Where a client stands against the announcements is settled when it is   *)
(* put on the list and never recovers: messages published while addClient  *)
(* was blocked in its first send (client.c:45) keep it behind for good.    *)
(* The only later changes are for the worse: a signal lost on a semaphore  *)
(* that is at its maximum, and those that a client misses which another    *)
(* one took off the list and a later one brings back (client.c:83, 88).    *)
DriftIsSettled ==
  [][\A c \in Clients : Registered(c) =>
       \/ Drift(c)' = Drift(c)
       \/ sem[c] = SemMax /\ Drift(c)' = Drift(c) - 1
       \/ c \in lost /\ Drift(c)' < Drift(c)]_vars

(* A client that was put on the list in step with the announcements and    *)
(* whose backlog is less than a lap copies exactly the message that its    *)
(* token stands for (client.c:136-142): none skipped, none twice, although *)
(* neither the cursor nor the semaphore carries a serial number.           *)
KeepingUpCopiesOwn ==
  [][\A c \in Clients :
       /\ tpc[c] = "copy" /\ tpc'[c] = "send"
       /\ Drift(c) = 0 /\ told[c] >= sn - 1 /\ sem[c] < BufferCount - 1
       => copy'[c] = [sn |-> told[c] - sem[c], data |-> told[c] - sem[c]]]_vars

(* When the peers read and messages stop coming, every client that was in  *)
(* step, never off the list, and has been signalled ends up waiting, with  *)
(* the last message the last it was sent, however many times it was lapped *)
(* (client.c:136-147), unless the walk itself is held by a wait that went  *)
(* astray (118).                                                           *)
EventuallyCaughtUp ==
  \A c \in Clients :
    <>[](c \in Listed \ lost /\ tpc[c] \in Waiting /\ Drift(c) = 0
           /\ copy[c].data # 0 /\ ~ub /\ mpc # "stray"
         => tpc[c] = "wait" /\ copy[c].data = sn)

(* The greeting is sent from the accept loop (client.c:45, 51): while the  *)
(* peers read, the loop comes back from every client it has accepted, also *)
(* when the greeting is copied from the buffer that is being filled        *)
(* (broadcasting_room.c:46, 118), and so the next one is served.           *)
AcceptsAgain == lpc = "alloc" ~> lpc \in {"accept", "closed"} \/ ub

(* readme.md:29: whoever connects is sent the messages.  A client whose    *)
(* thread runs and whose connection has not failed has been signalled for  *)
(* every message published since.                                          *)
ConnectedIsTold ==
  wpc = "idle" /\ mpc = "idle" /\ ~ub =>
    \A c \in Clients : tpc[c] \in {"wait", "lock", "copy", "send"} => told[c] = sn
=============================================================================

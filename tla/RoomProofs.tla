----------------------------- MODULE RoomProofs -----------------------------
(***************************************************************************)
(* Theorems about Room, for every ring size, set of connections, accept    *)
(* limit and semaphore maximum.  A step of the room is a step of the ring  *)
(* and a step of the list, each possibly a stutter, so that what is proved *)
(* about the two holds of the room; on top of that come the clients'       *)
(* positions in the ring.                                                  *)
(***************************************************************************)
EXTENDS Room, BufferRingProofs, ListWalkProofs

(* Where the listener and the clients stand in the ring.                   *)
CursorsOK == lbuf \in Buffers /\ cursor \in [Clients -> Buffers]

(* Each step of the room is a step of the ring.                            *)
LEMMA RoomStepsRing == CursorsOK /\ [Next]_vars => [RingNext]_ringVars
<1> SUFFICES ASSUME CursorsOK, [Next]_vars PROVE [RingNext]_ringVars
  OBVIOUS
<1>1. Acceptor \in Readers /\ Clients \subseteq Readers
  BY RoomAssumption
<1>2. CASE CaptureNext
  BY <1>2 DEF CaptureNext, BeginPublication, LockHead, FillHead, ReleaseHead,
     SignalClient, WalkOn, RingNext
<1>3. CASE ListenerNext
  BY <1>1, <1>3 DEF CursorsOK, ListenerNext, AcceptClient, LockSnapshot, CopySnapshot,
     SendSnapshot, SnapshotFails, SendSnapshotAgain, Register, ListenerElse, RingNext
<1>4. ASSUME NEW c \in Clients, ThreadLocal(c) \/ ThreadSend(c)
      PROVE  [RingNext]_ringVars
  <2>1. c \in Readers /\ cursor[c] \in Buffers
    BY <1>1 DEF CursorsOK
  <2> QED
    BY <1>4, <2>1 DEF ThreadLocal, ThreadSend, StepCursor, LockBuffer, CopyBuffer,
       SendBuffer, SendBufferFails, GiveUp, RingNext
<1>5. CASE Idle \/ UNCHANGED vars
  BY <1>5 DEF Idle, vars
<1> QED
  BY <1>2, <1>3, <1>4, <1>5 DEF Next

(* Each step of the room is a step of the list.                            *)
LEMMA RoomStepsList == [Next]_vars => [ListNext]_listVars
<1> SUFFICES ASSUME [Next]_vars PROVE [ListNext]_listVars
  OBVIOUS
<1>1. CASE CaptureNext
  BY <1>1 DEF CaptureNext, BeginPublication, LockHead, FillHead, ReleaseHead,
     SignalClient, WalkOn, ListNext, WalkStep
<1>2. CASE ListenerNext
  BY <1>2 DEF ListenerNext, AcceptClient, LockSnapshot, CopySnapshot,
     SendSnapshot, SnapshotFails, SendSnapshotAgain, Register, ListenerElse, ListNext
<1>3. ASSUME NEW c \in Clients, ThreadLocal(c) \/ ThreadSend(c)
      PROVE  [ListNext]_listVars
  BY <1>3 DEF ThreadLocal, ThreadSend, StepCursor, LockBuffer, CopyBuffer,
     SendBuffer, SendBufferFails, GiveUp, ListNext
<1>4. CASE Idle \/ UNCHANGED vars
  BY <1>4 DEF Idle, vars
<1> QED
  BY <1>1, <1>2, <1>3, <1>4 DEF Next

(* What is proved of the ring and of the list.                             *)
PartsInv ==
  RingInv /\ ListInv /\ ToldOrAhead /\ JoinBringsListed /\ OwedToAhead

(* The types of what the room adds to its parts; publications and walks    *)
(* alternate.                                                              *)
RoomTypes ==
  /\ CursorsOK
  /\ csn \in [Clients -> Nat]
  /\ pos \in [Clients -> Nat]
  /\ told \in [Clients -> 0 .. MaxSn]
  /\ wpc # "idle" => mpc = "idle"
  /\ wpc # "idle" \/ mpc # "idle" => sn > 0

(* The initial state of the room is one of the parts.                      *)
LEMMA PartsInit == Init => PartsInv
<1> SUFFICES ASSUME Init PROVE PartsInv
  OBVIOUS
<1>1. RingInv /\ ListInv
  BY RingInitInv, ListInitInv DEF Init
<1>2. ListInit
  BY DEF Init
<1>3. Listed = {}
  BY <1>2, ReachNothing, ListAssumption DEF ListInit, Listed
<1>4. ToldOrAhead /\ JoinBringsListed /\ OwedToAhead
  BY <1>2, <1>3 DEF ListInit, ToldOrAhead, JoinBringsListed, OwedToAhead, Ahead,
     Walking, Linked
<1> QED
  BY <1>1, <1>4 DEF PartsInv

(* What is proved of the parts holds of them in the room.                  *)
LEMMA PartsStep == PartsInv /\ CursorsOK /\ [Next]_vars => PartsInv'
<1> SUFFICES ASSUME PartsInv, CursorsOK, [Next]_vars PROVE PartsInv'
  OBVIOUS
<1>1. RingInv'
  BY RoomStepsRing, RingStepInv DEF PartsInv
<1>2. ListInv' /\ ToldOrAhead' /\ JoinBringsListed' /\ OwedToAhead'
  BY RoomStepsList, ListStepInv, WalkStepKeeps, OwedStep DEF PartsInv
<1> QED
  BY <1>1, <1>2 DEF PartsInv

(* The types are kept.                                                     *)
LEMMA TypesStep == PartsInv /\ RoomTypes /\ [Next]_vars => RoomTypes'
<1> SUFFICES ASSUME PartsInv, RoomTypes, [Next]_vars PROVE RoomTypes'
  OBVIOUS
<1>1. /\ RingTypeOK /\ ListTypeOK
      /\ sn \in Nat /\ MaxSn \in Nat /\ sn <= MaxSn
      /\ head \in Buffers
      /\ \A b \in Buffers : NextOf(b) \in Buffers /\ ring[b].sn \in Nat
  BY RingAssumption DEF PartsInv, RingInv, RingTypeOK, ListInv, NextOf, Buffers
<1>2. CASE CaptureNext
  BY <1>1, <1>2 DEF RoomTypes, CursorsOK, CaptureNext, BeginPublication, LockHead,
     FillHead, ReleaseHead, SignalClient, WalkOn, roomVars, ringVars, listVars,
     captureVars, CaptureAt, Advance, LockExclusive, CopyIn, StampAndRelease,
     CallBroadcast, LoadHead, Signal, KeepClient, UnlinkClient, WaitAstray, CloseAstray,
     Reap, MayReap, WalkIntoFreed, Visit
<1>3. CASE ListenerNext
  <2>1. UNCHANGED <<sn, wpc, mpc>>
    BY <1>3 DEF ListenerNext, AcceptClient, LockSnapshot, CopySnapshot, SendSnapshot,
       SnapshotFails, SendSnapshotAgain, Register, ListenerElse, ringVars, captureVars,
       LockShared, CopyOut, Accept, AcceptLast, AllocNode, AllocFails, GreetFails,
       DropNode, GreetLock, GreetCopy, GreetOk, GreetAgain, ListenerStep, Publish,
       Spawn, StoreHandle, StoreIntoFreed
  <2>2. Announced \in 0 .. MaxSn
    BY <1>1 DEF RoomTypes, Announced
  <2>3. /\ CursorsOK'
        /\ csn' \in [Clients -> Nat]
        /\ pos' \in [Clients -> Nat]
        /\ told' \in [Clients -> 0 .. MaxSn]
    BY <1>1, <1>3, <2>2 DEF RoomTypes, CursorsOK, ListenerNext, AcceptClient,
       LockSnapshot, CopySnapshot, SendSnapshot, SnapshotFails, SendSnapshotAgain,
       Register, ListenerElse, roomVars
  <2> QED
    BY <2>1, <2>3 DEF RoomTypes
<1>4. ASSUME NEW c \in Clients, ThreadLocal(c) \/ ThreadSend(c)
      PROVE  RoomTypes'
  <2>1. UNCHANGED <<sn, wpc, mpc, lbuf, told>>
    BY <1>4 DEF ThreadLocal, ThreadSend, StepCursor, LockBuffer, CopyBuffer, SendBuffer,
       SendBufferFails, GiveUp, ringVars, roomVars, captureVars, LockShared, CopyOut,
       TakeToken, ThreadLock, ThreadCopy, SendOk, SendFails, Stop, Return, ThreadStep,
       ThreadAt
  <2>2. /\ cursor' \in [Clients -> Buffers]
        /\ csn' \in [Clients -> Nat]
        /\ pos' \in [Clients -> Nat]
    BY <1>1, <1>4 DEF RoomTypes, CursorsOK, ThreadLocal, ThreadSend, StepCursor,
       LockBuffer, CopyBuffer, SendBuffer, SendBufferFails, GiveUp, roomVars
  <2> QED
    BY <2>1, <2>2 DEF RoomTypes, CursorsOK
<1>5. CASE Idle \/ UNCHANGED vars
  BY <1>5 DEF RoomTypes, CursorsOK, Idle, vars, ringVars, listVars, roomVars
<1> QED
  BY <1>2, <1>3, <1>4, <1>5 DEF Next

-----------------------------------------------------------------------------
(* Where the clients stand.                                                *)

(* The broadcasts that have been called.                                   *)
Called == IF wpc = "idle" THEN sn ELSE sn - 1

(* A client was last signalled for the broadcast before those it is owed.  *)
ToldIsOwed ==
  \A c \in Clients :
    Registered(c) => /\ told[c] <= Called - owed[c]
                     /\ owed[c] # 2 => told[c] = Called - owed[c]

(* A cursor is at the buffer of the publication it stands for, and starts  *)
(* at one that has been begun, without a token.                            *)
CursorsStand ==
  /\ lpc \in BeforePublish => lbuf = BufferOf(pos[new]) /\ pos[new] <= sn
  /\ lpc \in Linked => sem[new] = 0
  /\ \A c \in Clients :
       Registered(c) \/ (c = new /\ lpc = "publish") => cursor[c] = BufferOf(pos[c])
  /\ \A c \in Clients : tpc[c] \in {"lock", "copy"} => pos[c] > 0

(* The whole is inductive.                                                 *)
RoomInv == PartsInv /\ RoomTypes /\ ToldIsOwed /\ CursorsStand /\ AtMostOneAhead

(* What the invariants of the parts say of the joining client.             *)
LEMMA Joining ==
  ASSUME PartsInv
  PROVE  /\ lpc \in BeforePublish =>
              /\ new \in Clients /\ tpc[new] = "none" /\ curr # new /\ ~Registered(new)
         /\ \A c \in Clients : node[c] = "none" => tpc[c] = "none"
<1>1. lpc \in BeforePublish => new \in Clients
  BY DEF PartsInv, ListInv, ListTypeOK, BeforePublish
<1> QED
  BY <1>1 DEF PartsInv, ListInv, JoinSafe, ThreadsSafe, Unreferenced, Registered,
     BeforePublish

(* The client that is about to be signalled is owed this broadcast, and    *)
(* more than that only when it was lost.                                   *)
LEMMA SignalledIsOwed ==
  ASSUME PartsInv, Signal
  PROVE  /\ curr \in Clients /\ Registered(curr)
         /\ owed[curr] \in {1, 2}
         /\ owed[curr] = 2 => curr \in lost
<1>1. curr \in Clients /\ node[curr] = "live" /\ mpc = "signal"
  BY DEF PartsInv, ListInv, ListTypeOK, Signal, CaptureAt
<1>2. curr \in Ahead
  BY <1>1, ReachStart DEF Ahead
<1>3. Registered(curr)
  BY <1>1 DEF PartsInv, OwedToAhead, ListInv, JoinSafe, Unreferenced, Linked, BeforePublish
<1> QED
  BY <1>1, <1>2, <1>3 DEF PartsInv, OwedToAhead, ToldOrAhead, ListInv, ListTypeOK

(* A step that moves no cursor, no token and no announcement.              *)
Quiet ==
  /\ UNCHANGED <<sem, owed, pos, told, cursor, lbuf>>
  /\ Called' = Called /\ sn <= sn'
  /\ \A c \in Clients :
       /\ Registered(c)' => Registered(c)
       /\ tpc'[c] \in {"lock", "copy"} => tpc[c] \in {"lock", "copy"}
  /\ lpc' \in BeforePublish => lpc \in BeforePublish /\ new' = new
  /\ lpc' \in Linked => lpc \in Linked
  /\ lpc' = "publish" => lpc = "publish"

(* Such a step keeps the clients where they stand.                         *)
LEMMA QuietKeeps ==
  ASSUME PartsInv, RoomTypes, ToldIsOwed, CursorsStand, AtMostOneAhead, Quiet, sn' \in Nat
  PROVE  ToldIsOwed' /\ CursorsStand' /\ AtMostOneAhead'
<1>1. /\ sn \in Nat
      /\ \A c \in Clients : pos[c] \in Nat
      /\ lpc \in BeforePublish => new \in Clients
  BY Joining DEF PartsInv, RingInv, RingTypeOK, RoomTypes
<1>2. ToldIsOwed'
  BY DEF ToldIsOwed, Quiet
<1>3. CursorsStand'
  <2>1. lpc' \in BeforePublish => lbuf' = BufferOf(pos'[new']) /\ pos'[new'] <= sn'
    BY <1>1 DEF CursorsStand, Quiet
  <2>2. lpc' \in Linked => sem'[new'] = 0
    BY DEF CursorsStand, Quiet, Linked, BeforePublish
  <2>3. ASSUME NEW c \in Clients, Registered(c)' \/ (c = new' /\ lpc' = "publish")
        PROVE  cursor'[c] = BufferOf(pos'[c])
    BY <2>3 DEF CursorsStand, Quiet, BeforePublish
  <2>4. \A c \in Clients : tpc'[c] \in {"lock", "copy"} => pos'[c] > 0
    BY DEF CursorsStand, Quiet
  <2> QED
    BY <2>1, <2>2, <2>3, <2>4 DEF CursorsStand, BufferOf
<1>4. AtMostOneAhead'
  BY DEF AtMostOneAhead, Drift, Quiet
<1> QED
  BY <1>2, <1>3, <1>4

(* All steps but seven are quiet.                                          *)
LEMMA QuietSteps ==
  ASSUME PartsInv, RoomTypes, [Next]_vars,
         ~ReleaseHead, ~SignalClient, ~(\E c \in Clients : AcceptClient(c)),
         ~SendSnapshotAgain, ~Register, ~(ListenerElse /\ AllocNode),
         ~(\E c \in Clients : StepCursor(c))
  PROVE  Quiet
<1>1. /\ sn \in Nat
      /\ lpc \in BeforePublish \cup {"spawn", "store"} => new \in Clients
      /\ tpc \in [Clients -> Waiting \cup {"failed", "stopped", "exited"}]
  BY DEF PartsInv, RingInv, RingTypeOK, ListInv, ListTypeOK, BeforePublish
<1> USE <1>1 DEF Quiet
<1>2. CASE BeginPublication \/ LockHead \/ FillHead
  BY <1>2 DEF BeginPublication, LockHead, FillHead, Advance, LockExclusive, CopyIn,
     listVars, roomVars, ghosts, Called, Registered
<1>3. CASE WalkOn
  BY <1>3 DEF WalkOn, LoadHead, KeepClient, UnlinkClient, WaitAstray, CloseAstray,
     Reap, WalkIntoFreed, ringVars, captureVars, roomVars, listenerVars, ghosts, Called, Registered
<1>4. CASE LockSnapshot \/ CopySnapshot \/ SendSnapshot \/ SnapshotFails
  <2>1. UNCHANGED <<sn, wpc, sem, owed, pos, told, cursor, lbuf, tpc>>
    BY <1>4 DEF LockSnapshot, CopySnapshot, SendSnapshot, SnapshotFails, LockShared,
       CopyOut, GreetLock, GreetCopy, GreetOk, GreetFails, ListenerStep, DropNode,
       ringVars, roomVars, ghosts
  <2>2. \/ lpc \in Linked /\ lpc' \in Linked \ {"publish"} /\ new' = new
        \/ lpc' = "accept"
    BY <1>4 DEF LockSnapshot, CopySnapshot, SendSnapshot, SnapshotFails, GreetLock,
       GreetCopy, GreetOk, GreetFails, ListenerStep, DropNode, ListenerAt, Linked
  <2> QED
    BY <2>1, <2>2 DEF Called, Registered, Linked, BeforePublish
<1>5. CASE ListenerElse /\ ~AllocNode
  <2>1. UNCHANGED <<sn, wpc, sem, owed, pos, told, cursor, lbuf>>
    BY <1>5 DEF ListenerElse, AcceptLast, AllocFails, DropNode, Spawn, StoreHandle,
       StoreIntoFreed, ringVars, roomVars, ghosts
  <2>2. lpc' \in {"accept", "closed", "store"}
    BY <1>5 DEF ListenerElse, AcceptLast, AllocFails, DropNode, Spawn, StoreHandle,
       StoreIntoFreed, ListenerAt
  <2>3. \A c \in Clients :
          /\ Registered(c)' => Registered(c)
          /\ tpc'[c] \in {"lock", "copy"} => tpc[c] \in {"lock", "copy"}
    BY <1>5, <2>2 DEF ListenerElse, AcceptLast, AllocFails, DropNode, Spawn, StoreHandle,
       StoreIntoFreed, ListenerAt, Registered
  <2> QED
    BY <2>1, <2>2, <2>3 DEF Called, Linked, BeforePublish
<1>6. ASSUME NEW c \in Clients,
             LockBuffer(c) \/ CopyBuffer(c) \/ GiveUp(c) \/ ThreadSend(c)
      PROVE  Quiet
  <2>1. UNCHANGED <<sn, wpc, sem, owed, pos, told, cursor, lbuf, lpc, new>>
    BY <1>6 DEF LockBuffer, CopyBuffer, GiveUp, ThreadSend, SendBuffer, SendBufferFails,
       LockShared, CopyOut, ThreadLock, ThreadCopy, SendOk, SendFails, Stop, Return,
       ThreadStep, ThreadAt, listenerVars, ringVars, roomVars, ghosts
  <2>2. /\ tpc[c] # "none" /\ (tpc'[c] = "copy" => tpc[c] = "lock")
        /\ tpc' = [tpc EXCEPT ![c] = tpc'[c]]
        /\ tpc'[c] # "lock"
    BY <1>6 DEF LockBuffer, CopyBuffer, GiveUp, ThreadSend, SendBuffer, SendBufferFails,
       ThreadLock, ThreadCopy, SendOk, SendFails, Stop, Return, ThreadStep, ThreadAt
  <2> QED
    BY <2>1, <2>2 DEF Called, Registered
<1>7. CASE Idle \/ UNCHANGED vars
  BY <1>7 DEF Idle, vars, ringVars, listVars, roomVars, ghosts, Called, Registered
<1> QED
  BY <1>2, <1>3, <1>4, <1>5, <1>6, <1>7 DEF Next, CaptureNext, ListenerNext, ThreadLocal

(* The clients' part of the invariant is kept.                             *)
LEMMA StandStep ==
  RoomInv /\ RoomTypes' /\ PartsInv' /\ [Next]_vars
    => ToldIsOwed' /\ CursorsStand' /\ AtMostOneAhead'
<1> SUFFICES ASSUME RoomInv, RoomTypes', PartsInv', [Next]_vars
             PROVE  ToldIsOwed' /\ CursorsStand' /\ AtMostOneAhead'
  OBVIOUS
<1> USE DEF RoomInv
<1>1. /\ sn \in Nat /\ sn' \in Nat
      /\ \A c \in Clients :
           pos[c] \in Nat /\ told[c] \in Nat /\ sem[c] \in Nat /\ owed[c] \in 0 .. 2
      /\ lpc \in BeforePublish => new \in Clients
  BY Joining DEF PartsInv, RingInv, RingTypeOK, RoomTypes, ListInv, ListTypeOK
<1>2. CASE ReleaseHead
  <2>1. /\ UNCHANGED <<sn, sem, pos, told, cursor, lbuf, tpc, lpc, new>>
        /\ wpc = "stamp" /\ wpc' = "idle"
        /\ owed' = [c \in Clients |-> IF Registered(c) /\ owed[c] < 2 THEN owed[c] + 1
                                                                      ELSE owed[c]]
    BY <1>2 DEF ReleaseHead, StampAndRelease, CallBroadcast, listenerVars, roomVars
  <2>2. ToldIsOwed'
    BY <1>1, <2>1 DEF ToldIsOwed, Registered, Called
  <2>3. CursorsStand' /\ AtMostOneAhead'
    BY <2>1 DEF CursorsStand, AtMostOneAhead, Drift, Registered, BufferOf
  <2> QED
    BY <2>2, <2>3
<1>3. CASE SignalClient
  <2>1. /\ UNCHANGED <<sn, wpc, pos, cursor, lbuf, tpc, lpc, new>>
        /\ sem' = [sem EXCEPT ![curr] = IF @ < SemMax THEN @ + 1 ELSE @]
        /\ owed' = [owed EXCEPT ![curr] = 0]
        /\ told' = [told EXCEPT ![curr] = sn]
        /\ mpc # "idle"
    BY <1>3 DEF SignalClient, Signal, CaptureAt, listenerVars, ringVars
  <2>2. wpc = "idle" /\ Called = sn /\ Called' = sn
    BY <2>1 DEF RoomTypes, Called
  <2>3. curr \in Clients /\ Registered(curr) /\ owed[curr] \in {1, 2}
    BY <1>3, SignalledIsOwed DEF SignalClient
  <2>4. /\ sem \in [Clients -> 0 .. SemMax]
        /\ owed \in [Clients -> 0 .. 2]
        /\ told \in [Clients -> 0 .. MaxSn]
    BY DEF PartsInv, ListInv, ListTypeOK, RoomTypes
  <2>5. ToldIsOwed'
    BY <1>1, <2>1, <2>2, <2>4 DEF ToldIsOwed, Registered
  <2>6. lpc \in BeforePublish => curr # new
    BY Joining
  <2>7. CursorsStand'
    BY <2>1, <2>4, <2>6 DEF CursorsStand, Registered, BufferOf, Linked, BeforePublish
  <2>8. told[curr] <= sn - 1
    BY <1>1, <2>2, <2>3 DEF ToldIsOwed
  <2>9. AtMostOneAhead'
    <3>1. ASSUME NEW c \in Clients, Registered(c) PROVE pos'[c] + sem'[c] - told'[c] <= 1
      <4>1. pos[c] + sem[c] - told[c] <= 1
        BY <3>1 DEF AtMostOneAhead, Drift
      <4> QED
        BY <1>1, <2>1, <2>4, <2>8, <4>1
    <3> QED
      BY <2>1, <3>1 DEF AtMostOneAhead, Drift, Registered
  <2> QED
    BY <2>5, <2>7, <2>9
<1>4. ASSUME NEW c \in Clients, AcceptClient(c)
      PROVE  ToldIsOwed' /\ CursorsStand' /\ AtMostOneAhead'
  <2>1. /\ UNCHANGED <<sn, wpc, sem, owed, told, cursor, tpc>>
        /\ lbuf' = head /\ pos' = [pos EXCEPT ![c] = sn]
        /\ lpc = "accept" /\ lpc' = "alloc" /\ new' = c
        /\ node[c] = "none"
    BY <1>4 DEF AcceptClient, Accept, ListenerAt, ringVars, ghosts
  <2>2. pos' = [pos EXCEPT ![c] = sn] /\ pos'[c] = sn
    BY <2>1 DEF RoomTypes
  <2>3. tpc[c] = "none"
    BY <2>1, Joining
  <2>4. \A d \in Clients : Registered(d)' => Registered(d) /\ d # c
    BY <2>1, <2>3 DEF Registered
  <2>5. ToldIsOwed'
    BY <2>1, <2>4 DEF ToldIsOwed, Called
  <2>6. \A d \in Clients \ {c} : pos'[d] = pos[d]
    BY <2>1
  <2>7. head = BufferOf(sn)
    BY DEF PartsInv, RingInv, LocksAgree
  <2>8. CursorsStand'
    BY <1>1, <2>1, <2>2, <2>3, <2>4, <2>6, <2>7 DEF CursorsStand, BufferOf, Linked
  <2>9. AtMostOneAhead'
    BY <2>1, <2>4, <2>6 DEF AtMostOneAhead, Drift
  <2> QED
    BY <2>5, <2>8, <2>9
<1>5. CASE SendSnapshotAgain
  <2>1. /\ UNCHANGED <<sn, wpc, sem, owed, told, pos, lbuf, tpc, new>>
        /\ cursor' = [cursor EXCEPT ![new] = lbuf]
        /\ lpc = "again" /\ lpc' = "publish"
    BY <1>5 DEF SendSnapshotAgain, GreetAgain, ListenerStep, ListenerAt, ringVars, ghosts
  <2>2. new \in Clients /\ ~Registered(new) /\ cursor \in [Clients -> Buffers]
    BY <2>1, Joining DEF BeforePublish, RoomTypes, CursorsOK
  <2>3. \A d \in Clients : Registered(d)' <=> Registered(d)
    BY <2>1 DEF Registered
  <2>4. ToldIsOwed' /\ AtMostOneAhead'
    BY <2>1, <2>3 DEF ToldIsOwed, AtMostOneAhead, Drift, Called
  <2>5. CursorsStand'
    BY <2>1, <2>2, <2>3 DEF CursorsStand, BufferOf, Linked, BeforePublish
  <2> QED
    BY <2>4, <2>5
<1>6. CASE Register
  <2>1. /\ UNCHANGED <<sn, wpc, mpc, sem, pos, cursor, lbuf, tpc, new>>
        /\ owed' = [owed EXCEPT ![new] = IF mpc = "load" THEN 1 ELSE 0]
        /\ told' = [told EXCEPT ![new] = Announced]
        /\ lpc = "publish" /\ lpc' = "spawn"
    BY <1>6 DEF Register, Publish, ListenerAt, ringVars, captureVars
  <2>2. /\ new \in Clients /\ sem[new] = 0 /\ pos[new] <= sn
        /\ owed \in [Clients -> 0 .. 2] /\ told \in [Clients -> 0 .. MaxSn]
    BY <2>1, Joining DEF CursorsStand, Linked, BeforePublish, PartsInv, ListInv,
       ListTypeOK, RoomTypes
  <2>3. wpc # "idle" => mpc = "idle"
    BY DEF RoomTypes
  <2>4. \A d \in Clients : Registered(d)' => Registered(d) \/ d = new
    BY <2>1 DEF Registered
  <2>5. ToldIsOwed'
    <3>1. told'[new] = Called' - owed'[new]
      BY <1>1, <2>1, <2>2, <2>3 DEF Called, Announced
    <3>2. \A d \in Clients \ {new} : told'[d] = told[d] /\ owed'[d] = owed[d]
      BY <2>1
    <3>3. Called' = Called /\ Called \in Int
      BY <1>1, <2>1 DEF Called
    <3>4. told'[new] \in Int /\ owed'[new] \in Int
      BY <1>1, <2>1, <2>2 DEF Announced
    <3> QED
      BY <2>4, <3>1, <3>2, <3>3, <3>4 DEF ToldIsOwed
  <2>6. CursorsStand'
    BY <2>1, <2>4 DEF CursorsStand, BufferOf, Linked, BeforePublish
  <2>7. AtMostOneAhead'
    <3>1. pos'[new] + sem'[new] - told'[new] <= 1
      BY <1>1, <2>1, <2>2 DEF Announced
    <3>2. \A d \in Clients \ {new} : told'[d] = told[d]
      BY <2>1
    <3> QED
      BY <2>1, <2>4, <3>1, <3>2 DEF AtMostOneAhead, Drift
  <2> QED
    BY <2>5, <2>6, <2>7
<1>7. CASE ListenerElse /\ AllocNode
  <2>1. /\ UNCHANGED <<sn, wpc, owed, told, pos, cursor, lbuf, tpc, new>>
        /\ sem' = [sem EXCEPT ![new] = 0]
        /\ lpc = "alloc" /\ lpc' = "lock"
    BY <1>7 DEF ListenerElse, AllocNode, ListenerAt, ringVars, roomVars, ghosts
  <2>2. /\ new \in Clients /\ ~Registered(new)
        /\ sem \in [Clients -> 0 .. SemMax]
    BY <2>1, Joining DEF BeforePublish, PartsInv, ListInv, ListTypeOK
  <2>3. \A d \in Clients : Registered(d)' => Registered(d)
    BY <2>1 DEF Registered
  <2>4. ToldIsOwed'
    BY <2>1, <2>3 DEF ToldIsOwed, Called
  <2>5. CursorsStand'
    BY <2>1, <2>2, <2>3 DEF CursorsStand, BufferOf, Linked, BeforePublish
  <2>6. AtMostOneAhead'
    <3>1. \A d \in Clients : Registered(d) => sem'[d] = sem[d]
      BY <2>1, <2>2
    <3> QED
      BY <2>1, <2>3, <3>1 DEF AtMostOneAhead, Drift
  <2> QED
    BY <2>4, <2>5, <2>6
<1>8. ASSUME NEW c \in Clients, StepCursor(c)
      PROVE  ToldIsOwed' /\ CursorsStand' /\ AtMostOneAhead'
  <2>1. /\ UNCHANGED <<sn, wpc, owed, told, lbuf, lpc, new>>
        /\ sem[c] > 0 /\ sem' = [sem EXCEPT ![c] = @ - 1]
        /\ cursor' = [cursor EXCEPT ![c] = NextOf(@)]
        /\ pos' = [pos EXCEPT ![c] = @ + 1]
        /\ tpc[c] = "wait" /\ tpc' = [tpc EXCEPT ![c] = "lock"]
    BY <1>8 DEF StepCursor, TakeToken, ThreadAt, listenerVars, ringVars, ghosts
  <2>2. /\ sem \in [Clients -> 0 .. SemMax] /\ pos \in [Clients -> Nat]
        /\ cursor \in [Clients -> Buffers]
        /\ tpc \in [Clients -> Waiting \cup {"failed", "stopped", "exited"}]
    BY DEF PartsInv, ListInv, ListTypeOK, RoomTypes, CursorsOK
  <2>3. \A d \in Clients : Registered(d)' => Registered(d)
    BY <2>1 DEF Registered
  <2>4. lpc \in BeforePublish => c # new
    BY <2>1, Joining
  <2>5. ToldIsOwed'
    BY <2>1, <2>3 DEF ToldIsOwed, Called
  <2>6. cursor'[c] = BufferOf(pos'[c])
    <3>1. cursor[c] = BufferOf(pos[c])
      BY <2>1 DEF CursorsStand, Registered
    <3> QED
      BY <2>1, <2>2, <3>1, NextOfBuffer
  <2>7. CursorsStand'
    <3>1. lpc' \in BeforePublish => lbuf' = BufferOf(pos'[new']) /\ pos'[new'] <= sn'
      BY <1>1, <2>1, <2>4 DEF CursorsStand
    <3>2. lpc' \in Linked => sem'[new'] = 0
      BY <1>1, <2>1, <2>4 DEF CursorsStand, Linked, BeforePublish
    <3>3. \A d \in Clients : Registered(d)' \/ (d = new' /\ lpc' = "publish")
                               => cursor'[d] = BufferOf(pos'[d])
      BY <2>1, <2>3, <2>6 DEF CursorsStand
    <3>4. \A d \in Clients : tpc'[d] \in {"lock", "copy"} => pos'[d] > 0
      BY <1>1, <2>1, <2>2 DEF CursorsStand
    <3> QED
      BY <3>1, <3>2, <3>3, <3>4 DEF CursorsStand, BufferOf
  <2>8. AtMostOneAhead'
    <3>1. \A d \in Clients : pos'[d] + sem'[d] - told[d] = pos[d] + sem[d] - told[d]
      BY <1>1, <2>1, <2>2
    <3>2. \A d \in Clients : Drift(d)' = Drift(d)
      BY <2>1, <3>1 DEF Drift
    <3> QED
      BY <2>3, <3>2 DEF AtMostOneAhead
  <2> QED
    BY <2>5, <2>7, <2>8
<1>9. CASE /\ ~ReleaseHead /\ ~SignalClient /\ ~(\E c \in Clients : AcceptClient(c))
           /\ ~SendSnapshotAgain /\ ~Register /\ ~(ListenerElse /\ AllocNode)
           /\ ~(\E c \in Clients : StepCursor(c))
  <2>1. Quiet
    BY <1>9, QuietSteps
  <2> QED
    BY <1>1, <2>1, QuietKeeps
<1> QED
  BY <1>2, <1>3, <1>4, <1>5, <1>6, <1>7, <1>8, <1>9

(* The initial state satisfies the invariant.                              *)
LEMMA RoomInitInv == Init => RoomInv
<1> SUFFICES ASSUME Init PROVE RoomInv
  OBVIOUS
<1>1. PartsInv
  BY PartsInit
<1>2. RoomTypes
  BY RingAssumption DEF Init, RingInit, ListInit, RoomTypes, CursorsOK, Buffers
<1>3. \A c \in Clients : ~Registered(c)
  BY DEF Init, ListInit, Registered
<1>4. ToldIsOwed /\ CursorsStand /\ AtMostOneAhead
  BY <1>3 DEF Init, ListInit, ToldIsOwed, CursorsStand, AtMostOneAhead, BeforePublish,
     Linked
<1> QED
  BY <1>1, <1>2, <1>4 DEF RoomInv

(* RoomInv is inductive.                                                   *)
LEMMA RoomStepInv == RoomInv /\ [Next]_vars => RoomInv'
<1> SUFFICES ASSUME RoomInv, [Next]_vars PROVE RoomInv'
  OBVIOUS
<1>1. PartsInv'
  BY PartsStep DEF RoomInv, RoomTypes
<1>2. RoomTypes'
  BY TypesStep DEF RoomInv
<1> QED
  BY <1>1, <1>2, StandStep DEF RoomInv

(* RoomInv is an invariant of the room.                                    *)
THEOREM RoomInvariant == Spec => []RoomInv
BY RoomInitInv, RoomStepInv, PTL DEF Spec

(* The invariant contains the types.                                       *)
LEMMA RoomInvTypes == RoomInv => TypeOK
<1>1. RoomInv => /\ told \in [Clients -> 0 .. MaxSn]
                 /\ MaxSn \in Nat
  BY RingAssumption DEF RoomInv, RoomTypes
<1> QED
  BY <1>1 DEF RoomInv, PartsInv, RoomTypes, CursorsOK, RingInv, ListInv, TypeOK

(* The variables of the room have their types.                             *)
THEOREM RoomTypeCorrect == Spec => []TypeOK
BY RoomInvTypes, RoomInvariant, PTL

(* What is proved of the ring and of the list alone holds of the room.     *)
THEOREM PartsInRoom ==
  Spec => [](RingHoldsLatest /\ NoThreadOnFreedNode /\ UnlinkIsExact /\ NewestFirst
               /\ WalkMissesNone)
<1>1. RoomInv => RingHoldsLatest /\ NoThreadOnFreedNode /\ UnlinkIsExact /\ NewestFirst
                   /\ WalkMissesNone
  BY DEF RoomInv, PartsInv, RingInv, ListInv, ThreadsSafe, WalkSafe, ToldOrAhead,
     WalkMissesNone
<1> QED
  BY <1>1, RoomInvariant, PTL

(* Wherever the listener reads room->buffer, a client is never more than   *)
(* one publication ahead of the announcements.                             *)
THEOREM AheadByOne == Spec => []AtMostOneAhead
<1>1. RoomInv => AtMostOneAhead
  BY DEF RoomInv
<1> QED
  BY <1>1, RoomInvariant, PTL

(* A token taken and a cursor moved go together.                           *)
LEMMA StepKeepsDrift ==
  ASSUME RoomInv, NEW c \in Clients, StepCursor(c), NEW d \in Clients
  PROVE  Drift(d)' = Drift(d)
<1>1. /\ UNCHANGED told
      /\ sem[c] > 0 /\ sem' = [sem EXCEPT ![c] = @ - 1]
      /\ pos' = [pos EXCEPT ![c] = @ + 1]
  BY DEF StepCursor, TakeToken
<1>2. /\ sem \in [Clients -> 0 .. SemMax] /\ pos \in [Clients -> Nat]
      /\ told[d] \in Nat /\ SemMax \in Nat
  BY RingAssumption, ListAssumption DEF RoomInv, PartsInv, ListInv, ListTypeOK, RoomTypes
<1>3. pos'[d] + sem'[d] - told[d] = pos[d] + sem[d] - told[d]
  BY <1>1, <1>2
<1> QED
  BY <1>1, <1>3 DEF Drift

(* The only step that changes where a client stands is one of broadcast.   *)
LEMMA DriftStep ==
  ASSUME RoomInv, [Next]_vars, NEW c \in Clients, Registered(c)
  PROVE  \/ Drift(c)' = Drift(c)
         \/ sem[c] = SemMax /\ Drift(c)' = Drift(c) - 1
         \/ c \in lost /\ Drift(c)' < Drift(c)
<1> USE DEF RoomInv
<1>1. CASE SignalClient
  <2>1. /\ UNCHANGED <<sn, wpc, pos>>
        /\ sem' = [sem EXCEPT ![curr] = IF @ < SemMax THEN @ + 1 ELSE @]
        /\ told' = [told EXCEPT ![curr] = sn]
        /\ mpc # "idle"
    BY <1>1 DEF SignalClient, Signal, CaptureAt, ringVars
  <2>2. /\ sem \in [Clients -> 0 .. SemMax] /\ told \in [Clients -> 0 .. MaxSn]
        /\ pos[c] \in Nat /\ sn \in Nat /\ SemMax \in Nat /\ MaxSn \in Nat
    BY RingAssumption, ListAssumption DEF PartsInv, ListInv, ListTypeOK, RoomTypes,
       RingInv, RingTypeOK
  <2>3. CASE c # curr
    BY <2>1, <2>3 DEF Drift
  <2>4. CASE c = curr
    <3>1. /\ sem'[c] = IF sem[c] < SemMax THEN sem[c] + 1 ELSE sem[c]
          /\ told'[c] = sn
          /\ sem[c] \in 0 .. SemMax
          /\ told[c] \in Nat
      BY <2>1, <2>2, <2>4
    <3>2. owed[c] \in {1, 2} /\ (owed[c] = 2 => c \in lost)
      BY <1>1, <2>4, SignalledIsOwed DEF SignalClient
    <3>3. Called = sn
      BY <2>1 DEF RoomTypes, Called
    <3>4. told[c] <= sn - owed[c] /\ (owed[c] = 1 => told[c] = sn - 1)
      BY <3>2, <3>3 DEF ToldIsOwed
    <3>5. Drift(c)' = pos[c] + sem'[c] - sn /\ Drift(c) = pos[c] + sem[c] - told[c]
      BY <2>1, <3>1 DEF Drift
    <3> HIDE DEF RoomInv
    <3>6. CASE owed[c] = 1
      <4>1. told[c] = sn - 1
        BY <3>4, <3>6
      <4>2. CASE sem[c] < SemMax
        BY <2>2, <3>1, <3>5, <4>1, <4>2
      <4>3. CASE sem[c] = SemMax
        BY <2>2, <3>1, <3>5, <4>1, <4>3
      <4> QED
        BY <2>2, <3>1, <4>2, <4>3
    <3>7. CASE owed[c] = 2
      BY <2>2, <3>1, <3>2, <3>4, <3>5, <3>7
    <3> QED
      BY <3>2, <3>6, <3>7
  <2> QED
    BY <2>3, <2>4
<1>2. CASE \E d \in Clients : AcceptClient(d)
  <2>1. PICK d \in Clients : AcceptClient(d)
    BY <1>2
  <2>2. c # d
    BY <2>1, Joining DEF AcceptClient, Accept, ListenerAt, Registered
  <2> QED
    BY <2>1, <2>2 DEF AcceptClient, Accept, Drift
<1>3. CASE ReleaseHead \/ SendSnapshotAgain
  BY <1>3 DEF ReleaseHead, CallBroadcast, SendSnapshotAgain, GreetAgain, ListenerStep,
     roomVars, Drift
<1>4. CASE Register \/ (ListenerElse /\ AllocNode)
  <2>1. c # new
    BY <1>4, Joining DEF Register, Publish, AllocNode, ListenerAt, BeforePublish
  <2>2. sem'[c] = sem[c] /\ told'[c] = told[c] /\ UNCHANGED pos
    BY <1>4, <2>1 DEF Register, Publish, ListenerElse, AllocNode, roomVars,
       PartsInv, ListInv, ListTypeOK, RoomTypes
  <2> QED
    BY <2>2 DEF Drift
<1>5. CASE \E d \in Clients : StepCursor(d)
  BY <1>5, StepKeepsDrift
<1>6. CASE /\ ~ReleaseHead /\ ~SignalClient /\ ~(\E d \in Clients : AcceptClient(d))
           /\ ~SendSnapshotAgain /\ ~Register /\ ~(ListenerElse /\ AllocNode)
           /\ ~(\E d \in Clients : StepCursor(d))
  <2>1. Quiet
    BY <1>6, QuietSteps
  <2> QED
    BY <2>1 DEF Quiet, Drift
<1> QED
  BY <1>1, <1>2, <1>3, <1>4, <1>5, <1>6

(* Where a client stands is settled when it is put on the list, and never  *)
(* recovers.                                                               *)
THEOREM DriftSettled == Spec => DriftIsSettled
<1>1. RoomInv /\ [Next]_vars =>
        [\A c \in Clients : Registered(c) =>
           \/ Drift(c)' = Drift(c)
           \/ sem[c] = SemMax /\ Drift(c)' = Drift(c) - 1
           \/ c \in lost /\ Drift(c)' < Drift(c)]_vars
  BY DriftStep
<1> QED
  BY <1>1, RoomInvariant, PTL DEF Spec, DriftIsSettled

(* A copy is made by a client's thread, of the buffer under its cursor,    *)
(* which it holds the lock of.                                             *)
LEMMA CopyMade ==
  ASSUME RoomInv, [Next]_vars, NEW c \in Clients, tpc[c] = "copy", tpc'[c] = "send"
  PROVE  copy'[c] = ring[cursor[c]] /\ c \in shared[cursor[c]]
<1>1. CopyBuffer(c)
  <2>1. tpc \in [Clients -> Waiting \cup {"failed", "stopped", "exited"}]
    BY DEF RoomInv, PartsInv, ListInv, ListTypeOK
  <2>2. tpc' # tpc
    OBVIOUS
  <2>3. ~CaptureNext
    BY <2>2 DEF CaptureNext, BeginPublication, LockHead, FillHead, ReleaseHead,
       SignalClient, WalkOn, listVars, CallBroadcast, LoadHead, Signal, KeepClient,
       UnlinkClient, WaitAstray, CloseAstray, Reap, WalkIntoFreed
  <2>4. ~ListenerNext
    <3>1. ~Spawn
      BY <2>1 DEF Spawn
    <3> QED
      BY <2>2, <3>1 DEF ListenerNext, AcceptClient, LockSnapshot, CopySnapshot,
         SendSnapshot, SnapshotFails, SendSnapshotAgain, Register, ListenerElse, Accept,
         AcceptLast, AllocNode, AllocFails, GreetFails, DropNode, GreetLock, GreetCopy,
         GreetOk, GreetAgain, ListenerStep, Publish, StoreHandle, StoreIntoFreed
  <2>5. ASSUME NEW d \in Clients, ThreadLocal(d) \/ ThreadSend(d)
        PROVE  CopyBuffer(c)
    BY <2>1, <2>5 DEF ThreadLocal, ThreadSend, StepCursor, LockBuffer, CopyBuffer,
       SendBuffer, SendBufferFails, GiveUp, TakeToken, ThreadLock, ThreadCopy, SendOk,
       SendFails, Stop, Return, ThreadStep, ThreadAt
  <2>6. ~Idle /\ ~UNCHANGED vars
    BY <2>2 DEF Idle, vars, listVars
  <2> QED
    BY <2>3, <2>4, <2>5, <2>6 DEF Next
<1>2. c \in Readers /\ copy \in [Readers -> [sn : Nat, data : Nat]]
  BY RoomAssumption DEF RoomInv, PartsInv, RingInv, RingTypeOK
<1> QED
  BY <1>1, <1>2 DEF CopyBuffer, CopyOut

(* What a client that is in step copies is what its token stands for: the  *)
(* ring still holds it, where the cursor is.                               *)
LEMMA CopiesOwn ==
  ASSUME RoomInv, [Next]_vars, NEW c \in Clients, tpc[c] = "copy", tpc'[c] = "send",
         Drift(c) = 0, told[c] >= sn - 1, sem[c] < BufferCount - 1
  PROVE  copy'[c] = [sn |-> told[c] - sem[c], data |-> told[c] - sem[c]]
<1>1. /\ sem[c] \in Nat /\ told[c] \in Nat /\ pos[c] \in Nat /\ sn \in Nat
      /\ BufferCount \in Nat
  BY RingAssumption, ListAssumption DEF RoomInv, PartsInv, ListInv, ListTypeOK, RoomTypes,
     RingInv, RingTypeOK
<1>2. Registered(c) /\ cursor[c] = BufferOf(pos[c]) /\ pos[c] > 0
  BY DEF Registered, RoomInv, CursorsStand
<1>3. told[c] = pos[c] + sem[c]
  <2>1. pos[c] + sem[c] - told[c] = 0
    BY DEF Drift
  <2>2. \A p, s, t \in Nat : p + s - t = 0 => t = p + s
    OBVIOUS
  <2> QED
    BY <1>1, <2>1, <2>2
<1>4. told[c] <= Called
  <2>1. owed[c] \in 0 .. 2 /\ Called \in Int
    BY <1>1 DEF RoomInv, PartsInv, ListInv, ListTypeOK, Called
  <2> QED
    BY <1>1, <1>2, <2>1 DEF RoomInv, ToldIsOwed
<1>5. pos[c] \in 1 .. Written /\ Written - pos[c] < BufferCount
  BY <1>1, <1>2, <1>3, <1>4 DEF Called, Written
<1>6. ring[cursor[c]].data = pos[c]
  BY <1>2, <1>5 DEF RoomInv, PartsInv, RingInv, RingHoldsLatest
<1>7. cursor[c] \in Buffers /\ ring \in [Buffers -> [sn : Nat, data : Nat]]
  BY DEF RoomInv, PartsInv, RoomTypes, CursorsOK, RingInv, RingTypeOK
<1>8. copy'[c] = ring[cursor[c]] /\ c \in shared[cursor[c]]
  BY CopyMade
<1>9. ~(cursor[c] = head /\ wpc = "stamp")
  BY <1>7, <1>8 DEF RoomInv, PartsInv, RingInv, LocksAgree
<1>10. ring[cursor[c]].sn = pos[c]
  BY <1>1, <1>2, <1>6, <1>7, <1>9 DEF RoomInv, PartsInv, RingInv, BuffersWhole
<1>11. ring[cursor[c]] = [sn |-> pos[c], data |-> pos[c]]
  BY <1>6, <1>7, <1>10
<1> QED
  BY <1>1, <1>3, <1>8, <1>11

(* A client that was put on the list in step with the announcements, and   *)
(* whose backlog is less than a lap, copies exactly its own messages.      *)
THEOREM InStepCopiesOwn == Spec => KeepingUpCopiesOwn
<1>1. RoomInv /\ [Next]_vars =>
        [\A c \in Clients :
           /\ tpc[c] = "copy" /\ tpc'[c] = "send"
           /\ Drift(c) = 0 /\ told[c] >= sn - 1 /\ sem[c] < BufferCount - 1
           => copy'[c] = [sn |-> told[c] - sem[c], data |-> told[c] - sem[c]]]_vars
  BY CopiesOwn
<1> QED
  BY <1>1, RoomInvariant, PTL DEF Spec, KeepingUpCopiesOwn

(* The room implements the log: whatever a thread or the listener copies   *)
(* is one whole message out of the last BufferCount released ones.         *)
THEOREM RoomImplementsLog == Spec => LogSpec
<1>1. Init => Log!LogInit
  BY LogInitially DEF Init
<1>2. RoomInv => RingInv /\ CursorsOK
  BY DEF RoomInv, PartsInv, RoomTypes
<1>3. RoomInv /\ RoomInv' /\ [Next]_vars => [Log!LogNext]_(Log!logVars)
  BY <1>2, RoomStepsRing, RingStepInv, LogStep
<1> QED
  BY <1>1, <1>3, RoomInvariant, PTL DEF Spec, LogSpec, Log!LogSpec
=============================================================================

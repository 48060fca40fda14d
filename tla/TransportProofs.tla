--------------------------- MODULE TransportProofs ---------------------------
(***************************************************************************)
(* Theorems about Transport, for every ring size, set of connections,      *)
(* accept limit and semaphore maximum.  Until main frees the room, a step  *)
(* of the program is a step of the room or leaves it alone, so that what   *)
(* is proved of the room holds of the program; from then on only client    *)
(* threads run beside main.                                                *)
(***************************************************************************)
EXTENDS Transport, RoomProofs

(* main has not begun to free the room.                                    *)
BeforeFreeing == main \in {"start", "capture", "join"}

-----------------------------------------------------------------------------
(* What the actions of the room leave alone.                               *)

(* The capture thread does not move the listener.                          *)
LEMMA CaptureLeaves ==
  CaptureNext => ~ub /\ UNCHANGED <<lpc, new, tpc, born>>
BY DEF CaptureNext, BeginPublication, LockHead, FillHead, ReleaseHead, SignalClient,
   WalkOn, CaptureAt, listVars, listenerVars, CallBroadcast, LoadHead, Signal,
   KeepClient, UnlinkClient, WaitAstray, CloseAstray, Reap, WalkIntoFreed

(* The listener does not move the capture thread.                          *)
LEMMA ListenerLeaves ==
  ListenerNext => ~ub /\ UNCHANGED <<sn, head, wpc, mpc, curr, prev>>
BY DEF ListenerNext, AcceptClient, LockSnapshot, CopySnapshot, SendSnapshot,
   SnapshotFails, SendSnapshotAgain, Register, ListenerElse, ringVars, captureVars,
   LockShared, CopyOut, Accept, AcceptLast, AllocNode, AllocFails, GreetFails,
   DropNode, GreetLock, GreetCopy, GreetOk, GreetAgain, ListenerStep, Publish,
   Spawn, StoreHandle, StoreIntoFreed, ListenerAt

(* A client's thread moves neither, and does not touch the list.           *)
LEMMA ThreadLeaves ==
  ASSUME NEW c, ThreadLocal(c) \/ ThreadSend(c)
  PROVE  /\ ~ub
         /\ UNCHANGED <<sn, head, ring, excl, wpc, lbuf, told, clients, next, node,
                        handle, mpc, curr, prev, lpc, new, count, born, ub, lost, owed>>
BY DEF ThreadLocal, ThreadSend, StepCursor, LockBuffer, CopyBuffer, SendBuffer,
   SendBufferFails, GiveUp, ringVars, roomVars, captureVars, listenerVars, ghosts,
   LockShared, CopyOut, TakeToken, ThreadLock, ThreadCopy, SendOk, SendFails, Stop,
   Return, ThreadStep, ThreadAt

(* The program runs a client's thread as the room does.                    *)
LEMMA RunsThread ==
  ASSUME NEW c, Run(c)
  PROVE  ThreadLocal(c) \/ ThreadSend(c)
BY DEF Run, SendOn, ThreadSend

-----------------------------------------------------------------------------
(* main waits for the listener before it frees, and captures no longer.    *)
LifeInv ==
  /\ main \in {"start", "capture", "join", "freeBuffers", "freeClients", "exit"}
  /\ listener \in {"none", "setup", "serving", "ended"}
  /\ main # "capture" => wpc = "idle" /\ mpc = "idle"
  /\ main = "start" => listener = "none"
  /\ Freeing \/ main = "exit" => listener \in {"none", "ended"}
  /\ listener # "serving" => lpc \in {"accept", "closed"}

(* LifeInv is inductive by itself.                                         *)
LEMMA LifeStep == LifeInv /\ [TransportNext]_transportVars => LifeInv'
<1> SUFFICES ASSUME LifeInv, [TransportNext]_transportVars PROVE LifeInv'
  OBVIOUS
<1> USE DEF LifeInv, Freeing
<1>1. CASE CannotCapture \/ StartListener \/ CaptureEnds \/ Join
  BY <1>1 DEF CannotCapture, StartListener, CaptureEnds, Join, MayJoin, MainAt, vars,
     ringVars, listVars, listenerVars, captureVars
<1>2. CASE Capture
  BY <1>2, CaptureLeaves DEF Capture
<1>3. CASE FreeBuffer
  BY <1>3 DEF FreeBuffer, ringVars, captureVars, listenerVars
<1>4. CASE FreeNode \/ Exit
  BY <1>4 DEF FreeNode, Exit, MainAt, ringVars, captureVars, listenerVars
<1>5. ASSUME NEW to \in {"serving", "ended"}, SetUp(to)
      PROVE  LifeInv'
  BY <1>5 DEF SetUp, vars, ringVars, listVars, listenerVars, captureVars
<1>6. CASE Serve
  BY <1>6, ListenerLeaves DEF Serve
<1>7. ASSUME NEW c \in Clients, Run(c)
      PROVE  LifeInv'
  BY <1>7, RunsThread, ThreadLeaves DEF Run, mainVars
<1>8. ASSUME NEW c \in Clients, RunOnFreed(c)
      PROVE  LifeInv'
  BY <1>8 DEF RunOnFreed, mainVars, ringVars, captureVars, listenerVars
<1>9. CASE Rest \/ UNCHANGED transportVars
  BY <1>9 DEF Rest, transportVars, mainVars, vars, ringVars, listVars, listenerVars,
     captureVars
<1> QED
  BY <1>1, <1>2, <1>3, <1>4, <1>5, <1>6, <1>7, <1>8, <1>9 DEF TransportNext, TearDown

(* The listener has ended when the room is freed.                          *)
THEOREM RoomFreedAlone == TransportSpec => []FreedAlone
<1>1. TransportInit => LifeInv
  BY DEF TransportInit, Init, RingInit, ListInit, LifeInv, Freeing
<1>2. LifeInv => FreedAlone
  BY DEF LifeInv, FreedAlone, Freeing
<1> QED
  BY <1>1, <1>2, LifeStep, PTL DEF TransportSpec

-----------------------------------------------------------------------------
(* Until main frees, the program is the room.                              *)

(* What is proved of the room holds, and nothing has been freed by main.   *)
RoomKept == BeforeFreeing => RoomInv /\ freed = {}

(* A client's thread does not use freed memory, so each step is one of the *)
(* room.                                                                   *)
LEMMA ProgramStepsRoom ==
  ASSUME BeforeFreeing, RoomKept, [TransportNext]_transportVars
  PROVE  [Next]_vars /\ UNCHANGED freed
<1>1. CASE \/ CannotCapture \/ StartListener \/ CaptureEnds \/ Join \/ SetUp("serving")
           \/ SetUp("ended") \/ Rest \/ UNCHANGED transportVars
  BY <1>1 DEF CannotCapture, StartListener, CaptureEnds, Join, SetUp, Rest,
     transportVars, mainVars
<1>2. CASE Capture \/ Serve
  BY <1>2 DEF Capture, Serve, Next
<1>3. ASSUME NEW c \in Clients, Run(c)
      PROVE  [Next]_vars /\ UNCHANGED freed
  BY <1>3, RunsThread DEF Run, Next, mainVars
<1>4. ASSUME NEW c \in Clients, RunOnFreed(c)
      PROVE  FALSE
  <2>1. NoThreadOnFreedNode /\ freed = {}
    BY DEF RoomKept, RoomInv, PartsInv, ListInv, ThreadsSafe
  <2> QED
    BY <1>4, <2>1 DEF RunOnFreed, UsesFreed, Running, NoThreadOnFreedNode
<1>5. ~FreeBuffer /\ ~FreeNode /\ ~Exit
  BY DEF BeforeFreeing, FreeBuffer, FreeNode, Exit, MainAt
<1> QED
  BY <1>1, <1>2, <1>3, <1>4, <1>5 DEF TransportNext, TearDown

(* main does not go back.                                                  *)
LEMMA NoWayBack == [TransportNext]_transportVars /\ BeforeFreeing' => BeforeFreeing
BY DEF TransportNext, TearDown, BeforeFreeing, CannotCapture, StartListener, Capture,
   CaptureEnds, Join, FreeBuffer, FreeNode, Exit, SetUp, Serve, Run, RunOnFreed, Rest,
   MainAt, mainVars, transportVars

(* RoomKept is inductive by itself.                                        *)
LEMMA RoomKeptStep == RoomKept /\ [TransportNext]_transportVars => RoomKept'
BY ProgramStepsRoom, NoWayBack, RoomStepInv DEF RoomKept

(* Until main frees the room, all that is proved of it as a specification  *)
(* of its own holds in the whole program.                                  *)
THEOREM RoomHoldsInProgram == TransportSpec => [](BeforeFreeing => RoomInv)
<1>1. TransportInit => RoomKept
  BY RoomInitInv DEF TransportInit, RoomKept
<1>2. RoomKept => (BeforeFreeing => RoomInv)
  BY DEF RoomKept
<1> QED
  BY <1>1, <1>2, RoomKeptStep, PTL DEF TransportSpec
-----------------------------------------------------------------------------
(* Types.                                                                  *)

(* Where main is in the walks of freeMyBuffers, which frees one buffer,  *)
(* and of freeClients.                                                     *)
CurrentOK ==
  /\ main = "freeBuffers" => freed = {} /\ current = head
  /\ main = "freeClients" => current \in Clients \cup {Null}

(* The typing is inductive with what the room's invariant adds to it.      *)
TypesInv == TransportTypeOK /\ CurrentOK /\ RoomKept

(* A client's thread keeps the types of the room, whatever has been freed. *)
LEMMA ThreadTypes ==
  ASSUME TypeOK, NEW c \in Clients, ThreadLocal(c) \/ ThreadSend(c)
  PROVE  TypeOK'
<1> USE DEF TypeOK, ThreadLocal, ThreadSend
<1>1. c \in Readers /\ cursor[c] \in Buffers /\ NextOf(cursor[c]) \in Buffers
  BY RoomAssumption, RingAssumption DEF Buffers, NextOf
<1>2. RingTypeOK'
  <2>1. CASE LockBuffer(c)
    BY <1>1, <2>1, ThreadLeaves DEF LockBuffer, LockShared, RingTypeOK
  <2>2. CASE CopyBuffer(c)
    <3>1. ring[cursor[c]] \in [sn : Nat, data : Nat]
      BY <1>1 DEF RingTypeOK
    <3> QED
      BY <1>1, <2>2, <3>1, ThreadLeaves DEF CopyBuffer, CopyOut, RingTypeOK
  <2>3. CASE UNCHANGED <<shared, copy>>
    BY <2>3, ThreadLeaves DEF RingTypeOK
  <2> QED
    BY <2>1, <2>2, <2>3 DEF StepCursor, SendBuffer, SendBufferFails, GiveUp, ringVars
<1>3. tpc' \in [Clients -> Waiting \cup {"failed", "stopped", "exited"}]
  BY DEF ListTypeOK, Waiting, StepCursor, LockBuffer, CopyBuffer, SendBuffer,
     SendBufferFails, GiveUp, TakeToken, ThreadLock, ThreadCopy, SendOk, SendFails, Stop,
     Return, ThreadStep, ThreadAt
<1>4. working' \in [Clients -> BOOLEAN]
  BY DEF ListTypeOK, StepCursor, LockBuffer, CopyBuffer, SendBuffer,
     SendBufferFails, GiveUp, TakeToken, ThreadLock, ThreadCopy, SendOk, SendFails, Stop,
     Return, ThreadStep, ThreadAt
<1>5. sem' \in [Clients -> 0 .. SemMax]
  <2>1. CASE StepCursor(c)
    <3>1. sem[c] - 1 \in 0 .. SemMax
      BY <2>1, ListAssumption DEF ListTypeOK, StepCursor, TakeToken
    <3> QED
      BY <2>1, <3>1 DEF ListTypeOK, StepCursor, TakeToken
  <2> QED
    BY <2>1 DEF ListTypeOK, LockBuffer, CopyBuffer, SendBuffer, SendBufferFails, GiveUp,
       ThreadLock, ThreadCopy, SendOk, SendFails, Stop, Return, ThreadStep
<1>6. ListTypeOK'
  BY <1>3, <1>4, <1>5, ThreadLeaves DEF ListTypeOK
<1>7. /\ cursor' \in [Clients -> Buffers]
      /\ csn' \in [Clients -> Nat]
      /\ pos' \in [Clients -> Nat]
  <2>1. CASE CopyBuffer(c)
    <3>1. ring[cursor[c]].sn \in Nat
      BY <1>1 DEF RingTypeOK
    <3> QED
      BY <2>1, <3>1 DEF CopyBuffer
  <2> QED
    BY <1>1, <2>1 DEF StepCursor, LockBuffer, SendBuffer, SendBufferFails, GiveUp, roomVars
<1> QED
  BY <1>2, <1>6, <1>7, ThreadLeaves

(* main's own variables keep their types.                                  *)
LEMMA MainTypes ==
  ASSUME TypesInv, [TransportNext]_transportVars
  PROVE  /\ main' \in {"start", "capture", "join", "freeBuffers", "freeClients", "exit"}
         /\ listener' \in {"none", "setup", "serving", "ended"}
         /\ freed' \subseteq Buffers
         /\ current' \in Buffers \cup Clients \cup {Null}
         /\ sockets' \subseteq Clients \cup {Null} /\ reaped' \subseteq Clients
         /\ CurrentOK'
<1> USE DEF TypesInv, TransportTypeOK, CurrentOK
<1>1. /\ head \in Buffers /\ NextOf(head) # head
      /\ clients \in Clients \cup {Null}
      /\ \A c \in Clients : next[c] \in Clients \cup {Null}
  <2>1. /\ head \in Buffers
        /\ clients \in Clients \cup {Null} /\ next \in [Clients -> Clients \cup {Null}]
    BY DEF TypeOK, RingTypeOK, ListTypeOK
  <2>2. \A b \in Buffers : NextOf(b) # b
    BY RingAssumption DEF Buffers, NextOf
  <2> QED
    BY <2>1, <2>2
<1>2. CASE CannotCapture
  BY <1>1, <1>2 DEF CannotCapture, MainAt, RoomKept, BeforeFreeing, vars, ringVars
<1>3. CASE StartListener \/ CaptureEnds
  BY <1>3 DEF StartListener, CaptureEnds, MainAt
<1>4. CASE Capture
  <2>1. Reaping => curr \in Clients
    BY DEF Reaping, TypeOK, ListTypeOK
  <2> QED
    BY <1>4, <2>1 DEF Capture
<1>5. CASE Join
  BY <1>1, <1>5 DEF Join, MainAt, RoomKept, BeforeFreeing, vars, ringVars
<1>6. CASE FreeBuffer
  <2>1. /\ UNCHANGED <<head, listener, sockets, reaped>>
        /\ freed = {} /\ current = head
    BY <1>6 DEF FreeBuffer, ringVars
  <2>2. main' = "freeClients" /\ current' = clients /\ freed' = {head}
    BY <1>1, <1>6, <2>1 DEF FreeBuffer, MoreBuffers
  <2> QED
    BY <1>1, <2>1, <2>2
<1>7. CASE FreeNode
  BY <1>1, <1>7 DEF FreeNode, NextClient
<1>8. CASE Exit
  BY <1>8 DEF Exit, MainAt
<1>9. ASSUME NEW to \in {"serving", "ended"}, SetUp(to)
      PROVE  UNCHANGED <<main, freed, current, sockets, reaped, head>> /\ listener' = to
  BY <1>9 DEF SetUp, vars, ringVars
<1>10. CASE Serve
  <2>1. lpc = "accept" => new' \in Clients \cup {Null}
    BY <1>10 DEF TypeOK, ListTypeOK, Serve, ListenerNext, AcceptClient, LockSnapshot,
       CopySnapshot, SendSnapshot, SnapshotFails, SendSnapshotAgain, Register,
       ListenerElse, Accept, AcceptLast, AllocNode, AllocFails, GreetFails, DropNode,
       GreetLock, GreetCopy, GreetOk, GreetAgain, ListenerStep, Publish, Spawn,
       StoreHandle, StoreIntoFreed, ListenerAt
  <2>2. head' = head
    BY <1>10, ListenerLeaves DEF Serve
  <2> QED
    BY <1>10, <2>1, <2>2 DEF Serve
<1>11. ASSUME NEW c \in Clients, Run(c) \/ RunOnFreed(c)
       PROVE  UNCHANGED mainVars /\ head' = head
  BY <1>11, RunsThread, ThreadLeaves DEF Run, RunOnFreed, ringVars
<1>12. CASE Rest \/ UNCHANGED transportVars
  BY <1>12 DEF Rest, transportVars, mainVars, vars, ringVars
<1> QED
  BY <1>2, <1>3, <1>4, <1>5, <1>6, <1>7, <1>8, <1>9, <1>10, <1>11, <1>12
     DEF TransportNext, TearDown, mainVars

(* So do the room's.                                                       *)
LEMMA RoomTypesKept ==
  ASSUME TypesInv, LifeInv, [TransportNext]_transportVars
  PROVE  TypeOK'
<1> USE DEF TypesInv, TransportTypeOK
<1>1. CASE BeforeFreeing
  <2>1. RoomInv /\ [Next]_vars
    BY <1>1, ProgramStepsRoom DEF RoomKept
  <2>2. RoomInv'
    BY <2>1, RoomStepInv
  <2> QED
    BY <2>2, RoomInvTypes, PTL
<1>2. CASE ~BeforeFreeing
  <2>1. /\ ~CannotCapture /\ ~StartListener /\ ~Capture /\ ~CaptureEnds /\ ~Join
        /\ ~Serve /\ ~SetUp("serving") /\ ~SetUp("ended")
    BY <1>2 DEF BeforeFreeing, LifeInv, Freeing, CannotCapture, StartListener, Capture,
       CaptureEnds, Join, Serve, SetUp, MainAt
  <2>2. CASE FreeBuffer
    <3>1. UNCHANGED <<ringVars, roomVars, clients, next, node, sem, working, handle, tpc,
                      captureVars, listenerVars, ghosts>>
      BY <2>2 DEF FreeBuffer
    <3>2. ub' \in BOOLEAN
      BY <2>2 DEF FreeBuffer, TypeOK, ListTypeOK
    <3> QED
      BY <3>1, <3>2 DEF ringVars, roomVars, captureVars, listenerVars, ghosts, TypeOK,
         RingTypeOK, ListTypeOK
  <2>3. CASE FreeNode
    <3>1. UNCHANGED <<ringVars, roomVars, clients, next, sem, working, handle, tpc,
                      captureVars, listenerVars, ghosts>>
      BY <2>3 DEF FreeNode
    <3>2. ub' \in BOOLEAN /\ node' \in [Clients -> {"none", "live", "freed"}]
      BY <2>3 DEF FreeNode, TypeOK, ListTypeOK
    <3> QED
      BY <3>1, <3>2 DEF ringVars, roomVars, captureVars, listenerVars, ghosts, TypeOK,
         RingTypeOK, ListTypeOK
  <2>4. CASE Exit
    BY <2>4 DEF Exit, MainAt, ringVars, roomVars, captureVars, listenerVars, ghosts,
       TypeOK, RingTypeOK, ListTypeOK
  <2>5. ASSUME NEW c \in Clients, Run(c)
        PROVE  TypeOK'
    BY <2>5, RunsThread, ThreadTypes
  <2>6. ASSUME NEW c \in Clients, RunOnFreed(c)
        PROVE  TypeOK'
    BY <2>6 DEF RunOnFreed, ringVars, roomVars, captureVars, listenerVars, ghosts, TypeOK,
       RingTypeOK, ListTypeOK
  <2>7. CASE Rest \/ UNCHANGED transportVars
    BY <2>7 DEF Rest, transportVars, vars, ringVars, listVars, roomVars, ghosts, TypeOK,
       RingTypeOK, ListTypeOK
  <2> QED
    BY <2>1, <2>2, <2>3, <2>4, <2>5, <2>6, <2>7 DEF TransportNext, TearDown
<1> QED
  BY <1>1, <1>2

(* The invariant of the types, and of where main is.                       *)
LEMMA TypesStepInv ==
  TypesInv /\ LifeInv /\ [TransportNext]_transportVars => TypesInv' /\ LifeInv'
BY MainTypes, RoomTypesKept, RoomKeptStep, LifeStep DEF TypesInv, TransportTypeOK

(* It holds at first.                                                      *)
LEMMA TypesInitInv == TransportInit => TypesInv /\ LifeInv
<1> SUFFICES ASSUME TransportInit PROVE TypesInv /\ LifeInv
  OBVIOUS
<1>1. RoomInv /\ TypeOK
  BY RoomInitInv, RoomInvTypes DEF TransportInit
<1>2. LifeInv
  BY DEF TransportInit, Init, RingInit, ListInit, LifeInv, Freeing
<1> QED
  BY <1>1, <1>2 DEF TransportInit, TypesInv, TransportTypeOK, CurrentOK, RoomKept

(* The variables of the program have their types, to its very end.         *)
THEOREM TransportTypeCorrect == TransportSpec => []TransportTypeOK
<1>1. TypesInv => TransportTypeOK
  BY DEF TypesInv
<1> QED
  BY <1>1, TypesInitInv, TypesStepInv, PTL DEF TransportSpec
-----------------------------------------------------------------------------
(* Who touches freed memory.                                               *)

(* A list whose nodes were never freed by broadcast: those that addClient  *)
(* freed have no thread, and no pointer leads to them; nor is anything     *)
(* undefined but the closing of another object's handle.                   *)
ListUntouched ==
  /\ ub => mpc = "stray" /\ ~handle[curr]
  /\ \A c \in Clients : node[c] = "freed" => tpc[c] = "none" /\ Unreferenced(c)
  /\ lpc = "store" => tpc[new] # "none"

(* After undefined behaviour the model does nothing.                       *)
LEMMA UndefinedEnds ==
  ASSUME ub, [ListNext]_listVars
  PROVE  UNCHANGED listVars
BY DEF ListNext, WalkStep, Undefined, Accept, AcceptLast, AllocNode, AllocFails,
   GreetFails, DropNode, GreetLock, GreetCopy, GreetOk, GreetAgain, ListenerStep,
   ListenerAt, Publish, Spawn, StoreHandle, StoreIntoFreed, CallBroadcast, LoadHead,
   Signal, KeepClient, UnlinkClient, WaitAstray, CloseAstray, Reap, WalkIntoFreed,
   CaptureAt, TakeToken, ThreadLock, ThreadCopy, SendOk, SendFails, Stop, Return,
   ThreadStep, ThreadAt

(* Only freeClient ends that, when it frees a client.                      *)
LEMMA UntouchedStep ==
  ASSUME ListInv, ListUntouched, [ListNext]_listVars, ~Reap
  PROVE  ListUntouched'
<1> USE ListAssumption DEF ListUntouched, Unreferenced
<1>0. ListTypeOK /\ ThreadsSafe /\ WalkSafe /\ JoinSafe
  BY DEF ListInv
<1> SUFFICES ASSUME ~ub
             PROVE  ListUntouched'
  BY UndefinedEnds DEF listVars
<1>1. CASE \E c \in Clients : Accept(c)
  BY <1>1 DEF Accept, ListenerAt, captureVars, ghosts
<1>2. CASE AllocNode
  <2>1. new \in Clients /\ clients \in Clients \cup {Null}
    BY <1>0, <1>2 DEF ListTypeOK, AllocNode, ListenerAt
  <2>2. \A c \in Clients : node'[c] = "freed" => c # new /\ node[c] = "freed"
    BY <1>0, <1>2, <2>1 DEF ListTypeOK, AllocNode
  <2>3. \A d \in Clients : next'[d] = IF d = new THEN clients ELSE next[d]
    BY <1>0, <1>2, <2>1 DEF ListTypeOK, AllocNode
  <2> QED
    BY <1>2, <2>2, <2>3 DEF AllocNode, ListenerAt, captureVars
<1>3. CASE AllocFails \/ GreetFails
  <2>1. /\ new \in Clients /\ tpc[new] = "none" /\ Unreferenced(new)
        /\ node' = [node EXCEPT ![new] = "freed"] /\ lpc' = "accept"
        /\ UNCHANGED <<clients, next, tpc, curr, prev, ub>>
    BY <1>0, <1>3 DEF ListTypeOK, JoinSafe, BeforePublish, AllocFails, GreetFails, DropNode,
       ListenerAt, captureVars
  <2> QED
    BY <1>0, <2>1 DEF ListTypeOK
<1>4. CASE \/ AcceptLast \/ GreetLock \/ GreetCopy \/ GreetOk \/ GreetAgain
           \/ StoreHandle \/ CallBroadcast \/ Signal \/ WaitAstray \/ UNCHANGED listVars
  <2>1. UNCHANGED <<clients, curr, prev, next, node, tpc, ub>>
    BY <1>4 DEF AcceptLast, GreetLock, GreetCopy, GreetOk, GreetAgain, ListenerStep,
       StoreHandle, CallBroadcast, Signal, WaitAstray, listVars, captureVars
  <2>2. lpc' = "store" => lpc = "store" /\ new' = new
    BY <1>4 DEF AcceptLast, GreetLock, GreetCopy, GreetOk, GreetAgain, ListenerStep,
       StoreHandle, CallBroadcast, Signal, WaitAstray, listVars, listenerVars, ListenerAt
  <2> QED
    BY <2>1, <2>2
<1>5. CASE Publish
  <2>1. node[new] = "live" /\ new \in Clients
    BY <1>0, <1>5 DEF ListTypeOK, JoinSafe, BeforePublish, Publish, ListenerAt
  <2> QED
    BY <1>5, <2>1 DEF Publish, ListenerAt, captureVars
<1>6. CASE Spawn
  <2>1. node[new] = "live" /\ new \in Clients
    BY <1>0, <1>6 DEF ListTypeOK, JoinSafe, BeforePublish, Spawn, ListenerAt
  <2> QED
    BY <1>0, <1>6, <2>1 DEF ListTypeOK, Spawn, ListenerAt, captureVars
<1>7. CASE StoreIntoFreed
  <2>1. new \in Clients
    BY <1>0, <1>7 DEF ListTypeOK, StoreIntoFreed, ListenerAt
  <2> QED
    BY <1>7, <2>1 DEF StoreIntoFreed, ListenerAt
<1>8. CASE LoadHead
  BY <1>8 DEF LoadHead, Visit, listenerVars
<1>9. CASE KeepClient
  <2>1. curr \in Clients /\ node[curr] = "live"
    BY <1>0, <1>9 DEF ListTypeOK, WalkSafe, KeepClient, CaptureAt
  <2> QED
    BY <1>9, <2>1 DEF KeepClient, Visit, listenerVars
<1>10. CASE UnlinkClient
  <2>1. curr \in Clients /\ UNCHANGED <<node, tpc, curr, prev, ub, lpc, new>>
    BY <1>0, <1>10 DEF ListTypeOK, UnlinkClient, CaptureAt, listenerVars
  <2>2. clients' \in {clients, next[curr]}
    BY <1>10 DEF UnlinkClient
  <2>3. \A d \in Clients : next'[d] \in {next[d], next[curr]}
    <3>1. prev \in Clients \cup {Null} /\ next \in [Clients -> Clients \cup {Null}]
      BY <1>0 DEF ListTypeOK
    <3> QED
      BY <1>10, <3>1 DEF UnlinkClient
  <2> QED
    BY <2>1, <2>2, <2>3
<1>11. CASE WalkIntoFreed
  <2>1. curr \in Clients
    BY <1>0, <1>11 DEF ListTypeOK, WalkIntoFreed, CaptureAt
  <2> QED
    BY <1>11, <2>1 DEF WalkIntoFreed
<1>12. CASE CloseAstray
  BY <1>12 DEF CloseAstray, CaptureAt, captureVars, listenerVars
<1>13. ASSUME NEW c \in Clients,
              \/ TakeToken(c) \/ ThreadLock(c) \/ ThreadCopy(c)
              \/ SendOk(c) \/ SendFails(c) \/ Stop(c) \/ Return(c)
       PROVE  ListUntouched'
  <2>1. /\ UNCHANGED <<clients, next, node, curr, prev, lpc, new, ub>>
        /\ tpc[c] # "none" /\ \E to \in {"lock", "copy", "send", "wait", "failed", "stopped",
                                        "exited"} : tpc' = [tpc EXCEPT ![c] = to]
    BY <1>13 DEF TakeToken, ThreadLock, ThreadCopy, SendOk, SendFails, Stop, Return,
       ThreadStep, ThreadAt, captureVars, listenerVars
  <2>2. \A d \in Clients : tpc'[d] = "none" <=> tpc[d] = "none"
    BY <1>0, <2>1 DEF ListTypeOK
  <2>3. lpc = "store" => new \in Clients
    BY <1>0 DEF ListTypeOK
  <2> QED
    BY <2>1, <2>2, <2>3
<1> QED
  BY <1>1, <1>2, <1>3, <1>4, <1>5, <1>6, <1>7, <1>8, <1>9, <1>10, <1>11, <1>12,
     <1>13 DEF ListNext, WalkStep, Undefined

(* The program's list is one until broadcast or main frees a client.       *)
Untouched == reaped = {} /\ BeforeFreeing => ListUntouched

(* Freeing a client in broadcast is seen in reaped; until then freeClient  *)
(* does not get past its wait.                                             *)
LEMMA ReapIsNoted ==
  ASSUME [TransportNext]_transportVars, reaped' = {}
  PROVE  reaped = {} /\ (mpc \in {"reap", "stray"} => mpc' \in {"reap", "stray"})
<1>1. CASE Capture
  BY <1>1 DEF Capture, Reaping
<1>2. CASE Serve
  BY <1>2, ListenerLeaves DEF Serve
<1>3. ASSUME NEW c \in Clients, Run(c)
      PROVE  reaped' = reaped /\ mpc' = mpc
  BY <1>3, RunsThread, ThreadLeaves DEF Run, mainVars
<1>4. ASSUME NEW c \in Clients, RunOnFreed(c)
      PROVE  reaped' = reaped /\ mpc' = mpc
  BY <1>4 DEF RunOnFreed, mainVars, captureVars
<1>5. ASSUME ~Capture, ~Serve, ~(\E c \in Clients : Run(c) \/ RunOnFreed(c))
      PROVE  reaped' = reaped /\ mpc' = mpc
  BY <1>5 DEF TransportNext, TearDown, CannotCapture, StartListener, CaptureEnds, Join,
     FreeBuffer, FreeNode, Exit, SetUp, Rest, transportVars, mainVars, vars, listVars,
     captureVars
<1> QED
  BY <1>1, <1>2, <1>3, <1>4, <1>5

(* Untouched is kept.                                                      *)
LEMMA UntouchedKept ==
  TypesInv /\ Untouched /\ [TransportNext]_transportVars => Untouched'
<1> SUFFICES ASSUME TypesInv, Untouched, [TransportNext]_transportVars,
                    reaped' = {}, BeforeFreeing'
             PROVE  ListUntouched'
  BY DEF Untouched
<1>1. BeforeFreeing /\ RoomInv /\ [Next]_vars
  BY NoWayBack, ProgramStepsRoom DEF TypesInv, RoomKept
<1>2. ListInv /\ [ListNext]_listVars
  BY <1>1, RoomStepsList DEF RoomInv, PartsInv
<1>3. reaped = {} /\ (mpc \in {"reap", "stray"} => mpc' \in {"reap", "stray"})
  BY ReapIsNoted
<1>4. ~Reap
  BY <1>3 DEF Reap, MayReap, Visit
<1> QED
  BY <1>1, <1>2, <1>3, <1>4, UntouchedStep DEF Untouched

(* The room is freed after the capture, or when there is none.             *)
LEMMA FreeingBegins ==
  ASSUME [TransportNext]_transportVars, BeforeFreeing, ~BeforeFreeing'
  PROVE  Join \/ CannotCapture
BY DEF TransportNext, TearDown, BeforeFreeing, StartListener, Capture,
   CaptureEnds, FreeBuffer, FreeNode, Exit, SetUp, Serve, Run, RunOnFreed, Rest,
   MainAt, mainVars, transportVars

(* The loop of freeMyBuffers ends after the first buffer.                  *)
LEMMA FreesOneBuffer ==
  ASSUME TypesInv, FreeBuffer
  PROVE  main' = "freeClients" /\ current' = clients /\ ub' = ub
<1>1. head \in Buffers /\ freed = {} /\ current = head
  BY DEF TypesInv, TransportTypeOK, TypeOK, RingTypeOK, CurrentOK, FreeBuffer
<1>2. \A b \in Buffers : NextOf(b) # b
  BY RingAssumption DEF Buffers, NextOf
<1> QED
  BY <1>1, <1>2 DEF FreeBuffer, MoreBuffers

(* While main frees, the others leave the list alone.                      *)
LEMMA BesideMain ==
  ASSUME LifeInv, ~BeforeFreeing, ~TearDown, [TransportNext]_transportVars
  PROVE  /\ UNCHANGED <<clients, next, node, lpc, new, mainVars>>
         /\ \/ UNCHANGED tpc
            \/ \E c \in Clients : ThreadLocal(c) \/ ThreadSend(c)
<1>1. /\ ~StartListener /\ ~Capture /\ ~CaptureEnds /\ ~Serve /\ ~CannotCapture
      /\ ~SetUp("serving") /\ ~SetUp("ended")
  BY DEF BeforeFreeing, LifeInv, Freeing, StartListener, Capture, CaptureEnds, Serve,
     CannotCapture, SetUp, MainAt
<1>2. ASSUME NEW c \in Clients, Run(c)
      PROVE  UNCHANGED <<clients, next, node, lpc, new, mainVars>>
  BY <1>2, RunsThread, ThreadLeaves DEF Run
<1>3. ASSUME NEW c \in Clients, RunOnFreed(c)
      PROVE  UNCHANGED <<clients, next, node, lpc, new, mainVars, tpc>>
  BY <1>3 DEF RunOnFreed, listenerVars
<1>4. CASE Rest \/ UNCHANGED transportVars
  BY <1>4 DEF Rest, transportVars, vars, listVars, listenerVars
<1> QED
  BY <1>1, <1>2, <1>3, <1>4, RunsThread DEF TransportNext

(* While broadcast has freed no client, the walk of freeClients leads away *)
(* from what is freed: links lead to older clients, and to none that       *)
(* addClient freed.                                                        *)
FreedBehind ==
  /\ Freeing => NewestFirst
  /\ reaped = {} /\ main = "freeBuffers" =>
       \A c \in Clients : node[c] = "freed" => Unreferenced(c)
  /\ reaped = {} /\ main = "freeClients" /\ current \in Clients =>
       \A c \in Clients : node[c] = "freed" =>
         \/ c # current /\ \A d \in Clients : next[d] # c
         \/ born[current] < born[c]

(* The whole is inductive.                                                 *)
TransportInv ==
  TypesInv /\ LifeInv /\ Untouched /\ FreedBehind /\ TouchesFreedOnlyIf

(* freeMyBuffers and freeClients do not free twice while broadcast has     *)
(* freed no client.                                                        *)
LEMMA TearDownStep ==
  ASSUME TransportInv, TearDown \/ CannotCapture
  PROVE  FreedBehind' /\ TouchesFreedOnlyIf'
<1> USE ListAssumption DEF TransportInv
<1>1. /\ next \in [Clients -> Clients \cup {Null}] /\ clients \in Clients \cup {Null}
      /\ node \in [Clients -> {"none", "live", "freed"}]
      /\ \A c \in Clients : born[c] \in Int
  <2>1. born \in [Clients -> 0 .. AcceptLimit]
    BY DEF TypesInv, TransportTypeOK, TypeOK, ListTypeOK
  <2> QED
    BY <2>1 DEF TypesInv, TransportTypeOK, TypeOK, ListTypeOK
<1>2. CASE CannotCapture \/ Join
  <2>1. /\ ~ub /\ BeforeFreeing /\ main' = "freeBuffers"
        /\ UNCHANGED <<vars, reaped>>
    BY <1>2 DEF CannotCapture, Join, MainAt, BeforeFreeing
  <2>2. UNCHANGED <<clients, next, node, born, curr, prev, ub>>
    BY <2>1 DEF vars, listVars, captureVars
  <2>3. NewestFirst
    BY <2>1 DEF TypesInv, RoomKept, RoomInv, PartsInv, ListInv
  <2>4. reaped = {} => \A c \in Clients : node[c] = "freed" => Unreferenced(c)
    BY <2>1 DEF Untouched, ListUntouched
  <2>5. FreedBehind'
    BY <2>1, <2>2, <2>3, <2>4 DEF FreedBehind, NewestFirst, Unreferenced
  <2> QED
    BY <2>1, <2>2, <2>5 DEF TouchesFreedOnlyIf
<1>3. CASE FreeBuffer
  <2>1. /\ ~ub /\ main = "freeBuffers" /\ UNCHANGED <<clients, next, node, born, reaped>>
    BY <1>3 DEF FreeBuffer, listenerVars
  <2>3. main' = "freeClients" /\ current' = clients /\ ub' = ub
    BY <1>3, FreesOneBuffer
  <2>4. NewestFirst
    BY <2>1 DEF FreedBehind, Freeing
  <2>5. FreedBehind'
    BY <2>1, <2>3, <2>4 DEF FreedBehind, NewestFirst, Unreferenced
  <2> QED
    BY <2>1, <2>3, <2>5 DEF TouchesFreedOnlyIf
<1>4. CASE FreeNode
  <2>1. /\ ~ub /\ main = "freeClients" /\ current \in Clients
        /\ UNCHANGED <<next, born, main, reaped>>
        /\ node' = [node EXCEPT ![current] = "freed"]
    BY <1>4 DEF FreeNode, listenerVars, TypesInv, CurrentOK
  <2>2. NewestFirst /\ NewestFirst'
    BY <2>1 DEF FreedBehind, Freeing, NewestFirst
  <2>3. CASE reaped # {}
    BY <2>1, <2>2, <2>3 DEF FreedBehind, TouchesFreedOnlyIf
  <2>4. CASE reaped = {}
    <3>1. \A c \in Clients : node[c] = "freed" =>
            \/ c # current /\ \A d \in Clients : next[d] # c
            \/ born[current] < born[c]
      BY <2>1, <2>4 DEF FreedBehind
    <3>2. node[current] # "freed"
      BY <1>1, <2>1, <3>1
    <3>3. current' = next[current] /\ ub' = ub
      BY <1>4, <3>2 DEF FreeNode, NextClient
    <3>4. ASSUME current' \in Clients, NEW c \in Clients, node'[c] = "freed"
          PROVE  \/ c # current' /\ \A d \in Clients : next'[d] # c
                 \/ born'[current'] < born'[c]
      <4>1. born[next[current]] < born[current] /\ next[current] \in Clients
        BY <2>1, <2>2, <3>3, <3>4 DEF NewestFirst
      <4>2. CASE c = current
        BY <2>1, <3>3, <4>1, <4>2
      <4>3. CASE c # current
        <5>1. node[c] = "freed"
          BY <1>1, <2>1, <3>4, <4>3
        <5>2. CASE \A d \in Clients : next[d] # c
          BY <2>1, <3>3, <5>2
        <5>3. CASE born[current] < born[c]
          BY <1>1, <2>1, <3>3, <4>1, <5>3
        <5> QED
          BY <3>1, <5>1, <5>2, <5>3
      <4> QED
        BY <4>2, <4>3
    <3>5. FreedBehind'
      BY <2>1, <2>2, <3>4 DEF FreedBehind
    <3> QED
      BY <2>1, <3>3, <3>5 DEF TouchesFreedOnlyIf
  <2> QED
    BY <2>3, <2>4
<1>5. CASE Exit
  <2>1. ~ub /\ main' = "exit" /\ ub' = ub
    BY <1>5 DEF Exit, MainAt
  <2> QED
    BY <2>1 DEF FreedBehind, Freeing, TouchesFreedOnlyIf
<1> QED
  BY <1>2, <1>3, <1>4, <1>5 DEF TearDown

(* Beside main only the clients' threads use what it frees.                *)
LEMMA TransportStepInv ==
  TransportInv /\ [TransportNext]_transportVars => TransportInv'
<1> SUFFICES ASSUME TransportInv, [TransportNext]_transportVars PROVE TransportInv'
  OBVIOUS
<1> USE DEF TransportInv
<1>1. TypesInv' /\ LifeInv' /\ Untouched'
  BY TypesStepInv, UntouchedKept
<1>2. CASE TearDown \/ CannotCapture
  BY <1>1, <1>2, TearDownStep
<1>3. CASE BeforeFreeing'
  BY <1>1, <1>3
     DEF BeforeFreeing, Untouched, ListUntouched, TouchesFreedOnlyIf, FreedBehind, Freeing
<1>4. CASE ~BeforeFreeing /\ ~TearDown /\ ~CannotCapture
  <2>1. /\ ~StartListener /\ ~Capture /\ ~CaptureEnds /\ ~Serve
        /\ ~SetUp("serving") /\ ~SetUp("ended")
    BY <1>4 DEF BeforeFreeing, LifeInv, Freeing, StartListener, Capture, CaptureEnds,
       Serve, SetUp, MainAt
  <2>2. ASSUME NEW c \in Clients, Run(c)
        PROVE  FreedBehind' /\ TouchesFreedOnlyIf'
    <3>1. ~ub /\ UNCHANGED <<clients, next, node, born, curr, prev, ub, mainVars>>
      BY <2>2, RunsThread, ThreadLeaves DEF Run
    <3> QED
      BY <3>1 DEF mainVars, FreedBehind, Freeing, NewestFirst, Unreferenced,
         TouchesFreedOnlyIf
  <2>3. ASSUME NEW c \in Clients, RunOnFreed(c)
        PROVE  FreedBehind' /\ TouchesFreedOnlyIf'
    <3>1. /\ main # "exit" /\ Running(c)
          /\ UNCHANGED <<clients, next, node, born, curr, prev, tpc, mainVars>>
      BY <2>3 DEF RunOnFreed, UsesFreed, Running, listenerVars, captureVars
    <3>2. Freeing /\ Freeing' /\ Running(c)'
      BY <1>4, <3>1 DEF BeforeFreeing, Freeing, LifeInv, Running, mainVars
    <3> QED
      BY <3>1, <3>2 DEF mainVars, FreedBehind, Freeing, NewestFirst, Unreferenced,
         TouchesFreedOnlyIf
  <2>4. CASE Rest \/ UNCHANGED transportVars
    <3>1. UNCHANGED <<clients, next, node, born, mpc, curr, prev, handle, tpc, ub, main,
                      current, reaped>>
      BY <2>4 DEF Rest, transportVars, mainVars, vars, listVars, captureVars, listenerVars
    <3>2. FreedBehind'
      BY <3>1 DEF FreedBehind, Freeing, NewestFirst, Unreferenced
    <3>3. TouchesFreedOnlyIf'
      BY <3>1 DEF Freeing, TouchesFreedOnlyIf, Running
    <3> QED
      BY <1>1, <3>2, <3>3
  <2> QED
    BY <1>1, <1>4, <2>1, <2>2, <2>3, <2>4 DEF TransportNext
<1>5. CASE BeforeFreeing /\ ~BeforeFreeing'
  <2>1. Join \/ CannotCapture
    BY <1>5, FreeingBegins
  <2> QED
    BY <1>2, <2>1 DEF TearDown
<1> QED
  BY <1>2, <1>3, <1>4, <1>5

(* TransportInv holds at first.                                            *)
LEMMA TransportInitInv == TransportInit => TransportInv
<1> SUFFICES ASSUME TransportInit PROVE TransportInv
  OBVIOUS
<1>1. TypesInv /\ LifeInv
  BY TypesInitInv
<1>2. ListUntouched
  BY DEF TransportInit, Init, ListInit, ListUntouched
<1>3. FreedBehind /\ TouchesFreedOnlyIf
  BY <1>2 DEF ListUntouched, TransportInit, FreedBehind, Freeing, TouchesFreedOnlyIf
<1> QED
  BY <1>1, <1>2, <1>3 DEF TransportInv, Untouched

(* In the whole life of the program undefined behaviour comes only after   *)
(* broadcast has freed a client, from a client's thread that still runs    *)
(* while main frees the room, or from closing a handle that is not the     *)
(* client's own.                                                           *)
THEOREM FreedTouchedOnlyThen == TransportSpec => []TouchesFreedOnlyIf
<1>1. TransportInit => TransportInv
  BY TransportInitInv
<1>2. TransportInv => TouchesFreedOnlyIf
  BY DEF TransportInv
<1> QED
  BY <1>1, <1>2, TransportStepInv, PTL DEF TransportSpec
-----------------------------------------------------------------------------
(* Which sockets are left open.                                            *)

(* A list from which nobody was ever unlinked: a walk reaches every client *)
(* but the joining one, which is linked to the head.                       *)
ListWhole ==
  /\ lpc \in Linked => next[new] = clients
  /\ \A c \in Clients :
       node[c] = "live" => c \in Listed \/ (c = new /\ lpc \in Linked)

(* While broadcast has freed no client, the list is whole, and the walk of *)
(* freeClients has before it all clients that are still allocated.         *)
NoneLost ==
  reaped = {} =>
    /\ BeforeFreeing /\ mpc \notin {"reap", "stray"} => ListWhole
    /\ \A c \in Clients :
         node[c] = "live" =>
           /\ main = "freeBuffers" => c \in Listed
           /\ main = "freeClients" => c \in Reach(node, next, current)
           /\ main # "exit"

(* A socket is opened with a connection and closed with its client, or     *)
(* when Winsock ends.                                                      *)
SocketsKept ==
  /\ lpc \in {"accept", "closed"} => new = Null
  /\ lpc \in BeforePublish => new \in sockets
  /\ WinsockEnded => sockets = {}
  /\ ~WinsockEnded => \A c \in Clients : node[c] = "live" => c \in sockets
  /\ \A c \in sockets \ {Null} :
       node[c] = "live" \/ c = new \/ (node[c] = "freed" /\ tpc[c] = "none")

(* Only broadcast takes clients off the list.                              *)
LEMMA WholeStep ==
  ASSUME ListInv, ListWhole, [ListNext]_listVars, ~UnlinkClient, ~Reap
  PROVE  ListWhole'
<1> USE DEF ListWhole
<1>0. ListTypeOK /\ JoinSafe
  BY DEF ListInv
<1>1. ASSUME UNCHANGED <<clients, next, node>>,
             lpc' \in Linked <=> lpc \in Linked, lpc \in Linked => UNCHANGED new
      PROVE  ListWhole'
  BY <1>1 DEF Listed
<1>2. ASSUME NEW c \in Clients, Accept(c)
      PROVE  ListWhole'
  BY <1>1, <1>2 DEF Linked, Accept, ListenerAt
<1>3. CASE \/ AcceptLast \/ GreetLock \/ GreetCopy \/ GreetOk \/ GreetAgain
           \/ Spawn \/ StoreHandle \/ StoreIntoFreed
  BY <1>1, <1>3 DEF Linked, AcceptLast, GreetLock, GreetCopy, GreetOk, GreetAgain,
     ListenerStep, Spawn, StoreHandle, StoreIntoFreed, ListenerAt
<1>4. CASE \/ CallBroadcast \/ LoadHead \/ Signal \/ KeepClient \/ WaitAstray
           \/ CloseAstray \/ WalkIntoFreed \/ Undefined \/ UNCHANGED listVars
  BY <1>1, <1>4 DEF listenerVars, listVars, CallBroadcast, LoadHead, Signal, KeepClient,
     WaitAstray, CloseAstray, WalkIntoFreed, Undefined
<1>5. ASSUME NEW c \in Clients,
             \/ TakeToken(c) \/ ThreadLock(c) \/ ThreadCopy(c)
             \/ SendOk(c) \/ SendFails(c) \/ Stop(c) \/ Return(c)
      PROVE  ListWhole'
  BY <1>1, <1>5 DEF listenerVars, TakeToken, ThreadLock, ThreadCopy, SendOk, SendFails,
     Stop, Return, ThreadStep, ThreadAt
<1>6. CASE AllocNode \/ AllocFails \/ GreetFails
  <2>1. Listed' = Listed
    BY <1>6, JoiningIsUnseen
  <2>2. new \in Clients /\ UNCHANGED clients
    BY <1>0, <1>6 DEF ListTypeOK, AllocNode, AllocFails, GreetFails, DropNode, ListenerAt
  <2>3. CASE AllocNode
    <3>1. /\ lpc' \in Linked /\ UNCHANGED new /\ next'[new] = clients
          /\ lpc \notin Linked
          /\ \A c \in Clients : node'[c] = "live" => c = new \/ node[c] = "live"
      BY <1>0, <2>2, <2>3 DEF ListTypeOK, Linked, AllocNode, ListenerAt
    <3> QED
      BY <2>1, <2>2, <3>1
  <2>4. CASE AllocFails \/ GreetFails
    <3>1. /\ lpc' \notin Linked
          /\ \A c \in Clients : node'[c] = "live" => c # new /\ node[c] = "live"
      BY <1>0, <2>2, <2>4 DEF ListTypeOK, Linked, AllocFails, GreetFails, DropNode, ListenerAt
    <3> QED
      BY <2>1, <3>1
  <2> QED
    BY <1>6, <2>3, <2>4
<1>7. CASE Publish
  <2>1. /\ new \in Clients /\ clients' = new /\ UNCHANGED <<next, node, new>>
        /\ lpc \in Linked /\ lpc' \notin Linked /\ node[new] = "live"
    BY <1>0, <1>7 DEF ListTypeOK, JoinSafe, BeforePublish, Linked, Publish, ListenerAt
  <2>2. Listed' = Reach(node, next, new) /\ Listed = Reach(node, next, next[new])
    BY <2>1 DEF Listed
  <2>3. new \in Listed' /\ Listed \subseteq Listed'
    BY <2>1, <2>2, ReachStart, ReachNext
  <2> QED
    BY <2>1, <2>3
<1> QED
  BY <1>2, <1>3, <1>4, <1>5, <1>6, <1>7 DEF ListNext, WalkStep

(* As long as broadcast has freed no client nothing is lost.               *)
LEMMA WholeUntilReap ==
  ASSUME TypesInv, NoneLost, [TransportNext]_transportVars,
         reaped' = {}, BeforeFreeing', mpc' \notin {"reap", "stray"}
  PROVE  ListWhole'
<1>1. BeforeFreeing /\ RoomInv /\ [Next]_vars
  BY NoWayBack, ProgramStepsRoom DEF TypesInv, RoomKept
<1>2. ListInv /\ [ListNext]_listVars
  BY <1>1, RoomStepsList DEF RoomInv, PartsInv
<1>3. reaped = {} /\ (mpc \in {"reap", "stray"} => mpc' \in {"reap", "stray"})
  BY ReapIsNoted
<1>4. ~Reap /\ ~UnlinkClient
  BY <1>3 DEF Reap, MayReap, Visit, UnlinkClient, CaptureAt
<1> QED
  BY <1>1, <1>2, <1>3, <1>4, WholeStep DEF NoneLost

(* main frees the clients that are before it on the list.                  *)
LEMMA FreeNodeGoesOn ==
  ASSUME TransportInv, NoneLost, FreeNode, reaped = {}
  PROVE  \A c \in Clients : node'[c] = "live" => c \in Reach(node', next', current')
<1> USE DEF TransportInv
<1>1. /\ ListTypeOK /\ NewestFirst /\ main = "freeClients" /\ current \in Clients
      /\ UNCHANGED next /\ node' = [node EXCEPT ![current] = "freed"]
  BY DEF TypesInv, TransportTypeOK, TypeOK, FreedBehind, Freeing, CurrentOK, FreeNode
<1>2. node[current] # "freed"
  BY <1>1, ListAssumption DEF FreedBehind, ListTypeOK
<1>3. current' = next[current]
  BY <1>2 DEF FreeNode, NextClient
<1> DEFINE Older == {d \in Clients : born[d] < born[current]}
<1>4. /\ next[current] \in Older \cup {Null}
      /\ \A d \in Older : next[d] \in Older \cup {Null}
      /\ current \notin Older
  BY <1>1, ListAssumption DEF ListTypeOK, NewestFirst
<1>5. \A d \in Older : node'[d] = node[d] /\ next'[d] = next[d]
  BY <1>1, <1>4 DEF ListTypeOK
<1>6. Reach(node, next, next[current]) = Reach(node', next', next[current])
  <2> HIDE DEF Older
  <2>1. Older \in SUBSET Clients
    BY DEF Older
  <2> QED
    BY <1>4, <1>5, <2>1, ReachWithin
<1> SUFFICES ASSUME NEW c \in Clients, node'[c] = "live"
             PROVE  c \in Reach(node, next, next[current])
  BY <1>3, <1>6
<1>7. c # current /\ node[c] = "live"
  BY <1>1 DEF ListTypeOK
<1>8. c \in Reach(node, next, current)
  BY <1>1, <1>7 DEF NoneLost
<1> QED
  BY <1>1, <1>7, <1>8, ReachUnfold

(* NoneLost is kept.                                                       *)
LEMMA NoneLostStep ==
  TransportInv /\ SocketsKept /\ NoneLost /\ [TransportNext]_transportVars => NoneLost'
<1> SUFFICES ASSUME TransportInv, SocketsKept, NoneLost, [TransportNext]_transportVars,
                    reaped' = {}
             PROVE  NoneLost'
  BY DEF NoneLost
<1> USE DEF TransportInv
<1>1. reaped = {}
  BY ReapIsNoted
<1>2. CASE BeforeFreeing'
  BY <1>2, WholeUntilReap DEF NoneLost, BeforeFreeing
<1>3. CASE BeforeFreeing /\ ~BeforeFreeing'
  <2>1. Join \/ CannotCapture
    BY <1>3, FreeingBegins
  <2>2. /\ mpc = "idle" /\ lpc \in {"accept", "closed"} /\ main' = "freeBuffers"
        /\ UNCHANGED <<clients, next, node>>
    BY <1>3, <2>1 DEF LifeInv, BeforeFreeing, Join, MayJoin, CannotCapture, MainAt, vars,
       listVars
  <2>3. \A c \in Clients : node[c] = "live" => c \in Listed
    BY <1>1, <1>3, <2>2 DEF NoneLost, ListWhole, Linked
  <2> QED
    BY <2>2, <2>3 DEF NoneLost, BeforeFreeing, Listed
<1>4. CASE FreeBuffer
  <2>1. /\ main = "freeBuffers" /\ UNCHANGED <<clients, next, node>>
        /\ main' = "freeClients" /\ current' = clients
    BY <1>4, FreesOneBuffer DEF FreeBuffer
  <2> QED
    BY <1>1, <2>1 DEF NoneLost, BeforeFreeing, Listed
<1>5. CASE FreeNode
  <2>1. main' = "freeClients"
    BY <1>5 DEF FreeNode, TypesInv, CurrentOK
  <2> QED
    BY <1>1, <1>5, <2>1, FreeNodeGoesOn DEF NoneLost, BeforeFreeing
<1>6. CASE Exit
  <2>1. /\ main = "freeClients" /\ main' = "exit" /\ current = Null /\ UNCHANGED node
    BY <1>6 DEF Exit, MainAt
  <2>2. Reach(node, next, current) = {}
    BY <2>1, ReachNothing, ListAssumption
  <2> QED
    BY <1>1, <2>1, <2>2 DEF NoneLost, BeforeFreeing
<1>7. CASE ~BeforeFreeing /\ ~TearDown
  <2>1. UNCHANGED <<clients, next, node, main, current>>
    BY <1>7, BesideMain DEF mainVars
  <2> QED
    BY <1>1, <1>7, <2>1 DEF NoneLost, BeforeFreeing, Listed
<1> QED
  BY <1>2, <1>3, <1>4, <1>5, <1>6, <1>7, NoWayBack DEF TearDown, Join, MainAt, BeforeFreeing

(* The capture thread closes the socket of the client that it frees.       *)
LEMMA CaptureCloses ==
  ASSUME TypesInv, SocketsKept, Capture
  PROVE  SocketsKept'
<1>1. ListTypeOK /\ UNCHANGED <<lpc, new, tpc>>
  BY CaptureLeaves DEF TypesInv, TransportTypeOK, TypeOK, Capture
<1>2. CASE Reaping
  <2>1. curr \in Clients /\ node' = [node EXCEPT ![curr] = "freed"]
    BY <1>1, <1>2 DEF Reaping, ListTypeOK, Capture, CaptureNext, BeginPublication, LockHead,
       FillHead, ReleaseHead, SignalClient, WalkOn, CaptureAt, CallBroadcast, LoadHead,
       Signal, KeepClient, UnlinkClient, WaitAstray, CloseAstray, Reap, WalkIntoFreed,
       captureVars
  <2>2. sockets' = sockets \ {curr}
    BY <1>2 DEF Capture
  <2>3. lpc \in BeforePublish => curr # new
    BY <1>2 DEF TypesInv, RoomKept, BeforeFreeing, Capture, RoomInv, PartsInv, ListInv,
       JoinSafe, Unreferenced
  <2> QED
    BY <1>1, <2>1, <2>2, <2>3, ListAssumption DEF SocketsKept, WinsockEnded, ListTypeOK
<1>3. CASE ~Reaping
  <2>1. UNCHANGED <<node, sockets>>
    BY <1>3 DEF Reaping, Capture, CaptureNext, BeginPublication, LockHead, FillHead,
       ReleaseHead, SignalClient, WalkOn, CaptureAt, CallBroadcast, LoadHead, Signal,
       KeepClient, UnlinkClient, WaitAstray, CloseAstray, Reap, MayReap, Visit,
       WalkIntoFreed, listVars
  <2> QED
    BY <1>1, <2>1 DEF SocketsKept, WinsockEnded
<1> QED
  BY <1>2, <1>3

(* The listener opens one with each connection; a client that it gives up  *)
(* keeps it.  When it ends Winsock, none is left.                          *)
LEMMA ListenerOpens ==
  ASSUME TypesInv, LifeInv, SocketsKept, Serve
  PROVE  SocketsKept'
<1>1. ListTypeOK /\ JoinSafe
  BY DEF TypesInv, TransportTypeOK, TypeOK, LifeInv, Freeing, RoomKept, BeforeFreeing,
     RoomInv, PartsInv, ListInv, Serve
<1>2. /\ ListenerNext
      /\ IF lpc' = "closed"
         THEN sockets' \in {{}, sockets \cup {Null}}
         ELSE sockets' = IF lpc = "accept" THEN sockets \cup {new'} ELSE sockets
  BY DEF Serve
<1> USE DEF SocketsKept, WinsockEnded
<1>3. ASSUME NEW c \in Clients, Accept(c)
      PROVE  SocketsKept'
  BY <1>2, <1>3, ListAssumption DEF Accept, ListenerAt, BeforePublish
<1>4. CASE AcceptLast
  <2>1. /\ lpc = "accept" /\ lpc' = "closed" /\ UNCHANGED <<new, node, tpc>>
        /\ sockets' \in {{}, sockets \cup {Null}}
    BY <1>2, <1>4 DEF AcceptLast, ListenerAt
  <2> QED
    BY <2>1 DEF BeforePublish
<1>5. CASE AllocNode
  <2>1. /\ new \in sockets /\ lpc' = "lock" /\ UNCHANGED <<sockets, new, tpc>>
        /\ \A c \in Clients : node'[c] = node[c] \/ (c = new /\ node'[c] = "live")
    BY <1>1, <1>2, <1>5 DEF ListTypeOK, AllocNode, ListenerAt, BeforePublish
  <2>2. sockets \ {Null} \subseteq Clients
    BY DEF TypesInv, TransportTypeOK
  <2> QED
    BY <2>1, <2>2
<1>6. CASE AllocFails \/ GreetFails
  <2>1. /\ new \in Clients /\ tpc[new] = "none" /\ lpc \in BeforePublish
        /\ lpc' = "accept" /\ new' = Null
        /\ UNCHANGED <<sockets, tpc>> /\ node' = [node EXCEPT ![new] = "freed"]
    BY <1>1, <1>2, <1>6
       DEF ListTypeOK, JoinSafe, BeforePublish, AllocFails, GreetFails, DropNode, ListenerAt
  <2>2. sockets \ {Null} \subseteq Clients
    BY DEF TypesInv, TransportTypeOK
  <2> QED
    BY <1>1, <2>1, <2>2 DEF ListTypeOK, BeforePublish
<1>7. CASE GreetLock \/ GreetCopy \/ GreetOk \/ GreetAgain \/ Publish \/ StoreIntoFreed
  <2>1. /\ UNCHANGED <<sockets, new, node, tpc>> /\ lpc' \notin {"accept", "closed"}
        /\ lpc # "closed"
        /\ lpc \in BeforePublish \/ lpc' \notin BeforePublish
    BY <1>2, <1>7 DEF GreetLock, GreetCopy, GreetOk, GreetAgain, ListenerStep, Publish,
       StoreIntoFreed, ListenerAt, BeforePublish
  <2> QED
    BY <2>1
<1>8. CASE Spawn
  <2>1. /\ UNCHANGED <<sockets, new, node>> /\ lpc = "spawn" /\ lpc' = "store" /\ node[new] = "live"
        /\ new \in Clients /\ tpc' = [tpc EXCEPT ![new] = "wait"]
    BY <1>1, <1>2, <1>8 DEF ListTypeOK, JoinSafe, BeforePublish, Spawn, ListenerAt
  <2> QED
    BY <1>1, <2>1 DEF ListTypeOK, BeforePublish
<1>9. CASE StoreHandle
  BY <1>1, <1>2, <1>9 DEF ListTypeOK, StoreHandle, ListenerAt, BeforePublish
<1> QED
  BY <1>2, <1>3, <1>4, <1>5, <1>6, <1>7, <1>8, <1>9 DEF ListenerNext, AcceptClient,
     LockSnapshot, CopySnapshot, SendSnapshot, SnapshotFails, SendSnapshotAgain, Register,
     ListenerElse

(* SocketsKept is kept.                                                    *)
LEMMA SocketsStep ==
  TypesInv /\ LifeInv /\ SocketsKept /\ [TransportNext]_transportVars => SocketsKept'
<1> SUFFICES ASSUME TypesInv, LifeInv, SocketsKept, [TransportNext]_transportVars
             PROVE  SocketsKept'
  OBVIOUS
<1>1. ListTypeOK
  BY DEF TypesInv, TransportTypeOK, TypeOK
<1>2. CASE FreeNode
  <2>1. /\ current \in Clients /\ node' = [node EXCEPT ![current] = "freed"]
        /\ sockets' = sockets \ {current} /\ UNCHANGED <<lpc, new, tpc>>
    BY <1>2 DEF TypesInv, CurrentOK, FreeNode, listenerVars
  <2>2. lpc \notin BeforePublish
    BY <1>2 DEF LifeInv, Freeing, FreeNode, BeforePublish
  <2> QED
    BY <1>1, <2>1, <2>2, ListAssumption DEF SocketsKept, WinsockEnded, ListTypeOK
<1>3. ASSUME NEW c \in Clients, Run(c)
      PROVE  SocketsKept'
  <2>1. UNCHANGED <<node, lpc, new, sockets>>
    BY <1>3, RunsThread, ThreadLeaves DEF Run, mainVars
  <2>2. \A d \in Clients : tpc[d] = "none" => tpc'[d] = "none"
    BY <1>1, <1>3 DEF ListTypeOK, Run, ThreadLocal, SendOn, StepCursor, LockBuffer,
       CopyBuffer, SendBuffer, SendBufferFails, GiveUp, TakeToken, ThreadLock,
       ThreadCopy, SendOk, SendFails, Stop, Return, ThreadStep, ThreadAt
  <2>3. sockets \ {Null} \subseteq Clients
    BY DEF TypesInv, TransportTypeOK
  <2> QED
    BY <2>1, <2>2, <2>3 DEF SocketsKept, WinsockEnded
<1>4. ASSUME UNCHANGED <<node, lpc, new, tpc, sockets>>
      PROVE  SocketsKept'
  BY <1>4 DEF SocketsKept, WinsockEnded
<1>5. CASE \/ CannotCapture \/ StartListener \/ CaptureEnds \/ Join \/ FreeBuffer \/ Exit
           \/ SetUp("serving") \/ SetUp("ended") \/ Rest \/ UNCHANGED transportVars
  BY <1>4, <1>5 DEF CannotCapture, StartListener, CaptureEnds, Join, FreeBuffer, Exit,
     SetUp, Rest, transportVars, mainVars, vars, listVars, listenerVars
<1>6. ASSUME NEW c \in Clients, RunOnFreed(c)
      PROVE  SocketsKept'
  BY <1>4, <1>6 DEF RunOnFreed, listenerVars, mainVars
<1> QED
  BY <1>2, <1>3, <1>5, <1>6, CaptureCloses, ListenerOpens DEF TransportNext, TearDown

(* Until the listener ends Winsock every client that is allocated has its  *)
(* connection, and the sockets left open at the end are those of the       *)
(* clients given up, of the connection one too many and, once broadcast    *)
(* has freed a client, of clients lost from the list.                      *)
THEOREM SocketsAreClosed == TransportSpec => []OthersAreClosed
<1>1. TransportInit => TransportInv /\ SocketsKept /\ NoneLost
  <2> SUFFICES ASSUME TransportInit PROVE SocketsKept /\ NoneLost
    BY TransportInitInv
  <2> QED
    BY DEF TransportInit, Init, ListInit, SocketsKept, NoneLost, ListWhole, Linked,
       BeforePublish, WinsockEnded
<1>2. TransportInv /\ SocketsKept /\ NoneLost => OthersAreClosed
  <2>1. TransportInv => sockets \subseteq Clients \cup {Null}
    BY DEF TransportInv, TypesInv, TransportTypeOK
  <2> QED
    BY <2>1 DEF SocketsKept, NoneLost, OthersAreClosed
<1>3. TransportInv /\ SocketsKept /\ NoneLost /\ [TransportNext]_transportVars
        => TransportInv' /\ SocketsKept' /\ NoneLost'
  BY TransportStepInv, SocketsStep, NoneLostStep DEF TransportInv
<1> QED
  BY <1>1, <1>2, <1>3, PTL DEF TransportSpec
=============================================================================

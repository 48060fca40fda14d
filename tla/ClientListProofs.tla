-------------------------- MODULE ClientListProofs --------------------------
(***************************************************************************)
(* Theorems about ClientList, for every set of connections, accept limit   *)
(* and semaphore maximum: the types, that no client thread touches a freed *)
(* node, that broadcast unlinks the node it stands on, that the links lead *)
(* from newer to older clients.  None of them needs fairness.              *)
(***************************************************************************)
EXTENDS ClientList, TLAPS

(* The states of a thread that is past its last access to its MY_CLIENT.   *)
Done == {"stopped", "exited"}

(* No pointer that the capture thread loads leads to c.                    *)
Unreferenced(c) ==
  /\ clients # c /\ curr # c /\ prev # c
  /\ \A d \in Clients : next[d] # c

(* A client says it has stopped only when its thread is past its last      *)
(* access, and a node not allocated yet is out of everybody's reach.       *)
ThreadsSafe ==
  /\ \A c \in Clients : node[c] = "none" => tpc[c] = "none" /\ Unreferenced(c)
  /\ \A c \in Clients : ~working[c] => tpc[c] \in Done
  /\ NoThreadOnFreedNode

(* The walk stands on a node that is allocated; while it frees that node   *)
(* the node before it already leads past it.                               *)
WalkSafe ==
  /\ mpc \in {"test", "reap", "stray"} => node[curr] = "live"
  /\ mpc \in {"reap", "stray"} => tpc[curr] \in Done
  /\ mpc \in {"reap", "stray"} /\ prev # Null =>
       node[prev] = "live" /\ prev # curr /\ next[prev] = next[curr]
  /\ UnlinkIsExact

(* The client that is joining is the newest and, until it is published,    *)
(* known to the listener only.                                             *)
JoinSafe ==
  /\ \A c \in Clients : born[c] <= count
  /\ lpc \in BeforePublish =>
       /\ Unreferenced(new)
       /\ born[new] = count
       /\ \A c \in Clients \ {new} : born[c] < count
  /\ lpc \in BeforePublish \cup {"spawn"} => tpc[new] = "none"
  /\ lpc \in (BeforePublish \ {"alloc"}) \cup {"spawn"} => node[new] = "live"

(* The conjunction is inductive.                                           *)
ListInv == ListTypeOK /\ ThreadsSafe /\ WalkSafe /\ JoinSafe /\ NewestFirst

(* Only clients are on the list.                                           *)
LEMMA ListedInClients == Listed \subseteq Clients
  BY DEF Listed, Reach

(* The initial state satisfies the invariant.                              *)
LEMMA ListInitInv == ListInit => ListInv
<1> SUFFICES ASSUME ListInit PROVE ListInv
  OBVIOUS
<1> USE ListAssumption DEF ListInit
<1>1. ListTypeOK
  <2>1. /\ 0 \in 0 .. SemMax
        /\ 0 \in 0 .. AcceptLimit
        /\ 0 \in 0 .. AcceptLimit + 1
    OBVIOUS
  <2>2. /\ sem \in [Clients -> 0 .. SemMax]
        /\ born \in [Clients -> 0 .. AcceptLimit]
    BY <2>1
  <2>3. /\ next \in [Clients -> Clients \cup {Null}]
        /\ node \in [Clients -> {"none", "live", "freed"}]
    OBVIOUS
  <2>4. /\ working \in [Clients -> BOOLEAN]
        /\ handle \in [Clients -> BOOLEAN]
    OBVIOUS
  <2>5. tpc \in [Clients -> Waiting \cup {"failed", "stopped", "exited"}]
    BY DEF Waiting
  <2>6. /\ clients \in Clients \cup {Null}
        /\ curr \in Clients \cup {Null} /\ prev \in Clients \cup {Null}
        /\ new \in Clients \cup {Null}
    OBVIOUS
  <2>7. lost \subseteq Clients /\ owed \in [Clients -> 0 .. 2]
    OBVIOUS
  <2> QED
    BY <2>1, <2>2, <2>3, <2>4, <2>5, <2>6, <2>7 DEF ListTypeOK
<1>2. ThreadsSafe
  BY DEF ThreadsSafe, NoThreadOnFreedNode, Unreferenced
<1>3. WalkSafe
  BY DEF WalkSafe, UnlinkIsExact
<1>4. JoinSafe
  BY DEF JoinSafe, BeforePublish
<1>5. NewestFirst
  BY DEF NewestFirst
<1> QED
  BY <1>1, <1>2, <1>3, <1>4, <1>5 DEF ListInv

-----------------------------------------------------------------------------
(* Each part of the invariant is kept by every step.                       *)

(* The types need nothing but themselves.                                  *)
LEMMA TypeStep == ListInv /\ [ListNext]_listVars => ListTypeOK'
<1> SUFFICES ASSUME ListInv, [ListNext]_listVars PROVE ListTypeOK'
  OBVIOUS
<1> USE ListAssumption DEF ListInv, ghosts
<1>1. ASSUME NEW c \in Clients, Accept(c)
      PROVE  ListTypeOK'
  BY <1>1 DEF ListTypeOK, BeforePublish, captureVars, Accept, ListenerAt
<1>2. CASE AcceptLast
  BY <1>2 DEF ListTypeOK, captureVars, AcceptLast, ListenerAt
<1>3. CASE AllocNode
  BY <1>3 DEF ListTypeOK, BeforePublish, captureVars, AllocNode, ListenerAt
<1>4. CASE AllocFails \/ GreetFails
  BY <1>4 DEF ListTypeOK, captureVars, AllocFails, GreetFails, DropNode,
     ListenerAt
<1>5. CASE GreetLock \/ GreetCopy \/ GreetOk \/ GreetAgain
  BY <1>5 DEF ListTypeOK, BeforePublish, captureVars, GreetLock, GreetCopy,
     GreetOk, GreetAgain, ListenerStep, ListenerAt
<1>6. CASE Publish
  <2>1. lost' \subseteq Clients
    BY <1>6, ListedInClients DEF ListTypeOK, Publish
  <2>2. owed' \in [Clients -> 0 .. 2]
    <3>1. (IF mpc = "load" THEN 1 ELSE 0) \in 0 .. 2
      OBVIOUS
    <3> QED
      BY <1>6, <3>1 DEF ListTypeOK, Publish
  <2> QED
    BY <1>6, <2>1, <2>2 DEF ListTypeOK, captureVars, Publish, ListenerAt
<1>7. CASE Spawn
  BY <1>7 DEF ListTypeOK, Waiting, captureVars, Spawn, ListenerAt
<1>8. CASE StoreHandle \/ StoreIntoFreed
  BY <1>8 DEF ListTypeOK, BeforePublish, Waiting, captureVars,
     listenerVars, listVars, StoreHandle, StoreIntoFreed, ListenerAt
<1>9. CASE CallBroadcast
  <2>1. owed' \in [Clients -> 0 .. 2]
    BY <1>9 DEF ListTypeOK, CallBroadcast
  <2> QED
    BY <1>9, <2>1 DEF ListTypeOK, listenerVars, CallBroadcast
<1>10. CASE LoadHead
  BY <1>10 DEF ListTypeOK, listenerVars, LoadHead, Visit
<1>11. CASE Signal
  BY <1>11 DEF ListTypeOK, listenerVars, Signal, CaptureAt
<1>12. CASE KeepClient
  BY <1>12 DEF ListTypeOK, listenerVars, KeepClient, CaptureAt, Visit
<1>13. CASE UnlinkClient
  <2>1. lost' \subseteq Clients
    BY <1>13, ListedInClients DEF ListTypeOK, UnlinkClient
  <2> QED
    BY <1>13, <2>1 DEF ListTypeOK, listenerVars, UnlinkClient, CaptureAt
<1>14. CASE Reap
  <2>1. lost' \subseteq Clients
    BY <1>14, ListedInClients DEF ListTypeOK, Reap
  <2> QED
    BY <1>14, <2>1 DEF ListTypeOK, listenerVars, Reap, MayReap, Visit
<1>15. CASE \/ WaitAstray \/ CloseAstray \/ WalkIntoFreed
            \/ Undefined \/ UNCHANGED listVars
  BY <1>15 DEF ListTypeOK, BeforePublish, Waiting, captureVars,
     listenerVars, listVars, WaitAstray, CloseAstray, WalkIntoFreed,
     Undefined, CaptureAt
<1>16. ASSUME NEW c \in Clients, TakeToken(c)
      PROVE  ListTypeOK'
  BY <1>16 DEF ListTypeOK, Waiting, captureVars, listenerVars, TakeToken,
     ThreadAt
<1>17. ASSUME NEW c \in Clients, \/ ThreadLock(c) \/ ThreadCopy(c)
                                \/ SendOk(c) \/ SendFails(c) \/ Return(c)
      PROVE  ListTypeOK'
  BY <1>17 DEF ListTypeOK, Waiting, captureVars, listenerVars, ThreadLock,
     ThreadCopy, SendOk, SendFails, Return, ThreadStep, ThreadAt
<1>18. ASSUME NEW c \in Clients, Stop(c)
      PROVE  ListTypeOK'
  BY <1>18 DEF ListTypeOK, captureVars, listenerVars, Stop, ThreadAt
<1> QED
  BY <1>1, <1>2, <1>3, <1>4, <1>5, <1>6, <1>7, <1>8, <1>9, <1>10, <1>11,
     <1>12, <1>13, <1>14, <1>15, <1>16, <1>17, <1>18 DEF ListNext, WalkStep

(* What is freed is known to be stopped (Reap), or to be the joining       *)
(* client before it has a thread (AllocFails, GreetFails).                 *)
LEMMA ThreadsStep == ListInv /\ [ListNext]_listVars => ThreadsSafe'
<1> SUFFICES ASSUME ListInv, [ListNext]_listVars PROVE ThreadsSafe'
  OBVIOUS
<1> USE ListAssumption DEF ListInv, ghosts
<1>1. ASSUME NEW c \in Clients, Accept(c)
      PROVE  ThreadsSafe'
  BY <1>1 DEF ThreadsSafe, NoThreadOnFreedNode, Unreferenced, captureVars,
     Accept
<1>2. CASE AcceptLast
  BY <1>2 DEF ThreadsSafe, NoThreadOnFreedNode, Unreferenced, captureVars,
     AcceptLast
<1>3. CASE AllocNode
  BY <1>3 DEF ThreadsSafe, NoThreadOnFreedNode, Unreferenced, captureVars,
     AllocNode
<1>4. CASE AllocFails \/ GreetFails
  BY <1>4 DEF ListTypeOK, ThreadsSafe, NoThreadOnFreedNode, JoinSafe,
     Unreferenced, captureVars, AllocFails, GreetFails, DropNode,
     ListenerAt
<1>5. CASE GreetLock \/ GreetCopy \/ GreetOk \/ GreetAgain
  BY <1>5 DEF ThreadsSafe, NoThreadOnFreedNode, Unreferenced, captureVars,
     GreetLock, GreetCopy, GreetOk, GreetAgain, ListenerStep
<1>6. CASE Publish
  BY <1>6 DEF BeforePublish, ThreadsSafe, NoThreadOnFreedNode, JoinSafe,
     Unreferenced, captureVars, Publish, ListenerAt
<1>7. CASE Spawn
  BY <1>7 DEF ThreadsSafe, NoThreadOnFreedNode, JoinSafe, Unreferenced,
     Done, captureVars, Spawn, ListenerAt
<1>8. CASE StoreHandle \/ StoreIntoFreed
  BY <1>8 DEF ThreadsSafe, NoThreadOnFreedNode, Unreferenced, captureVars,
     StoreHandle, StoreIntoFreed
<1>9. CASE CallBroadcast
  BY <1>9 DEF ThreadsSafe, NoThreadOnFreedNode, Unreferenced, CallBroadcast
<1>10. CASE LoadHead
  BY <1>10 DEF ThreadsSafe, NoThreadOnFreedNode, Unreferenced, LoadHead,
     Visit
<1>11. CASE Signal
  BY <1>11 DEF ThreadsSafe, NoThreadOnFreedNode, Unreferenced, Signal
<1>12. CASE KeepClient
  BY <1>12 DEF ListTypeOK, ThreadsSafe, NoThreadOnFreedNode, Unreferenced,
     KeepClient, CaptureAt, Visit
<1>13. CASE UnlinkClient
  BY <1>13 DEF ListTypeOK, ThreadsSafe, NoThreadOnFreedNode, Unreferenced,
     UnlinkClient, CaptureAt
<1>14. CASE Reap
  BY <1>14 DEF ListTypeOK, ThreadsSafe, NoThreadOnFreedNode, WalkSafe,
     Unreferenced, Done, Reap, MayReap, Visit
<1>15. CASE \/ WaitAstray \/ CloseAstray \/ WalkIntoFreed
            \/ Undefined \/ UNCHANGED listVars
  BY <1>15 DEF ThreadsSafe, NoThreadOnFreedNode, Unreferenced, captureVars,
     WaitAstray, CloseAstray, WalkIntoFreed, Undefined, listVars,
     listenerVars, CaptureAt
<1>16. ASSUME NEW c \in Clients, TakeToken(c)
      PROVE  ThreadsSafe'
  BY <1>16 DEF ThreadsSafe, NoThreadOnFreedNode, Unreferenced, Done,
     captureVars, TakeToken, ThreadAt
<1>17. ASSUME NEW c \in Clients, \/ ThreadLock(c) \/ ThreadCopy(c)
                                \/ SendOk(c) \/ SendFails(c) \/ Return(c)
      PROVE  ThreadsSafe'
  BY <1>17 DEF ListTypeOK, ThreadsSafe, NoThreadOnFreedNode, Unreferenced,
     Done, captureVars, ThreadLock, ThreadCopy, SendOk, SendFails, Return,
     ThreadStep, ThreadAt
<1>18. ASSUME NEW c \in Clients, Stop(c)
      PROVE  ThreadsSafe'
  BY <1>18 DEF ListTypeOK, ThreadsSafe, NoThreadOnFreedNode, Unreferenced,
     Done, captureVars, Stop, ThreadAt
<1> QED
  BY <1>1, <1>2, <1>3, <1>4, <1>5, <1>6, <1>7, <1>8, <1>9, <1>10, <1>11,
     <1>12, <1>13, <1>14, <1>15, <1>16, <1>17, <1>18 DEF ListNext, WalkStep

(* The listener cannot free or relink what the walk stands on, for the     *)
(* walk cannot have reached the client that is joining.                    *)
LEMMA WalkSafeStep == ListInv /\ [ListNext]_listVars => WalkSafe'
<1> SUFFICES ASSUME ListInv, [ListNext]_listVars PROVE WalkSafe'
  OBVIOUS
<1> USE ListAssumption DEF ListInv, ghosts
<1>1. ASSUME NEW c \in Clients, Accept(c)
      PROVE  WalkSafe'
  BY <1>1 DEF WalkSafe, UnlinkIsExact, captureVars, Accept
<1>2. CASE AcceptLast
  BY <1>2 DEF WalkSafe, UnlinkIsExact, captureVars, AcceptLast
<1>3. CASE AllocNode
  BY <1>3 DEF BeforePublish, WalkSafe, UnlinkIsExact, JoinSafe,
     Unreferenced, captureVars, AllocNode, ListenerAt
<1>4. CASE AllocFails \/ GreetFails
  BY <1>4 DEF ListTypeOK, WalkSafe, UnlinkIsExact, JoinSafe, Unreferenced,
     captureVars, AllocFails, GreetFails, DropNode, ListenerAt
<1>5. CASE GreetLock \/ GreetCopy \/ GreetOk \/ GreetAgain
  BY <1>5 DEF WalkSafe, UnlinkIsExact, captureVars, GreetLock, GreetCopy,
     GreetOk, GreetAgain, ListenerStep
<1>6. CASE Publish
  BY <1>6 DEF WalkSafe, UnlinkIsExact, captureVars, Publish
<1>7. CASE Spawn
  BY <1>7 DEF WalkSafe, UnlinkIsExact, JoinSafe, Done, captureVars, Spawn,
     ListenerAt
<1>8. CASE StoreHandle \/ StoreIntoFreed
  BY <1>8 DEF WalkSafe, UnlinkIsExact, captureVars, StoreHandle,
     StoreIntoFreed
<1>9. CASE CallBroadcast
  BY <1>9 DEF WalkSafe, UnlinkIsExact, CallBroadcast
<1>10. CASE LoadHead
  BY <1>10 DEF WalkSafe, UnlinkIsExact, LoadHead, Visit
<1>11. CASE Signal
  BY <1>11 DEF WalkSafe, UnlinkIsExact, Signal, CaptureAt
<1>12. CASE KeepClient
  BY <1>12 DEF WalkSafe, UnlinkIsExact, KeepClient, CaptureAt, Visit
<1>13. CASE UnlinkClient
  BY <1>13 DEF ListTypeOK, ThreadsSafe, WalkSafe, UnlinkIsExact,
     NewestFirst, UnlinkClient, CaptureAt
<1>14. CASE Reap
  BY <1>14 DEF WalkSafe, UnlinkIsExact, Reap, MayReap, Visit
<1>15. CASE \/ WaitAstray \/ CloseAstray \/ WalkIntoFreed
            \/ Undefined \/ UNCHANGED listVars
  BY <1>15 DEF WalkSafe, UnlinkIsExact, captureVars, WaitAstray,
     CloseAstray, WalkIntoFreed, Undefined, listVars, listenerVars,
     CaptureAt
<1>16. ASSUME NEW c \in Clients, TakeToken(c)
      PROVE  WalkSafe'
  BY <1>16 DEF WalkSafe, UnlinkIsExact, Done, captureVars, TakeToken,
     ThreadAt
<1>17. ASSUME NEW c \in Clients, \/ ThreadLock(c) \/ ThreadCopy(c)
                                \/ SendOk(c) \/ SendFails(c) \/ Return(c)
      PROVE  WalkSafe'
  BY <1>17 DEF ListTypeOK, WalkSafe, UnlinkIsExact, Done, captureVars,
     ThreadLock, ThreadCopy, SendOk, SendFails, Return, ThreadStep,
     ThreadAt
<1>18. ASSUME NEW c \in Clients, Stop(c)
      PROVE  WalkSafe'
  BY <1>18 DEF WalkSafe, UnlinkIsExact, Done, captureVars, Stop, ThreadAt
<1> QED
  BY <1>1, <1>2, <1>3, <1>4, <1>5, <1>6, <1>7, <1>8, <1>9, <1>10, <1>11,
     <1>12, <1>13, <1>14, <1>15, <1>16, <1>17, <1>18 DEF ListNext, WalkStep

(* Nothing refers to the joining client until Publish: every pointer that  *)
(* is stored was loaded from one that does not.                            *)
LEMMA JoinStep == ListInv /\ [ListNext]_listVars => JoinSafe'
<1> SUFFICES ASSUME ListInv, [ListNext]_listVars PROVE JoinSafe'
  OBVIOUS
<1> USE ListAssumption DEF ListInv, ghosts
<1>1. ASSUME NEW c \in Clients, Accept(c)
      PROVE  JoinSafe'
  BY <1>1 DEF ListTypeOK, ThreadsSafe, JoinSafe, Unreferenced, captureVars,
     Accept, ListenerAt
<1>2. CASE AcceptLast
  BY <1>2 DEF ListTypeOK, BeforePublish, JoinSafe, AcceptLast, ListenerAt
<1>3. CASE AllocNode
  BY <1>3 DEF ListTypeOK, JoinSafe, Unreferenced, captureVars, AllocNode,
     ListenerAt
<1>4. CASE AllocFails \/ GreetFails
  BY <1>4 DEF BeforePublish, JoinSafe, AllocFails, GreetFails, DropNode,
     ListenerAt
<1>5. CASE GreetLock \/ GreetCopy \/ GreetOk \/ GreetAgain
  BY <1>5 DEF BeforePublish, JoinSafe, Unreferenced, captureVars,
     GreetLock, GreetCopy, GreetOk, GreetAgain, ListenerStep, ListenerAt
<1>6. CASE Publish
  BY <1>6 DEF BeforePublish, JoinSafe, Publish, ListenerAt
<1>7. CASE Spawn
  BY <1>7 DEF BeforePublish, JoinSafe, Spawn, ListenerAt
<1>8. CASE StoreHandle \/ StoreIntoFreed
  BY <1>8 DEF BeforePublish, JoinSafe, StoreHandle, StoreIntoFreed,
     ListenerAt
<1>9. CASE CallBroadcast
  BY <1>9 DEF JoinSafe, Unreferenced, listenerVars, CallBroadcast
<1>10. CASE LoadHead
  BY <1>10 DEF ListTypeOK, BeforePublish, JoinSafe, Unreferenced,
     listenerVars, LoadHead, Visit
<1>11. CASE Signal
  BY <1>11 DEF JoinSafe, Unreferenced, listenerVars, Signal
<1>12. CASE KeepClient
  BY <1>12 DEF ListTypeOK, JoinSafe, Unreferenced, listenerVars,
     KeepClient, CaptureAt, Visit
<1>13. CASE UnlinkClient
  BY <1>13 DEF ListTypeOK, JoinSafe, Unreferenced, listenerVars,
     UnlinkClient, CaptureAt
<1>14. CASE Reap
  BY <1>14 DEF ListTypeOK, WalkSafe, JoinSafe, Unreferenced, Done,
     listenerVars, Reap, MayReap, Visit
<1>15. CASE \/ WaitAstray \/ CloseAstray \/ WalkIntoFreed
            \/ Undefined \/ UNCHANGED listVars
  BY <1>15 DEF JoinSafe, Unreferenced, captureVars, listenerVars,
     WaitAstray, CloseAstray, WalkIntoFreed, Undefined, listVars, CaptureAt
<1>16. ASSUME NEW c \in Clients, TakeToken(c)
      PROVE  JoinSafe'
  BY <1>16 DEF JoinSafe, Unreferenced, captureVars, listenerVars,
     TakeToken, ThreadAt
<1>17. ASSUME NEW c \in Clients, \/ ThreadLock(c) \/ ThreadCopy(c)
                                \/ SendOk(c) \/ SendFails(c) \/ Return(c)
      PROVE  JoinSafe'
  BY <1>17 DEF ListTypeOK, BeforePublish, JoinSafe, Unreferenced,
     captureVars, listenerVars, ThreadLock, ThreadCopy, SendOk, SendFails,
     Return, ThreadStep, ThreadAt
<1>18. ASSUME NEW c \in Clients, Stop(c)
      PROVE  JoinSafe'
  BY <1>18 DEF JoinSafe, Unreferenced, captureVars, listenerVars, Stop,
     ThreadAt
<1> QED
  BY <1>1, <1>2, <1>3, <1>4, <1>5, <1>6, <1>7, <1>8, <1>9, <1>10, <1>11,
     <1>12, <1>13, <1>14, <1>15, <1>16, <1>17, <1>18 DEF ListNext, WalkStep

(* A link is made to an older client by AllocNode, and UnlinkClient joins  *)
(* two links that both lead to older clients.                              *)
LEMMA NewestStep == ListInv /\ [ListNext]_listVars => NewestFirst'
<1> SUFFICES ASSUME ListInv, [ListNext]_listVars PROVE NewestFirst'
  OBVIOUS
<1> USE ListAssumption DEF ListInv, ghosts
<1>1. ASSUME NEW c \in Clients, Accept(c)
      PROVE  NewestFirst'
  BY <1>1 DEF ListTypeOK, ThreadsSafe, JoinSafe, Unreferenced, NewestFirst,
     Accept
<1>2. CASE AcceptLast
  BY <1>2 DEF NewestFirst, AcceptLast
<1>3. CASE AllocNode
  BY <1>3 DEF ListTypeOK, JoinSafe, Unreferenced, NewestFirst, AllocNode,
     ListenerAt
<1>4. CASE AllocFails \/ GreetFails
  BY <1>4 DEF NewestFirst, AllocFails, GreetFails, DropNode
<1>5. CASE GreetLock \/ GreetCopy \/ GreetOk \/ GreetAgain
  BY <1>5 DEF NewestFirst, GreetLock, GreetCopy, GreetOk, GreetAgain,
     ListenerStep
<1>6. CASE Publish
  BY <1>6 DEF NewestFirst, Publish
<1>7. CASE Spawn
  BY <1>7 DEF NewestFirst, Spawn
<1>8. CASE StoreHandle \/ StoreIntoFreed
  BY <1>8 DEF NewestFirst, StoreHandle, StoreIntoFreed
<1>9. CASE CallBroadcast
  BY <1>9 DEF NewestFirst, listenerVars, CallBroadcast
<1>10. CASE LoadHead
  BY <1>10 DEF NewestFirst, listenerVars, LoadHead
<1>11. CASE Signal
  BY <1>11 DEF NewestFirst, listenerVars, Signal
<1>12. CASE KeepClient
  BY <1>12 DEF NewestFirst, listenerVars, KeepClient
<1>13. CASE UnlinkClient
  BY <1>13 DEF ListTypeOK, WalkSafe, UnlinkIsExact, NewestFirst,
     listenerVars, UnlinkClient, CaptureAt
<1>14. CASE Reap
  BY <1>14 DEF NewestFirst, listenerVars, Reap
<1>15. CASE \/ WaitAstray \/ CloseAstray \/ WalkIntoFreed
            \/ Undefined \/ UNCHANGED listVars
  BY <1>15 DEF NewestFirst, listenerVars, WaitAstray, CloseAstray,
     WalkIntoFreed, Undefined, listVars, captureVars, CaptureAt
<1>16. ASSUME NEW c \in Clients, TakeToken(c)
      PROVE  NewestFirst'
  BY <1>16 DEF NewestFirst, listenerVars, TakeToken, ThreadAt
<1>17. ASSUME NEW c \in Clients, \/ ThreadLock(c) \/ ThreadCopy(c)
                                \/ SendOk(c) \/ SendFails(c) \/ Return(c)
      PROVE  NewestFirst'
  BY <1>17 DEF NewestFirst, listenerVars, ThreadLock, ThreadCopy, SendOk,
     SendFails, Return, ThreadStep, ThreadAt
<1>18. ASSUME NEW c \in Clients, Stop(c)
      PROVE  NewestFirst'
  BY <1>18 DEF NewestFirst, listenerVars, Stop, ThreadAt
<1> QED
  BY <1>1, <1>2, <1>3, <1>4, <1>5, <1>6, <1>7, <1>8, <1>9, <1>10, <1>11,
     <1>12, <1>13, <1>14, <1>15, <1>16, <1>17, <1>18 DEF ListNext, WalkStep

(* Together: every step of the list keeps it.                              *)
LEMMA ListStepInv == ListInv /\ [ListNext]_listVars => ListInv'
BY TypeStep, ThreadsStep, WalkSafeStep, JoinStep, NewestStep DEF ListInv

(* ListInv is an invariant of the list.                                    *)
THEOREM ListInvariant == ListSpec => []ListInv
BY ListInitInv, ListStepInv, PTL DEF ListSpec

(* The variables of the list have their types.                             *)
THEOREM ListTypeCorrect == ListSpec => []ListTypeOK
<1>1. ListInv => ListTypeOK
  BY DEF ListInv
<1> QED
  BY <1>1, ListInvariant, PTL

(* No client thread touches a freed MY_CLIENT, however many clients come   *)
(* and fail and however the list is raced on.                              *)
THEOREM ThreadsAreSafe == ListSpec => []NoThreadOnFreedNode
<1>1. ListInv => NoThreadOnFreedNode
  BY DEF ListInv, ThreadsSafe
<1> QED
  BY <1>1, ListInvariant, PTL

(* broadcast unlinks the node it stands on, through an allocated node.     *)
THEOREM UnlinkCorrect == ListSpec => []UnlinkIsExact
<1>1. ListInv => UnlinkIsExact
  BY DEF ListInv, WalkSafe
<1> QED
  BY <1>1, ListInvariant, PTL

(* Links lead from newer to older clients: the list has no cycle.          *)
THEOREM ListIsAcyclic == ListSpec => []NewestFirst
<1>1. ListInv => NewestFirst
  BY DEF ListInv
<1> QED
  BY <1>1, ListInvariant, PTL
=============================================================================

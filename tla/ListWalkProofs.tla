--------------------------- MODULE ListWalkProofs ---------------------------
(***************************************************************************)
(* Theorems about what is on the list of ClientList and what a walk of     *)
(* broadcast reaches, for every set of connections: until a connection     *)
(* fails the unlocked list is sound, and afterwards a walk misses only     *)
(* clients that were off the list.  Reach is defined by closed sets, so    *)
(* that each lemma gives a closed set and none needs induction.            *)
(***************************************************************************)
EXTENDS ClientListProofs

(* What a walk reaches is allocated.                                       *)
LEMMA ReachIsLive ==
  ASSUME NEW nd, NEW nx, NEW x, NEW c \in Reach(nd, nx, x)
  PROVE  c \in Clients /\ nd[c] = "live"
BY DEF Reach

(* A walk reaches the node it starts on.                                   *)
LEMMA ReachStart ==
  ASSUME NEW nd, NEW nx, NEW x \in Clients, nd[x] = "live"
  PROVE  x \in Reach(nd, nx, x)
BY DEF Reach

(* From the null pointer, or from a freed node, nothing is reached.        *)
LEMMA ReachNothing ==
  ASSUME NEW nd, NEW nx, NEW x \in Clients \cup {Null},
         x \in Clients => nd[x] # "live"
  PROVE  Reach(nd, nx, x) = {}
<1>1. Closed(nd, nx, {x})
  BY ListAssumption DEF Closed
<1> QED
  BY <1>1, ListAssumption DEF Reach

(* A walk reaches the node it starts on and what it reaches from the next  *)
(* one.                                                                    *)
LEMMA ReachUnfold ==
  ASSUME NEW nd, NEW nx, NEW x \in Clients
  PROVE  Reach(nd, nx, x) \subseteq {x} \cup Reach(nd, nx, nx[x])
<1> SUFFICES ASSUME NEW c \in Reach(nd, nx, x), c # x,
                    NEW S \in SUBSET (Clients \cup {Null}),
                    nx[x] \in S, Closed(nd, nx, S)
             PROVE  c \in S
  BY DEF Reach
<1>1. Closed(nd, nx, S \cup {x})
  BY DEF Closed
<1> QED
  BY <1>1 DEF Reach

(* What is reached from the next node is reached from a live node.         *)
LEMMA ReachNext ==
  ASSUME NEW nd, NEW nx, NEW x \in Clients, nd[x] = "live"
  PROVE  Reach(nd, nx, nx[x]) \subseteq Reach(nd, nx, x)
BY DEF Reach, Closed

(* A walk that starts in a part of the list which no link leaves depends   *)
(* on that part only.                                                      *)
LEMMA ReachWithin ==
  ASSUME NEW nd, NEW nx, NEW nd2, NEW nx2,
         NEW B \in SUBSET Clients, NEW x \in B \cup {Null},
         \A d \in B : nd[d] = "live" => nx[d] \in B \cup {Null},
         \A d \in B : nd2[d] = nd[d] /\ nx2[d] = nx[d]
  PROVE  Reach(nd, nx, x) = Reach(nd2, nx2, x)
<1>1. ASSUME NEW c \in Reach(nd, nx, x) PROVE c \in Reach(nd2, nx2, x)
  <2>1. \A S \in SUBSET (Clients \cup {Null}) :
          x \in S /\ Closed(nd2, nx2, S) => c \in S /\ c \in B
    <3> TAKE S \in SUBSET (Clients \cup {Null})
    <3> HAVE x \in S /\ Closed(nd2, nx2, S)
    <3>1. Closed(nd, nx, S \cap (B \cup {Null}))
      BY ListAssumption DEF Closed
    <3>2. c \in S \cap (B \cup {Null})
      BY <3>1 DEF Reach
    <3> QED
      BY <3>2, ListAssumption DEF Reach
  <2>2. c \in B
    <3>1. Closed(nd, nx, B \cup {Null})
      BY ListAssumption DEF Closed
    <3> QED
      BY <3>1, ListAssumption DEF Reach
  <2> QED
    BY <2>1, <2>2 DEF Reach
<1>2. ASSUME NEW c \in Reach(nd2, nx2, x) PROVE c \in Reach(nd, nx, x)
  <2>1. \A S \in SUBSET (Clients \cup {Null}) :
          x \in S /\ Closed(nd, nx, S) => c \in S
    <3> TAKE S \in SUBSET (Clients \cup {Null})
    <3> HAVE x \in S /\ Closed(nd, nx, S)
    <3>1. Closed(nd2, nx2, S \cap (B \cup {Null}))
      BY ListAssumption DEF Closed
    <3> QED
      BY <3>1 DEF Reach
  <2>2. c \in B
    <3>1. Closed(nd2, nx2, B \cup {Null})
      BY ListAssumption DEF Closed
    <3> QED
      BY <3>1, ListAssumption DEF Reach
  <2> QED
    BY <2>1, <2>2 DEF Reach
<1> QED
  BY <1>1, <1>2

(* When a node is freed, no walk reaches more than before.                 *)
LEMMA ReachAfterFree ==
  ASSUME NEW nd, NEW nx, NEW nd2, NEW x,
         \A d \in Clients : nd2[d] = "live" => nd[d] = "live"
  PROVE  Reach(nd2, nx, x) \subseteq Reach(nd, nx, x)
<1>1. \A S : Closed(nd, nx, S) => Closed(nd2, nx, S)
  BY DEF Closed
<1> QED
  BY <1>1 DEF Reach

(* When the node before c is linked past c, no walk reaches more than      *)
(* before.                                                                 *)
LEMMA ReachAfterUnlink ==
  ASSUME NEW nd, NEW nx, NEW nx2, NEW x,
         NEW p \in Clients, NEW c \in Clients,
         nx[p] = c, nd[c] = "live", nx2[p] = nx[c],
         \A d \in Clients \ {p} : nx2[d] = nx[d]
  PROVE  Reach(nd, nx2, x) \subseteq Reach(nd, nx, x)
<1>1. \A S : Closed(nd, nx, S) => Closed(nd, nx2, S)
  BY DEF Closed
<1> QED
  BY <1>1 DEF Reach

-----------------------------------------------------------------------------
(* How the steps of the list change what is reached.                       *)

(* No client has stopped because its connection failed.                    *)
NoneStopped == \A c \in Clients : tpc[c] \in Waiting \cup {"failed"}

(* From its allocation to its publication the joining client is linked.    *)
Linked == {"lock", "copy", "greet", "again", "publish"}

(* The joining client comes and goes without a walk noticing it.           *)
LEMMA JoiningIsUnseen ==
  ASSUME ListInv, AllocNode \/ AllocFails \/ GreetFails
  PROVE  /\ \A x \in (Clients \cup {Null}) \ {new} :
              Reach(node', next', x) = Reach(node, next, x)
         /\ Listed' = Listed
<1>1. /\ lpc \in BeforePublish /\ new \in Clients /\ UNCHANGED clients
      /\ clients \in (Clients \cup {Null}) \ {new}
      /\ \A d \in Clients : next[d] \in (Clients \cup {Null}) \ {new}
  BY DEF ListInv, ListTypeOK, JoinSafe, Unreferenced, BeforePublish,
     AllocNode, AllocFails, GreetFails, DropNode, ListenerAt
<1>2. \A d \in Clients \ {new} : node'[d] = node[d] /\ next'[d] = next[d]
  BY DEF ListInv, ListTypeOK, AllocNode, AllocFails, GreetFails, DropNode
<1>3. ASSUME NEW x \in (Clients \cup {Null}) \ {new}
      PROVE  Reach(node', next', x) = Reach(node, next, x)
  <2> DEFINE Others == Clients \ {new}
  <2>1. x \in Others \cup {Null} /\ Others \in SUBSET Clients
    OBVIOUS
  <2>2. \A d \in Others : node[d] = "live" => next[d] \in Others \cup {Null}
    BY <1>1
  <2>3. \A d \in Others : node'[d] = node[d] /\ next'[d] = next[d]
    BY <1>2
  <2> HIDE DEF Others
  <2> QED
    BY <2>1, <2>2, <2>3, ReachWithin
<1> QED
  BY <1>1, <1>3 DEF Listed

(* A walk that is past curr sees nothing of its unlinking and freeing.     *)
LEMMA AheadIsKept ==
  ASSUME ListInv, UnlinkClient \/ Reap
  PROVE  /\ Reach(node', next', next[curr]) = Reach(node, next, next[curr])
         /\ next'[curr] = next[curr]
<1>1. curr \in Clients /\ next[curr] \in Clients \cup {Null}
  BY DEF ListInv, ListTypeOK, UnlinkClient, Reap, MayReap, CaptureAt
<1> DEFINE Older == {d \in Clients : born[d] < born[curr]}
<1>2. next[curr] \in Older \cup {Null}
  BY <1>1 DEF ListInv, NewestFirst
<1>3. \A d \in Older : next[d] \in Older \cup {Null}
  <2> TAKE d \in Older
  <2>1. next[d] \in Clients \cup {Null}
    BY DEF ListInv, ListTypeOK
  <2>2. next[d] # Null => born[next[d]] < born[d] /\ next[d] \in Clients
    BY <2>1 DEF ListInv, NewestFirst
  <2>3. next[d] # Null => born[next[d]] \in Int /\ born[d] \in Int /\ born[curr] \in Int
    BY <1>1, <2>1, ListAssumption DEF ListInv, ListTypeOK
  <2> QED
    BY <2>2, <2>3
<1>4. /\ \A d \in Older : node'[d] = node[d] /\ next'[d] = next[d]
      /\ next'[curr] = next[curr]
  <2>1. CASE UnlinkClient
    <3>1. prev # Null => prev \in Clients /\ born[curr] < born[prev]
      BY <1>1, <2>1 DEF ListInv, ListTypeOK, WalkSafe, UnlinkIsExact,
         NewestFirst, UnlinkClient, CaptureAt
    <3>2. prev # Null => prev \notin Older /\ prev # curr
      BY <1>1, <3>1, ListAssumption DEF ListInv, ListTypeOK
    <3> QED
      BY <1>1, <2>1, <3>2 DEF ListInv, ListTypeOK, UnlinkClient
  <2>2. CASE Reap
    <3>1. curr \notin Older
      BY <1>1, ListAssumption DEF ListInv, ListTypeOK
    <3> QED
      BY <1>1, <2>2, <3>1 DEF ListInv, ListTypeOK, Reap
  <2> QED
    BY <2>1, <2>2
<1>5. Older \in SUBSET Clients
  OBVIOUS
<1> HIDE DEF Older
<1> QED
  BY <1>1, <1>2, <1>3, <1>4, <1>5, ReachWithin

(* Neither makes a walk from a given node reach more.                      *)
LEMMA CaptureShrinks ==
  ASSUME ListInv, UnlinkClient \/ Reap, NEW x
  PROVE  Reach(node', next', x) \subseteq Reach(node, next, x)
<1>1. CASE UnlinkClient /\ prev = Null
  <2>1. UNCHANGED <<node, next>>
    BY <1>1 DEF UnlinkClient
  <2> QED
    BY <2>1
<1>2. CASE UnlinkClient /\ prev # Null
  <2>1. /\ prev \in Clients /\ curr \in Clients
        /\ next[prev] = curr /\ node[curr] = "live"
        /\ UNCHANGED node
    BY <1>2 DEF ListInv, ListTypeOK, WalkSafe, UnlinkIsExact, UnlinkClient, CaptureAt
  <2>2. /\ next'[prev] = next[curr]
        /\ \A d \in Clients \ {prev} : next'[d] = next[d]
    BY <1>2, <2>1 DEF ListInv, ListTypeOK, UnlinkClient
  <2> QED
    BY <2>1, <2>2, ReachAfterUnlink
<1>3. CASE Reap
  <2>1. \A d \in Clients : node'[d] = "live" => node[d] = "live"
    BY <1>3 DEF ListInv, ListTypeOK, Reap
  <2>2. UNCHANGED next
    BY <1>3 DEF Reap
  <2> QED
    BY <2>1, <2>2, ReachAfterFree
<1> QED
  BY <1>1, <1>2, <1>3

-----------------------------------------------------------------------------
(* Until the first failure.                                                *)

(* As long as no client has stopped, nothing is unlinked or freed but a    *)
(* client that is given up before anybody knows it, the joining client is  *)
(* linked to the head, and so every pointer leads to an allocated node.    *)
SoundInv ==
  NoneStopped =>
    /\ ~ub
    /\ mpc \notin {"reap", "stray"}
    /\ \A c \in Clients : tpc[c] # "none" => c \in Listed
    /\ lpc = "spawn" => new \in Listed
    /\ lpc = "store" => tpc[new] # "none"
    /\ lpc \in Linked => next[new] = clients
    /\ clients # Null => node[clients] = "live"
    /\ mpc \in {"signal", "test"} => node[curr] = "live"
    /\ \A c \in Clients : node[c] = "live" /\ next[c] # Null => node[next[c]] = "live"

(* A thread that has stopped stays so.                                     *)
LEMMA StoppedStays == ListInv /\ [ListNext]_listVars /\ NoneStopped' => NoneStopped
<1> SUFFICES ASSUME ListInv, [ListNext]_listVars, NEW c \in Clients,
                    tpc[c] \notin Waiting \cup {"failed"}
             PROVE  tpc'[c] \notin Waiting \cup {"failed"}
  BY DEF NoneStopped
<1>1. tpc[c] \in Done
  BY DEF ListInv, ListTypeOK, Done
<1>2. CASE UNCHANGED tpc
  BY <1>2
<1>3. CASE Spawn
  <2>1. c # new
    BY <1>1, <1>3 DEF ListInv, JoinSafe, Done, Spawn, ListenerAt
  <2> QED
    BY <1>3, <2>1 DEF ListInv, ListTypeOK, Spawn
<1>4. ASSUME NEW d \in Clients, NEW from \in {"wait", "lock", "copy", "send", "failed"},
             NEW to \in Waiting \cup {"failed", "stopped"}, ThreadAt(d, from, to)
      PROVE  tpc'[c] \notin Waiting \cup {"failed"}
  <2>1. c # d
    BY <1>1, <1>4 DEF Done, ThreadAt
  <2> QED
    BY <1>4, <2>1 DEF ListInv, ListTypeOK, ThreadAt
<1>5. ASSUME NEW d \in Clients, Return(d)
      PROVE  tpc'[c] \notin Waiting \cup {"failed"}
  BY <1>5 DEF ListInv, ListTypeOK, Waiting, Return, ThreadStep, ThreadAt
<1>6. ASSUME NEW d \in Clients,
             TakeToken(d) \/ ThreadLock(d) \/ ThreadCopy(d) \/ SendOk(d) \/ SendFails(d) \/ Stop(d)
      PROVE  tpc'[c] \notin Waiting \cup {"failed"}
  BY <1>4, <1>6 DEF Waiting, TakeToken, ThreadLock, ThreadCopy, SendOk, SendFails, Stop, ThreadStep
<1>7. CASE UNCHANGED listVars
  BY <1>2, <1>7 DEF listVars
<1> QED
  BY <1>2, <1>3, <1>5, <1>6, <1>7
     DEF ListNext, WalkStep, Undefined, Accept, AcceptLast, AllocNode, AllocFails,
         GreetFails, DropNode, GreetLock, GreetCopy, GreetOk, GreetAgain,
         ListenerStep, Publish, StoreHandle, StoreIntoFreed, CallBroadcast,
         LoadHead, Signal, KeepClient, UnlinkClient, WaitAstray, CloseAstray, Reap,
         WalkIntoFreed, listVars
(* SoundInv is kept: what could break it needs a client that has stopped.  *)
LEMMA SoundStep == ListInv /\ SoundInv /\ [ListNext]_listVars => SoundInv'
<1> SUFFICES ASSUME ListInv, SoundInv, [ListNext]_listVars, NoneStopped, NoneStopped'
             PROVE  SoundInv'
  BY StoppedStays DEF SoundInv
<1> USE ListAssumption DEF ghosts
<1> DEFINE Sound ==
      /\ ~ub
      /\ mpc \notin {"reap", "stray"}
      /\ \A c \in Clients : tpc[c] # "none" => c \in Listed
      /\ lpc = "spawn" => new \in Listed
      /\ lpc = "store" => tpc[new] # "none"
      /\ lpc \in Linked => next[new] = clients
      /\ clients # Null => node[clients] = "live"
      /\ mpc \in {"signal", "test"} => node[curr] = "live"
      /\ \A c \in Clients : node[c] = "live" /\ next[c] # Null => node[next[c]] = "live"
<1>s. Sound
  BY DEF SoundInv
<1> SUFFICES Sound'
  BY DEF SoundInv
<1>1. ASSUME UNCHANGED <<clients, next, node>> PROVE UNCHANGED Listed
  BY <1>1 DEF Listed
<1>2. ASSUME NEW c \in Clients, Accept(c)
      PROVE  Sound'
  BY <1>s, <1>1, <1>2 DEF ListInv, ListTypeOK, Linked, captureVars, Accept, ListenerAt
<1>3. CASE AcceptLast
  BY <1>s, <1>1, <1>3 DEF Linked, captureVars, AcceptLast, ListenerAt
<1>4. CASE AllocNode
  BY <1>s, <1>4, JoiningIsUnseen
     DEF ListInv, ListTypeOK, JoinSafe, Unreferenced, BeforePublish, Linked,
         captureVars, AllocNode, ListenerAt
<1>5. CASE AllocFails \/ GreetFails
  BY <1>s, <1>5, JoiningIsUnseen
     DEF ListInv, ListTypeOK, JoinSafe, Unreferenced, BeforePublish, Linked,
         captureVars, AllocFails, GreetFails, DropNode, ListenerAt
<1>6. CASE GreetLock \/ GreetCopy \/ GreetOk \/ GreetAgain
  BY <1>s, <1>1, <1>6
     DEF Linked, captureVars, GreetLock, GreetCopy, GreetOk, GreetAgain,
         ListenerStep, ListenerAt
<1>7. CASE Publish
  <2>1. /\ new \in Clients /\ node[new] = "live" /\ next[new] = clients /\ clients' = new
        /\ UNCHANGED <<node, next>>
    BY <1>s, <1>7 DEF ListInv, ListTypeOK, JoinSafe, BeforePublish, Linked, Publish, ListenerAt
  <2>2. Listed \subseteq Listed' /\ new \in Listed'
    BY <2>1, ReachStart, ReachNext DEF Listed
  <2> QED
    BY <1>s, <1>7, <2>1, <2>2 DEF Linked, captureVars, Publish, ListenerAt
<1>8. CASE Spawn
  BY <1>s, <1>1, <1>8 DEF ListInv, ListTypeOK, Linked, captureVars, Spawn, ListenerAt
<1>9. CASE StoreHandle \/ StoreIntoFreed
  <2>1. new \in Clients /\ node[new] = "live"
    BY <1>s, <1>9, ReachIsLive DEF ListInv, ListTypeOK, Listed, StoreHandle,
       StoreIntoFreed, ListenerAt
  <2> QED
    BY <1>s, <1>1, <1>9, <2>1 DEF Linked, captureVars, StoreHandle, StoreIntoFreed, ListenerAt
<1>10. CASE CallBroadcast \/ Signal
  BY <1>s, <1>1, <1>10 DEF listenerVars, CallBroadcast, Signal, CaptureAt
<1>11. CASE LoadHead
  BY <1>s, <1>1, <1>11 DEF listenerVars, LoadHead, Visit
<1>12. CASE KeepClient
  BY <1>s, <1>1, <1>12 DEF ListInv, ListTypeOK, listenerVars, KeepClient, CaptureAt, Visit
<1>13. CASE UnlinkClient
  BY <1>13 DEF ListInv, ListTypeOK, ThreadsSafe, NoneStopped, Done, Waiting, UnlinkClient, CaptureAt
<1>14. CASE WaitAstray \/ CloseAstray \/ Reap \/ WalkIntoFreed
  BY <1>s, <1>14 DEF ListInv, WalkSafe, WaitAstray, CloseAstray, Reap, MayReap,
     WalkIntoFreed, CaptureAt
<1>15. CASE Undefined \/ UNCHANGED listVars
  BY <1>s, <1>1, <1>15 DEF Undefined, listVars
<1>16. ASSUME NEW c \in Clients,
             \/ TakeToken(c) \/ ThreadLock(c) \/ ThreadCopy(c)
             \/ SendOk(c) \/ SendFails(c) \/ Stop(c) \/ Return(c)
       PROVE Sound'
  <2>1. /\ \A d \in Clients : tpc'[d] # "none" => tpc[d] # "none"
        /\ \A d \in Clients : tpc[d] # "none" => tpc'[d] # "none"
        /\ UNCHANGED <<clients, next, node, captureVars, listenerVars, ub>>
    BY <1>16 DEF ListInv, ListTypeOK, TakeToken, ThreadLock, ThreadCopy, SendOk, SendFails,
       Stop, Return, ThreadStep, ThreadAt
  <2> QED
    BY <1>s, <1>1, <2>1 DEF ListInv, ListTypeOK, captureVars, listenerVars
<1> QED
  BY <1>2, <1>3, <1>4, <1>5, <1>6, <1>7, <1>8, <1>9, <1>10, <1>11, <1>12, <1>13,
     <1>14, <1>15, <1>16 DEF ListNext, WalkStep

(* Until the first connection fails, every client that was started is on   *)
(* the list and no freed memory is touched.                                *)
THEOREM SoundAtFirst == ListSpec => []SoundUntilFirstFailure
<1>1. ListInit => SoundInv
  BY ListAssumption DEF ListInit, SoundInv, Linked
<1>2. ListInv /\ SoundInv /\ [ListNext]_listVars => SoundInv'
  BY SoundStep
<1>3. SoundInv => SoundUntilFirstFailure
  BY DEF SoundInv, SoundUntilFirstFailure, NoneStopped
<1> QED
  BY <1>1, <1>2, <1>3, ListInvariant, PTL DEF ListSpec

-----------------------------------------------------------------------------
(* What a walk misses.                                                     *)

(* The clients that the walk under way has yet to signal.                  *)
Ahead ==
  IF mpc = "signal" THEN Reach(node, next, curr)
  ELSE IF mpc \in {"test", "reap", "stray"} THEN Reach(node, next, next[curr])
  ELSE {}

Walking == mpc \in {"signal", "test", "reap", "stray"}

(* A client on the list has been signalled, or the walk will come to it;   *)
(* the one the walk stands on has been when it is tested; and none that    *)
(* the walk will come to is more than this broadcast behind.               *)
ToldOrAhead ==
  /\ mpc = "idle" => \A c \in Listed \ lost : owed[c] = 0
  /\ mpc = "load" => \A c \in Listed \ lost : owed[c] \in {0, 1}
  /\ Walking => \A c \in Listed \ lost : owed[c] = 0 \/ c \in Ahead
  /\ mpc \in {"test", "reap", "stray"} => owed[curr] = 0
  /\ \A c \in Ahead \ lost : owed[c] \in {0, 1}

(* What the joining client will bring onto the list is on it, was on it,   *)
(* or is the client being freed.                                           *)
JoinBringsListed ==
  lpc \in Linked =>
    Reach(node, next, next[new]) \subseteq
      Listed \cup lost \cup {c \in {curr} : mpc \in {"reap", "stray"}}

(* The listener does not change what is ahead of the walk before it        *)
(* publishes the client.                                                   *)
LEMMA JoinKeepsAhead ==
  ASSUME ListInv, AllocNode \/ AllocFails \/ GreetFails
  PROVE  Ahead' = Ahead
<1>1. /\ lpc \in BeforePublish /\ new \in Clients
      /\ UNCHANGED <<clients, mpc, curr, lost, owed>>
      /\ clients # new /\ curr # new
      /\ \A d \in Clients : next[d] \in Clients \cup {Null} /\ next[d] # new
  BY DEF ListInv, ListTypeOK, JoinSafe, Unreferenced, BeforePublish, captureVars,
     ghosts, AllocNode, AllocFails, GreetFails, DropNode, ListenerAt
<1>2. curr \in Clients /\ Walking => next'[curr] = next[curr]
  BY <1>1 DEF ListInv, ListTypeOK, AllocNode, AllocFails, GreetFails, DropNode
<1>3. Walking => curr \in Clients
  BY DEF ListInv, ListTypeOK, Walking
<1>4. CASE mpc = "signal"
  BY <1>1, <1>3, <1>4, JoiningIsUnseen DEF Ahead, Walking
<1>5. CASE mpc \in {"test", "reap", "stray"}
  BY <1>1, <1>2, <1>3, <1>5, JoiningIsUnseen DEF Ahead, Walking
<1>6. CASE mpc \notin {"signal", "test", "reap", "stray"}
  BY <1>1, <1>6 DEF Ahead
<1> QED
  BY <1>4, <1>5, <1>6

(* Nor the list.                                                           *)
LEMMA JoinKeepsWalk ==
  ASSUME ListInv, ToldOrAhead, JoinBringsListed, AllocNode \/ AllocFails \/ GreetFails
  PROVE  ToldOrAhead' /\ JoinBringsListed'
<1>1. UNCHANGED <<clients, mpc, curr, lost, owed>>
  BY DEF captureVars, ghosts, AllocNode, AllocFails, GreetFails, DropNode
<1>2. ToldOrAhead'
  <2>1. Walking => curr \in Clients
    BY DEF ListInv, ListTypeOK, Walking
  <2> QED
    BY <1>1, <2>1, JoinKeepsAhead, JoiningIsUnseen DEF ToldOrAhead, Walking
<1>3. CASE AllocNode
  <2>1. next'[new] = clients /\ clients \in (Clients \cup {Null}) \ {new}
    BY <1>3 DEF ListInv, ListTypeOK, JoinSafe, Unreferenced, BeforePublish, AllocNode, ListenerAt
  <2> QED
    BY <1>1, <1>2, <1>3, <2>1, JoiningIsUnseen DEF JoinBringsListed, Listed, AllocNode
<1>4. CASE AllocFails \/ GreetFails
  BY <1>2, <1>4 DEF JoinBringsListed, Linked, AllocFails, GreetFails, DropNode, ListenerAt
<1> QED
  BY <1>3, <1>4

(* A client that joins in the middle of a walk is up to date.              *)
LEMMA PublishKeepsWalk ==
  ASSUME ListInv, ToldOrAhead, JoinBringsListed, Publish
  PROVE  ToldOrAhead' /\ JoinBringsListed'
<1>1. /\ lpc = "publish" /\ lpc' = "spawn" /\ new \in Clients /\ clients' = new
      /\ UNCHANGED <<node, next, mpc, curr>>
      /\ curr # new
  BY DEF ListInv, ListTypeOK, JoinSafe, Unreferenced, BeforePublish, captureVars,
     Publish, ListenerAt
<1>2. Listed' \subseteq {new} \cup Listed \cup lost \cup {c \in {curr} : mpc \in {"reap", "stray"}}
  BY <1>1, ReachUnfold DEF Listed, JoinBringsListed, Linked
<1>3. lost \subseteq lost'
  BY DEF Publish
<1>4. /\ owed'[new] = IF mpc = "load" THEN 1 ELSE 0
      /\ \A c \in Clients \ {new} : owed'[c] = owed[c]
  BY <1>1 DEF ListInv, ListTypeOK, Publish
<1>5. Ahead' = Ahead
  BY <1>1 DEF Ahead
<1>6. Ahead \subseteq Clients /\ Listed \subseteq Clients
  BY DEF Ahead, Listed, Reach
<1>7. /\ mpc' = "idle" => \A c \in Listed' \ lost' : owed'[c] = 0
      /\ mpc' = "load" => \A c \in Listed' \ lost' : owed'[c] \in {0, 1}
  BY <1>1, <1>2, <1>3, <1>4, <1>6 DEF ToldOrAhead
<1>8. Walking => curr \in Clients
  BY DEF ListInv, ListTypeOK, Walking
<1>9. Walking' => \A c \in Listed' \ lost' : owed'[c] = 0 \/ c \in Ahead'
  BY <1>1, <1>2, <1>3, <1>4, <1>5, <1>6, <1>8 DEF ToldOrAhead, Walking
<1>10. mpc' \in {"test", "reap", "stray"} => owed'[curr'] = 0
  BY <1>1, <1>4, <1>8 DEF ToldOrAhead, Walking
<1>11. \A c \in Ahead' \ lost' : owed'[c] \in {0, 1}
  BY <1>1, <1>3, <1>4, <1>5, <1>6 DEF ToldOrAhead
<1> QED
  BY <1>1, <1>7, <1>9, <1>10, <1>11 DEF ToldOrAhead, JoinBringsListed, Linked
(* Signalling and going on, the walk leaves nobody out.                    *)
LEMMA WalkOnKeepsWalk ==
  ASSUME ListInv, ToldOrAhead, JoinBringsListed,
         CallBroadcast \/ LoadHead \/ Signal \/ KeepClient
  PROVE  ToldOrAhead' /\ JoinBringsListed'
<1>1. /\ UNCHANGED <<clients, next, node, lpc, new, lost>>
      /\ mpc \notin {"reap", "stray"} /\ mpc' \notin {"reap", "stray"}
  BY DEF listenerVars, ghosts, CallBroadcast, LoadHead, Signal, KeepClient, CaptureAt, Visit
<1>2. Listed' = Listed /\ Listed \subseteq Clients
  BY <1>1 DEF Listed, Reach
<1>3. JoinBringsListed'
  BY <1>1, <1>2 DEF JoinBringsListed
<1>4. CASE CallBroadcast
  <2>1. \A c \in Clients \ lost : owed[c] = 0 => owed'[c] \in {0, 1}
    BY <1>4 DEF ListInv, ListTypeOK, CallBroadcast
  <2> QED
    BY <1>1, <1>2, <1>3, <1>4, <2>1 DEF ToldOrAhead, Ahead, Walking, CallBroadcast, CaptureAt
<1>5. CASE LoadHead
  <2>1. CASE clients = Null
    <3>1. Listed = {}
      BY <2>1, ReachNothing, ListAssumption DEF Listed
    <3> QED
      BY <1>2, <1>3, <1>5, <2>1, <3>1 DEF ToldOrAhead, Ahead, Walking, LoadHead, Visit
  <2>2. CASE clients # Null
    <3>1. mpc' = "signal" /\ mpc = "load" /\ UNCHANGED owed /\ Ahead' = Listed
      BY <1>1, <1>5, <2>2 DEF Ahead, Listed, LoadHead, Visit, CaptureAt, ghosts
    <3> QED
      BY <1>1, <1>2, <1>3, <3>1 DEF ToldOrAhead, Walking
  <2> QED
    BY <2>1, <2>2
<1>6. CASE Signal
  <2>1. /\ curr \in Clients /\ UNCHANGED curr /\ mpc = "signal" /\ mpc' = "test"
        /\ owed' = [owed EXCEPT ![curr] = 0]
    BY <1>6 DEF ListInv, ListTypeOK, Signal, CaptureAt
  <2>2. /\ Ahead \subseteq {curr} \cup Ahead' /\ Ahead' \subseteq Clients
        /\ node[curr] = "live" => Ahead' \subseteq Ahead
    BY <1>1, <2>1, ReachUnfold, ReachNext, ReachIsLive DEF Ahead
  <2>3. node[curr] = "live"
    BY <1>6 DEF Signal
  <2>4. owed'[curr] = 0 /\ \A c \in Clients \ {curr} : owed'[c] = owed[c]
    BY <2>1 DEF ListInv, ListTypeOK
  <2> QED
    BY <1>1, <1>2, <1>3, <2>1, <2>2, <2>3, <2>4 DEF ToldOrAhead, Walking
<1>7. CASE KeepClient
  <2>1. /\ mpc = "test" /\ UNCHANGED owed /\ curr \in Clients
        /\ next[curr] \in Clients \cup {Null} /\ curr' = next[curr]
    BY <1>7 DEF ListInv, ListTypeOK, KeepClient, CaptureAt, Visit, ghosts
  <2>2. CASE next[curr] = Null
    <3>1. mpc' = "idle" /\ Ahead = {} /\ Ahead' = {}
      BY <1>7, <2>1, <2>2, ReachNothing, ListAssumption DEF Ahead, KeepClient, Visit
    <3> QED
      BY <1>1, <1>2, <1>3, <2>1, <3>1 DEF ToldOrAhead, Walking
  <2>3. CASE next[curr] # Null
    <3>1. mpc' = "signal" /\ Ahead' = Ahead
      BY <1>1, <1>7, <2>1, <2>3 DEF Ahead, KeepClient, Visit
    <3> QED
      BY <1>1, <1>2, <1>3, <2>1, <3>1 DEF ToldOrAhead, Walking
  <2> QED
    BY <2>2, <2>3
<1> QED
  BY <1>4, <1>5, <1>6, <1>7

(* Whoever the list loses with an unlinked or freed client is recorded as  *)
(* lost, and the walk goes on behind that client.                          *)
LEMMA UnlinkKeepsWalk ==
  ASSUME ListInv, ToldOrAhead, JoinBringsListed, UnlinkClient \/ Reap
  PROVE  ToldOrAhead' /\ JoinBringsListed'
<1>1. /\ curr \in Clients /\ UNCHANGED <<owed, lpc, new>>
      /\ next[curr] \in Clients \cup {Null} /\ next'[curr] = next[curr]
      /\ owed[curr] = 0 /\ Walking
    BY AheadIsKept DEF ListInv, ListTypeOK, ToldOrAhead, Walking, listenerVars,
       UnlinkClient, Reap, MayReap, CaptureAt
<1>2. lost \subseteq lost' /\ Listed \subseteq Listed' \cup lost' \cup {curr}
  BY DEF UnlinkClient, Reap
<1>3. Ahead = Reach(node, next, next[curr]) /\ Reach(node', next', next[curr]) = Ahead
  BY AheadIsKept DEF Ahead, UnlinkClient, Reap, MayReap, CaptureAt
<1>4. CASE UnlinkClient
  <2>1. mpc = "test" /\ mpc' = "reap" /\ UNCHANGED curr
    BY <1>4 DEF UnlinkClient, CaptureAt
  <2>2. Ahead' = Ahead
    BY <1>1, <1>3, <2>1 DEF Ahead
  <2>3. Listed' \subseteq Listed \cup Ahead
    <3>1. CASE prev = Null
      BY <1>3, <1>4, <3>1 DEF Listed, UnlinkClient
    <3>2. CASE prev # Null
      <4>1. UNCHANGED clients
        BY <1>4, <3>2 DEF UnlinkClient
      <4> QED
        BY <1>4, <4>1, CaptureShrinks DEF Listed
    <3> QED
      BY <3>1, <3>2
  <2>4. ToldOrAhead'
    BY <1>1, <1>2, <2>1, <2>2, <2>3 DEF ToldOrAhead, Walking
  <2>5. lpc \in Linked => next'[new] = next[new]
    <3>1. lpc \in Linked => new \in Clients /\ prev # new
      BY DEF ListInv, ListTypeOK, JoinSafe, Unreferenced, BeforePublish, Linked
    <3> QED
      BY <1>4, <3>1 DEF ListInv, ListTypeOK, UnlinkClient
  <2>6. JoinBringsListed'
    <3> SUFFICES ASSUME lpc \in Linked, NEW c \in Reach(node', next', next[new])
                 PROVE  c \in Listed' \cup lost' \cup {curr}
      BY <1>1, <2>1, <2>5 DEF JoinBringsListed
    <3>1. c \in Reach(node, next, next[new])
      BY <1>4, CaptureShrinks
    <3> QED
      BY <1>2, <2>1, <3>1 DEF JoinBringsListed
  <2> QED
    BY <2>4, <2>6
<1>5. CASE Reap
  <2>1. /\ mpc \in {"reap", "stray"} /\ UNCHANGED <<clients, next>> /\ curr' = next[curr]
        /\ mpc' = IF next[curr] = Null THEN "idle" ELSE "signal"
        /\ node'[curr] = "freed"
    BY <1>1, <1>5 DEF ListInv, ListTypeOK, Reap, MayReap, CaptureAt, Visit
  <2>2. Listed' \subseteq Listed
    BY <1>5, <2>1, CaptureShrinks DEF Listed
  <2>3. \A c \in Listed' \ lost' : owed'[c] = 0 \/ c \in Ahead
    BY <1>1, <1>2, <2>2 DEF ToldOrAhead
  <2>4. ASSUME next[curr] = Null PROVE ToldOrAhead'
    <3>1. Ahead = {} /\ Ahead' = {} /\ mpc' = "idle"
      BY <1>3, <2>1, <2>4, ReachNothing, ListAssumption DEF Ahead
    <3> QED
      BY <2>3, <3>1 DEF ToldOrAhead, Walking
  <2>5. ASSUME next[curr] # Null PROVE ToldOrAhead'
    <3>1. Ahead' = Ahead /\ mpc' = "signal"
      BY <1>3, <2>1, <2>5 DEF Ahead
    <3>2. \A c \in Ahead' \ lost' : owed'[c] \in {0, 1}
      BY <1>1, <1>2, <3>1 DEF ToldOrAhead
    <3> QED
      BY <2>3, <3>1, <3>2 DEF ToldOrAhead, Walking
  <2>6. JoinBringsListed'
    <3> SUFFICES ASSUME lpc \in Linked, NEW c \in Reach(node', next', next[new])
                 PROVE  c \in Listed' \cup lost'
      BY <1>1, <2>1 DEF JoinBringsListed
    <3>1. c \in Reach(node, next, next[new]) /\ c # curr
      BY <1>5, <2>1, CaptureShrinks, ReachIsLive
    <3> QED
      BY <1>2, <2>1, <3>1 DEF JoinBringsListed
  <2> QED
    BY <2>4, <2>5, <2>6
<1> QED
  BY <1>4, <1>5

(* Together: every step of the list keeps it.                              *)
LEMMA WalkStepKeeps ==
  ListInv /\ ToldOrAhead /\ JoinBringsListed /\ [ListNext]_listVars
    => ToldOrAhead' /\ JoinBringsListed'
<1> SUFFICES ASSUME ListInv, ToldOrAhead, JoinBringsListed, [ListNext]_listVars
             PROVE  ToldOrAhead' /\ JoinBringsListed'
  OBVIOUS
<1>1. ASSUME UNCHANGED <<clients, next, node, mpc, curr, lost, owed>>,
             lpc' \in Linked => lpc \in Linked /\ UNCHANGED new
      PROVE  ToldOrAhead' /\ JoinBringsListed'
  BY <1>1 DEF ToldOrAhead, JoinBringsListed, Ahead, Walking, Listed
<1>2. ASSUME NEW c \in Clients, Accept(c)
      PROVE  ToldOrAhead' /\ JoinBringsListed'
  BY <1>1, <1>2 DEF Linked, captureVars, ghosts, Accept, ListenerAt
<1>3. CASE \/ AcceptLast \/ GreetLock \/ GreetCopy \/ GreetOk \/ GreetAgain
           \/ Spawn \/ StoreHandle \/ StoreIntoFreed
  BY <1>1, <1>3 DEF Linked, captureVars, ghosts, AcceptLast, GreetLock, GreetCopy,
     GreetOk, GreetAgain, ListenerStep, Spawn, StoreHandle, StoreIntoFreed, ListenerAt
<1>4. CASE CloseAstray \/ WalkIntoFreed \/ Undefined \/ UNCHANGED listVars
  BY <1>1, <1>4 DEF captureVars, listenerVars, ghosts, listVars, CloseAstray,
     WalkIntoFreed, Undefined
<1>5. ASSUME NEW c \in Clients,
             \/ TakeToken(c) \/ ThreadLock(c) \/ ThreadCopy(c)
             \/ SendOk(c) \/ SendFails(c) \/ Stop(c) \/ Return(c)
      PROVE  ToldOrAhead' /\ JoinBringsListed'
  BY <1>1, <1>5 DEF captureVars, listenerVars, ghosts, TakeToken, ThreadLock,
     ThreadCopy, SendOk, SendFails, Stop, Return, ThreadStep, ThreadAt
<1>6. CASE WaitAstray
  BY <1>6 DEF ToldOrAhead, JoinBringsListed, Ahead, Walking, Listed, listenerVars,
     ghosts, WaitAstray, CaptureAt
<1> QED
  BY <1>2, <1>3, <1>4, <1>5, <1>6, JoinKeepsWalk, PublishKeepsWalk, WalkOnKeepsWalk,
     UnlinkKeepsWalk DEF ListNext, WalkStep

(* ToldOrAhead is an invariant of the list.                                *)
THEOREM ToldOrAheadInvariant == ListSpec => []ToldOrAhead
<1>1. ListInit => ToldOrAhead /\ JoinBringsListed
  <2> SUFFICES ASSUME ListInit PROVE ToldOrAhead /\ JoinBringsListed
    OBVIOUS
  <2>1. Listed = {}
    BY ReachNothing, ListAssumption DEF ListInit, Listed
  <2> QED
    BY <2>1 DEF ListInit, ToldOrAhead, JoinBringsListed, Ahead, Walking, Linked
<1> QED
  BY <1>1, WalkStepKeeps, ListInvariant, PTL DEF ListSpec

(* Between two broadcasts every client on the list that was never off it   *)
(* has been signalled by the last one.                                     *)
THEOREM WalksMissNone == ListSpec => []WalkMissesNone
<1>1. ToldOrAhead => WalkMissesNone
  BY DEF ToldOrAhead, WalkMissesNone
<1> QED
  BY <1>1, ToldOrAheadInvariant, PTL

-----------------------------------------------------------------------------
(* A walk signals each client once.                                        *)

(* Nobody but the joining client is allocated without having been put on   *)
(* the list, and whom the walk has yet to signal is owed this broadcast.   *)
OwedToAhead ==
  /\ \A c \in Clients :
       node[c] = "live" => Registered(c) \/ (c = new /\ lpc \in Linked)
  /\ mpc = "load" => \A c \in Clients : Registered(c) => owed[c] # 0
  /\ \A c \in Ahead : owed[c] # 0

(* A node to which no link leads is reached from itself only.              *)
LEMMA UnlinkedUnreached ==
  ASSUME NEW n \in Clients, NEW x \in (Clients \cup {Null}) \ {n},
         \A d \in Clients : next[d] \in (Clients \cup {Null}) \ {n}
  PROVE  n \notin Reach(node, next, x)
<1>1. Closed(node, next, (Clients \cup {Null}) \ {n})
  BY DEF Closed
<1> QED
  BY <1>1 DEF Reach

(* Older nodes do not lead back to a client.                               *)
LEMMA NotReachedAgain ==
  ASSUME ListInv, NEW c \in Clients
  PROVE  c \notin Reach(node, next, next[c])
<1> DEFINE Older == {d \in Clients : born[d] < born[c]}
<1>1. Closed(node, next, Older \cup {Null}) /\ next[c] \in Older \cup {Null}
  <2>1. \A d \in Clients : next[d] \in Clients \cup {Null} /\ born[d] \in Int
    BY ListAssumption DEF ListInv, ListTypeOK
  <2>2. \A d \in Clients : next[d] # Null => born[next[d]] < born[d]
    BY DEF ListInv, NewestFirst
  <2>3. next[c] \in Older \cup {Null}
    BY <2>1, <2>2
  <2>4. ASSUME NEW d \in Older PROVE next[d] \in Older \cup {Null}
    BY <2>1, <2>2, <2>4
  <2> QED
    BY <2>3, <2>4, ListAssumption DEF Closed
<1>2. c \notin Older \cup {Null}
  BY ListAssumption DEF ListInv, ListTypeOK
<1> HIDE DEF Older
<1> QED
  BY <1>1, <1>2 DEF Reach, Older

(* Whoever is on the list has been put on it.                              *)
LEMMA ListedIsRegistered ==
  ASSUME ListInv, OwedToAhead, NEW c \in Listed
  PROVE  Registered(c)
<1>1. c \in Clients /\ node[c] = "live"
  BY ReachIsLive DEF Listed
<1>2. CASE c = new /\ lpc \in Linked
  <2>1. /\ new \in Clients /\ clients \in (Clients \cup {Null}) \ {new}
        /\ \A d \in Clients : next[d] \in (Clients \cup {Null}) \ {new}
    BY <1>1, <1>2 DEF ListInv, ListTypeOK, JoinSafe, Unreferenced, BeforePublish, Linked
  <2> QED
    BY <1>2, <2>1, UnlinkedUnreached DEF Listed
<1> QED
  BY <1>1, <1>2 DEF OwedToAhead

(* OwedToAhead is kept.                                                    *)
LEMMA OwedStep == ListInv /\ OwedToAhead /\ [ListNext]_listVars => OwedToAhead'
<1> SUFFICES ASSUME ListInv, OwedToAhead, [ListNext]_listVars PROVE OwedToAhead'
  OBVIOUS
<1>1. ASSUME UNCHANGED <<next, node, mpc, curr, owed, tpc>>,
             UNCHANGED new \/ lpc \notin Linked \cup {"spawn"},
             lpc' = lpc \/ lpc' = "closed"
                \/ (lpc \in Linked /\ lpc' \in Linked) \/ lpc' = "alloc"
                \/ (lpc = "store" /\ lpc' = "accept"),
             lpc' = "spawn" => lpc = "spawn",
             lpc \in Linked => lpc' \in Linked, lpc = "spawn" => lpc' = "spawn"
      PROVE  OwedToAhead'
  BY <1>1 DEF OwedToAhead, Registered, Ahead, Linked
<1>2. ASSUME NEW c \in Clients, Accept(c)
      PROVE  OwedToAhead'
  BY <1>1, <1>2 DEF Linked, captureVars, ghosts, Accept, ListenerAt
<1>3. CASE \/ AcceptLast \/ GreetLock \/ GreetCopy \/ GreetOk
           \/ StoreHandle \/ StoreIntoFreed
  BY <1>1, <1>3 DEF Linked, captureVars, ghosts, AcceptLast, GreetLock, GreetCopy,
     GreetOk, ListenerStep, StoreHandle, StoreIntoFreed, ListenerAt
<1>4. CASE CloseAstray \/ WalkIntoFreed \/ Undefined \/ UNCHANGED listVars
  BY <1>1, <1>4 DEF captureVars, listenerVars, ghosts, listVars, CloseAstray,
     WalkIntoFreed, Undefined, Linked
<1>5. CASE GreetAgain
  BY <1>1, <1>5 DEF Linked, captureVars, ghosts, GreetAgain, ListenerStep, ListenerAt
<1>6. CASE AllocNode \/ AllocFails \/ GreetFails
  <2>1. new \in Clients /\ tpc[new] = "none" /\ lpc # "spawn" /\ lpc' # "spawn"
        /\ UNCHANGED <<mpc, owed, tpc>>
    BY <1>6 DEF ListInv, ListTypeOK, JoinSafe, BeforePublish, captureVars, ghosts,
       AllocNode, AllocFails, GreetFails, DropNode, ListenerAt
  <2>2. \A c \in Clients : Registered(c)' <=> Registered(c)
    BY <2>1 DEF Registered
  <2>3. \A c \in Clients : node'[c] = "live" =>
          (node[c] = "live" /\ c # new) \/ (c = new' /\ lpc' \in Linked)
    BY <1>6, <2>1 DEF ListInv, ListTypeOK, Linked, AllocNode, AllocFails, GreetFails,
       DropNode, ListenerAt
  <2> QED
    BY <1>6, <2>1, <2>2, <2>3, JoinKeepsAhead DEF OwedToAhead
<1>7. CASE Publish
  <2>1. /\ new \in Clients /\ lpc = "publish" /\ lpc' = "spawn"
        /\ UNCHANGED <<new, node, next, mpc, curr, tpc>>
        /\ curr # new
        /\ \A d \in Clients : next[d] \in (Clients \cup {Null}) \ {new}
    BY <1>7 DEF ListInv, ListTypeOK, JoinSafe, Unreferenced, BeforePublish,
       captureVars, Publish, ListenerAt
  <2>2. /\ owed'[new] = IF mpc = "load" THEN 1 ELSE 0
        /\ \A c \in Clients \ {new} : owed'[c] = owed[c]
    BY <1>7, <2>1 DEF ListInv, ListTypeOK, Publish
  <2>3. Ahead' = Ahead
    BY <2>1 DEF Ahead
  <2>4. new \notin Ahead /\ Ahead \subseteq Clients
    <3>1. mpc \in {"signal", "test", "reap", "stray"} => curr \in Clients
      BY DEF ListInv, ListTypeOK
    <3> QED
      BY <2>1, <3>1, UnlinkedUnreached, ReachIsLive DEF Ahead
  <2> QED
    BY <2>1, <2>2, <2>3, <2>4 DEF OwedToAhead, Registered, Linked
<1>8. CASE Spawn
  BY <1>8 DEF ListInv, ListTypeOK, OwedToAhead, Registered, Ahead, Linked,
     captureVars, ghosts, Spawn, ListenerAt
<1>9. CASE CallBroadcast
  <2>1. \A c \in Clients : Registered(c) => owed'[c] # 0
    BY <1>9 DEF ListInv, ListTypeOK, CallBroadcast
  <2> QED
    BY <1>9, <2>1 DEF OwedToAhead, Registered, Ahead, listenerVars, CallBroadcast
<1>10. CASE LoadHead
  <2>1. Ahead' \subseteq Listed
    BY <1>10 DEF Ahead, Listed, LoadHead, Visit, CaptureAt
  <2>2. \A c \in Listed : c \in Clients /\ owed[c] # 0
    BY <1>10, ListedIsRegistered, ListedInClients DEF OwedToAhead, LoadHead, CaptureAt
  <2>3. mpc' # "load" /\ UNCHANGED <<node, lpc, new, tpc, owed>>
    BY <1>10 DEF LoadHead, Visit, listenerVars, ghosts
  <2> QED
    BY <2>1, <2>2, <2>3 DEF OwedToAhead, Registered
<1>11. CASE Signal
  <2>1. /\ curr \in Clients /\ UNCHANGED <<curr, node, next, lpc, new, tpc>>
        /\ mpc = "signal" /\ mpc' = "test" /\ node[curr] = "live"
        /\ owed' = [owed EXCEPT ![curr] = 0]
    BY <1>11 DEF ListInv, ListTypeOK, Signal, CaptureAt, listenerVars
  <2>2. Ahead' \subseteq Ahead /\ Ahead' \subseteq Clients /\ curr \notin Ahead'
    BY <2>1, ReachNext, ReachIsLive, NotReachedAgain DEF Ahead
  <2>3. \A c \in Clients \ {curr} : owed'[c] = owed[c]
    BY <2>1 DEF ListInv, ListTypeOK
  <2> QED
    BY <2>1, <2>2, <2>3 DEF OwedToAhead, Registered
<1>12. CASE KeepClient
  <2>1. /\ mpc = "test" /\ mpc' # "load" /\ UNCHANGED <<node, next, lpc, new, tpc, owed>>
        /\ Ahead' \subseteq Ahead
    BY <1>12 DEF Ahead, KeepClient, CaptureAt, Visit, listenerVars, ghosts
  <2> QED
    BY <2>1 DEF OwedToAhead, Registered
<1>13. CASE UnlinkClient \/ Reap
  <2>1. /\ mpc' # "load" /\ UNCHANGED <<lpc, new, tpc, owed>>
        /\ \A c \in Clients : node'[c] = "live" => node[c] = "live"
    BY <1>13 DEF ListInv, ListTypeOK, UnlinkClient, Reap, MayReap, CaptureAt, Visit, listenerVars
  <2>2. Ahead' \subseteq Ahead
    BY <1>13, AheadIsKept DEF Ahead, UnlinkClient, Reap, MayReap, CaptureAt, Visit
  <2> QED
    BY <2>1, <2>2 DEF OwedToAhead, Registered
<1>14. ASSUME NEW c \in Clients,
              \/ TakeToken(c) \/ ThreadLock(c) \/ ThreadCopy(c)
              \/ SendOk(c) \/ SendFails(c) \/ Stop(c) \/ Return(c)
       PROVE  OwedToAhead'
  <2>1. /\ \A d \in Clients : tpc'[d] # "none" <=> tpc[d] # "none"
        /\ UNCHANGED <<next, node, captureVars, listenerVars, ghosts>>
    BY <1>14 DEF ListInv, ListTypeOK, TakeToken, ThreadLock, ThreadCopy, SendOk, SendFails,
       Stop, Return, ThreadStep, ThreadAt
  <2> QED
    BY <2>1 DEF OwedToAhead, Registered, Ahead, captureVars, listenerVars, ghosts
<1>15. CASE WaitAstray
  BY <1>15 DEF OwedToAhead, Registered, Ahead, listenerVars, ghosts, WaitAstray, CaptureAt
<1> QED
  BY <1>2, <1>3, <1>4, <1>5, <1>6, <1>7, <1>8, <1>9, <1>10, <1>11, <1>12, <1>13,
     <1>14, <1>15 DEF ListNext, WalkStep
=============================================================================

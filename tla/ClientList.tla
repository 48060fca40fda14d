----------------------------- MODULE ClientList -----------------------------
(***************************************************************************)
(* The linked list of clients and the threads that share it (client.c and  *)
(* the accept loop of broadcasting_room.c).                                *)
(*   - the listener accepts connections and pushes a client on the list;   *)
(*   - the capture thread walks the list, signals each client's semaphore  *)
(*     and unlinks and frees the clients whose thread has given up;        *)
(*   - one thread per client takes a token, copies a buffer and sends it.  *)
(* No lock protects the list: each load and store of it is a step.         *)
(* The contents of the buffers are BufferRing's; Room composes the two.    *)
(*                                                                         *)
(* A load or store through a pointer to a freed MY_CLIENT is undefined     *)
(* behaviour: the model sets ub and stops, whatever the build would do.    *)
(* The same goes for closing a handle that is another object's.            *)
(* Creating a semaphore or a thread is taken to succeed (the code does not *)
(* test it), accept to return only when a connection is there.             *)
(***************************************************************************)
EXTENDS Integers, FiniteSets

CONSTANTS
  Clients,      \* the connections that may be made, each once
  Null,         \* the null pointer
  AcceptLimit,  \* 256 in broadcastMainloop
  SemMax        \* 65536, the maximum count of a client's semaphore

ASSUME ListAssumption ==
  /\ Null \notin Clients
  /\ AcceptLimit \in Nat
  /\ SemMax \in Nat \ {0}

VARIABLES
  clients,  \* room->clients, the head of the list
  next,     \* next[c]: c->next
  node,     \* node[c]: whether the MY_CLIENT of c is allocated
  sem,      \* sem[c]: the count of c->semaphore
  working,  \* working[c]: c->working
  handle,   \* handle[c]: c->thread has been stored
  tpc,      \* tpc[c]: where the thread of c is in mainLoop
  mpc,      \* where the capture thread is in broadcast
  curr,     \* broadcast's curr
  prev,     \* broadcast's prev
  lpc,      \* where the listener is in broadcastMainloop and addClient
  new,      \* addClient's newClient
  count,    \* broadcastMainloop's count
  born,     \* born[c]: when c was accepted (ghost: a rank on the nodes)
  ub,       \* undefined behaviour has happened
  lost,     \* the clients that others took off the list with them (ghost)
  owed      \* owed[c]: the broadcasts that did not signal c since one did,
            \* 2 for more than one (ghost)

ghosts == <<lost, owed>>
listVars == <<clients, next, node, sem, working, handle, tpc,
              mpc, curr, prev, lpc, new, count, born, ub, ghosts>>
captureVars == <<mpc, curr, prev>>
listenerVars == <<lpc, new, count, born>>

ListInit ==
  /\ clients = Null
  /\ next = [c \in Clients |-> Null]
  /\ node = [c \in Clients |-> "none"]
  /\ sem = [c \in Clients |-> 0]
  /\ working = [c \in Clients |-> TRUE]
  /\ handle = [c \in Clients |-> FALSE]
  /\ tpc = [c \in Clients |-> "none"]
  /\ mpc = "idle" /\ curr = Null /\ prev = Null
  /\ lpc = "accept" /\ new = Null /\ count = 0
  /\ born = [c \in Clients |-> 0]
  /\ ub = FALSE
  /\ lost = {} /\ owed = [c \in Clients |-> 0]

-----------------------------------------------------------------------------
(* The nodes that a walk from start reaches, where nd says which nodes are *)
(* allocated and nx holds their links: those live nodes that are in every  *)
(* set which holds start and, with a live node, the next one.              *)
Closed(nd, nx, S) == \A c \in S \cap Clients : nd[c] = "live" => nx[c] \in S

Reach(nd, nx, start) ==
  {c \in Clients :
    /\ nd[c] = "live"
    /\ \A S \in SUBSET (Clients \cup {Null}) : start \in S /\ Closed(nd, nx, S) => c \in S}

(* The nodes that a walk which starts now would reach.                     *)
Listed == Reach(node, next, clients)

(* The clients that have been put on the list.                             *)
Registered(c) == tpc[c] # "none" \/ (new = c /\ lpc = "spawn")

-----------------------------------------------------------------------------
(* The listener: broadcastMainloop and addClient.                          *)

ListenerAt(from, to) == ~ub /\ lpc = from /\ lpc' = to

Accept(c) ==
  /\ node[c] = "none"
  /\ count < AcceptLimit
  /\ ListenerAt("accept", "alloc")
  /\ count' = count + 1
  /\ new' = c
  /\ born' = [born EXCEPT ![c] = count + 1]
  /\ UNCHANGED <<clients, next, node, sem, working, handle, tpc, captureVars, ub, ghosts>>

(* One connection too many: the loop ends and the socket stops listening.  *)
(* What WSACleanup then does to the clients' sockets is Transport's; here  *)
(* a send may fail at any time.                                            *)
AcceptLast ==
  /\ count = AcceptLimit
  /\ ListenerAt("accept", "closed")
  /\ count' = count + 1
  /\ UNCHANGED <<clients, next, node, sem, working, handle, tpc, captureVars, new, born, ub, ghosts>>

(* Mutant: the new client is not linked to the clients before it.          *)
AllocUnlinked ==
  /\ ListenerAt("alloc", "lock")
  /\ node' = [node EXCEPT ![new] = "live"]
  /\ next' = [next EXCEPT ![new] = Null]
  /\ working' = [working EXCEPT ![new] = TRUE]
  /\ sem' = [sem EXCEPT ![new] = 0]
  /\ UNCHANGED <<clients, handle, tpc, captureVars, new, count, born, ub, ghosts>>

(* Mutant: the semaphore is created with a count of 1.                     *)
AllocSignalled ==
  /\ ListenerAt("alloc", "lock")
  /\ node' = [node EXCEPT ![new] = "live"]
  /\ next' = [next EXCEPT ![new] = clients]
  /\ working' = [working EXCEPT ![new] = TRUE]
  /\ sem' = [sem EXCEPT ![new] = 1]
  /\ UNCHANGED <<clients, handle, tpc, captureVars, new, count, born, ub, ghosts>>

AllocNode ==
  /\ ListenerAt("alloc", "lock")
  /\ node' = [node EXCEPT ![new] = "live"]
  /\ next' = [next EXCEPT ![new] = clients]
  /\ working' = [working EXCEPT ![new] = TRUE]
  /\ sem' = [sem EXCEPT ![new] = 0]
  /\ UNCHANGED <<clients, handle, tpc, captureVars, new, count, born, ub, ghosts>>

(* The client is given up: no memory for localBuffer, or the first         *)
(* snapshot could not be sent.  Its socket stays open.                     *)
DropNode(from) ==
  /\ ListenerAt(from, "accept")
  /\ node' = [node EXCEPT ![new] = "freed"]
  /\ new' = Null
  /\ UNCHANGED <<clients, next, sem, working, handle, tpc, captureVars, count, born, ub, ghosts>>

AllocFails == DropNode("alloc")
GreetFails == DropNode("greet")

(* The snapshot is copied under the shared lock, sent by writeAll, and     *)
(* sent once more by a send whose result is ignored.                       *)
ListenerStep(from, to) ==
  /\ ListenerAt(from, to)
  /\ UNCHANGED <<clients, next, node, sem, working, handle, tpc, captureVars,
                 new, count, born, ub, ghosts>>

GreetLock == ListenerStep("lock", "copy")
GreetCopy == ListenerStep("copy", "greet")
GreetOk == ListenerStep("greet", "again")
GreetAgain == ListenerStep("again", "publish")

(* Mutant: the head of the list is linked to the new client.               *)
PublishSwapped ==
  /\ ListenerAt("publish", "spawn")
  /\ IF clients = Null
     THEN clients' = new /\ UNCHANGED next
     ELSE next' = [next EXCEPT ![clients] = new] /\ UNCHANGED clients
  /\ UNCHANGED <<node, sem, working, handle, tpc, captureVars, new, count, born, ub>>
  /\ lost' = lost \cup (Listed \ Listed')
  /\ owed' = [owed EXCEPT ![new] = IF mpc = "load" THEN 1 ELSE 0]

Publish ==
  /\ ListenerAt("publish", "spawn")
  /\ clients' = new
  /\ UNCHANGED <<next, node, sem, working, handle, tpc, captureVars, new, count, born, ub>>
  /\ lost' = lost \cup (Listed \ Listed')
  /\ owed' = [owed EXCEPT ![new] = IF mpc = "load" THEN 1 ELSE 0]

(* CreateThread starts the thread before its handle is stored.             *)
Spawn ==
  /\ ListenerAt("spawn", "store")
  /\ tpc' = [tpc EXCEPT ![new] = "wait"]
  /\ UNCHANGED <<clients, next, node, sem, working, handle, captureVars, new, count, born, ub, ghosts>>

StoreHandle ==
  /\ ListenerAt("store", "accept")
  /\ node[new] = "live"
  /\ handle' = [handle EXCEPT ![new] = TRUE]
  /\ new' = Null
  /\ UNCHANGED <<clients, next, node, sem, working, tpc, captureVars, count, born, ub, ghosts>>

StoreIntoFreed ==
  /\ ListenerAt("store", "store")
  /\ node[new] = "freed"
  /\ ub' = TRUE
  /\ UNCHANGED <<clients, next, node, sem, working, handle, tpc, captureVars, new, count, born, ghosts>>

-----------------------------------------------------------------------------
(* The capture thread: broadcast and freeClient.                           *)

CaptureAt(pc) == ~ub /\ mpc = pc

(* Mutant: the walk does not test for the end of the list.                 *)
VisitBlindly(c) == curr' = c /\ mpc' = "signal"

(* Go on with client c, or return when the list is at its end.             *)
Visit(c) ==
  /\ curr' = c
  /\ mpc' = IF c = Null THEN "idle" ELSE "signal"

CallBroadcast ==
  /\ CaptureAt("idle")
  /\ mpc' = "load"
  /\ owed' = [c \in Clients |-> IF Registered(c) /\ owed[c] < 2 THEN owed[c] + 1 ELSE owed[c]]
  /\ UNCHANGED <<clients, next, node, sem, working, handle, tpc, curr, prev,
                 listenerVars, ub, lost>>

LoadHead ==
  /\ CaptureAt("load")
  /\ prev' = Null
  /\ Visit(clients)
  /\ UNCHANGED <<clients, next, node, sem, working, handle, tpc, listenerVars, ub, ghosts>>

(* ReleaseSemaphore fails, and nobody looks, when the count is at its      *)
(* maximum.                                                                *)
Signal ==
  /\ CaptureAt("signal")
  /\ node[curr] = "live"
  /\ sem' = [sem EXCEPT ![curr] = IF @ < SemMax THEN @ + 1 ELSE @]
  /\ owed' = [owed EXCEPT ![curr] = 0]
  /\ mpc' = "test"
  /\ UNCHANGED <<clients, next, node, working, handle, tpc, curr, prev, listenerVars, ub, lost>>

KeepClient ==
  /\ CaptureAt("test")
  /\ working[curr]
  /\ prev' = curr
  /\ Visit(next[curr])
  /\ UNCHANGED <<clients, next, node, sem, working, handle, tpc, listenerVars, ub, ghosts>>

(* Mutant: every client visited is unlinked, working or not.               *)
UnlinkUnasked ==
  /\ CaptureAt("test")
  /\ working' = [working EXCEPT ![curr] = TRUE]
  /\ IF prev # Null
     THEN next' = [next EXCEPT ![prev] = next[curr]] /\ UNCHANGED clients
     ELSE clients' = next[curr] /\ UNCHANGED next
  /\ mpc' = "reap"
  /\ UNCHANGED <<node, sem, handle, tpc, curr, prev, listenerVars, ub, owed>>
  /\ lost' = lost \cup (Listed \ (Listed' \cup {curr}))

UnlinkClient ==
  /\ CaptureAt("test")
  /\ ~working[curr]
  /\ working' = [working EXCEPT ![curr] = TRUE]
  /\ IF prev # Null
     THEN next' = [next EXCEPT ![prev] = next[curr]] /\ UNCHANGED clients
     ELSE clients' = next[curr] /\ UNCHANGED next
  /\ mpc' = "reap"
  /\ UNCHANGED <<node, sem, handle, tpc, curr, prev, listenerVars, ub, owed>>
  /\ lost' = lost \cup (Listed \ (Listed' \cup {curr}))

(* Until its handle is stored c->thread holds any value.  The wait through *)
(* it fails and returns at once, or goes to another object and lasts as    *)
(* long as that one likes.                                                 *)
WaitAstray ==
  /\ CaptureAt("reap")
  /\ ~handle[curr]
  /\ mpc' = "stray"
  /\ UNCHANGED <<clients, next, node, sem, working, handle, tpc, curr, prev,
                 listenerVars, ub, ghosts>>

(* The handle that is closed is loaded again: still the other object's.    *)
CloseAstray ==
  /\ CaptureAt("stray")
  /\ ~handle[curr]
  /\ ub' = TRUE
  /\ UNCHANGED <<clients, next, node, sem, working, handle, tpc, captureVars, listenerVars, ghosts>>

(* Whether freeClient is past its wait and may close c's own handle, or a  *)
(* value that is no handle, without harm.                                  *)
MayReap(c) ==
  \/ mpc = "reap" /\ (handle[c] => tpc[c] = "exited")
  \/ mpc = "stray" /\ handle[c]

(* Mutants: prev moves on to the node just freed; the walk ends there.     *)
ReapAndKeepPrev ==
  /\ ~ub /\ MayReap(curr)
  /\ node' = [node EXCEPT ![curr] = "freed"]
  /\ prev' = curr
  /\ Visit(next[curr])
  /\ UNCHANGED <<clients, next, sem, working, handle, tpc, listenerVars, ub, owed>>
  /\ lost' = lost \cup (Listed \ (Listed' \cup {curr}))

ReapAndReturn ==
  /\ ~ub /\ MayReap(curr)
  /\ node' = [node EXCEPT ![curr] = "freed"]
  /\ Visit(Null)
  /\ UNCHANGED <<clients, next, sem, working, handle, tpc, prev, listenerVars, ub, owed>>
  /\ lost' = lost \cup (Listed \ (Listed' \cup {curr}))

Reap ==
  /\ ~ub /\ MayReap(curr)
  /\ node' = [node EXCEPT ![curr] = "freed"]
  /\ Visit(next[curr])
  /\ UNCHANGED <<clients, next, sem, working, handle, tpc, prev, listenerVars, ub, owed>>
  /\ lost' = lost \cup (Listed \ (Listed' \cup {curr}))

WalkIntoFreed ==
  /\ CaptureAt("signal")
  /\ node[curr] = "freed"
  /\ ub' = TRUE
  /\ UNCHANGED <<clients, next, node, sem, working, handle, tpc, captureVars, listenerVars, ghosts>>

-----------------------------------------------------------------------------
(* A client's thread: mainLoop.  The 10 s timeout of the wait changes      *)
(* nothing and is a stuttering step.                                       *)

ThreadAt(c, from, to) ==
  /\ ~ub /\ tpc[c] = from
  /\ tpc' = [tpc EXCEPT ![c] = to]
  /\ UNCHANGED <<clients, next, node, handle, captureVars, listenerVars, ub, ghosts>>

TakeToken(c) ==
  /\ sem[c] > 0
  /\ sem' = [sem EXCEPT ![c] = @ - 1]
  /\ ThreadAt(c, "wait", "lock")
  /\ UNCHANGED working

ThreadStep(c, from, to) == ThreadAt(c, from, to) /\ UNCHANGED <<sem, working, ghosts>>

ThreadLock(c) == ThreadStep(c, "lock", "copy")
ThreadCopy(c) == ThreadStep(c, "copy", "send")
SendOk(c) == ThreadStep(c, "send", "wait")
SendFails(c) == ThreadStep(c, "send", "failed")

(* Mutants: the loop goes on after a failed send; working is not cleared.  *)
StopAndGoOn(c) ==
  /\ ThreadAt(c, "failed", "wait")
  /\ working' = [working EXCEPT ![c] = FALSE]
  /\ UNCHANGED sem

StopSilently(c) == ThreadStep(c, "failed", "stopped")

Stop(c) ==
  /\ ThreadAt(c, "failed", "stopped")
  /\ working' = [working EXCEPT ![c] = FALSE]
  /\ UNCHANGED sem

Return(c) == ThreadStep(c, "stopped", "exited")

-----------------------------------------------------------------------------
WalkStep ==
  \/ LoadHead \/ Signal \/ KeepClient \/ UnlinkClient
  \/ WaitAstray \/ CloseAstray \/ Reap \/ WalkIntoFreed

(* After undefined behaviour nothing is specified.                         *)
Undefined == ub /\ UNCHANGED listVars

ListNext ==
  \/ \E c \in Clients : Accept(c)
  \/ AcceptLast \/ AllocNode \/ AllocFails \/ GreetLock \/ GreetCopy
  \/ GreetOk \/ GreetFails \/ GreetAgain \/ Publish
  \/ Spawn \/ StoreHandle \/ StoreIntoFreed
  \/ CallBroadcast \/ WalkStep \/ Undefined
  \/ \E c \in Clients :
       \/ TakeToken(c) \/ ThreadLock(c) \/ ThreadCopy(c)
       \/ SendOk(c) \/ SendFails(c) \/ Stop(c) \/ Return(c)

(* A running thread goes on, except that a send may block for ever: the    *)
(* peer need not read.  A wait that went astray need not return.  Nor need *)
(* packets or connections ever come.                                       *)
ListFairness ==
  /\ WF_listVars(WalkStep /\ mpc # "stray")
  /\ \A c \in Clients :
       WF_listVars(TakeToken(c) \/ ThreadLock(c) \/ ThreadCopy(c) \/ Stop(c) \/ Return(c))

ListSpec == ListInit /\ [][ListNext]_listVars /\ ListFairness

-----------------------------------------------------------------------------
Waiting == {"none", "wait", "lock", "copy", "send"}
BeforePublish == {"alloc", "lock", "copy", "greet", "again", "publish"}

(* Every variable has its type.                                            *)
ListTypeOK ==
  /\ clients \in Clients \cup {Null}
  /\ next \in [Clients -> Clients \cup {Null}]
  /\ node \in [Clients -> {"none", "live", "freed"}]
  /\ sem \in [Clients -> 0 .. SemMax]
  /\ working \in [Clients -> BOOLEAN]
  /\ handle \in [Clients -> BOOLEAN]
  /\ tpc \in [Clients -> Waiting \cup {"failed", "stopped", "exited"}]
  /\ mpc \in {"idle", "load", "signal", "test", "reap", "stray"}
  /\ curr \in Clients \cup {Null} /\ prev \in Clients \cup {Null}
  /\ mpc \in {"signal", "test", "reap", "stray"} => curr # Null
  /\ lpc \in BeforePublish \cup {"accept", "spawn", "store", "closed"}
  /\ new \in Clients \cup {Null}
  /\ lpc \notin {"accept", "closed"} => new # Null
  /\ count \in 0 .. AcceptLimit + 1
  /\ born \in [Clients -> 0 .. AcceptLimit]
  /\ ub \in BOOLEAN
  /\ lost \subseteq Clients
  /\ owed \in [Clients -> 0 .. 2]

(* No client thread ever touches a freed MY_CLIENT: a node is freed only   *)
(* when its thread is past its last access, or was never created.  The     *)
(* exchange of working in broadcast (client.c:84) with the last statement  *)
(* of mainLoop (151) ensures it; it holds in spite of the races on the     *)
(* list, and even when the wait of freeClient (118) goes through a handle  *)
(* that is not stored yet and so is no wait for the thread at all.         *)
NoThreadOnFreedNode ==
  \A c \in Clients :
    node[c] = "freed" => tpc[c] \in {"none", "stopped", "exited"}

(* broadcast unlinks the node it stands on and no other, by a store into a *)
(* node that is still allocated (client.c:86), wherever the listener is.   *)
UnlinkIsExact ==
  mpc \in {"signal", "test"} /\ prev # Null =>
    node[prev] = "live" /\ next[prev] = curr

(* Links lead from newer to older clients, so the list has no cycle and a  *)
(* walk (client.c:82) ends.                                                *)
NewestFirst ==
  \A c \in Clients : next[c] # Null => born[next[c]] < born[c]

(* Until the first connection fails, pushing on the unlocked list          *)
(* (client.c:18, 52) and walking it (79-98) do not interfere: every client *)
(* that was started is on the list and no freed memory is touched.         *)
SoundUntilFirstFailure ==
  (\A c \in Clients : tpc[c] \in Waiting \cup {"failed"}) =>
    /\ {c \in Clients : tpc[c] # "none"} \subseteq Listed
    /\ ~ub

(* Between two broadcasts every client on the list has been signalled by   *)
(* the last one: the walk (client.c:80-97) misses none that was pushed,    *)
(* unlinked around or freed before it meanwhile.  The one exception is a   *)
(* client that was taken off the list with another one, or by a push onto  *)
(* a stale head (client.c:18, 88), and is back on it since a later client  *)
(* was linked to it.                                                       *)
WalkMissesNone ==
  mpc = "idle" /\ ~ub => \A c \in Listed \ lost : owed[c] = 0

(* broadcast returns to the packet loop, even if no peer ever reads, with  *)
(* one exception: the capture thread can be held by the wait of freeClient *)
(* (client.c:118) through a handle that is not stored yet (53), and by     *)
(* nothing else, neither by a cycle in the list nor by that wait when it   *)
(* is for the client's own thread.                                         *)
BroadcastReturns == []<>(mpc \in {"idle", "stray"} \/ ub)

(* While messages keep being broadcast, the node of a client whose         *)
(* connection failed is freed, unless the list lost it (client.c:84-92).   *)
FailedIsReaped ==
  []<>(mpc = "load") =>
    \A c \in Clients :
      tpc[c] = "failed" ~> (node[c] = "freed" \/ (c \notin Listed /\ curr # c) \/ ub)
=============================================================================

------------------------------ MODULE Transport ------------------------------
(***************************************************************************)
(* The life of transport.exe around the broadcasting room (main.c, the     *)
(* listener's set-up in broadcastMainloop, freeRoom, freeMyBuffers and     *)
(* freeClients).  main starts the listener's thread and captures; when the *)
(* capture ends it waits for the listener and frees everything, although   *)
(* nothing stops the clients' threads.  When main returns all threads end. *)
(*                                                                         *)
(* Memory is freed here that threads of the room may still use; using it   *)
(* is undefined behaviour, as in ClientList.                               *)
(***************************************************************************)
EXTENDS Room

VARIABLES
  main,      \* where main is
  listener,  \* the listener's thread: "none", "setup", "serving", "ended"
  freed,     \* the buffers that freeMyBuffers has freed
  current,   \* current in freeMyBuffers and freeClients
  sockets,   \* the clients whose socket is open; Null: the refused one's
  reaped     \* the clients that broadcast has freed (ghost)

mainVars == <<main, listener, freed, current, sockets, reaped>>
transportVars == <<vars, mainVars>>

TransportInit ==
  /\ Init
  /\ main = "start" /\ listener = "none"
  /\ freed = {} /\ current = Null
  /\ sockets = {} /\ reaped = {}

MainAt(from, to) == ~ub /\ main = from /\ main' = to
Freeing == main \in {"freeBuffers", "freeClients"}

(* The listener has ended Winsock, the only one that had started it.       *)
WinsockEnded == lpc = "closed" /\ Null \notin sockets

-----------------------------------------------------------------------------
(* allocPcapHandler fails: the room is freed before it has any thread.     *)
CannotCapture ==
  /\ MainAt("start", "freeBuffers")
  /\ current' = head
  /\ UNCHANGED <<vars, listener, freed, sockets, reaped>>

StartListener ==
  /\ MainAt("start", "capture")
  /\ listener' = "setup"
  /\ UNCHANGED <<vars, freed, current, sockets, reaped>>

(* freeClient is past its wait: it closes the socket of curr and frees it. *)
Reaping == mpc \in {"reap", "stray"} /\ mpc' # "stray"

Capture ==
  /\ main = "capture"
  /\ CaptureNext
  /\ IF Reaping
     THEN sockets' = sockets \ {curr} /\ reaped' = reaped \cup {curr}
     ELSE UNCHANGED <<sockets, reaped>>
  /\ UNCHANGED <<main, listener, freed, current>>

(* pcap_loop returns, between two packets: the device is gone.             *)
CaptureEnds ==
  /\ wpc = "idle" /\ mpc = "idle"
  /\ MainAt("capture", "join")
  /\ UNCHANGED <<vars, listener, freed, current, sockets, reaped>>

(* Mutants: main does not wait for the listener; it also waits for the     *)
(* clients' threads, which nobody ends.                                    *)
MayJoinAtOnce == TRUE
MayJoinAll == listener = "ended" /\ \A c \in Clients : tpc[c] \in {"none", "exited"}

MayJoin == listener = "ended"

Join ==
  /\ MayJoin
  /\ MainAt("join", "freeBuffers")
  /\ current' = head
  /\ UNCHANGED <<vars, listener, freed, sockets, reaped>>

(* Mutant: until the null pointer, as if the ring were a list.             *)
MoreBuffersToNull(b) == TRUE

(* The condition of the loop of freeMyBuffers: it holds for the first      *)
(* buffer only.                                                            *)
MoreBuffers(b) == b = head

FreeBuffer ==
  /\ ~ub /\ main = "freeBuffers"
  /\ freed' = freed \cup {current}
  /\ IF current \in freed
     THEN ub' = TRUE /\ UNCHANGED <<main, current>>
     ELSE IF MoreBuffers(NextOf(current))
     THEN current' = NextOf(current) /\ UNCHANGED <<main, ub>>
     ELSE main' = "freeClients" /\ current' = clients /\ UNCHANGED ub
  /\ UNCHANGED <<ringVars, roomVars, clients, next, node, sem, working, handle,
                 tpc, captureVars, listenerVars, listener, sockets, reaped, ghosts>>

(* Mutant: the walk ends at the first node.                                *)
AfterFreeing(c) == Null

(* The node after c, loaded before c is freed.                             *)
NextClient(c) == next[c]

FreeNode ==
  /\ ~ub /\ main = "freeClients" /\ current # Null
  /\ node' = [node EXCEPT ![current] = "freed"]
  /\ sockets' = sockets \ {current}
  /\ IF node[current] = "freed"
     THEN ub' = TRUE /\ UNCHANGED current
     ELSE current' = NextClient(current) /\ UNCHANGED ub
  /\ UNCHANGED <<ringVars, roomVars, clients, next, sem, working, handle, tpc,
                 captureVars, listenerVars, main, listener, freed, reaped, ghosts>>

(* The room and the packer are freed, main returns.                        *)
Exit ==
  /\ current = Null
  /\ MainAt("freeClients", "exit")
  /\ clients' = Null
  /\ UNCHANGED <<ringVars, roomVars, next, node, sem, working, handle, tpc, captureVars,
                 listenerVars, ub, listener, freed, current, sockets, reaped, ghosts>>

-----------------------------------------------------------------------------
(* The set-up of the listening socket, any call of which may fail.         *)
SetUp(to) ==
  /\ ~ub /\ main # "exit" /\ listener = "setup"
  /\ listener' = to
  /\ UNCHANGED <<vars, main, freed, current, sockets, reaped>>

(* When the loop ends WSACleanup takes back the one WSAStartup of this     *)
(* code, which ends Winsock for all threads and resets every connection,   *)
(* unless a library (pcap_wsockinit is one's) has started it as well.      *)
Serve ==
  /\ main # "exit" /\ listener = "serving"
  /\ ListenerNext
  /\ IF lpc' = "closed"
     THEN listener' = "ended" /\ sockets' \in {{}, sockets \cup {Null}}
     ELSE /\ sockets' = IF lpc = "accept" THEN sockets \cup {new'} ELSE sockets
          /\ UNCHANGED listener
  /\ UNCHANGED <<main, freed, current, reaped>>

-----------------------------------------------------------------------------
(* A client's thread.  Its MY_CLIENT is used until it has stopped, the     *)
(* buffer of its cursor when it has a token.                               *)
Running(c) == tpc[c] \in {"wait", "lock", "copy", "send", "failed"}

UsesFreed(c) ==
  \/ Running(c) /\ node[c] = "freed"
  \/ /\ cursor[c] \in freed
     /\ tpc[c] \in {"lock", "copy"} \/ (tpc[c] = "wait" /\ sem[c] > 0)

(* An empty buffer is not sent, anything else needs the connection.        *)
SendOn(c) == SendBuffer(c) /\ (c \in sockets \/ copy[c].data = 0)

Run(c) ==
  /\ main # "exit" /\ ~UsesFreed(c)
  /\ ThreadLocal(c) \/ SendOn(c) \/ SendBufferFails(c)
  /\ UNCHANGED mainVars

RunOnFreed(c) ==
  /\ ~ub /\ main # "exit" /\ UsesFreed(c)
  /\ ub' = TRUE
  /\ UNCHANGED <<ringVars, roomVars, clients, next, node, sem, working, handle,
                 tpc, captureVars, listenerVars, mainVars, ghosts>>

(* Waiting for packets, for the listener or for connections; the end.      *)
Rest ==
  /\ \/ ub \/ main \in {"join", "exit"}
     \/ main = "capture" /\ wpc = "idle" /\ mpc = "idle"
  /\ UNCHANGED transportVars

TearDown == Join \/ FreeBuffer \/ FreeNode \/ Exit

TransportNext ==
  \/ CannotCapture \/ StartListener \/ Capture \/ CaptureEnds \/ TearDown
  \/ SetUp("serving") \/ SetUp("ended") \/ Serve
  \/ \E c \in Clients : Run(c) \/ RunOnFreed(c)
  \/ Rest

(* As in Room: threads that can run do run, sends and what comes from      *)
(* outside need not come, nor a wait that went astray return.              *)
TransportFairness ==
  /\ WF_transportVars(Capture /\ ~(wpc = "idle" /\ mpc \in {"idle", "stray"}))
  /\ WF_transportVars(TearDown)
  /\ WF_transportVars(Serve /\ lpc = "copy")
  /\ \A c \in Clients : WF_transportVars(Run(c) /\ tpc[c] # "send")

TransportSpec ==
  TransportInit /\ [][TransportNext]_transportVars /\ TransportFairness

-----------------------------------------------------------------------------
(* Every variable has its type.                                            *)
TransportTypeOK ==
  /\ TypeOK
  /\ main \in {"start", "capture", "join", "freeBuffers", "freeClients", "exit"}
  /\ listener \in {"none", "setup", "serving", "ended"}
  /\ freed \subseteq Buffers
  /\ current \in Buffers \cup Clients \cup {Null}
  /\ sockets \subseteq Clients \cup {Null} /\ reaped \subseteq Clients

(* The listener has ended, and no publication is under way, when the room  *)
(* is freed: the wait of main.c:114 keeps addClient and broadcast from the *)
(* freed ring and list.                                                    *)
FreedAlone ==
  Freeing \/ main = "exit" =>
    /\ listener \in {"none", "ended"} /\ lpc \in {"accept", "closed"}
    /\ wpc = "idle" /\ mpc = "idle"

(* In the whole life of the program there are three ways only to undefined *)
(* behaviour: the unlocked list, once a client has been freed by broadcast *)
(* (client.c:88, 18), client threads that still run when main frees what   *)
(* they use (main.c:119), and closing a handle that is not the client's    *)
(* own, its thread's not being stored yet (client.c:119, 53).              *)
TouchesFreedOnlyIf ==
  ub => \/ reaped # {}
        \/ Freeing /\ \E c \in Clients : Running(c)
        \/ mpc = "stray" /\ ~handle[curr]

(* Until the listener ends Winsock, no client's socket is closed before    *)
(* its memory is freed, and the sockets left open are those of the clients *)
(* that addClient gave up (client.c:20, 45), of the connection one too     *)
(* many (broadcasting_room.c:116) and, after the first client freed by     *)
(* broadcast, of clients lost from the list: freeClient and freeClients    *)
(* close all others.  That end (broadcasting_room.c:121), which closes the *)
(* sockets of clients still served, leaves none open.                      *)
OthersAreClosed ==
  IF WinsockEnded
  THEN sockets = {}
  ELSE /\ \A c \in Clients : node[c] = "live" => c \in sockets
       /\ \A c \in sockets \ {Null} :
            \/ node[c] = "live" /\ (main = "exit" => reaped # {})
            \/ c = new
            \/ node[c] = "freed" /\ tpc[c] = "none"

(* Slow peers, or a listener that could not be set up                      *)
(* (broadcasting_room.c:51-97), do not hold up the capture: broadcastData  *)
(* comes to its end even if no send ever returns, because a client copies  *)
(* under the shared lock and sends outside it (client.c:138-147).  Only    *)
(* the wait through a handle not stored yet (client.c:118, 53) can hold it.*)
CaptureNeverStalls == []<>(ub \/ (wpc = "idle" /\ mpc \in {"idle", "stray"}))

(* Once both the capture and the listener have ended, main returns: the    *)
(* walks of freeMyBuffers and freeClients end, whatever the threads that   *)
(* still run do (buffer.c:9, client.c:59).                                 *)
EndsAfterBoth == main = "join" /\ listener = "ended" ~> main = "exit" \/ ub
=============================================================================

# A verification project for `transport`

`transport.exe` captures the UDP packets of a process and broadcasts them to
TCP clients. This directory holds TLA+ models of the whole of its own code, the
TLC runs that check them and the TLAPS proofs about them. References such as `client.c:88`
are to files and lines of `src/`.

## 1. The system

### Threads and shared state

| Thread | Code | Touches |
|---|---|---|
| capture (main thread) | `main.c` `pcap_loop` → `packetHandler` → `transformPcapPacketToBuffer` (`message.c`) → `broadcastData` (`broadcasting_room.c`) → `broadcast` (`client.c`) | packer buffers, `room->sn`, `room->buffer`, the ring, the list of clients |
| listener | `broadcastMainloop` → `addClient` | `room->buffer` (reads, no lock), the list of clients (reads and writes, no lock), one buffer of the ring (shared lock) |
| one per client | `mainLoop` | its `MY_CLIENT`, its semaphore, the ring (shared lock) |

What connects them:

- a ring of 1024 buffers, each with its SRW lock, its serial number and size;
- a singly linked list of `MY_CLIENT`, changed by two threads **without a lock**;
- a semaphore per client, one token per published message;
- `working`, set to 0 by a client's thread when its connection fails and
  exchanged by `broadcast`, which then unlinks, joins and frees the client.

There is no persistence, and no test in the repository.

### Components

| Component | State | Operations | What makes it correct | Model |
|---|---|---|---|---|
| Ring of buffers (`buffer.c`, `broadcastData`) | `sn`, `room->buffer`, per buffer: bytes, size, sn, lock | publish, copy out, free | a copy is one whole message; the last 1024 messages are where cursors look | `BufferRing`, `BroadcastLog`; freed in `Transport` |
| Client list (`client.c`, accept loop) | list, `working`, semaphore, thread handle | `addClient`, `broadcast`, `freeClient`, `mainLoop`, `freeClients` | no freed node is touched, started clients stay on the list, failed ones are freed, `broadcast` returns | `ClientList`; `freeClients` in `Transport` |
| Room | the two above, and each client's cursor and expected sn | all of the above together | a client is sent the messages, each once, in order, or at least the latest | `Room` |
| Message packer (`message.c`, `packetHandler`) | one message buffer per direction | accept, refuse, drop or forward a frame | repeats and only repeats are dropped; the header is as documented | `MessagePacker` |
| Start and shutdown (`main.c`, `freeRoom`, `freeMyBuffers`, `freeClients`, listener set-up) | everything allocated | start, error paths, teardown | what is freed is freed once, and nobody still uses it; main returns | `Transport`, the start in `Capture` |
| Device choice (`pcap_helper.c`) | – | find MAC, find capture device | both are of the same device | `Capture` |
| Filter parser (`flitter_parser.c`) | – | addresses → pcap filter | the filter names the given addresses | `AddressFilter` |
| Local addresses (`filter_getter.c`) | – | process → addresses | the process's addresses, all of them | `AddressFilter` |
| Remote addresses (`filter_getter_for_remote_addr.c`) | – | process → addresses | the process's peers, all of them | `RemoteGetter` |
| Argument parser (`args_parser.c`) | – | options | the port is a port | `Capture` |
| `pcap/` | – | vendored SDK | – | not modelled |

### What is hard here

`PROJECT.json` lists the hazards line by line. The main groups:

1. *The unlocked list* (`client.c:18,52` against `82-92`). A push can be lost
   when the first node is unlinked at the same time; a new client can be left
   pointing at a node freed during its greeting.
2. *The life of a client's memory* (`client.c:53,84,118,151`): who may still
   use a node when it is freed, and the handle stored after the thread has
   started.
3. *Positions without numbers.* A client follows the ring by counting tokens.
   Where it starts is read without a lock before a blocking send; if it starts
   out of step it stays out of step. The serial number is only logged.
4. *Slow peers*: they must not stall the capture; they are lapped.
5. *Suppression of repeats* by a comparison that knows no length.
6. *Addresses handed over as text* between two programs: told apart by
   `strstr`, cut at the end of a buffer, converted by `atol`.
7. *Shutdown and failure paths* that free what threads still use, or leak.
8. *One keyword, two lists*: the address and the device are looked up
   separately, in lists of two libraries that need not agree.

## 2. The modules

| Module | Role |
|---|---|
| `BroadcastLog` | abstract: numbered messages of which the last `Window` can be copied, atomically |
| `BufferRing` | `buffer.c` and the lock protocol of `broadcastData`, `addClient`, `mainLoop` |
| `ClientList` | the list, the accept loop, `broadcast`, `freeClient`, the clients' threads |
| `Room` | EXTENDS both; every action is a step of one or of both, plus the client's cursor |
| `Transport` | EXTENDS `Room`: `main`, the listener's set-up and end, `freeRoom`, the sockets |
| `MessagePacker` | `packetHandler` and `transformPcapPacketToBuffer` |
| `Capture` | EXTENDS `MessagePacker`: arguments, choice of the device, direction of a frame |
| `AddressFilter` | `filter_getter.c` and `flitter_parser.c`, from the UDP table to the capture filter |
| `RemoteGetter` | EXTENDS `AddressFilter`: `filter_getter_for_remote_addr.c`, the other source of the same text |
| `MC*` | instances for TLC |
| `BufferRingProofs`, `ClientListProofs`, `ListWalkProofs`, `RoomProofs`, `TransportProofs`, `MessagePackerProofs`, `CaptureProofs`, `FilterProofs` | theorems |

`Transport` and `Capture` describe the same program from two sides: `Transport`
takes a publication as it comes (a frame that was forwarded), `Capture` takes the
broadcast of a forwarded frame as done. The capture thread is the same in both:
`packetHandler` ends with `broadcastData` before the next frame comes.

Operators that no specification uses and whose comment says *mutant* are
plausible bugs; `PROJECT.json` says which definition each would replace and
which property then fails.

### Correspondence

*BufferRing.* A buffer is an index, `next` is `NextOf`. `Advance`,
`LockExclusive`, `CopyIn`, `StampAndRelease` are the statements of
`broadcastData` in order; the size is stored with the bytes (both are under the
lock and neither is read without it). A reader takes the lock (`LockShared`)
and copies and releases (`CopyOut`). `sn` is left unset by `allocMyBuffers`, so
initially it has any value of `JunkSn`. A payload is identified with its serial
number; payload 0 is an empty buffer.

*ClientList.* One action per load or store of the list and per blocking call:
`Accept`, `AllocNode` (the load of the head into `next`), the greeting
(`GreetLock`, `GreetCopy`, `GreetOk`/`GreetFails`, `GreetAgain` for the second
`send`), `Publish`, `Spawn`, `StoreHandle`. `broadcast` is `LoadHead`, then per
node `Signal` and `KeepClient`, or `UnlinkClient` and `Reap` (`freeClient`). A
thread is `TakeToken`, `ThreadLock`, `ThreadCopy`, `SendOk`/`SendFails`, `Stop`,
`Return`. A node is `none`, `live` or `freed`; a use of a freed node
(`WalkIntoFreed`, `StoreIntoFreed`) is undefined behaviour: `ub` is set and
nothing more happens. `AcceptLast` is the 257th connection, which ends the loop.
`freeClient` may wait through `client->thread` before `client.c:53` has stored it. The
value is then unset. If it is no handle the wait fails at once (`MayReap`); if it is the handle of
some other object the capture thread waits for that object (`WaitAstray`, `mpc = "stray"`),
for ever perhaps: no fairness takes it out of there. When the wait does return, the handle
that is closed is loaded again, and is the client's own by then (`Reap`) or still the other
object's (`CloseAstray`, undefined behaviour). Two ghosts say what the races cost: `lost` are the
clients that went off the list when something else was unlinked or pushed;
`owed[c]` counts (to 2) the broadcasts since one signalled `c`. `Reach`, the nodes on a chain, is the least
set closed under `next`, so that it needs no recursion.

*Room.* `AcceptClient` reads `room->buffer` when `addClient` is called,
`LockSnapshot`/`CopySnapshot` use it later. `StepCursor` is a token: cursor and
expected number move on by one. `CopyBuffer` adopts the number it finds
(`client.c:143-146`). Ghost variables: `pos` (which publication the cursor
stands for) and `told` (the last one the client was signalled for).
`Drift == pos + sem - told` is how far the client will be from the
announcements when its tokens are used up.

*Transport.* `main` goes from `start` over `capture` (`pcap_loop`) and `join` (the
wait of `main.c:114`) to `freeBuffers`, `freeClients` and `exit`; `CannotCapture` is the
`goto free` of a device that cannot be opened. The listener's thread sets up its
socket (`SetUp`, any call of which may fail), serves and ends at the connection one
too many. `FreeBuffer` is one turn of the loop of `freeMyBuffers`, whose condition
holds for the first buffer only; `FreeNode` one of `freeClients`. A client's thread
that is about to use a freed node or buffer takes `RunOnFreed` and sets `ub`.
`sockets` are the open connections; `reaped` (ghost) the clients freed by `broadcast`.
When the accept loop ends, `Serve` has both outcomes of the `WSACleanup` of
`broadcasting_room.c:121`: it takes back the only `WSAStartup` of the program, so
all sockets are gone (`WinsockEnded`), or some library has started Winsock as well and they stay open.
A message can be sent on an open socket only (`SendOn`). When `main` returns the process and all its threads end.

*MessagePacker.* A frame has a direction, an IP header length, a payload,
padding after the datagram and whether it was cut. Per frame one of `Skip`,
`Refuse`, `DropRepeat`, `Forward`. The buffers start with any contents, as
`malloc` leaves them.

*Capture.* An argument is what the program makes of it: the option that it is,
whether `parseFilter` accepts it, its number for `atoi`, and the adapters in whose
description it occurs (`strstr`). `ValueOf` is `parseStringArg`: the argument after the
first occurrence, even if that is another option. `FirstMatch` is the search of
`getMacOfDevice` and of `allocPcapHandler`, each in any list of some of the adapters
in any order. `main.c:33` compares the frame's destination with the MAC address:
`f.mine = (to = mac)`. `arrived` (ghost) says whether it was addressed to the capture device.
`MarkedAsArrived` speaks of the buffer (`rcv`) whose mark the message carries, not of the value
of that mark, which is finding 3.

*AddressFilter.* One behaviour is a run of `filterGetter.exe` followed by the
start of `transport.exe` with what was printed, as in the one-line command of
`readme.md:12`. `FindProcess`/`NoProcess` are `getPidByName`, `ReadTable` and
`TableUnreadable` the call of `GetExtendedUdpTable`; each row is skipped
(`SkipRow`), passed over (`PassOverRow`, the `strstr` test) or listed (`ListRow`).
`HandOver` drops the first dash; a getter that fails or finds nothing hands over
the empty text. `parseFilter` takes a token at a time (`ParseToken`,
`RejectToken`), and starts the capture unless there was none (`RejectEmpty`).
A text is a sequence of digits, dots and dashes, `Octets` is
`convertIntToIp`. `atol` beyond a long is undefined, so it gives either the
largest long or (by wrapping) the number itself. `tool` says which getter runs.
The properties tell the two apart: a clause `IsFor` an address captures it; a clause
`InsteadOf` an address beyond a long has the largest long for its host, and so
captures another host. `MadeFrom` is either.

*RemoteGetter.* netstat prints any few lines (`RunNetstat`), some with a `*` for an
address. Each is passed over, listed (`ListRemote`, with its dash, if that text does
not occur yet), or cut by the end of a piece read from the pipe (`CutLine`). The parts
of a cut line may show parts of an id and of an address, or leave what the last line
had: some address is listed, or none. An id is read from the last six characters,
hence modulo `PidSpan`.

### Abstractions and assumptions

- `send` sends all it is asked to or fails (`writeAll` loops over short sends);
  it may block for ever. Sending 0 bytes does not fail.
- `CreateSemaphore`, `CreateThread` and the allocations the code does not test
  succeed; the tested one (`localBuffer`) may fail (`AllocFails`).
- Memory accesses are sequentially consistent, the program runs below 2^32
  messages, freed memory is not reused (using it is already an error).
- The 10 s timeout of `mainLoop`'s wait is a stuttering step.
- Texts (logging, peer addresses) are left out.
- In `Transport` freed memory stays freed; `main` frees and nobody allocates.
- UDP lengths are well formed (at least 8), the capture filter lets only UDP
  over IPv4 through.

## 3. The runs

| Run | Checks | Shows |
|---|---|---|
| `ring` | `RingTypeOK`, `RingHoldsLatest`, `LogSpec` | three buffers (the least `buffer.c:18` allows), five publications (the ring is lapped), two readers: no torn copies, the latest messages in place, refinement of `BroadcastLog` |
| `list` | `ListTypeOK`, `NoThreadOnFreedNode`, `UnlinkIsExact`, `NewestFirst`, `SoundUntilFirstFailure`, `WalkMissesNone` | three clients (a first, a middle and a last node; a client lost with another and brought back by a third), all races of push and unlink; a broadcast signals every client on the list but those that were lost from it at some time |
| `list_live` | `BroadcastReturns`, `FailedIsReaped` | as above with two accepted clients out of three connections: `broadcast` returns though sends may block for ever, unless it waits through a handle that was not stored yet; failed clients are freed |
| `room` | `TypeOK`, `AtMostOneAhead`, `DriftIsSettled`, `KeepingUpCopiesOwn` | two clients, three buffers, four messages (a lap and one), semaphores of two (so that they overflow): which message a token copies |
| `room_catch_up` | `EventuallyCaughtUp`, `AcceptsAgain` | with reading peers a client in step ends with the last message, also two laps behind, and the accept loop comes back from every greeting; the connection after the accept limit finds the listener closed |
| `room_connected` (violated) | `ConnectedIsTold` | finding 1 |
| `transport` | `TransportTypeOK`, `FreedAlone`, `TouchesFreedOnlyIf`, `OthersAreClosed`, `CaptureNeverStalls`, `EndsAfterBoth` | the life of the program with two clients and two publications: undefined behaviour comes about in three ways only, all named; which sockets stay open, and that only the end of Winsock closes those of clients still served; without any fairness for sends every publication ends (but for the wait through an unset handle), and so does the tear-down |
| `packer` | `CaptureTypeOK`, `NeverTwiceRunning`, `DropIsComparable`, `OneAdapter`, `MarkedAsArrived` | all lists of two adapters, up to four arguments; payloads of up to two bits, both directions, all initial buffer contents |
| `packer_repeat` (violated) | `DropIsRepeat` | finding 2 |
| `packer_flag` (violated) | `FlagMarksSent` | finding 3 |
| `filter` | `RemoteTypeOK`, `CapturesOwnOnly`, `LostOnlyInOthers`, `NoAddressTwice`, `CapturesPeersOnly`, `LostPeersInOthers` | both getters, up to three processes, three sockets, two lines of netstat; texts that contain each other, a buffer that two addresses overfill, an address beyond a long, ids of too many digits, cut lines: which addresses are wrong or lost, each way by name |
| `filter_all` (violated) | `CapturesAllOwn` | finding 4 |

Bounds: `MaxSn` (publications), `BufferCount`, `AcceptLimit`, `SemMax`,
`MaxLen`, `MaxProcesses`, `MaxRows`, `MaxLines`, `MaxArgs`, `PidSpan`, and the sets
`Clients`, `Readers`, `JunkSn`, `Bytes`, `Ips`, `Ports`, `Words`, `Adapters`, `Tools`. Four
arguments hold two options with their values, or one named twice; two adapters
can be found in either order. In `AddressFilter` a byte has three values and `LongMax` is
the middle of the addresses, as 2^31 - 1 is; two addresses decide whether one is
lost, and the two longest overfill the buffer of `TextRoom` characters, of either getter, while two shorter ones do not. The races need
at most a node before and one after the node being unlinked; the ring's
arithmetic needs a lap; the semaphore must be able to overflow before the
publications run out. Clients are symmetric in safety runs only. In the room
the payloads are distinct, so that a message copied twice is told from two
messages.

Deadlock is checked in all runs. The system really rests in `Idle` and `Rest` (waiting for
packets, for the listener, the end of the process), `Exited` (a start given up) and `Ended`
(the end of the address tools).

### Fairness

Weak fairness of the capture thread once it has begun a publication, of the
listener while it holds a buffer's lock, and of each client's thread except in
`send`: a thread that can run does run. Nothing is assumed of peers (`send`),
packets or connections. Only `room_catch_up` adds that sends return
(`ReadingSpec`), since it speaks of peers that read; the listener then goes on with a client it has accepted. Weak fairness is enough for
the locks, because publications are bounded and readers hold a lock only for a
copy. `TransportFairness` is the same with the steps of the tear-down (`main` runs on);
that the capture or the listener ends is not assumed. The waits in `freeClient` on the client's own thread return because a thread that has cleared
`working` only has to return. A wait through an unset handle need not return: the fairness of the capture thread excludes
`mpc = "stray"`, and `BroadcastReturns`, `CaptureNeverStalls` and `EventuallyCaughtUp` name it as the exception.

## 4. Findings

1. `ConnectedIsTold` (`client.c:88` with `client.c:52`): a client pushed while
   `broadcast` unlinks the first node is lost; it stays connected and never gets
   a message, against `readme.md:29`. Until a first connection fails nothing of
   the kind can happen (`SoundUntilFirstFailure`).
2. `DropIsRepeat` (`message.c:52,62`): a payload that is a beginning of the
   previous one is dropped as `重复消息` ("repeated message"). What holds is
   `DropIsComparable`. In the trace the second payload is empty, which takes IP options to
   get past `main.c:29` (a frame of 42 bytes is skipped); beginnings of two bytes and more need none.
3. `FlagMarksSent` (`message.c:24`): 255 marks received packets; `readme.md:39`
   says it marks sent ones.
4. `CapturesAllOwn` (`filter_getter.c:59`): an address is lost when its text is
   part of another's, port 535 after port 5353 for instance; `readme.md:23` says
   that the getter finds the addresses of the process. `LostOnlyInOthers` says
   what else is lost: an address beyond a long (its last octet 128 or more), for which `atol`
   may return the largest long (`flitter_parser.c:30`). The filter then names 255.255.255.127,
   neither an address of the process nor the one it was given, though `readme.md:29` says that
   transport.exe filters by the addresses given. `CapturesOwnOnly` and the two properties of the
   remote getter have it as a named exception.

Noted while modelling, without a claim to check it against: the greeting is
sent twice (`client.c:45,51`), a peer that does not read its greeting blocks
the accept loop, clients that drop during the greeting leak socket and
semaphore (`client.c:45-49`), a client that was out of step stays out of step,
the listener closes after 256 connections in all, and its `WSACleanup` then resets the
connections of the clients it still has (`OthersAreClosed`). Undefined behaviour is not
listed as a finding either, since no text of the repository denies it; it is in the models, and `TouchesFreedOnlyIf` says
where it comes from: a node freed while the unlocked list still leads to it (`client.c:18,52,88`), client threads that
run on while `main` frees the room (`main.c:119`), and a thread's handle used before it is stored (`client.c:53,118`).
The other properties name it as their exception (`ub`).

## 5. The proofs

All theorems hold for every value of the constants allowed by the named
assumptions `RingAssumption` (at least three buffers, as `buffer.c:18` asserts),
`ListAssumption`, `RoomAssumption` (the readers of the ring are the clients and the
listener), `PackerAssumption`, `CaptureAssumption`,
`FilterAssumption` (addresses have at most four bytes) and `RemoteAssumption`. None
uses fairness.

*BufferRingProofs.* `RingHoldsLatest` is not inductive: it does not say where
the capture thread stands or who holds which lock. `RingInv` adds

- `LocksAgree`: `room->buffer` is the buffer of `sn`; only that buffer is locked
  exclusively, only while it is filled, and then nobody shares it;
- `BuffersWhole`: a message lies in the buffer of its number, and outside the
  exclusive lock size, bytes and number belong together.

The arithmetic of going round the ring is in lemmas (`NextOfBuffer`,
`BufferOfInjective`, `BufferOfLap`, `BufferOfOnto`), proved from division with
remainder. `CopyIn` is the critical step: it overwrites the message that is
exactly one lap old. From `RingInv` follow `RingTypeCorrect`, `RingCorrect` and
`RingImplementsLog` (releasing the lock publishes, copying under the shared lock
reads, all other steps stutter).

*ClientListProofs.* `ListInv` adds to the types and the claims that a joining
client is referred to by nobody before `Publish` and is the newest
(`JoinSafe`), that the walk stands on a live node and that the node before it
leads past a node being freed (`WalkSafe`), and that `working = 0` means that the
thread is past its last access (`ThreadsSafe`). It gives `ListTypeCorrect`,
`ThreadsAreSafe`, `UnlinkCorrect`, `ListIsAcyclic`. The
invariance of each part is one lemma, with a step for each action.

*ListWalkProofs.* `SoundUntilFirstFailure` speaks of reachability along the list.
`Reach` is the least closed set: a closed set that holds the head holds all of the
list, so each lemma about a push or an unlink names a closed set and needs no
induction. `SoundInv` adds that nothing is stopped or freed before the first
failure is seen. `WalkMissesNone` needs `ToldOrAhead`: during a walk each client on the
list that was never lost has been signalled in it, is the node the walk stands on,
or lies ahead of it; and `JoinBringsListed`: the node a push puts in front leads to
what was on the list, or to what was lost.

*RoomProofs.* Each step of the room is a step (or a stutter) of the ring and of
the list, so `RingInv` and `ListInv` hold in it (`PartsInRoom`) and the room implements
`BroadcastLog` (`RoomImplementsLog`). `AtMostOneAhead` is not inductive: `RoomInv` adds

- `ToldIsOwed`: the last publication a client was signalled for is as far back as
  the walk over the list allows;
- `CursorsStand`: a cursor is the buffer of the position it stands for, and so is the
  copy that `addClient` took of `room->buffer` before its greeting.

From it follow `AheadByOne`, and the two action properties `DriftSettled` (how far a
client is out of step is fixed once it has started) and `InStepCopiesOwn` (a client that is not lapped copies
the message of its token).

*TransportProofs.* `LifeInv` ties `main` to the listener and the capture, which gives
`RoomFreedAlone`. Until `main` frees, each step of the program is a step of the room, so
`RoomInv` holds (`RoomHoldsInProgram`); afterwards it need not, and the types are proved
on their own (`TransportTypeCorrect`). `TransportInv` adds that freed clients that were not reaped are
those `freeClients` has passed (`FreedBehind`) and that the list is intact until the first
client is reaped (`Untouched`); `FreedTouchedOnlyThen` follows: there are three ways to undefined behaviour and no other
(`UndefinedEnds`: nothing happens after it).
`SocketsAreClosed` adds what is known of a socket at each stage of its client (`SocketsKept`) and that no client is
lost from the list before the first one is reaped (`NoneLost`).

*MessagePackerProofs.* The buffer of a direction begins with what was forwarded
last in it (`HeldBeginsWithLatest`). It gives `ForwardsNeverRepeat` and
`DropsAreComparable`.

*CaptureProofs.* `CaptureInv` carries the packer's invariant through the start and adds
that both searches found a match of the keyword (`Found`), and that the last message carries the mark of its direction's buffer
(`Marked`). It gives `CaptureTypeCorrect`, `OneAdapterFound`, `MarksArrivals` and
`CaptureNeverRepeats`.

*FilterProofs.* `CapturesOwnOnly` and its companions compare a filter with a table, and
between the two lies only a text. What the text has to carry is stated by places:
`Piece(t, i, j)` says that the characters `i` to `j` of `t` lie between dashes. Three
groups of lemmas speak of texts alone:

- what a buffer becomes when an address is appended and cut at its end (`Growth`, `FitLocal`,
  `FitRemote`): the pieces there were, and one more, which is whole unless the buffer is full;
- what `strstr` tells (`PieceOccurs`, `PieceAround`, `GrownOccurs`): an address that
  occurs in the text is part of one piece, since it has no dash; with the dash
  after it, it is the end of one. So what is listed differs from every piece there is;
- what `strtok_r` and `atol` return (`TokenPiece`, `ParsedMadeFrom`): the pieces one after the other, and a
  clause parsed from the text of an address is for that address, or has the largest long in its place. It rests on
  `DecimalRead` (a number written in decimal is read back) and `OctetsStand` (its four
  bytes stand for it).

`Decimal` and `Number` are recursive functions. That they are defined
everywhere (`Recursion`, `DecimalDef`, `NumberDef`), and `DecimalRead`, are inductions; each
is an argument about the least counterexample (`NatLeast`), for which the library's
theorem on minimal elements of well-founded relations suffices. None of the
induction theorems with an operator as a parameter is used.

`GettersInv` has a part for each stage. `ScanText`: each whole piece is the text of a row of the
process looked at so far, and each such row's text occurs, unless the buffer is full. `LinesText`: as
many pieces are of nobody's lines as lines were cut, and one more if the buffer is full; as many
addresses are missing as lines were cut. `HandedOver`: cutting off the first or the last
dash keeps the pieces. `ParsedSoFar`: the clauses are those of the pieces up to
the place where `strtok_r` stands, in order (`Taken`). The two counting properties then follow by
injections: each wrong clause has the end of a wrong piece of its own (`PeersOnly`), and a lost address that is
the end of no address from which a clause was made is missing from the text (`LostInEnds`). `OneMore`
is the step of the counts: a cut line adds at most one.

So each safety property that a passing run checks is a theorem. Only model-checked:
liveness (`BroadcastReturns`, `FailedIsReaped`, `EventuallyCaughtUp`, `AcceptsAgain`,
`CaptureNeverStalls`, `EndsAfterBoth`), which is beyond the prover, and the four properties
the runs refute (section 4).

## 6. Not modelled

- `pcap/`, the vendored Npcap SDK, and the build files. They hold no code of this
  program. The SDK's headers are about 5000 of
  the repository's 6200 lines, so that nearly all of the program's own functions are
  mapped although the mapped share of all lines is small. What the program relies on (`pcap_findalldevs`,
  `pcap_open_live`, `pcap_loop`) is part of `Capture` and `Transport`.
- Failures of `malloc`, `CreateSemaphore` and `CreateThread` that the code does not test:
  any of them is a null pointer or handle used, and nothing after it has a meaning.
- UDP length fields below 8, which wrap in `message.c:52`; short frames with padding are
  modelled only as far as they are refused.
- `freePcapHandler`, which nothing calls, and the members of the room and packer that `freeRoom` and
  `freeMessagePacker` release with the last `free`, when no thread uses them.
- netstat's IPv6 lines and the columns of its lines; the wording of the filter;
  logging, console code page and messages to the user.
- Several processes of one name beyond what `FirstNamed` says: the first is asked.

---------------------------- MODULE BroadcastLog ----------------------------
(***************************************************************************)
(* What the ring of buffers promises to the threads that read it: a log of *)
(* numbered messages of which the last Window can be copied, each copy     *)
(* being one whole published message, or nothing while the log is shorter  *)
(* than the window.  No locks, no intermediate steps: publishing and       *)
(* copying are atomic.  BufferRing implements this specification.          *)
(***************************************************************************)
EXTENDS Integers

CONSTANTS
  Window,   \* how many messages stay readable
  Readers,  \* the threads that copy messages out
  MaxSn,    \* bound on the number of messages published
  JunkSn    \* serial numbers found in a buffer nothing was written to

VARIABLES
  published,  \* number of messages published so far
  got         \* got[r]: the last thing reader r copied

logVars == <<published, got>>

(* Message k carries payload k; payload 0 is the empty buffer.             *)
Message(k) == [sn |-> k, data |-> k]
Blank == {[sn |-> j, data |-> 0] : j \in JunkSn}

Readable ==
  {Message(k) : k \in {i \in 1 .. published : published - i < Window}}
    \cup (IF published < Window THEN Blank ELSE {})

LogInit ==
  /\ published = 0
  /\ got = [r \in Readers |-> [sn |-> 0, data |-> 0]]

PublishNext ==
  /\ published < MaxSn
  /\ published' = published + 1
  /\ UNCHANGED got

CopyOne(r) ==
  /\ \E m \in Readable : got' = [got EXCEPT ![r] = m]
  /\ UNCHANGED published

LogNext == PublishNext \/ \E r \in Readers : CopyOne(r)

LogSpec == LogInit /\ [][LogNext]_logVars
=============================================================================

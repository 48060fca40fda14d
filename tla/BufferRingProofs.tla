-------------------------- MODULE BufferRingProofs --------------------------
(***************************************************************************)
(* Theorems about BufferRing, for every ring size, set of readers, number  *)
(* of publications and contents of the unset sn fields: RingHoldsLatest    *)
(* always holds, and the ring implements BroadcastLog.                     *)
(***************************************************************************)
EXTENDS BufferRing, TLAPS

-----------------------------------------------------------------------------
(* Counting round the ring: which buffer a publication goes to.            *)

(* A publication goes to one of the ring's buffers.                        *)
LEMMA BufferOfIsBuffer ==
  ASSUME NEW k \in Nat
  PROVE  BufferOf(k) \in Buffers
BY RingAssumption DEF BufferOf, Buffers

(* A publication is made of whole laps and a place in the ring.            *)
LEMMA Decompose ==
  ASSUME NEW k \in Nat
  PROVE  /\ k \div BufferCount \in Nat
         /\ k = (k \div BufferCount) * BufferCount + BufferOf(k)
BY RingAssumption DEF BufferOf

(* An earlier lap ends before a later one begins.                          *)
LEMMA LessProduct ==
  ASSUME NEW p \in Nat, NEW q \in Nat, p < q
  PROVE  p * BufferCount + BufferCount <= q * BufferCount
<1>1. (p + 1) * BufferCount = p * BufferCount + BufferCount
  BY RingAssumption
<1>2. PICK d \in Nat : q = p + 1 + d
  <2>1. q - p - 1 \in Nat /\ q = p + 1 + (q - p - 1)
    OBVIOUS
  <2> QED BY <2>1
<1>3. q * BufferCount = (p + 1) * BufferCount + d * BufferCount
  BY <1>2, RingAssumption
<1>4. d * BufferCount >= 0
  BY RingAssumption
<1> QED
  BY <1>1, <1>3, <1>4, RingAssumption

(* Lap and place are determined by the publication.                        *)
LEMMA Unique ==
  ASSUME NEW p \in Nat, NEW q \in Nat, NEW r \in Nat, NEW s \in Nat,
         r < BufferCount, s < BufferCount,
         p * BufferCount + r = q * BufferCount + s
  PROVE  p = q /\ r = s
<1>1. p * BufferCount \in Nat /\ q * BufferCount \in Nat
  BY RingAssumption
<1>2. ~(p < q) /\ ~(q < p)
  BY <1>1, LessProduct, RingAssumption
<1> QED
  BY <1>1, <1>2, RingAssumption

(* buffer->next of one publication's buffer is the buffer of the next:     *)
(* room->buffer and sn advance together (broadcasting_room.c:44-45).       *)
LEMMA NextOfBuffer ==
  ASSUME NEW k \in Nat
  PROVE  NextOf(BufferOf(k)) = BufferOf(k + 1)
<1> DEFINE q == k \div BufferCount
           p == (k + 1) \div BufferCount
           r == BufferOf(k)
           s == BufferOf(k + 1)
<1>1. k + 1 \in Nat
  OBVIOUS
<1>2. /\ r \in Nat /\ r < BufferCount
      /\ s \in Nat /\ s < BufferCount
  BY <1>1, BufferOfIsBuffer, RingAssumption DEF Buffers
<1>3. q \in Nat /\ p \in Nat
  BY <1>1, Decompose
<1>4. k = q * BufferCount + r /\ k + 1 = p * BufferCount + s
  BY <1>1, Decompose
<1> HIDE DEF q, p, r, s
<1>5. CASE r = BufferCount - 1
  <2>1. (q + 1) * BufferCount = q * BufferCount + BufferCount
    BY <1>3, RingAssumption
  <2>2. q * BufferCount \in Nat
    BY <1>3, RingAssumption
  <2>3. (q + 1) * BufferCount + 0 = p * BufferCount + s
    BY <1>4, <1>5, <2>1, <2>2, RingAssumption
  <2>4. 0 = s
    BY <1>2, <1>3, <2>3, Unique, RingAssumption
  <2> QED
    BY <1>5, <2>4 DEF NextOf, r, s
<1>6. CASE r # BufferCount - 1
  <2>1. r + 1 \in Nat /\ r + 1 < BufferCount
    BY <1>2, <1>6, RingAssumption
  <2>2. q * BufferCount \in Nat
    BY <1>3, RingAssumption
  <2>3. q * BufferCount + (r + 1) = p * BufferCount + s
    BY <1>2, <1>4, <2>2
  <2>4. r + 1 = s
    BY <1>2, <1>3, <2>1, <2>3, Unique
  <2> QED
    BY <1>6, <2>4 DEF NextOf, r, s
<1> QED
  BY <1>5, <1>6

(* Two publications less than a lap apart go to different buffers.         *)
LEMMA BufferOfInjective ==
  ASSUME NEW j \in Nat, NEW k \in Nat,
         BufferOf(j) = BufferOf(k), j - k < BufferCount, k - j < BufferCount
  PROVE  j = k
<1> DEFINE p == j \div BufferCount
           q == k \div BufferCount
           r == BufferOf(k)
<1>1. p \in Nat /\ q \in Nat
  BY Decompose
<1>2. j = p * BufferCount + r /\ k = q * BufferCount + r
  BY Decompose
<1>3. r \in Nat
  BY BufferOfIsBuffer, RingAssumption DEF Buffers
<1> HIDE DEF p, q, r
<1>4. p * BufferCount \in Nat /\ q * BufferCount \in Nat
  BY <1>1, RingAssumption
<1>5. ~(p < q) /\ ~(q < p)
  BY <1>1, <1>2, <1>3, <1>4, LessProduct, RingAssumption
<1>6. p = q
  BY <1>1, <1>5
<1> QED
  BY <1>2, <1>6

(* The publication at a given place of a given lap goes to that place.     *)
LEMMA BufferOfPlace ==
  ASSUME NEW p \in Nat, NEW r \in Buffers
  PROVE  p * BufferCount + r \in Nat /\ BufferOf(p * BufferCount + r) = r
<1> DEFINE k == p * BufferCount + r
           q == k \div BufferCount
           s == BufferOf(k)
<1>1. r \in Nat /\ r < BufferCount
  BY RingAssumption DEF Buffers
<1>2. k \in Nat
  BY <1>1, RingAssumption
<1>3. q \in Nat /\ k = q * BufferCount + s
  BY <1>2, Decompose
<1>4. s \in Nat /\ s < BufferCount
  BY <1>2, BufferOfIsBuffer, RingAssumption DEF Buffers
<1>5. p * BufferCount + r = q * BufferCount + s
  BY <1>3
<1> HIDE DEF q, s
<1>6. r = s
  BY <1>1, <1>3, <1>4, <1>5, Unique
<1> QED
  BY <1>2, <1>6 DEF s

(* A publication goes to the buffer of the one a lap earlier.              *)
LEMMA BufferOfLap ==
  ASSUME NEW k \in Nat
  PROVE  BufferOf(k + BufferCount) = BufferOf(k)
<1> DEFINE q == k \div BufferCount
           r == BufferOf(k)
<1>1. q \in Nat /\ k = q * BufferCount + r
  BY Decompose
<1>2. r \in Buffers
  BY BufferOfIsBuffer
<1> HIDE DEF q, r
<1>3. (q + 1) * BufferCount = q * BufferCount + BufferCount
  BY <1>1, RingAssumption
<1>4. q * BufferCount \in Nat /\ r \in Nat
  BY <1>1, <1>2, RingAssumption DEF Buffers
<1>5. k + BufferCount = (q + 1) * BufferCount + r
  BY <1>1, <1>3, <1>4, RingAssumption
<1>6. BufferOf((q + 1) * BufferCount + r) = r
  BY <1>1, <1>2, BufferOfPlace
<1> QED
  BY <1>5, <1>6 DEF r

(* Once there have been enough publications, each buffer is that of one of *)
(* the last BufferCount.                                                   *)
LEMMA BufferOfOnto ==
  ASSUME NEW w \in Nat, w >= BufferCount, NEW b \in Buffers
  PROVE  \E k \in 1 .. w : w - k < BufferCount /\ BufferOf(k) = b
<1> DEFINE q == w \div BufferCount
           r == BufferOf(w)
<1>1. q \in Nat /\ w = q * BufferCount + r
  BY Decompose
<1>2. r \in Buffers
  BY BufferOfIsBuffer
<1> HIDE DEF q, r
<1>3. r \in Nat /\ r < BufferCount /\ b \in Nat /\ b < BufferCount
  BY <1>2, RingAssumption DEF Buffers
<1>4. q # 0
  BY <1>1, <1>3, RingAssumption
<1>5. PICK p \in Nat : q = p + 1
  <2>1. q - 1 \in Nat /\ q = (q - 1) + 1
    BY <1>1, <1>4
  <2> QED BY <2>1
<1>6. p * BufferCount \in Nat
  BY RingAssumption
<1>7. q * BufferCount = p * BufferCount + BufferCount
  BY <1>5, RingAssumption
<1>8. CASE b <= r
  <2>1. BufferOf(q * BufferCount + b) = b
    BY <1>1, BufferOfPlace
  <2>2. /\ q * BufferCount + b \in 1 .. w
        /\ w - (q * BufferCount + b) < BufferCount
    BY <1>1, <1>3, <1>6, <1>7, <1>8, RingAssumption
  <2> QED BY <2>1, <2>2
<1>9. CASE b > r
  <2>1. BufferOf(p * BufferCount + b) = b
    BY BufferOfPlace
  <2>2. /\ p * BufferCount + b \in 1 .. w
        /\ w - (p * BufferCount + b) < BufferCount
    BY <1>1, <1>3, <1>6, <1>7, <1>9, RingAssumption
  <2> QED BY <2>1, <2>2
<1> QED
  BY <1>3, <1>8, <1>9

-----------------------------------------------------------------------------
(* The inductive invariant.                                                *)

(* The capture thread's place in the ring and the locks agree.             *)
LocksAgree ==
  /\ head = BufferOf(sn)
  /\ wpc # "idle" => sn > 0
  /\ \A b \in Buffers :
       /\ excl[b] <=> b = head /\ wpc \in {"copy", "stamp"}
       /\ excl[b] => shared[b] = {}

(* What a buffer holds belongs there, and outside the exclusive lock its   *)
(* serial number is that of its payload.                                   *)
BuffersWhole ==
  \A b \in Buffers :
    /\ ring[b].data # 0 => BufferOf(ring[b].data) = b
    /\ (b = head /\ wpc = "stamp") \/
         (IF ring[b].data = 0 THEN ring[b].sn \in JunkSn ELSE ring[b].sn = ring[b].data)

(* The conjunction of all parts is inductive.                              *)
RingInv == RingTypeOK /\ LocksAgree /\ BuffersWhole /\ RingHoldsLatest

(* The empty ring satisfies the invariant.                                 *)
LEMMA RingInitInv == RingInit => RingInv
<1> SUFFICES ASSUME RingInit PROVE RingInv
  OBVIOUS
<1> USE RingAssumption
<1>1. /\ sn = 0 /\ head = 0 /\ wpc = "idle"
      /\ ring \in [Buffers -> [sn : JunkSn, data : {0}]]
      /\ excl = [b \in Buffers |-> FALSE]
      /\ shared = [b \in Buffers |-> {}]
      /\ copy = [r \in Readers |-> [sn |-> 0, data |-> 0]]
  BY DEF RingInit
<1>2. \A b \in Buffers : ring[b].data = 0 /\ ring[b].sn \in JunkSn
  BY <1>1
<1>3. 0 \in Buffers /\ BufferOf(0) = 0
  BY DEF Buffers, BufferOf
<1>4. RingTypeOK
  <2>1. ring \in [Buffers -> [sn : Nat, data : Nat]]
    <3>1. \A b \in Buffers : ring[b] \in [sn : JunkSn, data : {0}]
      BY <1>1
    <3>2. ASSUME NEW m \in [sn : JunkSn, data : {0}]
          PROVE  m \in [sn : Nat, data : Nat]
      <4>1. m = [sn |-> m.sn, data |-> m.data] /\ m.sn \in JunkSn /\ m.data = 0
        OBVIOUS
      <4>2. m.sn \in Nat /\ m.data \in Nat
        <5>1. m.sn \in Nat
          BY <4>1, Zenon
        <5>2. m.data \in Nat
          BY <4>1
        <5> QED BY <5>1, <5>2
      <4>3. [sn |-> m.sn, data |-> m.data] \in [sn : Nat, data : Nat]
        BY <4>2
      <4> QED
        BY <4>1, <4>3
    <3>3. \A b \in Buffers : ring[b] \in [sn : Nat, data : Nat]
      BY <3>1, <3>2
    <3> QED
      BY <1>1, <3>3
  <2>2. copy \in [Readers -> [sn : Nat, data : Nat]]
    BY <1>1
  <2>3. excl \in [Buffers -> BOOLEAN] /\ shared \in [Buffers -> SUBSET Readers]
    BY <1>1
  <2>4. sn \in 0 .. MaxSn /\ head \in Buffers
    BY <1>1, <1>3
  <2> QED
    BY <1>1, <2>1, <2>2, <2>3, <2>4 DEF RingTypeOK
<1>5. LocksAgree
  BY <1>1, <1>3 DEF LocksAgree
<1>6. BuffersWhole
  BY <1>2 DEF BuffersWhole
<1>7. RingHoldsLatest
  BY <1>1, <1>2 DEF RingHoldsLatest, Written
<1> QED
  BY <1>4, <1>5, <1>6, <1>7 DEF RingInv

(* The steps of the capture thread keep the invariant.  CopyIn is the one  *)
(* that matters: it overwrites exactly the message that is a lap old.      *)
LEMMA AdvanceInv == RingInv /\ Advance => RingInv'
<1> SUFFICES ASSUME RingInv, Advance PROVE RingInv'
  OBVIOUS
<1> USE RingAssumption DEF RingInv, Advance
<1>1. sn \in Nat /\ sn + 1 \in 0 .. MaxSn
  BY DEF RingTypeOK
<1>2. head' = BufferOf(sn')
  BY <1>1, NextOfBuffer DEF LocksAgree
<1>3. head' \in Buffers
  BY <1>1, <1>2, BufferOfIsBuffer
<1>4. RingTypeOK'
  BY <1>1, <1>3 DEF RingTypeOK
<1>5. LocksAgree'
  BY <1>1, <1>2 DEF LocksAgree
<1>6. BuffersWhole'
  BY DEF BuffersWhole
<1>7. Written' = Written
  BY <1>1 DEF Written
<1>8. RingHoldsLatest'
  BY <1>7 DEF RingHoldsLatest
<1> QED
  BY <1>4, <1>5, <1>6, <1>8

(* The publisher gets its lock when no reader has it.                      *)
LEMMA LockExclusiveInv == RingInv /\ LockExclusive => RingInv'
<1> SUFFICES ASSUME RingInv, LockExclusive PROVE RingInv'
  OBVIOUS
<1> USE RingAssumption DEF RingInv, LockExclusive
<1>1. RingTypeOK'
  BY DEF RingTypeOK
<1>2. LocksAgree'
  BY DEF LocksAgree, RingTypeOK, MayLockExclusive
<1>3. BuffersWhole'
  BY DEF BuffersWhole
<1>4. RingHoldsLatest'
  BY DEF RingHoldsLatest, Written
<1> QED
  BY <1>1, <1>2, <1>3, <1>4

LEMMA CopyInInv == RingInv /\ CopyIn => RingInv'
<1> SUFFICES ASSUME RingInv, CopyIn PROVE RingInv'
  OBVIOUS
<1> USE RingAssumption DEF RingInv, CopyIn
<1>1. sn \in Nat /\ head \in Buffers /\ head = BufferOf(sn)
  BY DEF RingTypeOK, LocksAgree
<1>2. /\ ring'[head].data = sn
      /\ \A b \in Buffers \ {head} : ring'[b] = ring[b]
  BY <1>1 DEF RingTypeOK
<1>3. RingTypeOK'
  BY <1>1 DEF RingTypeOK
<1>4. LocksAgree'
  BY DEF LocksAgree
<1>5. BuffersWhole'
  BY <1>1, <1>2 DEF BuffersWhole
<1>6. Written = sn - 1 /\ Written' = sn
  BY DEF Written
<1>7. ASSUME NEW k \in 1 .. sn, sn - k < BufferCount
      PROVE  ring'[BufferOf(k)].data = k
  <2>1. CASE k = sn
    BY <1>1, <1>2, <2>1
  <2>2. CASE k # sn
    <3>1. k \in Nat /\ k - sn < BufferCount
      BY <1>1, <1>7
    <3>2. BufferOf(k) \in Buffers \ {head}
      BY <1>1, <1>7, <2>2, <3>1, BufferOfIsBuffer, BufferOfInjective
    <3>3. ring[BufferOf(k)].data = k
      BY <1>1, <1>6, <1>7, <2>2 DEF RingHoldsLatest
    <3> QED
      BY <1>2, <3>2, <3>3
  <2> QED
    BY <2>1, <2>2
<1>8. ASSUME NEW b \in Buffers, ring'[b].data # 0
      PROVE  ring'[b].data \in 1 .. sn /\ sn - ring'[b].data < BufferCount
  <2>1. CASE b = head
    BY <1>1, <1>2, <1>8, <2>1
  <2>2. CASE b # head
    <3> DEFINE k == ring[b].data
    <3>1. k # 0 /\ BufferOf(k) = b
      BY <1>2, <1>8, <2>2 DEF BuffersWhole
    <3>2. k \in 1 .. sn - 1 /\ sn - 1 - k < BufferCount
      BY <1>6, <3>1 DEF RingHoldsLatest
    <3>3. k + BufferCount # sn
      BY <1>1, <2>2, <3>1, <3>2, BufferOfLap
    <3> QED
      BY <1>1, <1>2, <2>2, <3>2, <3>3
  <2> QED
    BY <2>1, <2>2
<1>9. RingHoldsLatest'
  BY <1>6, <1>7, <1>8 DEF RingHoldsLatest
<1> QED
  BY <1>3, <1>4, <1>5, <1>9

(* The stamp makes the buffer whole before the lock is released.           *)
LEMMA StampAndReleaseInv == RingInv /\ StampAndRelease => RingInv'
<1> SUFFICES ASSUME RingInv, StampAndRelease PROVE RingInv'
  OBVIOUS
<1> USE RingAssumption DEF RingInv, StampAndRelease
<1>1. sn \in Nat /\ sn > 0 /\ head \in Buffers /\ head = BufferOf(sn)
  BY DEF RingTypeOK, LocksAgree
<1>2. \A b \in Buffers :
        /\ ring'[b].data = ring[b].data
        /\ ring'[b].sn = IF b = head THEN sn ELSE ring[b].sn
  BY <1>1 DEF RingTypeOK
<1>3. ring[head].data = sn
  BY <1>1 DEF RingHoldsLatest, Written
<1>4. RingTypeOK'
  BY <1>1 DEF RingTypeOK
<1>5. LocksAgree'
  BY <1>1 DEF LocksAgree, RingTypeOK
<1>6. BuffersWhole'
  BY <1>1, <1>2, <1>3 DEF BuffersWhole
<1>7. Written' = Written
  BY DEF Written
<1>8. \A k \in 1 .. Written : BufferOf(k) \in Buffers
  BY <1>1, BufferOfIsBuffer DEF Written
<1>9. RingHoldsLatest'
  BY <1>2, <1>7, <1>8 DEF RingHoldsLatest
<1> QED
  BY <1>4, <1>5, <1>6, <1>9

(* The steps of a reader keep the invariant.                               *)
LEMMA LockSharedInv ==
  ASSUME NEW r \in Readers, NEW b \in Buffers
  PROVE  RingInv /\ LockShared(r, b) => RingInv'
<1> SUFFICES ASSUME RingInv, LockShared(r, b) PROVE RingInv'
  OBVIOUS
<1> USE RingAssumption DEF RingInv, LockShared
<1>1. RingTypeOK'
  BY DEF RingTypeOK
<1>2. LocksAgree'
  BY DEF LocksAgree, RingTypeOK, MayLockShared
<1>3. BuffersWhole'
  BY DEF BuffersWhole
<1>4. RingHoldsLatest'
  BY DEF RingHoldsLatest, Written
<1> QED
  BY <1>1, <1>2, <1>3, <1>4

(* Copying a buffer out changes nothing in the ring.                       *)
LEMMA CopyOutInv ==
  ASSUME NEW r \in Readers, NEW b \in Buffers
  PROVE  RingInv /\ CopyOut(r, b) => RingInv'
<1> SUFFICES ASSUME RingInv, CopyOut(r, b) PROVE RingInv'
  OBVIOUS
<1> USE RingAssumption DEF RingInv, CopyOut
<1>1. RingTypeOK'
  BY DEF RingTypeOK
<1>2. LocksAgree'
  BY DEF LocksAgree, RingTypeOK
<1>3. BuffersWhole'
  BY DEF BuffersWhole
<1>4. RingHoldsLatest'
  BY DEF RingHoldsLatest, Written
<1> QED
  BY <1>1, <1>2, <1>3, <1>4

(* Nor does a step that is not one of the ring's.                          *)
LEMMA RingStutterInv == RingInv /\ UNCHANGED ringVars => RingInv'
BY DEF RingInv, ringVars, RingTypeOK, LocksAgree, BuffersWhole,
       RingHoldsLatest, Written

(* Together: every step of the ring keeps it.                              *)
LEMMA RingStepInv == RingInv /\ [RingNext]_ringVars => RingInv'
BY AdvanceInv, LockExclusiveInv, CopyInInv, StampAndReleaseInv,
   LockSharedInv, CopyOutInv, RingStutterInv DEF RingNext

(* RingInv is an invariant of the ring.                                    *)
THEOREM RingInvariant == RingSpec => []RingInv
BY RingInitInv, RingStepInv, PTL DEF RingSpec

(* The variables of the ring have their types.                             *)
THEOREM RingTypeCorrect == RingSpec => []RingTypeOK
<1>1. RingInv => RingTypeOK
  BY DEF RingInv
<1> QED
  BY <1>1, RingInvariant, PTL

(* For every size of the ring, at every moment, each of the last           *)
(* BufferCount messages is in the buffer where a cursor that counts        *)
(* buffers finds it, and no other message is.                              *)
THEOREM RingCorrect == RingSpec => []RingHoldsLatest
<1>1. RingInv => RingHoldsLatest
  BY DEF RingInv
<1> QED
  BY <1>1, RingInvariant, PTL

-----------------------------------------------------------------------------
(* The ring implements the log.                                            *)

(* What a reader that holds the lock copies is readable in the log: the    *)
(* shared lock keeps it from the buffer that is being filled.              *)
LEMMA CopyIsReadable ==
  ASSUME RingInv, NEW b \in Buffers, shared[b] # {}
  PROVE  ring[b] \in Log!Readable
<1> USE RingAssumption DEF RingInv
<1>1. ~(b = head /\ wpc \in {"copy", "stamp"})
  BY DEF LocksAgree
<1>2. ring[b] \in [sn : Nat, data : Nat] /\ sn \in Nat /\ Released \in Int
  BY DEF RingTypeOK, Released
<1>3. ring[b] = [sn |-> ring[b].sn, data |-> ring[b].data]
  BY <1>2
<1>4. CASE ring[b].data = 0
  <2>1. ring[b].sn \in JunkSn
    BY <1>1, <1>4 DEF BuffersWhole
  <2>2. Released < BufferCount
    <3>1. SUFFICES ASSUME Released >= BufferCount PROVE FALSE
      BY <1>2
    <3>2. Written \in Nat /\ Written >= BufferCount
      BY <1>2, <3>1 DEF Written, Released, RingTypeOK
    <3>3. PICK k \in 1 .. Written : Written - k < BufferCount /\ BufferOf(k) = b
      BY <3>2, BufferOfOnto
    <3> QED
      BY <1>4, <3>2, <3>3 DEF RingHoldsLatest
  <2>3. ring[b] \in Log!Blank
    BY <1>3, <1>4, <2>1 DEF Log!Blank
  <2> QED
    BY <2>2, <2>3 DEF Log!Readable
<1>5. CASE ring[b].data # 0
  <2> DEFINE k == ring[b].data
  <2>1. ring[b].sn = k
    BY <1>1, <1>5 DEF BuffersWhole
  <2>2. BufferOf(k) = b
    BY <1>5 DEF BuffersWhole
  <2>3. k \in 1 .. Written /\ Written - k < BufferCount
    BY <1>5 DEF RingHoldsLatest
  <2>4. wpc = "stamp" => k # sn
    BY <1>1, <2>2 DEF LocksAgree
  <2>5. wpc \in {"idle", "lock", "copy", "stamp"}
    BY DEF RingTypeOK
  <2>6. k \in 1 .. Released /\ Released - k < BufferCount
    <3> HIDE DEF RingInv
    <3>1. CASE wpc = "stamp"
      <4>1. Written = sn /\ Released = sn - 1
        BY <3>1 DEF Written, Released
      <4> QED
        BY <1>2, <2>3, <2>4, <3>1, <4>1
    <3>2. CASE wpc # "stamp"
      <4>1. Written = Released
        BY <2>5, <3>2 DEF Written, Released
      <4> QED
        BY <1>2, <2>3, <4>1
    <3> QED
      BY <3>1, <3>2
  <2>7. ring[b] = Log!Message(k)
    BY <1>3, <2>1 DEF Log!Message
  <2> QED
    BY <2>6, <2>7 DEF Log!Readable
<1> QED
  BY <1>4, <1>5

(* The ring starts as the empty log.                                       *)
LEMMA LogInitially == RingInit => Log!LogInit
BY DEF RingInit, Released, Log!LogInit

(* Only the release of the exclusive lock publishes, only the copy under   *)
(* the shared lock reads; every other step is one of the log's stutters.   *)
LEMMA LogStep ==
  RingInv /\ RingInv' /\ [RingNext]_ringVars => [Log!LogNext]_(Log!logVars)
<1> SUFFICES ASSUME RingInv, [RingNext]_ringVars
             PROVE  [Log!LogNext]_(Log!logVars)
  OBVIOUS
<1> USE DEF Log!logVars, Released
<1>1. CASE Advance
  BY <1>1 DEF Advance, RingInv, RingTypeOK
<1>2. CASE LockExclusive
  BY <1>2 DEF LockExclusive
<1>3. CASE CopyIn
  BY <1>3 DEF CopyIn
<1>4. CASE StampAndRelease
  <2>1. Log!PublishNext
    BY <1>4, RingAssumption
       DEF StampAndRelease, Log!PublishNext, RingInv, RingTypeOK
  <2> QED
    BY <2>1 DEF Log!LogNext
<1>5. ASSUME NEW r \in Readers, NEW b \in Buffers, LockShared(r, b)
      PROVE  [Log!LogNext]_(Log!logVars)
  BY <1>5 DEF LockShared
<1>6. ASSUME NEW r \in Readers, NEW b \in Buffers, CopyOut(r, b)
      PROVE  [Log!LogNext]_(Log!logVars)
  <2>1. ring[b] \in Log!Readable
    BY <1>6, CopyIsReadable DEF CopyOut
  <2>2. Log!CopyOne(r)
    BY <1>6, <2>1 DEF CopyOut, Log!CopyOne
  <2> QED
    BY <2>2 DEF Log!LogNext
<1>7. CASE UNCHANGED ringVars
  BY <1>7 DEF ringVars
<1> QED
  BY <1>1, <1>2, <1>3, <1>4, <1>5, <1>6, <1>7 DEF RingNext

(* The lock protocol of broadcastData and mainLoop implements a log of     *)
(* whole messages of which the last BufferCount can be copied.             *)
THEOREM RingImplementsLog == RingSpec => LogSpec
<1> QED
  BY LogInitially, LogStep, RingInvariant, PTL DEF RingSpec, LogSpec, Log!LogSpec
=============================================================================

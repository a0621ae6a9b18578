-------------------------------- MODULE PMapProofs ---------------------------------
(***************************************************************************)
(* A chunk for any keys, hashes, sizes and limits.  The windows of its     *)
(* checksum on their own: time stability, for every set of items, every    *)
(* set of timestamps and every length of a second.  Then Base, the part of *)
(* the invariant of the map that needs no search: the types, and a count   *)
(* of the buckets in use that respects the load factor in every phase and  *)
(* during an expansion, so that each probing loop ends.                    *)
(***************************************************************************)
EXTENDS PMap, ChecksumWindows, FiniteSetTheorems, WellFoundedInduction, TLAPS
-------------------------------------------------------------------------------------
(* The windows of the checksum *)

(* A timestamp moves newTime strictly beyond itself, to a whole second. *)
LEMMA NextSecondFacts ==
    ASSUME NEW t \in Nat
    PROVE  /\ NextSecond(t) \in Nat
           /\ NextSecond(t) > t
           /\ WholeSecond(NextSecond(t))
<1> DEFINE q == t \div Second
<1>1. Second \in Nat /\ Second >= 1
  BY SecondAssumption
<1>2. q \in Nat /\ t < (q + 1) * Second
  BY <1>1
<1>3. (q + 1) * Second \in Nat /\ q + 1 <= (q + 1) * Second
  BY <1>1, <1>2
<1>4. NextSecond(t) = (q + 1) * Second
  BY DEF NextSecond
<1>5. \E n \in 0 .. NextSecond(t) : NextSecond(t) = n * Second
  <2>1. q + 1 \in 0 .. NextSecond(t)
    BY <1>2, <1>3, <1>4
  <2>2. QED
    BY <2>1, <1>4
<1>6. QED
  BY <1>2, <1>3, <1>4, <1>5 DEF WholeSecond

(* What the head of sum() and checksum() keeps: the windows may move, nothing is lost. *)
LEMMA MoveForwardKeepsInv ==
    ASSUME WindowsInv, NEW t \in Clock
    PROVE  LET m == MoveForward(sync, t)
           IN  /\ m \in [newChecksum : [Summands -> Int], mediumChecksum : [Summands -> Int],
                         oldChecksum : [Summands -> Int],
                         newTime : Int, mediumTime : Int, oldTime : Int]
               /\ WholeSecond(m.newTime) /\ WholeSecond(m.mediumTime) /\ WholeSecond(m.oldTime)
               /\ t <= m.newTime /\ m.oldTime <= m.mediumTime /\ m.mediumTime <= m.newTime
               /\ \A x \in Summands :
                     /\ TimeOf(x) < m.oldTime    => m.oldChecksum[x] = m.newChecksum[x]
                     /\ TimeOf(x) > m.oldTime    => m.oldChecksum[x] = 0
                     /\ TimeOf(x) < m.mediumTime => m.mediumChecksum[x] = m.newChecksum[x]
                     /\ TimeOf(x) > m.mediumTime => m.mediumChecksum[x] = 0
                     /\ TimeOf(x) > m.newTime    => m.newChecksum[x] = 0
<1>1. t \in Nat
  BY ClockAssumption
<1>2. \A x \in Summands : TimeOf(x) \in Nat
  BY ClockAssumption, Zenon DEF Summands, TimeOf
<1>3. CASE t > sync.newTime
  <2>1. NextSecond(t) \in Nat /\ NextSecond(t) > t /\ WholeSecond(NextSecond(t))
    BY <1>1, NextSecondFacts
  <2>2. QED
    BY <1>1, <1>2, <1>3, <2>1 DEF MoveForward, WindowsInv, WindowsTypeOK, TimeStable, NothingAhead
<1>4. CASE ~(t > sync.newTime)
  BY <1>1, <1>4 DEF MoveForward, WindowsInv, WindowsTypeOK, TimeStable, NothingAhead
<1>5. QED
  BY <1>3, <1>4

(* Adding a term x at its own time, once no window lies behind it, keeps the invariant. *)
LEMMA AddTermKeepsInv ==
    ASSUME WindowsInv, NEW x \in Summands, NEW n \in Int,
           sync' = AddTerm(MoveForward(sync, TimeOf(x)), x, n, TimeOf(x))
    PROVE  WindowsInv'
<1> DEFINE t == TimeOf(x)
           m == MoveForward(sync, t)
<1>1. t \in Clock /\ t \in Nat
  BY ClockAssumption, Zenon DEF Summands, TimeOf
<1>2. \A y \in Summands : TimeOf(y) \in Nat
  BY ClockAssumption, Zenon DEF Summands, TimeOf
<1>3. /\ m \in [newChecksum : [Summands -> Int], mediumChecksum : [Summands -> Int],
                oldChecksum : [Summands -> Int],
                newTime : Int, mediumTime : Int, oldTime : Int]
      /\ WholeSecond(m.newTime) /\ WholeSecond(m.mediumTime) /\ WholeSecond(m.oldTime)
      /\ t <= m.newTime /\ m.oldTime <= m.mediumTime /\ m.mediumTime <= m.newTime
      /\ \A y \in Summands :
            /\ TimeOf(y) < m.oldTime    => m.oldChecksum[y] = m.newChecksum[y]
            /\ TimeOf(y) > m.oldTime    => m.oldChecksum[y] = 0
            /\ TimeOf(y) < m.mediumTime => m.mediumChecksum[y] = m.newChecksum[y]
            /\ TimeOf(y) > m.mediumTime => m.mediumChecksum[y] = 0
            /\ TimeOf(y) > m.newTime    => m.newChecksum[y] = 0
  BY <1>1, MoveForwardKeepsInv
<1> HIDE DEF m
<1>4. sync' = AddTerm(m, x, n, t)
  BY DEF m
<1>5. WindowsTypeOK'
  <2>1. /\ sync'.newTime = m.newTime /\ sync'.mediumTime = m.mediumTime /\ sync'.oldTime = m.oldTime
    BY <1>4 DEF AddTerm
  <2>2. ASSUME NEW c \in [Summands -> Int] PROVE AddTo(c, x, n) \in [Summands -> Int]
    BY DEF AddTo
  <2>3. sync' \in [newChecksum : [Summands -> Int], mediumChecksum : [Summands -> Int],
               oldChecksum : [Summands -> Int],
               newTime : Int, mediumTime : Int, oldTime : Int]
    BY <1>3, <1>4, <2>2 DEF AddTerm
  <2>4. WholeSecond(sync'.newTime) /\ WholeSecond(sync'.mediumTime) /\ WholeSecond(sync'.oldTime)
    BY <1>3, <2>1
  <2>5. QED
    BY <2>1, <2>3, <2>4 DEF WindowsTypeOK, WholeSecond
<1>6. TimeStable'
  BY <1>1, <1>2, <1>3, <1>4 DEF TimeStable, AddTerm, AddTo
<1>7. NothingAhead'
  BY <1>1, <1>2, <1>3, <1>4 DEF NothingAhead, AddTerm, AddTo
<1>8. QED
  BY <1>5, <1>6, <1>7 DEF WindowsInv

(* Whatever order the terms arrive in, the lagging checksums hold exactly the terms older
   than their windows (syncchecksum.go, sum): the invariant of every behaviour. *)
THEOREM ChecksumInvariant == WindowsSpec => []WindowsInv
<1>1. WindowsInit => WindowsInv
  <2> SUFFICES ASSUME WindowsInit PROVE WindowsInv
    OBVIOUS
  <2>1. WholeSecond(ZeroTime)
    BY DEF WholeSecond
  <2>2. QED
    BY <2>1 DEF WindowsInit, WindowsInv, NewSyncChecksum, WindowsTypeOK, TimeStable, NothingAhead, ZeroTime
<1>2. WindowsInv /\ [WindowsNext]_sync => WindowsInv'
  <2> SUFFICES ASSUME WindowsInv, [WindowsNext]_sync PROVE WindowsInv'
    OBVIOUS
  <2>1. ASSUME NEW x \in Summands, Sum(x) PROVE WindowsInv'
    BY <2>1, AddTermKeepsInv DEF Sum, SumTerm
  <2>2. ASSUME NEW x \in Summands, Sub(x) PROVE WindowsInv'
    BY <2>2, AddTermKeepsInv DEF Sub, SubTerm
  <2>3. ASSUME NEW now \in Clock, checksumAt(now) PROVE WindowsInv'
    <3>1. sync' = MoveForward(sync, now)
      BY <2>3 DEF checksumAt
    <3>2. QED
      BY <3>1, MoveForwardKeepsInv DEF WindowsInv, WindowsTypeOK, TimeStable, NothingAhead
  <2>4. CASE UNCHANGED sync
    BY <2>4 DEF WindowsInv, WindowsTypeOK, TimeStable, NothingAhead, WholeSecond
  <2>5. QED
    BY <2>1, <2>2, <2>3, <2>4 DEF WindowsNext
<1>3. QED
  BY <1>1, <1>2, PTL DEF WindowsSpec

(* The checksum replicas compare is time-stable (pmap.go, Checksum). *)
THEOREM ChecksumTimeStable == WindowsSpec => []TimeStable
<1>1. WindowsInv => TimeStable
  BY DEF WindowsInv
<1>2. QED
  BY <1>1, ChecksumInvariant, PTL

(* The windows stand in order and every term is within the newest (syncchecksum.go, sum). *)
THEOREM ChecksumNothingAhead == WindowsSpec => []NothingAhead
<1>1. WindowsInv => NothingAhead
  BY DEF WindowsInv
<1>2. QED
  BY <1>1, ChecksumInvariant, PTL

(* No window of the checksum ever turns back, however late a write arrives. *)
THEOREM ChecksumWindowsOnlyAdvance == WindowsSpec => WindowsOnlyAdvance
<1> DEFINE Forward == /\ sync'.oldTime >= sync.oldTime
                      /\ sync'.mediumTime >= sync.mediumTime
                      /\ sync'.newTime >= sync.newTime
<1>1. WindowsInv /\ [WindowsNext]_sync => [Forward]_sync
  <2> SUFFICES ASSUME WindowsInv, WindowsNext PROVE Forward
    OBVIOUS
  <2>1. ASSUME NEW t \in Clock
        PROVE  LET m == MoveForward(sync, t)
               IN m.oldTime >= sync.oldTime /\ m.mediumTime >= sync.mediumTime /\ m.newTime >= sync.newTime
    <3>1. t \in Nat /\ NextSecond(t) \in Nat /\ NextSecond(t) > t
      BY ClockAssumption, NextSecondFacts
    <3>2. QED
      BY <3>1 DEF MoveForward, WindowsInv, WindowsTypeOK, NothingAhead
  <2>2. \A x \in Summands : TimeOf(x) \in Clock
    BY DEF Summands, TimeOf
  <2>3. ASSUME NEW x \in Summands, NEW n,
               sync' = AddTerm(MoveForward(sync, TimeOf(x)), x, n, TimeOf(x))
        PROVE  Forward
    BY <2>1, <2>2, <2>3 DEF AddTerm
  <2>4. ASSUME NEW now \in Clock, checksumAt(now) PROVE Forward
    BY <2>1, <2>4 DEF checksumAt
  <2>5. QED
    BY <2>3, <2>4 DEF WindowsNext, Sum, Sub, SumTerm, SubTerm
<1>2. QED
  BY <1>1, ChecksumInvariant, PTL DEF WindowsSpec, WindowsOnlyAdvance

(* Every window boundary is a whole second or the zero time.Time, whatever is written and
   whenever the windows are moved forward, so replicas with different writes agree on it. *)
THEOREM ChecksumTypeCorrect == WindowsSpec => []WindowsTypeOK
<1>1. WindowsInv => WindowsTypeOK
  BY DEF WindowsInv
<1>2. QED
  BY <1>1, ChecksumInvariant, PTL
-------------------------------------------------------------------------------------
(* Least elements *)

(* A nonempty set of naturals has a least element. *)
LEMMA LeastElement ==
    ASSUME NEW S \in SUBSET Nat, S # {}
    PROVE  \E m \in S : \A x \in S : m <= x
<1> DEFINE R == OpToRel(<, Nat)
<1>1. IsWellFoundedOn(R, Nat)
  BY NatLessThanWellFounded, Zenon
<1>2. \A y, z \in Nat : y < z => <<y, z>> \in R
  BY Zenon DEF OpToRel
<1> HIDE DEF R
<1>3. PICK m \in S : \A y \in S : <<y, m>> \notin R
  BY <1>1, WFMin, Zenon
<1>4. \A y \in S : ~(y < m)
  BY <1>2, <1>3, Zenon
<1>5. QED
  BY <1>4
-------------------------------------------------------------------------------------
(* Probing *)

(* Linear probing stays in the table and comes to every bucket of it. *)
LEMMA SlotIn ==
    ASSUME NEW n \in Nat \ {0}, NEW h \in Nat, NEW d \in Nat
    PROVE  Slot(h, d, n) \in 0 .. n - 1
BY DEF Slot

LEMMA Remainder ==
    ASSUME NEW n \in Nat \ {0}, NEW q \in Int, NEW a \in 0 .. n - 1
    PROVE  (q * n + a) % n = a
OBVIOUS

LEMMA SlotReaches ==
    ASSUME NEW n \in Nat \ {0}, NEW h \in Nat, NEW i \in 0 .. n - 1
    PROVE  \E d \in 0 .. n - 1 : Slot(h, d, n) = i
<1> DEFINE d == (i - h) % n
           q == (i - h) \div n
<1>1. i - h = n * q + d /\ d \in 0 .. n - 1 /\ q \in Int
  OBVIOUS
<1>2. n * q = q * n /\ n * q \in Int /\ (-q) * n = -(q * n)
  BY <1>1
<1>3. h + d = (-q) * n + i
  BY <1>1, <1>2
<1> HIDE DEF d, q
<1>4. PICK p \in Int : p = -q
  BY <1>1
<1>5. (p * n + i) % n = i
  BY Remainder, Zenon
<1>6. Slot(h, d, n) = i
  BY <1>1, <1>3, <1>4, <1>5, Zenon DEF Slot
<1>7. QED
  BY <1>1, <1>6, Zenon

(* The buckets of table m that are not empty. *)
Used(m) == {i \in DOMAIN m : m[i].hash # emptyBucket}

LEMMA UsedFinite ==
    ASSUME NEW n \in Nat, NEW m \in [0 .. n - 1 -> Bucket]
    PROVE  /\ Used(m) \subseteq 0 .. n - 1 /\ IsFiniteSet(Used(m))
           /\ Cardinality(Used(m)) \in Nat
<1>1. IsFiniteSet(0 .. n - 1)
  BY FS_Interval
<1>2. Used(m) \subseteq 0 .. n - 1
  BY Zenon DEF Used
<1>3. QED
  BY <1>1, <1>2, FS_Subset, FS_CardinalityType, Zenon

(* A table with fewer used buckets than buckets has an empty one. *)
LEMMA FreeBucket ==
    ASSUME NEW n \in Nat \ {0}, NEW m \in [0 .. n - 1 -> Bucket], Cardinality(Used(m)) < n
    PROVE  \E i \in 0 .. n - 1 : m[i].hash = emptyBucket
<1>1. SUFFICES ASSUME \A i \in 0 .. n - 1 : m[i].hash # emptyBucket PROVE FALSE
  OBVIOUS
<1>2. Used(m) = 0 .. n - 1
  BY <1>1, Zenon DEF Used
<1>3. Cardinality(0 .. n - 1) = n
  BY FS_Interval
<1>4. QED
  BY <1>2, <1>3

(* The loop of the primitives ends, at an empty bucket or at the key. *)
LEMMA ProbeFacts ==
    ASSUME TableTypes, NEW h \in Nat, NEW k, \E i \in 0 .. size - 1 : mem[i].hash = emptyBucket
    PROVE  /\ ProbeLen(h, k) \in 0 .. size - 1
           /\ Stops(h, k, ProbeLen(h, k))
           /\ \A e \in 0 .. ProbeLen(h, k) - 1 : ~Stops(h, k, e)
           /\ Probe(h, k) \in 0 .. size - 1
           /\ \/ mem[Probe(h, k)].hash = emptyBucket
              \/ mem[Probe(h, k)].hash = h /\ file[mem[Probe(h, k)].idx].key = k
<1>0. size \in Nat \ {0}
  BY Zenon DEF TableTypes
<1> DEFINE D == {d \in 0 .. size - 1 : Stops(h, k, d)}
<1>1. D # {}
  <2>1. PICK i \in 0 .. size - 1 : mem[i].hash = emptyBucket
    OBVIOUS
  <2>2. PICK d \in 0 .. size - 1 : Slot(h, d, size) = i
    BY <1>0, SlotReaches, Zenon
  <2>3. QED
    BY <2>1, <2>2, Zenon DEF Stops
<1>2. PICK d \in D : \A x \in D : d <= x
  <2>1. D \in SUBSET Nat
    BY <1>0
  <2> HIDE DEF D
  <2>2. QED
    BY <1>1, <2>1, LeastElement, Zenon
<1>3. d \in 0 .. size - 1 /\ Stops(h, k, d) /\ \A e \in 0 .. d - 1 : ~Stops(h, k, e)
  BY <1>0, <1>2
<1>4. /\ ProbeLen(h, k) \in 0 .. size - 1
      /\ Stops(h, k, ProbeLen(h, k))
      /\ \A e \in 0 .. ProbeLen(h, k) - 1 : ~Stops(h, k, e)
  BY <1>3, Zenon DEF ProbeLen
<1>5. Probe(h, k) \in 0 .. size - 1
  BY <1>0, <1>4, SlotIn DEF Probe
<1>6. QED
  BY <1>4, <1>5, Zenon DEF Stops, Probe

(* So does the loop of expand. *)
LEMMA NewProbeFacts ==
    ASSUME size \in Nat \ {0}, NEW h \in Nat,
           \E i \in 0 .. 2 * size - 1 : newMem[i].hash = emptyBucket
    PROVE  /\ NewProbeLen(h) \in 0 .. 2 * size - 1
           /\ newMem[Slot(h, NewProbeLen(h), 2 * size)].hash = emptyBucket
           /\ \A e \in 0 .. NewProbeLen(h) - 1 : newMem[Slot(h, e, 2 * size)].hash # emptyBucket
           /\ Slot(h, NewProbeLen(h), 2 * size) \in 0 .. 2 * size - 1
<1>0. PICK n \in Nat \ {0} : n = 2 * size
  OBVIOUS
<1> DEFINE D == {d \in 0 .. n - 1 : newMem[Slot(h, d, n)].hash = emptyBucket}
<1>1. D # {}
  <2>1. PICK i \in 0 .. n - 1 : newMem[i].hash = emptyBucket
    BY <1>0, Zenon
  <2>2. PICK d \in 0 .. n - 1 : Slot(h, d, n) = i
    BY <1>0, SlotReaches
  <2>3. QED
    BY <2>1, <2>2, Zenon
<1>2. PICK d \in D : \A x \in D : d <= x
  <2>1. D \in SUBSET Nat
    BY <1>0
  <2> HIDE DEF D
  <2>2. QED
    BY <1>1, <2>1, LeastElement, Zenon
<1>3. /\ d \in 0 .. n - 1 /\ newMem[Slot(h, d, n)].hash = emptyBucket
      /\ \A e \in 0 .. d - 1 : newMem[Slot(h, e, n)].hash # emptyBucket
  BY <1>0, <1>2
<1>4. /\ NewProbeLen(h) \in 0 .. n - 1
      /\ newMem[Slot(h, NewProbeLen(h), n)].hash = emptyBucket
      /\ \A e \in 0 .. NewProbeLen(h) - 1 : newMem[Slot(h, e, n)].hash # emptyBucket
  BY <1>0, <1>3, Zenon DEF NewProbeLen
<1>5. Slot(h, NewProbeLen(h), n) \in 0 .. n - 1
  <2>1. NewProbeLen(h) \in Nat
    BY <1>4
  <2>2. QED
    BY <1>0, <2>1, SlotIn, Zenon
<1>6. QED
  BY <1>0, <1>4, <1>5, Zenon
-------------------------------------------------------------------------------------
(* Types and load *)

(* The records the table has been told of. *)
Known == IF phase = "restoring" THEN pos - 1 ELSE IF phase = "closed" THEN 0 ELSE Len(file)

(* The buckets in use of table m point to such records. *)
Indexed(m) == \A i \in DOMAIN m : m[i].hash # emptyBucket => m[i].idx \in 1 .. Known

Phases ==
    /\ phase = "restoring" => pos >= 1
    /\ phase # "restoring" => pos = 0
    /\ phase # "open" => ret = None

(* numStoredKeys is the number of buckets in use and respects the load factor; after expand()
   there is room for the write that called it. *)
Counted ==
    /\ Cardinality(Used(mem)) = numStoredKeys
    /\ numStoredKeys <= numKeysToExpand
    /\ expand = "done" => numStoredKeys < numKeysToExpand

(* expand() counts the buckets it fills, no more than it has scanned. *)
Scanned(m, n) == {i \in 0 .. n - 1 : m[i].hash # emptyBucket}
Expanding ==
    expand = "running" =>
        /\ Cardinality(Used(newMem)) = newStored
        /\ newStored <= Cardinality(Scanned(mem, scan))
        /\ Indexed(newMem)

Shape == TableTypes /\ ExpandTypes /\ Counted /\ Expanding /\ Indexed(mem)
Outer == StoreTypes /\ Phases /\ checksum \in Sums
         /\ ret \in Results
Base == Outer /\ Shape

LEMMA KnownType == ASSUME StoreTypes, Phases PROVE Known \in 0 .. Len(file) /\ Len(file) \in Nat
BY DEF StoreTypes, Phases, Known

(* The load factor leaves an empty bucket. *)
LEMMA EmptyBucketLeft ==
    ASSUME TableTypes, Counted
    PROVE  \E i \in 0 .. size - 1 : mem[i].hash = emptyBucket
<1>1. numStoredKeys < size
  BY DEF TableTypes, Counted, numKeysToExpand
<1>2. QED
  BY <1>1, FreeBucket, Zenon DEF TableTypes, Counted

LEMMA NewEmptyBucketLeft ==
    ASSUME TableTypes, ExpandTypes, Counted, Expanding, expand = "running"
    PROVE  /\ Cardinality(Scanned(mem, scan)) <= numStoredKeys
           /\ \E i \in 0 .. 2 * size - 1 : newMem[i].hash = emptyBucket
<1>1. Scanned(mem, scan) \subseteq Used(mem) /\ IsFiniteSet(Used(mem))
  <2>1. Scanned(mem, scan) \subseteq Used(mem)
    BY DEF Scanned, Used, TableTypes, ExpandTypes
  <2>2. QED
    BY <2>1, UsedFinite, Zenon DEF TableTypes
<1>2. Cardinality(Scanned(mem, scan)) <= numStoredKeys /\ Cardinality(Scanned(mem, scan)) \in Nat
  BY <1>1, FS_Subset, FS_CardinalityType, Zenon DEF Counted
<1>3. Cardinality(Used(newMem)) < 2 * size
  BY <1>2 DEF TableTypes, ExpandTypes, Counted, Expanding, numKeysToExpand
<1>4. QED
  <2>1. PICK n \in Nat \ {0} : n = 2 * size
    BY DEF TableTypes
  <2>2. newMem \in [0 .. n - 1 -> Bucket] /\ Cardinality(Used(newMem)) < n
    BY <1>3, <2>1 DEF ExpandTypes
  <2>3. QED
    BY <1>2, <2>1, <2>2, FreeBucket, Zenon

(* The checksum that writes leave; newChecksum gets the term and nothing else. *)
LEMMA MoveFacts ==
    ASSUME NEW s \in Sums, NEW t \in Nat
    PROVE  MoveForward(s, t) \in Sums /\ MoveForward(s, t).newChecksum = s.newChecksum
<1>1. NextSecond(t) \in Int
  <2>1. PICK q \in Int : q = t \div Second
    BY SecondAssumption
  <2>2. (q + 1) * Second \in Int
    BY SecondAssumption, <2>1
  <2>3. QED
    BY <2>1, <2>2, Zenon DEF NextSecond
<1>2. QED
  BY <1>1, Zenon DEF MoveForward, Sums

LEMMA SumFacts ==
    ASSUME NEW s \in Sums, NEW x \in Terms, NEW t \in Nat
    PROVE  /\ SumTerm(s, x, t) \in Sums
           /\ SumTerm(s, x, t).newChecksum = AddTo(s.newChecksum, x, 1)
           /\ SubTerm(s, x, t) \in Sums
           /\ SubTerm(s, x, t).newChecksum = AddTo(s.newChecksum, x, -1)
<1>2. MoveForward(s, t) \in Sums /\ MoveForward(s, t).newChecksum = s.newChecksum
  BY MoveFacts, Zenon
<1>3. ASSUME NEW m \in Sums, NEW n \in Int
      PROVE  AddTerm(m, x, n, t) \in Sums
             /\ AddTerm(m, x, n, t).newChecksum = AddTo(m.newChecksum, x, n)
  <2>1. \A c \in [Terms -> Int] : AddTo(c, x, n) \in [Terms -> Int]
    BY DEF AddTo
  <2>2. QED
    BY <2>1, Zenon DEF AddTerm, Sums
<1>4. 1 \in Int /\ -1 \in Int
  OBVIOUS
<1>5. QED
  BY <1>2, <1>3, <1>4 DEF SumTerm, SubTerm

LEMMA KeyHashFacts ==
    ASSUME NEW k \in Keys
    PROVE  KeyHash(k) \in Nat /\ KeyHash(k) > deletedBucket /\ KeyHash(k) # emptyBucket
           /\ Hash32[k] \in Nat
BY KeysAssumption DEF KeyHash, hashReMap, deletedBucket, emptyBucket

LEMMA StampType == ASSUME NEW t \in Times \cup {0} PROVE t \in Nat
BY TimeAssumption

LEMMA RecordLenFacts ==
    ASSUME NEW r \in Record
    PROVE  RecordLen(r) \in Nat /\ RecordLen(r) >= 12 + KeyLen[r.key]
BY KeysAssumption, ValuesAssumption DEF RecordLen, Record

(* What the actions of a map that is open find: the bucket the probe of a key ends at. *)
LEMMA Found ==
    ASSUME Base, NEW k \in Keys
    PROVE  /\ Probe(KeyHash(k), k) \in 0 .. size - 1
           /\ mem[Probe(KeyHash(k), k)] \in Bucket
           /\ mem[Probe(KeyHash(k), k)].hash # emptyBucket =>
                  /\ mem[Probe(KeyHash(k), k)].hash = KeyHash(k)
                  /\ mem[Probe(KeyHash(k), k)].idx \in 1 .. Len(file)
                  /\ file[mem[Probe(KeyHash(k), k)].idx] \in Record
                  /\ file[mem[Probe(KeyHash(k), k)].idx].key = k
<1>1. PICK h \in Nat : h = KeyHash(k)
  BY KeyHashFacts, Zenon
<1>2. PICK i : i = Probe(h, k)
  BY Zenon
<1>3. i \in 0 .. size - 1 /\ (mem[i].hash = emptyBucket \/ (mem[i].hash = h /\ file[mem[i].idx].key = k))
  <2>1. TableTypes /\ \E j \in 0 .. size - 1 : mem[j].hash = emptyBucket
    BY EmptyBucketLeft, Zenon DEF Base, Shape
  <2>2. /\ Probe(h, k) \in 0 .. size - 1
        /\ \/ mem[Probe(h, k)].hash = emptyBucket
           \/ mem[Probe(h, k)].hash = h /\ file[mem[Probe(h, k)].idx].key = k
    BY ONLY <1>1, <2>1, ProbeFacts, Zenon
  <2>3. QED
    BY <1>2, <2>2, Zenon
<1>4. mem[i] \in Bucket
  BY <1>3, Zenon DEF Base, Shape, TableTypes
<1>5. mem[i].hash # emptyBucket => mem[i].idx \in 1 .. Len(file)
  BY <1>3, KnownType DEF Base, Shape, Outer, Indexed, TableTypes
<1>6. file \in Seq(Record)
  BY Zenon DEF Base, Outer, StoreTypes
<1>7. QED
  BY <1>1, <1>2, <1>3, <1>4, <1>5, <1>6

(* The two ends of a Set or CAS that writes. *)
Wrote(k, v, t) ==
    LET i == Probe(KeyHash(k), k)
    IN  \/ mem[i].hash = emptyBucket /\ Insert(i, KeyHash(k), PairRecord(k, v, t))
        \/ mem[i].hash # emptyBucket /\ Replace(i, KeyHash(k), PairRecord(k, v, t))

(* What Set and CAS leave alone, and what they may return. *)
WriteFrame ==
    /\ phase = "open" /\ SpaceChecked /\ expand' = "no"
    /\ UNCHANGED <<phase, deleted, size, newMem, newStored, scan, pos>>
    /\ ret' \in Results

LEMMA ReturnTypes ==
    ASSUME NEW op \in {"none", "Set", "CAS", "staleCAS", "Del"}, NEW e \in BOOLEAN
    PROVE  [op |-> op, err |-> e] \in Results
BY Zenon DEF Results

LEMMA CASOps == \A k, pt, hv : CASOp(k, pt, hv) \in {"CAS", "staleCAS"}
BY Zenon DEF CASOp

LEMMA SetShape ==
    ASSUME NEW k, NEW v, NEW t, Set(k, v, t)
    PROVE  WriteFrame /\ (Untouched \/ Wrote(k, v, t))
<1>1. ret' \in Results
  <2>1. ret' = [op |-> "Set", err |-> FALSE] \/ ret' = [op |-> "Set", err |-> TRUE]
    BY Zenon DEF Set, Returns, Fails
  <2>2. QED
    BY ONLY <2>1, ReturnTypes, Zenon
<1>2. QED
  BY <1>1, Zenon DEF Set, WriteFrame, Wrote

LEMMA CASShape ==
    ASSUME NEW k \in Keys, NEW pt, NEW hv, NEW v, NEW t, CAS(k, pt, hv, v, t)
    PROVE  /\ WriteFrame
           /\ LET i == Probe(KeyHash(k), k)
              IN  \/ Untouched /\ ret'.err
                  \/ /\ mem[i].hash # emptyBucket /\ UNCHANGED <<store, mem, numStoredKeys>>
                     /\ checksum' = SubTerm(checksum, <<k, file[mem[i].idx].ts>>, t) /\ ret'.err
                  \/ Wrote(k, v, t)
<1>0. PICK op : op = CASOp(k, pt, hv)
  BY Zenon
<1>1. /\ ret' = [op |-> op, err |-> FALSE] \/ ret' = [op |-> op, err |-> TRUE]
      /\ Fails(op) => ret'.err
  <2>1. ret' = [op |-> op, err |-> FALSE] \/ ret' = [op |-> op, err |-> TRUE]
    BY <1>0, Zenon DEF CAS, Returns, Fails
  <2>2. QED
    BY ONLY <2>1 DEF Fails
<1>2. ret' \in Results
  <2>1. op \in {"CAS", "staleCAS"}
    BY <1>0, CASOps, Zenon
  <2>2. QED
    BY ONLY <1>1, <2>1, ReturnTypes, Zenon
<1>3. QED
  BY <1>0, <1>1, <1>2, Zenon DEF CAS, WriteFrame, Wrote

(* Marking a bucket as deleted. *)
LEMMA MarkBucket ==
    ASSUME TableTypes, NEW i \in 0 .. size - 1
    PROVE  [mem EXCEPT ![i].hash = deletedBucket] =
           [mem EXCEPT ![i] = [hash |-> deletedBucket, idx |-> mem[i].idx]]
<1>1. mem \in [0 .. size - 1 -> Bucket]
  BY Zenon DEF TableTypes
<1>2. [mem[i] EXCEPT !.hash = deletedBucket] = [hash |-> deletedBucket, idx |-> mem[i].idx]
  BY ONLY <1>1, i \in 0 .. size - 1 DEF Bucket
<1>3. QED
  BY ONLY <1>1, <1>2, i \in 0 .. size - 1, Zenon

(* Del marks the bucket it found, or changes nothing. *)
LEMMA DelShape ==
    ASSUME Base, NEW k \in Keys, NEW t \in Times, Del(k, t)
    PROVE  LET i == Probe(KeyHash(k), k)
               old == file[mem[i].idx]
           IN  /\ phase = "open" /\ expand = "no" /\ expand' = "no"
               /\ UNCHANGED <<phase, size, numStoredKeys, newMem, newStored, scan, pos>>
               /\ ret' \in Results
               /\ \/ UNCHANGED <<store, deleted, mem, checksum>>
                  \/ /\ mem[i].hash # emptyBucket /\ t >= old.ts
                     /\ deleted' = deleted + RecordLen(old)
                     /\ checksum' = SubTerm(checksum, <<k, old.ts>>, t)
                     /\ mem' = [mem EXCEPT ![i] = [hash |-> deletedBucket, idx |-> mem[i].idx]]
                     /\ \/ UNCHANGED store /\ ret' = [op |-> "Del", err |-> TRUE]
                        \/ put(Tombstone(k)) /\ ret' = [op |-> "Del", err |-> FALSE]
<1> DEFINE i == Probe(KeyHash(k), k)
<1>1. [mem EXCEPT ![i].hash = deletedBucket] =
          [mem EXCEPT ![i] = [hash |-> deletedBucket, idx |-> mem[i].idx]]
  <2>1. i \in 0 .. size - 1 /\ TableTypes
    BY Found, Zenon DEF Base, Shape
  <2> HIDE DEF i
  <2>2. QED
    BY ONLY <2>1, MarkBucket, Zenon
<1>2. ret' = [op |-> "Del", err |-> FALSE] \/ ret' = [op |-> "Del", err |-> TRUE]
  BY Zenon DEF Del, Returns, Fails
<1>3. ret' \in Results
  BY ONLY <1>2, ReturnTypes, Zenon
<1>4. QED
  BY <1>1, <1>3, Zenon DEF Del, Returns, Fails, expansion

LEMMA NewMemFacts ==
    ASSUME NEW n \in Nat
    PROVE  /\ NewMem(n) \in [0 .. n - 1 -> Bucket] /\ Used(NewMem(n)) = {}
           /\ Cardinality(Used(NewMem(n))) = 0
<1>1. NewMem(n) \in [0 .. n - 1 -> Bucket] /\ Used(NewMem(n)) = {}
  BY Zenon DEF NewMem, Bucket, Used, emptyBucket
<1>2. QED
  BY <1>1, FS_EmptySet, Zenon

(* The buckets scanned are one more if the next is in use. *)
LEMMA ScanStep ==
    ASSUME NEW m, NEW n \in Nat
    PROVE  /\ Cardinality(Scanned(m, n)) \in Nat /\ Cardinality(Scanned(m, n + 1)) \in Nat
           /\ Cardinality(Scanned(m, n)) <= Cardinality(Scanned(m, n + 1))
           /\ m[n].hash # emptyBucket =>
                  Cardinality(Scanned(m, n + 1)) = Cardinality(Scanned(m, n)) + 1
<1>1. IsFiniteSet(0 .. n - 1)
  BY FS_Interval
<1>2. IsFiniteSet(Scanned(m, n))
  <2>1. Scanned(m, n) \subseteq 0 .. n - 1
    BY Zenon DEF Scanned
  <2>2. QED
    BY <1>1, <2>1, FS_Subset, Zenon
<1>3. CASE m[n].hash # emptyBucket
  <2>1. Scanned(m, n + 1) = Scanned(m, n) \cup {n} /\ n \notin Scanned(m, n)
    BY <1>3 DEF Scanned
  <2>2. Cardinality(Scanned(m, n) \cup {n}) = Cardinality(Scanned(m, n)) + 1
        /\ Cardinality(Scanned(m, n)) \in Nat
    BY ONLY <1>2, <2>1, FS_AddElement, FS_CardinalityType, Zenon
  <2>3. QED
    BY <1>3, <2>1, <2>2
<1>4. CASE m[n].hash = emptyBucket
  <2>1. Scanned(m, n + 1) = Scanned(m, n)
    BY <1>4 DEF Scanned
  <2>2. QED
    BY <1>2, <1>4, <2>1, FS_CardinalityType
<1>5. QED
  BY <1>3, <1>4, Zenon

(* An empty table, as New and Open begin with. *)
LEMMA EmptyTable ==
    /\ InitSize \in Nat \ {0}
    /\ NewMem(InitSize) \in [0 .. InitSize - 1 -> Bucket]
    /\ Cardinality(Used(NewMem(InitSize))) = 0
    /\ \A i \in DOMAIN NewMem(InitSize) : NewMem(InitSize)[i].hash = emptyBucket
    /\ NewMem(0) \in [{} -> Bucket]
    /\ NewSyncChecksum(Terms) \in Sums
    /\ None \in Results
<1>1. InitSize \in Nat \ {0} /\ 0 \in Nat
  BY SizeAssumption, Zenon
<1>2. NewMem(InitSize) \in [0 .. InitSize - 1 -> Bucket] /\ Cardinality(Used(NewMem(InitSize))) = 0
  BY <1>1, NewMemFacts, Zenon
<1>3. NewMem(0) \in [{} -> Bucket]
      /\ \A i \in DOMAIN NewMem(InitSize) : NewMem(InitSize)[i].hash = emptyBucket
  BY DEF NewMem
<1>4. NewSyncChecksum(Terms) \in Sums
  BY DEF NewSyncChecksum, Sums, ZeroTime
<1>5. None \in Results
  BY ReturnTypes, Zenon DEF None
<1>6. QED
  BY <1>1, <1>2, <1>3, <1>4, <1>5, Zenon

LEMMA InitBase == ASSUME Init PROVE Base
<1>1. TableTypes /\ Counted /\ Indexed(mem)
  BY EmptyTable DEF Init, TableTypes, Counted, numKeysToExpand, Indexed
<1>2. ExpandTypes /\ Expanding
  BY EmptyTable DEF Init, ExpandTypes, Expanding
<1>3. Outer
  BY EmptyTable DEF Init, Outer, StoreTypes, Phases
<1>4. QED
  BY <1>1, <1>2, <1>3, Zenon DEF Base, Shape

(* The record that restorePair is given, and what it finds for it. *)
LEMMA RestoreFacts ==
    ASSUME Base, RestorePair
    PROVE  /\ phase = "restoring" /\ pos \in 1 .. Len(file) /\ Len(file) \in Nat
           /\ file \in Seq(Record) /\ file[pos] \in Record
           /\ file[pos].key \in Keys /\ file[pos].ts \in Nat /\ Known = pos - 1 /\ Known' = pos
           /\ UNCHANGED <<phase, file, size, newMem, newStored, scan, ret>>
           /\ pos' = pos + 1 /\ expand' = "no" /\ expand # "running"
           /\ <<file[pos].key, file[pos].ts>> \in Terms
<1>1. /\ phase = "restoring" /\ RecordLeft /\ pos' = pos + 1 /\ expand' = "no"
      /\ expand # "running" /\ UNCHANGED <<phase, file, size, newMem, newStored, scan, ret>>
  BY Zenon DEF RestorePair, SpaceChecked, SpaceRefused
<1>2. file \in Seq(Record) /\ pos \in 1 .. Len(file) /\ Len(file) \in Nat
  <2>1. pos <= Len(file)
    BY <1>1, Zenon DEF RecordLeft
  <2>2. QED
    BY <1>1, <2>1 DEF Base, Outer, StoreTypes, Phases
<1>3. file[pos] \in Record
  BY <1>2
<1>4. <<file[pos].key, file[pos].ts>> \in Terms /\ file[pos].key \in Keys /\ file[pos].ts \in Nat
  <2>1. file[pos].key \in Keys /\ file[pos].ts \in Times \cup {0}
    BY <1>3, Zenon DEF Record
  <2>2. <<file[pos].key, file[pos].ts>> \in Terms
    BY <2>1, Zenon DEF Terms
  <2>3. file[pos].ts \in Nat
    BY ONLY <2>1, StampType, Zenon
  <2>4. QED
    BY <2>1, <2>2, <2>3, Zenon
<1>5. Known = pos - 1 /\ Known' = pos
  BY <1>1, <1>2 DEF Known
<1>6. QED
  BY <1>1, <1>2, <1>3, <1>4, <1>5, Zenon

(* Every step keeps Base.  First what the steps share, then one step of the proof for each
   action. *)
LEMMA BaseStep ==
    Base /\ [Next]_vars
        => Base'
(* Taking an empty bucket uses one more. *)
<1>TakeBucket.
    ASSUME NEW n \in Nat, NEW m \in [0 .. n - 1 -> Bucket], NEW i \in 0 .. n - 1,
           m[i].hash = emptyBucket, NEW b \in Bucket, b.hash # emptyBucket,
           NEW w, w = [m EXCEPT ![i] = b]
    PROVE  Cardinality(Used(w)) = Cardinality(Used(m)) + 1
  <2> USE <1>TakeBucket
  <2>1. Used(w) = Used(m) \cup {i} /\ i \notin Used(m)
    BY DEF Used
  <2>2. IsFiniteSet(Used(m))
    BY UsedFinite, Zenon
  <2>3. QED
    BY <2>1, <2>2, FS_AddElement, Zenon
(* A write, or a record restored, puts b in bucket i. *)
<1>TableStep.
    ASSUME Shape, expand # "running",
           Known \in Nat, Known' \in Nat, Known <= Known',
           NEW i \in 0 .. size - 1, NEW b \in Bucket, b.hash # emptyBucket, b.idx \in 1 .. Known',
           mem' = [mem EXCEPT ![i] = b], size' = size, expand' = "no",
           UNCHANGED <<newMem, newStored, scan>>,
           \/ mem[i].hash = emptyBucket /\ SpaceChecked /\ numStoredKeys' = numStoredKeys + 1
           \/ mem[i].hash # emptyBucket /\ numStoredKeys' = numStoredKeys
    PROVE  Shape'
  <2> USE <1>TableStep
  <2> TableTypes /\ ExpandTypes /\ Counted /\ Indexed(mem)
    BY Zenon DEF Shape
  <2>0. size \in Nat /\ mem \in [0 .. size - 1 -> Bucket] /\ numStoredKeys \in Nat
    BY Zenon DEF TableTypes
  <2>1. mem' \in [0 .. size - 1 -> Bucket] /\ TableTypes'
    BY <2>0 DEF TableTypes
  <2>w. PICK w : w = mem' /\ w = [mem EXCEPT ![i] = b] /\ b.hash # emptyBucket
    OBVIOUS
  <2>2. Cardinality(Used(mem')) = numStoredKeys'
    <3>1. CASE mem[i].hash = emptyBucket
      <4>1. Cardinality(Used(w)) = Cardinality(Used(mem)) + 1
        BY ONLY <2>0, <2>w, <3>1, <1>TakeBucket, ZenonT(40)
      <4>2. QED
        BY <2>w, <3>1, <4>1, Zenon DEF Counted
    <3>2. CASE mem[i].hash # emptyBucket
      <4>1. Used(w) = Used(mem)
        BY ONLY <2>0, <2>w, <3>2, Zenon DEF Used
      <4>2. QED
        BY <2>w, <3>2, <4>1 DEF Counted
    <3>3. QED
      BY <3>1, <3>2, Zenon
  <2>3. Counted'
    BY <2>0, <2>2 DEF Counted, SpaceChecked, MustExpand, numKeysToExpand
  <2>4. ExpandTypes' /\ Expanding'
    BY DEF ExpandTypes, Expanding
  <2>5. Indexed(mem)'
    BY <2>0, <2>1 DEF Indexed
  <2>6. QED
    BY <2>1, <2>3, <2>4, <2>5, Zenon DEF Shape
(* No bucket changes. *)
<1>TableSame.
    ASSUME Shape, expand # "running",
           Known \in Nat, Known' \in Nat, Known <= Known', UNCHANGED table, expand' = "no",
           UNCHANGED <<newMem, newStored, scan>>
    PROVE  Shape'
  <2> USE <1>TableSame
  <2> TableTypes /\ ExpandTypes /\ Counted /\ Indexed(mem)
    BY DEF Shape
  <2>1. TableTypes' /\ ExpandTypes'
    BY DEF TableTypes, ExpandTypes, table
  <2>2. Counted' /\ Expanding'
    BY DEF Counted, Expanding, table, numKeysToExpand
  <2>3. Indexed(mem)'
    BY DEF Indexed, table
  <2>4. QED
    BY <2>1, <2>2, <2>3 DEF Shape
(* Appending a record, as put() does, keeps the file; its index is one the table may use. *)
<1>PutStep.
    ASSUME Outer, NEW r \in Record, put(r), phase' = phase, deleted' \in Nat, pos' = pos,
           phase = "open",
           checksum' \in Sums, ret' \in Results
    PROVE  /\ Outer' /\ Len(file) \in Nat /\ Known = Len(file) /\ Known' = Len(file) + 1
           /\ \A j \in 1 .. Len(file) : file'[j] = file[j]
           /\ file'[Len(file) + 1] = r
  <2> USE <1>PutStep
  <2>1. file \in Seq(Record) /\ file' = Append(file, r)
    BY Zenon DEF Outer, StoreTypes, put
  <2>2. /\ file' \in Seq(Record) /\ Len(file) \in Nat /\ Len(file') = Len(file) + 1
        /\ \A j \in 1 .. Len(file) : file'[j] = file[j]
        /\ file'[Len(file) + 1] = r
    BY ONLY <2>1
  <2>3. length' \in Nat
    BY RecordLenFacts DEF put, Outer, StoreTypes
  <2>4. Outer'
    BY <2>2, <2>3 DEF Outer, StoreTypes, Phases
  <2>5. QED
    BY <2>2, <2>4, Zenon DEF Known
(* Nor does an operation that leaves the file alone disturb it. *)
<1>OuterSame.
    ASSUME Outer, UNCHANGED <<phase, store, pos>>, deleted' \in Nat, phase = "open",
           checksum' \in Sums, ret' \in Results
    PROVE  Outer' /\ Known \in Nat /\ Known' = Known
  BY <1>OuterSame DEF Outer, StoreTypes, Phases, store, Known
(* A write puts the new record's index in the bucket it found, with the key's hash. *)
<1>WriteStep.
    ASSUME Base, phase = "open", SpaceChecked, NEW r \in Record,
           NEW i, i = Probe(KeyHash(r.key), r.key), put(r),
           mem' = [mem EXCEPT ![i] = [hash |-> KeyHash(r.key), idx |-> Len(file) + 1]],
           numStoredKeys' = IF mem[i].hash = emptyBucket THEN numStoredKeys + 1 ELSE numStoredKeys,
           expand' = "no", UNCHANGED <<phase, deleted, size, newMem, newStored, scan, pos>>,
           checksum' \in Sums, ret' \in Results
    PROVE  Base'
  <2> USE <1>WriteStep
  <2>1. /\ Outer' /\ Len(file) \in Nat /\ Known = Len(file) /\ Known' = Len(file) + 1
    BY <1>PutStep, Zenon DEF Base, Outer, StoreTypes
  <2>2. PICK k \in Keys : k = r.key
    BY Zenon DEF Record
  <2>3. i \in 0 .. size - 1
    BY <2>2, Found, Zenon
  <2>4. PICK b : b = [hash |-> KeyHash(k), idx |-> Len(file) + 1]
    BY Zenon
  <2>5. b \in Bucket /\ b.hash # emptyBucket /\ b.idx \in 1 .. Known' /\ mem' = [mem EXCEPT ![i] = b]
    BY <2>1, <2>2, <2>4, KeyHashFacts DEF Bucket
  <2>6. Shape /\ expand # "running"
    BY Zenon DEF Base, SpaceChecked
  <2>7. /\ \/ mem[i].hash = emptyBucket /\ SpaceChecked /\ numStoredKeys' = numStoredKeys + 1
           \/ mem[i].hash # emptyBucket /\ numStoredKeys' = numStoredKeys
        /\ size' = size /\ expand' = "no" /\ UNCHANGED <<newMem, newStored, scan>>
    BY Zenon
  <2>8. Known \in Nat /\ Known' \in Nat /\ Known <= Known'
    BY <2>1
  <2>9. Shape'
    BY ONLY <2>3, <2>5, <2>6, <2>7, <2>8, <1>TableStep, Zenon
  <2>10. QED
    BY <2>1, <2>9, Zenon DEF Base
<1>WroteStep.
    ASSUME Base, NEW k \in Keys, NEW v \in Values, NEW t \in Times, WriteFrame, Wrote(k, v, t)
    PROVE  Base'
  <2> USE <1>WroteStep
  <2> DEFINE i == Probe(KeyHash(k), k)
             r == PairRecord(k, v, t)
  <2>1. t \in Nat /\ <<k, t>> \in Terms
    BY TimeAssumption, Zenon DEF Terms
  <2>2. r \in Record /\ r.key = k /\ r.ts = t
    BY Zenon DEF PairRecord, Record
  <2>3. checksum \in Sums
    BY Zenon DEF Base, Outer
  <2>4. CASE mem[i].hash = emptyBucket /\ Insert(i, KeyHash(k), r)
    <3>1. checksum' \in Sums
      BY <2>1, <2>2, <2>3, <2>4, SumFacts, Zenon DEF Insert
    <3>2. QED
      BY <2>1, <2>2, <2>4, <3>1, <1>WriteStep, Zenon DEF Insert, WriteFrame
  <2>5. CASE mem[i].hash # emptyBucket /\ Replace(i, KeyHash(k), r)
    <3>1. <<k, file[mem[i].idx].ts>> \in Terms
      BY <2>5, Found, Zenon DEF Terms, Record
    <3>2. checksum' \in Sums
      BY <2>1, <2>2, <2>3, <2>5, <3>1, SumFacts DEF Replace
    <3>3. QED
      BY <2>1, <2>2, <2>5, <3>2, <1>WriteStep, Zenon DEF Replace, WriteFrame
  <2>6. QED
    BY <2>4, <2>5, Zenon DEF Wrote
<1>NotWrittenStep.
    ASSUME Base, WriteFrame, UNCHANGED <<store, mem, numStoredKeys>>, checksum' \in Sums
    PROVE  Base'
  <2> USE <1>NotWrittenStep
  <2>1. Outer' /\ Known \in Nat /\ Known' = Known
    BY <1>OuterSame, Zenon DEF Base, WriteFrame, Outer, StoreTypes
  <2>2. Shape'
    BY <2>1, <1>TableSame DEF Base, table, SpaceChecked, WriteFrame
  <2>3. QED
    BY <2>1, <2>2, Zenon DEF Base
<1>SetStep.
    ASSUME Base, NEW k \in Keys, NEW v \in Values, NEW t \in Times, Set(k, v, t)
    PROVE  Base'
  <2> USE <1>SetStep
  <2>1. WriteFrame /\ (Untouched \/ Wrote(k, v, t))
    BY SetShape, Zenon
  <2>2. checksum \in Sums
    BY DEF Base, Outer
  <2>3. QED
    BY <2>1, <2>2, <1>WroteStep, <1>NotWrittenStep, Zenon DEF Untouched
<1>CASStep.
    ASSUME Base, NEW k \in Keys, NEW pt, NEW hv, NEW v \in Values, NEW t \in Times,
           CAS(k, pt, hv, v, t)
    PROVE  Base'
  <2> USE <1>CASStep
  <2> DEFINE i == Probe(KeyHash(k), k)
  <2>1. checksum \in Sums /\ t \in Nat
    BY TimeAssumption, Zenon DEF Base, Outer
  <2>2. ASSUME mem[i].hash # emptyBucket PROVE SubTerm(checksum, <<k, file[mem[i].idx].ts>>, t) \in Sums
    <3>1. <<k, file[mem[i].idx].ts>> \in Terms
      BY <2>2, Found, Zenon DEF Terms, Record
    <3>2. QED
      BY <2>1, <3>1, SumFacts, Zenon
  <2>3. WriteFrame
    BY CASShape, Zenon
  <2>4. (checksum' \in Sums /\ UNCHANGED <<store, mem, numStoredKeys>>) \/ Wrote(k, v, t)
    BY <2>1, <2>2, CASShape, Zenon DEF Untouched
  <2>5. QED
    BY <2>3, <2>4, <1>WroteStep, <1>NotWrittenStep, Zenon
<1>CASMismatchStep.
    ASSUME Base, NEW k, NEW pt, NEW hv, CASMismatch(k, pt, hv)
    PROVE  Base'
  <2> USE <1>CASMismatchStep
  <2>1. WriteFrame /\ UNCHANGED <<store, mem, numStoredKeys, checksum>>
    <3>1. ret' \in Results
      <4>1. CASOp(k, pt, hv) \in {"none", "Set", "CAS", "staleCAS", "Del"}
        BY CASOps, Zenon
      <4>2. QED
        BY <4>1, ReturnTypes, Zenon DEF CASMismatch, Fails
    <3>2. QED
      BY <3>1, Zenon DEF CASMismatch, WriteFrame, table
  <2>2. QED
    BY <2>1, <1>NotWrittenStep, Zenon DEF Base, Outer
<1>TableFullStep.
    ASSUME Base, TableFull
    PROVE  Base'
  <2> USE <1>TableFullStep
  <2>1. ret' \in Results /\ phase = "open"
    BY ReturnTypes, Zenon DEF TableFull, Fails
  <2>2. Outer' /\ Known \in Nat /\ Known' = Known
    BY <2>1, <1>OuterSame, Zenon DEF TableFull, Base, Outer, StoreTypes
  <2>3. Shape'
    BY <2>2, <1>TableSame DEF TableFull, Base, SpaceRefused, expansion
  <2>4. QED
    BY <2>2, <2>3, Zenon DEF Base
<1>DelStep.
    ASSUME Base, NEW k \in Keys, NEW t \in Times, Del(k, t)
    PROVE  Base'
  <2> USE <1>DelStep
  <2> DEFINE i == Probe(KeyHash(k), k)
             old == file[mem[i].idx]
  <2>1. /\ phase = "open" /\ expand = "no" /\ expand' = "no"
        /\ UNCHANGED <<phase, size, numStoredKeys, newMem, newStored, scan, pos>>
        /\ ret' \in Results
    BY DelShape, Zenon
  <2>2. t \in Nat /\ checksum \in Sums /\ deleted \in Nat /\ Shape /\ Outer
    BY TimeAssumption, Zenon DEF Base, Outer, StoreTypes
  <2>3. CASE UNCHANGED <<store, deleted, mem, checksum>>
    <3>1. Outer' /\ Known \in Nat /\ Known' = Known
      BY <2>1, <2>2, <2>3, <1>OuterSame, Zenon
    <3>2. Shape'
      BY <2>1, <2>2, <2>3, <3>1, <1>TableSame DEF table
    <3>3. QED
      BY <3>1, <3>2, Zenon DEF Base
  <2>4. ASSUME /\ mem[i].hash # emptyBucket
               /\ deleted' = deleted + RecordLen(old)
               /\ checksum' = SubTerm(checksum, <<k, old.ts>>, t)
               /\ mem' = [mem EXCEPT ![i] = [hash |-> deletedBucket, idx |-> mem[i].idx]],
               UNCHANGED store \/ put(Tombstone(k))
        PROVE  Base'
    <3>1. i \in 0 .. size - 1 /\ mem[i] \in Bucket /\ mem[i].idx \in 1 .. Len(file) /\ old \in Record
      BY <2>4, Found, Zenon
    <3>2. deleted' \in Nat /\ checksum' \in Sums
      <4>1. PICK x \in Terms : x = <<k, old.ts>>
        BY <3>1, Zenon DEF Terms, Record
      <4>2. RecordLen(old) \in Nat
        BY <3>1, RecordLenFacts, Zenon
      <4>3. SubTerm(checksum, x, t) \in Sums
        BY ONLY <2>2, <4>1, SumFacts, Zenon
      <4>4. checksum' \in Sums
        BY <2>4, <4>1, <4>3, Zenon
      <4>5. QED
        BY <2>2, <2>4, <4>2, <4>4
    <3>3. Outer' /\ Known \in Nat /\ Known' \in Nat /\ Known <= Known' /\ Known = Len(file)
      <4>1. CASE UNCHANGED store
        BY <2>1, <2>2, <3>2, <4>1, <1>OuterSame, SMTT(30) DEF Known
      <4>2. CASE put(Tombstone(k))
        <5>1. Tombstone(k) \in Record
          BY ValuesAssumption, Zenon DEF Tombstone, Record
        <5>2. QED
          BY <2>1, <2>2, <3>2, <4>2, <5>1, <1>PutStep, SMTT(30)
      <4>3. QED
        BY <2>4, <4>1, <4>2, Zenon
    <3>4. PICK b : b = [hash |-> deletedBucket, idx |-> mem[i].idx]
      BY Zenon
    <3>5. b \in Bucket /\ b.hash # emptyBucket /\ b.idx \in 1 .. Known' /\ mem' = [mem EXCEPT ![i] = b]
      BY <2>4, <3>1, <3>3, <3>4 DEF Bucket, deletedBucket, emptyBucket
    <3>6. Shape'
      BY ONLY <2>1, <2>2, <2>4, <3>1, <3>3, <3>5, <1>TableStep, Zenon
    <3>7. QED
      BY <3>3, <3>6, Zenon DEF Base
  <2>5. QED
    BY <2>3, <2>4, DelShape, Zenon
<1>StartExpandStep.
    ASSUME Base, StartExpand
    PROVE  Base'
  <2> USE <1>StartExpandStep
  <2> TableTypes /\ ExpandTypes /\ Counted /\ Indexed(mem) /\ Outer
    BY Zenon DEF Base, Shape
  <2>1. /\ UNCHANGED <<phase, file, length, deleted, mem, size, numStoredKeys, checksum, pos>>
        /\ ret' = None /\ expand' = "running" /\ newMem' = NewMem(2 * size) /\ newStored' = 0 /\ scan' = 0
        /\ Known' = Known
    BY Zenon DEF StartExpand, store, table, Known
  <2>2. Outer'
    BY <2>1, ReturnTypes, Zenon DEF Outer, StoreTypes, Phases, None
  <2>3. TableTypes' /\ Indexed(mem)' /\ Counted'
    BY <2>1, Zenon DEF TableTypes, Indexed, Counted, numKeysToExpand
  <2>4. PICK n \in Nat : n = 2 * size
    BY DEF TableTypes
  <2>5. newMem' \in [0 .. n - 1 -> Bucket] /\ Used(newMem') = {} /\ Cardinality(Used(newMem')) = 0
    BY <2>1, <2>4, NewMemFacts, Zenon
  <2>6. ExpandTypes'
    BY <2>1, <2>4, <2>5 DEF ExpandTypes, TableTypes
  <2>7. Scanned(mem', scan') = {}
    BY <2>1 DEF Scanned
  <2>8. Expanding'
    <3>1. Indexed(newMem)'
      BY <2>5, Zenon DEF Indexed, Used
    <3>2. QED
      BY <2>1, <2>5, <2>7, <3>1, FS_EmptySet DEF Expanding
  <2>9. QED
    BY <2>2, <2>3, <2>6, <2>8, Zenon DEF Base, Shape
<1>ExpandBucketStep.
    ASSUME Base, ExpandBucket
    PROVE  Base'
  <2> USE <1>ExpandBucketStep
  <2> TableTypes /\ ExpandTypes /\ Counted /\ Expanding /\ Indexed(mem) /\ Outer
    BY Zenon DEF Base, Shape
  <2>1. /\ UNCHANGED <<phase, file, length, deleted, mem, size, numStoredKeys, expand, checksum, pos, ret>>
        /\ expand = "running" /\ scan < size /\ scan' = scan + 1 /\ Known' = Known
    BY Zenon DEF ExpandBucket, store, table, Known
  <2>2. Outer' /\ TableTypes' /\ Indexed(mem)' /\ Counted'
    BY <2>1, Zenon DEF Outer, StoreTypes, Phases, TableTypes, Indexed, Counted, numKeysToExpand
  <2>3. /\ size \in Nat /\ scan \in 0 .. size - 1 /\ newStored \in Nat /\ newMem \in [0 .. 2 * size - 1 -> Bucket]
        /\ mem[scan] \in Bucket /\ (mem[scan].hash # emptyBucket => mem[scan].idx \in 1 .. Known)
    BY <2>1, SMTT(30) DEF ExpandTypes, TableTypes, Indexed
  <2>4. /\ Cardinality(Scanned(mem, scan)) \in Nat /\ Cardinality(Scanned(mem, scan + 1)) \in Nat
        /\ Cardinality(Scanned(mem, scan)) <= Cardinality(Scanned(mem, scan + 1))
        /\ mem[scan].hash # emptyBucket => Cardinality(Scanned(mem, scan + 1)) = Cardinality(Scanned(mem, scan)) + 1
    BY <2>3, ScanStep
  <2>5. CASE ~(mem[scan].hash > deletedBucket)
    <3>1. newMem' = newMem /\ newStored' = newStored
      BY <2>5, Zenon DEF ExpandBucket
    <3>2. ExpandTypes' /\ Indexed(newMem)'
      <4>1. ExpandTypes'
        BY ONLY <2>1, <2>3, <3>1 DEF ExpandTypes
      <4>2. Indexed(newMem)
        BY <2>1, Zenon DEF Expanding
      <4>3. QED
        BY ONLY <2>1, <3>1, <4>1, <4>2, Zenon DEF Indexed
    <3>3. Expanding'
      BY <2>1, <2>3, <2>4, <3>1, <3>2, SMTT(30) DEF Expanding
    <3>4. QED
      BY <2>2, <3>2, <3>3, Zenon DEF Base, Shape
  <2>6. CASE mem[scan].hash > deletedBucket
    <3>1. PICK i : i = Slot(mem[scan].hash, NewProbeLen(mem[scan].hash), 2 * size)
      BY Zenon
    <3>2. newMem' = [newMem EXCEPT ![i] = mem[scan]] /\ newStored' = newStored + 1
      BY <2>6, <3>1, Zenon DEF ExpandBucket
    <3>3. i \in 0 .. 2 * size - 1 /\ newMem[i].hash = emptyBucket
      <4>1. \E j \in 0 .. 2 * size - 1 : newMem[j].hash = emptyBucket
        BY <2>1, NewEmptyBucketLeft, Zenon
      <4>2. mem[scan].hash \in Nat /\ size \in Nat \ {0}
        BY <2>3, Zenon DEF TableTypes, Bucket
      <4>3. QED
        BY ONLY <3>1, <4>1, <4>2, NewProbeFacts, Zenon
    <3>4. PICK b \in Bucket : b = mem[scan] /\ b.hash # emptyBucket /\ b.idx \in 1 .. Known
      BY <2>3, <2>6 DEF Bucket, deletedBucket, emptyBucket
    <3>5. PICK w : w = newMem' /\ w = [newMem EXCEPT ![i] = b]
      BY <3>2, <3>4, Zenon
    <3>6. PICK n \in Nat : n = 2 * size /\ newMem \in [0 .. n - 1 -> Bucket] /\ i \in 0 .. n - 1
      BY <2>3, <3>3 DEF TableTypes
    <3>7. Cardinality(Used(w)) = Cardinality(Used(newMem)) + 1
      <4>1. newMem[i].hash = emptyBucket /\ b \in Bucket /\ b.hash # emptyBucket
            /\ w = [newMem EXCEPT ![i] = b]
        BY <3>3, <3>4, <3>5, Zenon
      <4>2. QED
        BY ONLY <3>6, <4>1, <1>TakeBucket, Zenon
    <3>8. w \in [0 .. 2 * size - 1 -> Bucket]
          /\ \A j \in DOMAIN w : w[j].hash # emptyBucket => w[j].idx \in 1 .. Known
      BY <2>1, <2>3, <3>3, <3>4, <3>5, Zenon DEF Expanding, Indexed
    <3>9. ExpandTypes' /\ Indexed(newMem)'
      <4>1. ExpandTypes'
        BY ONLY <2>1, <2>3, <3>2, <3>5, <3>8, SMTT(30) DEF ExpandTypes
      <4>2. QED
        BY ONLY <2>1, <3>5, <3>8, <4>1, Zenon DEF Indexed
    <3>10. Expanding'
      BY <2>1, <2>3, <2>4, <3>2, <3>4, <3>5, <3>7, <3>9, SMTT(30) DEF Expanding
    <3>11. QED
      BY <2>2, <3>9, <3>10, Zenon DEF Base, Shape
  <2>7. QED
    BY <2>5, <2>6, Zenon
(* Twice the size and no more buckets in use: there is room for a key. *)
<1>EndExpandStep.
    ASSUME Base, EndExpand
    PROVE  Base'
  <2> USE <1>EndExpandStep
  <2> TableTypes /\ ExpandTypes /\ Counted /\ Expanding /\ Outer
    BY Zenon DEF Base, Shape
  <2>1. /\ UNCHANGED <<phase, file, length, deleted, checksum, pos, ret>>
        /\ expand = "running" /\ expand' = "done" /\ mem' = newMem /\ size' = 2 * size
        /\ numStoredKeys' = newStored /\ newMem' = NewMem(0) /\ newStored' = 0 /\ scan' = 0
        /\ Known' = Known
    BY Zenon DEF EndExpand, store, Known
  <2>2. Outer'
    BY <2>1, Zenon DEF Outer, StoreTypes, Phases
  <2>3. /\ newStored \in Nat /\ newMem \in [0 .. 2 * size - 1 -> Bucket] /\ size \in Nat \ {0}
        /\ numStoredKeys \in Nat /\ numStoredKeys <= (size * 7) \div 10
        /\ Indexed(newMem) /\ Cardinality(Used(newMem)) = newStored
    BY <2>1, Zenon DEF ExpandTypes, TableTypes, Expanding, Counted, numKeysToExpand
  <2>4. newStored <= numStoredKeys
    <3>1. Cardinality(Scanned(mem, scan)) <= numStoredKeys /\ newStored <= Cardinality(Scanned(mem, scan))
      BY <2>1, NewEmptyBucketLeft, Zenon DEF Expanding
    <3>2. Cardinality(Scanned(mem, scan)) \in Nat
      BY ScanStep DEF ExpandTypes
    <3>3. QED
      BY <2>3, <3>1, <3>2
  <2>5. newStored < (2 * size * 7) \div 10
    BY ONLY <2>3, <2>4
  <2>6. TableTypes' /\ Counted'
    BY ONLY <2>1, <2>3, <2>5 DEF TableTypes, Counted, numKeysToExpand
  <2>7. NewMem(0) \in [{} -> Bucket]
    BY DEF NewMem
  <2>8. ExpandTypes' /\ Expanding'
    BY ONLY <2>1, <2>3, <2>7 DEF ExpandTypes, Expanding
  <2>9. Indexed(mem)'
    BY ONLY <2>1, <2>3, Zenon DEF Indexed
  <2>10. QED
    BY <2>2, <2>6, <2>8, <2>9, Zenon DEF Base, Shape
<1>DownStep.
    ASSUME Base, Down PROVE Base'
  <2> USE <1>DownStep
  <2>1. TableTypes' /\ Counted' /\ Indexed(mem)'
    BY EmptyTable DEF Down, TableTypes, Counted, numKeysToExpand, Indexed
  <2>2. ExpandTypes' /\ Expanding'
    BY EmptyTable DEF Down, ExpandTypes, Expanding
  <2>3. file' \in Seq(Record)
    BY Zenon DEF Base, Outer, StoreTypes, Down
  <2>4. Outer'
    BY <2>3, EmptyTable DEF Down, Outer, StoreTypes, Phases
  <2>5. QED
    BY <2>1, <2>2, <2>4, Zenon DEF Base, Shape
(* Nothing of the table changes, nor what it may point to. *)
<1>ShapeSame.
    ASSUME Shape, UNCHANGED <<table, expansion>>, Known' = Known
    PROVE  Shape'
  <2> USE <1>ShapeSame
  <2>1. UNCHANGED <<mem, size, numStoredKeys, newMem, newStored, scan, expand>>
    BY Zenon DEF table, expansion
  <2>2. TableTypes' /\ ExpandTypes'
    BY <2>1, Zenon DEF Shape, TableTypes, ExpandTypes
  <2>3. Counted' /\ Expanding' /\ Indexed(mem)'
    BY <2>1, Zenon DEF Shape, Counted, Expanding, Indexed, numKeysToExpand
  <2>4. QED
    BY <2>2, <2>3, Zenon DEF Shape
<1>ChecksumStep.
    ASSUME Base, NEW now \in Times, Checksum(now) PROVE Base'
  <2> USE <1>ChecksumStep
  <2>1. now \in Nat /\ checksum \in Sums
    BY TimeAssumption, Zenon DEF Base, Outer
  <2>2. checksum' \in Sums
    BY <2>1, MoveFacts, Zenon DEF Checksum
  <2>3. Outer' /\ Known' = Known
    BY <2>2, <1>OuterSame, Zenon DEF Checksum, Base, Outer, StoreTypes
  <2>4. QED
    BY <2>3, <1>ShapeSame, Zenon DEF Checksum, Base
<1>OpenStep.
    ASSUME Base, Open PROVE Base'
  <2> USE <1>OpenStep
  <2>1. Outer' /\ Known' = Known
    BY DEF Open, Base, Outer, StoreTypes, Phases, store, Known
  <2>2. QED
    BY <2>1, <1>ShapeSame, Zenon DEF Open, Base
<1>EndOpenStep.
    ASSUME Base, EndOpen PROVE Base'
  <2> USE <1>EndOpenStep
  <2>1. /\ phase = "restoring" /\ phase' \in {"open", "panicked"} /\ pos' = 0
        /\ file' = SubSeq(file, 1, pos - 1)
        /\ UNCHANGED <<length, deleted, checksum, ret>>
    BY Zenon DEF EndOpen
  <2>2. file \in Seq(Record) /\ pos \in 1 .. Len(file) + 1 /\ Len(file) \in Nat
    BY <2>1 DEF Base, Outer, StoreTypes, Phases
  <2>3. file' \in Seq(Record) /\ Len(file') = pos - 1
    BY ONLY <2>1, <2>2
  <2>4. Outer'
    BY <2>1, <2>3 DEF Base, Outer, StoreTypes, Phases
  <2>5. Known' = Known
    BY <2>1, <2>3, Zenon DEF Known
  <2>6. QED
    BY <2>4, <2>5, <1>ShapeSame, Zenon DEF Base, EndOpen
<1>RestoreStep.
    ASSUME Base, RestorePair PROVE Base'
  <2> USE <1>RestoreStep
  <2> DEFINE r == file[pos]
             h == KeyHash(r.key)
             i == Probe(h, r.key)
             old == file[mem[i].idx]
  <2>1. /\ phase = "restoring" /\ pos \in 1 .. Len(file) /\ Len(file) \in Nat
        /\ file \in Seq(Record) /\ r \in Record
        /\ r.key \in Keys /\ r.ts \in Nat /\ Known = pos - 1 /\ Known' = pos
        /\ UNCHANGED <<phase, file, size, newMem, newStored, scan, ret>>
        /\ pos' = pos + 1 /\ expand' = "no" /\ expand # "running"
        /\ <<r.key, r.ts>> \in Terms
    BY RestoreFacts, Zenon
  <2>2. /\ length \in Nat /\ deleted \in Nat /\ checksum \in Sums /\ Outer /\ Shape
        /\ RecordLen(r) \in Nat /\ h \in Nat /\ h # emptyBucket /\ KeyLen[r.key] \in Nat
    BY <2>1, KeyHashFacts, RecordLenFacts, KeysAssumption, Zenon DEF Base, Outer, StoreTypes
  <2>3. i \in 0 .. size - 1 /\ mem[i] \in Bucket
        /\ (mem[i].hash # emptyBucket => mem[i].idx \in 1 .. Len(file) /\ old \in Record)
    BY <2>1, Found, Zenon
  <2>4. PICK own \in Nat : own = IF r.live THEN 0 ELSE 12 + KeyLen[r.key]
    BY <2>2
  <2>5. length' \in Nat
    <3>1. length' = length + RecordLen(r)
      BY Zenon DEF RestorePair
    <3>2. QED
      BY ONLY <2>2, <3>1
  <2> HIDE DEF r, h, i, old
  <2>6. ASSUME checksum' \in Sums, deleted' \in Nat PROVE Outer'
    <3>1. StoreTypes'
      BY ONLY <2>1, <2>2, <2>5, <2>6, SMTT(30) DEF Outer, StoreTypes
    <3>2. Phases'
      BY ONLY <2>1, <2>2 DEF Outer, Phases
    <3>3. QED
      BY ONLY <2>1, <2>2, <2>6, <3>1, <3>2, Zenon DEF Outer
  <2>7. Known \in Nat /\ Known' \in Nat /\ Known <= Known'
    BY <2>1
  <2>8. CASE UNCHANGED <<mem, numStoredKeys, checksum>> /\ deleted' = deleted + own
    <3>1. Outer'
      BY <2>2, <2>4, <2>6, <2>8, SMTT(30)
    <3>2. Shape'
      BY <2>1, <2>2, <2>7, <2>8, <1>TableSame, Zenon DEF table
    <3>3. QED
      BY <3>1, <3>2, Zenon DEF Base
  <2>9. PICK b \in Bucket : b = [hash |-> h, idx |-> pos] /\ b.hash # emptyBucket /\ b.idx \in 1 .. Known'
    <3>1. [hash |-> h, idx |-> pos] \in Bucket /\ pos \in 1 .. Known'
      BY ONLY <2>1, <2>2 DEF Bucket
    <3>2. QED
      BY ONLY <2>2, <3>1, Zenon
  <2>10. CASE /\ SpaceChecked /\ mem[i].hash = emptyBucket /\ deleted' = deleted + own
              /\ mem' = [mem EXCEPT ![i] = [hash |-> h, idx |-> pos]]
              /\ numStoredKeys' = numStoredKeys + 1
              /\ checksum' = SumTerm(checksum, <<r.key, r.ts>>, r.ts)
    <3>1. Outer'
      <4>1. SumTerm(checksum, <<r.key, r.ts>>, r.ts) \in Sums
        BY ONLY <2>1, <2>2, SumFacts, Zenon
      <4>2. deleted' \in Nat
        BY <2>2, <2>4, <2>10, SMTT(30)
      <4>3. QED
        BY <2>6, <2>10, <4>1, <4>2, Zenon
    <3>2. mem' = [mem EXCEPT ![i] = b]
      BY <2>9, <2>10, Zenon
    <3>3. Shape'
      BY ONLY <2>1, <2>2, <2>3, <2>7, <2>9, <2>10, <3>2, <1>TableStep, Zenon
    <3>4. QED
      BY <3>1, <3>3, Zenon DEF Base
  <2>11. ASSUME mem[i].hash # emptyBucket
         PROVE  <<r.key, old.ts>> \in Terms /\ SubTerm(checksum, <<r.key, old.ts>>, r.ts) \in Sums
                /\ RecordLen(old) \in Nat
    <3>1. PICK x \in Terms : x = <<r.key, old.ts>>
      BY <2>1, <2>3, <2>11, Zenon DEF Terms, Record
    <3>2. SubTerm(checksum, x, r.ts) \in Sums
      BY ONLY <2>1, <2>2, SumFacts, Zenon
    <3>3. QED
      BY <2>3, <2>11, <3>1, <3>2, RecordLenFacts, Zenon
  <2>12. CASE /\ mem[i].hash # emptyBucket
              /\ deleted' = deleted + own + RecordLen(old)
              /\ mem' = IF r.live THEN [mem EXCEPT ![i] = [hash |-> h, idx |-> pos]]
                                  ELSE [mem EXCEPT ![i].hash = deletedBucket]
              /\ numStoredKeys' = numStoredKeys
              /\ checksum' = IF r.live THEN SumTerm(SubTerm(checksum, <<r.key, old.ts>>, r.ts), <<r.key, r.ts>>, r.ts)
                                       ELSE SubTerm(checksum, <<r.key, old.ts>>, r.ts)
    <3>1. checksum' \in Sums
      BY <2>1, <2>11, <2>12, SumFacts, Zenon
    <3>2. Outer'
      BY <2>2, <2>4, <2>6, <2>11, <2>12, <3>1, SMTT(30)
    <3>3. PICK d \in Bucket : d = [hash |-> deletedBucket, idx |-> mem[i].idx]
      BY <2>3, Zenon DEF Bucket, deletedBucket
    <3>4. mem' = [mem EXCEPT ![i] = b] \/ mem' = [mem EXCEPT ![i] = d]
      <4>1. [mem EXCEPT ![i].hash = deletedBucket] = [mem EXCEPT ![i] = d]
        BY <2>2, <2>3, <3>3, MarkBucket, Zenon DEF Shape
      <4>2. QED
        BY <2>9, <2>12, <4>1, Zenon
    <3>5. d.hash # emptyBucket /\ d.idx \in 1 .. Known'
      <4>1. mem[i].idx \in 1 .. Known
        BY ONLY <2>2, <2>3, <2>12, Zenon DEF Shape, Indexed, TableTypes
      <4>2. QED
        BY ONLY <2>1, <3>3, <4>1 DEF deletedBucket, emptyBucket
    <3>6. Shape'
      BY ONLY <2>1, <2>2, <2>3, <2>7, <2>9, <2>12, <3>3, <3>4, <3>5, <1>TableStep, Zenon
    <3>7. QED
      BY <3>2, <3>6, Zenon DEF Base
  <2>13. QED
    BY <2>4, <2>8, <2>10, <2>12, Zenon DEF RestorePair, r, h, i, old
<1> SUFFICES ASSUME Base, [Next]_vars
             PROVE  Base'
  BY Zenon
<1>1. CASE UNCHANGED vars
  <2>1. UNCHANGED <<phase, file, length, deleted, checksum, pos, ret, table, expansion>>
    BY <1>1, Zenon DEF vars, store
  <2>2. Outer' /\ Known' = Known
    BY <2>1, Zenon DEF Base, Outer, StoreTypes, Phases, Known
  <2>3. QED
    BY <2>1, <2>2, <1>ShapeSame, Zenon DEF Base
<1>2. CASE \E k \in Keys, v \in Values, t \in Times : Set(k, v, t)
  BY <1>2, <1>SetStep, Zenon
<1>3. CASE \E k \in Keys, pt \in Times \cup {0}, w \in Values :
               \/ CASMismatch(k, pt, ValHash[w])
               \/ \E v \in Values, t \in Times : CAS(k, pt, ValHash[w], v, t)
  BY <1>3, <1>CASStep, <1>CASMismatchStep, Zenon
<1>4. CASE \E k \in Keys, t \in Times : Del(k, t)
  BY <1>4, <1>DelStep, Zenon
<1>5. CASE \E now \in Times : Checksum(now)
  BY <1>5, <1>ChecksumStep, Zenon
<1>6. QED
  BY <1>1, <1>2, <1>3, <1>4, <1>5, <1>StartExpandStep, <1>ExpandBucketStep, <1>EndExpandStep, <1>TableFullStep,
     <1>DownStep, <1>OpenStep, <1>RestoreStep, <1>EndOpenStep, Zenon DEF Next, Close, Crash

(* Types and the load of the tables hold in every phase of a map: while it is open, in
   the middle of expand(), after a crash and during the replay of its file. *)
THEOREM BaseInvariant == Spec => []Base
<1>1. Init => Base
  BY InitBase, Zenon
<1>2. Base /\ [Next]_vars => Base'
  BY BaseStep, Zenon
<1>3. QED
  BY <1>1, <1>2, PTL DEF Spec

(* Every state of a map is well typed, and every bucket in use points to a record of the file,
   whatever is written, deleted, expanded, restored or lost in a crash. *)
THEOREM PMapTypeCorrect == Spec => []TypeOK
<1>1. Base => TypeOK
  <2> SUFFICES ASSUME Base PROVE TypeOK
    OBVIOUS
  <2>1. \A i \in DOMAIN mem : mem[i].hash # emptyBucket => mem[i].idx \in DOMAIN file
    <3>1. Known \in 0 .. Len(file) /\ Len(file) \in Nat /\ DOMAIN file = 1 .. Len(file) /\ Indexed(mem)
      BY KnownType DEF Base, Outer, Shape, StoreTypes
    <3>2. QED
      BY ONLY <3>1 DEF Indexed
  <2>2. QED
    BY <2>1, Zenon DEF TypeOK, Base, Outer, Shape
<1>2. QED
  BY <1>1, BaseInvariant, PTL

(* Every probing loop of the map ends: Get, Set, CAS, Del, restorePair and expand. *)
THEOREM ProbesAlwaysEnd == Spec => []ProbesEnd
<1>1. Base => ProbesEnd
  <2> SUFFICES ASSUME Base PROVE ProbesEnd
    OBVIOUS
  <2>1. TableTypes /\ ExpandTypes /\ Counted /\ Expanding
    BY Zenon DEF Base, Shape
  <2>2. \E i \in 0 .. size - 1 : mem[i].hash = emptyBucket
    BY <2>1, EmptyBucketLeft, Zenon
  <2>3. expand = "running" => \E i \in 0 .. 2 * size - 1 : newMem[i].hash = emptyBucket
    BY <2>1, NewEmptyBucketLeft, Zenon
  <2>4. DOMAIN mem = 0 .. size - 1 /\ (expand = "running" => DOMAIN newMem = 0 .. 2 * size - 1)
    BY <2>1, Zenon DEF TableTypes, ExpandTypes
  <2>5. QED
    BY <2>2, <2>3, <2>4, Zenon DEF ProbesEnd
<1>2. QED
  BY <1>1, BaseInvariant, PTL
=====================================================================================

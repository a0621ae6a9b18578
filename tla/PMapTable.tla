--------------------------------- MODULE PMapTable ---------------------------------
(***************************************************************************)
(* The table and the file of a chunk, for any keys, hashes, sizes and      *)
(* limits.  Table: every bucket in use is found from its home bucket, also *)
(* while a larger table is being filled.  It reduces the table to the set  *)
(* held of the records in use, and each step to its effect on that set.    *)
(* Contents: the records in use are the last ones of their keys, and the   *)
(* replay of the file leaves none out.                                     *)
(***************************************************************************)
EXTENDS PMapProofs
-------------------------------------------------------------------------------------
(* The table *)

(* Get does not remap the hash it searches: hashes 0 and 1 are those of no bucket. *)
PlainHashes == \A k \in Keys : Hash32[k] >= 2

InUse(b) == b.hash > deletedBucket

(* Linear probing for hash h passes no empty bucket on its way to bucket i. *)
Reaches(m, n, h, i) ==
    \E d \in 0 .. n - 1 : /\ Slot(h, d, n) = i
                          /\ \A e \in 0 .. d - 1 : m[Slot(h, e, n)].hash # emptyBucket

(* The buckets in use of a table m of n buckets over the records f: each is where probing
   for its key comes to, and no two are of one key. *)
Sound(m, n, f) ==
    /\ \A i \in 0 .. n - 1 : InUse(m[i]) =>
           m[i].hash = KeyHash(f[m[i].idx].key) /\ Reaches(m, n, m[i].hash, i)
    /\ \A i, j \in 0 .. n - 1 :
           InUse(m[i]) /\ InUse(m[j]) /\ f[m[i].idx].key = f[m[j].idx].key => i = j

(* The table being filled holds the buckets in use among those scanned, and nothing else. *)
Copied ==
    expand = "running" =>
        /\ Sound(newMem, 2 * size, file)
        /\ \A i \in 0 .. 2 * size - 1 : newMem[i].hash # emptyBucket =>
               \E j \in 0 .. scan - 1 : newMem[i] = mem[j] /\ InUse(mem[j])
        /\ \A j \in 0 .. scan - 1 : InUse(mem[j]) =>
               \E i \in 0 .. 2 * size - 1 : newMem[i] = mem[j]

Table == Sound(mem, size, file) /\ Copied

(* The records a table refers to. *)
HeldIn(m) == {m[i].idx : i \in {j \in DOMAIN m : InUse(m[j])}}
held == HeldIn(mem)
-------------------------------------------------------------------------------------
(* Tables *)

LEMMA InUseFacts ==
    ASSUME NEW n \in Nat, NEW m \in [0 .. n - 1 -> Bucket], NEW j \in 0 .. n - 1, InUse(m[j])
    PROVE  m[j].hash \in Nat /\ m[j].hash # emptyBucket
<1>1. m[j] \in Bucket
  OBVIOUS
<1>2. m[j].hash \in Nat
  BY <1>1, Zenon DEF Bucket
<1>3. QED
  BY <1>2 DEF InUse, emptyBucket, deletedBucket

(* Table w is table m but for bucket i, that is now b. *)
Overwrites(m, n, i, b, w) ==
    /\ n \in Nat \ {0} /\ m \in [0 .. n - 1 -> Bucket] /\ i \in 0 .. n - 1
    /\ b \in Bucket /\ b.hash # emptyBucket /\ w = [m EXCEPT ![i] = b]

(* The buckets of m refer to the first K records, and those are the same in f and in g. *)
Agree(m, n, K, f, g) ==
    /\ n \in Nat \ {0} /\ m \in [0 .. n - 1 -> Bucket]
    /\ \A j \in 0 .. n - 1 : m[j].hash # emptyBucket => m[j].idx \in 1 .. K
    /\ \A x \in 1 .. K : g[x] = f[x]

(* Bucket i is the only one that is, or may be put, in use for key k. *)
OnlyFor(m, n, i, f, k) ==
    /\ Reaches(m, n, KeyHash(k), i)
    /\ \A j \in 0 .. n - 1 : InUse(m[j]) /\ f[m[j].idx].key = k => j = i
    /\ InUse(m[i]) => f[m[i].idx].key = k
-------------------------------------------------------------------------------------
(* Searching the table *)

LEMMA ProbeReaches ==
    ASSUME Base, NEW k \in Keys
    PROVE  Reaches(mem, size, KeyHash(k), Probe(KeyHash(k), k))
<1>1. PICK h, d : h = KeyHash(k) /\ d = ProbeLen(h, k)
  BY Zenon
<1>2. TableTypes /\ \E i \in 0 .. size - 1 : mem[i].hash = emptyBucket
  BY EmptyBucketLeft, Zenon DEF Base, Shape
<1>3. h \in Nat
  BY <1>1, KeyHashFacts, Zenon
<1>4. d \in 0 .. size - 1 /\ \A e \in 0 .. d - 1 : ~Stops(h, k, e)
  BY <1>1, <1>2, <1>3, ProbeFacts, Zenon
<1>5. \A e \in 0 .. d - 1 : mem[Slot(h, e, size)].hash # emptyBucket
  BY <1>4, Zenon DEF Stops
<1>6. Probe(h, k) = Slot(h, d, size)
  BY <1>1, Zenon DEF Probe
<1>7. QED
  BY <1>1, <1>4, <1>5, <1>6, Zenon DEF Reaches

(* The bucket of a key is the one its search ends at. *)
LEMMA ProbeFinds ==
    ASSUME Base, Sound(mem, size, file), NEW k \in Keys, NEW j \in 0 .. size - 1,
           InUse(mem[j]), file[mem[j].idx].key = k
    PROVE  Probe(KeyHash(k), k) = j
<1>1. PICK h, d : h = KeyHash(k) /\ d = ProbeLen(h, k)
  BY Zenon
<1>2. TableTypes /\ \E i \in 0 .. size - 1 : mem[i].hash = emptyBucket
  BY EmptyBucketLeft, Zenon DEF Base, Shape
<1>3. h \in Nat /\ h > deletedBucket
  BY <1>1, KeyHashFacts, Zenon
<1>4. /\ d \in 0 .. size - 1 /\ \A e \in 0 .. d - 1 : ~Stops(h, k, e)
      /\ Probe(h, k) \in 0 .. size - 1
      /\ \/ mem[Probe(h, k)].hash = emptyBucket
         \/ mem[Probe(h, k)].hash = h /\ file[mem[Probe(h, k)].idx].key = k
  <2>1. /\ ProbeLen(h, k) \in 0 .. size - 1 /\ \A e \in 0 .. ProbeLen(h, k) - 1 : ~Stops(h, k, e)
        /\ Probe(h, k) \in 0 .. size - 1
        /\ \/ mem[Probe(h, k)].hash = emptyBucket
           \/ mem[Probe(h, k)].hash = h /\ file[mem[Probe(h, k)].idx].key = k
    BY ONLY <1>2, <1>3, ProbeFacts, Zenon
  <2>2. QED
    BY <1>1, <2>1, Zenon
<1>5. Probe(h, k) = Slot(h, d, size)
  BY <1>1, Zenon DEF Probe
<1>6. mem[j].hash = h /\ Reaches(mem, size, h, j)
  BY <1>1, Zenon DEF Sound
<1>7. PICK c \in 0 .. size - 1 : /\ Slot(h, c, size) = j
                                 /\ \A e \in 0 .. c - 1 : mem[Slot(h, e, size)].hash # emptyBucket
  BY <1>6, Zenon DEF Reaches
<1>8. Stops(h, k, c)
  BY <1>6, <1>7, Zenon DEF Stops
<1>9. c = d \/ d \in 0 .. c - 1
  <2>1. c \notin 0 .. d - 1
    BY <1>4, <1>8, Zenon
  <2>2. size \in Nat
    BY <1>2, Zenon DEF TableTypes
  <2>3. d \in 0 .. size - 1 /\ c \in 0 .. size - 1
    BY <1>4, <1>7, Zenon
  <2>4. QED
    BY ONLY <2>1, <2>2, <2>3
<1>10. CASE c = d
  BY <1>1, <1>5, <1>7, <1>10, Zenon
<1>11. CASE d \in 0 .. c - 1
  <2>1. mem[Probe(h, k)].hash # emptyBucket
    BY <1>5, <1>7, <1>11, Zenon
  <2>2. InUse(mem[Probe(h, k)]) /\ file[mem[Probe(h, k)].idx].key = file[mem[j].idx].key
    BY <1>3, <1>4, <2>1, Zenon DEF InUse
  <2>3. QED
    BY <1>1, <1>4, <2>2, Zenon DEF Sound
<1>12. QED
  BY <1>9, <1>10, <1>11, Zenon

(* A bucket that is not empty at the end of a search is in use, for the key. *)
LEMMA FoundInUse ==
    ASSUME Base, NEW k \in Keys, NEW i, i = Probe(KeyHash(k), k), mem[i].hash # emptyBucket
    PROVE  InUse(mem[i]) /\ file[mem[i].idx].key = k
BY Found, KeyHashFacts, Zenon DEF InUse

LEMMA NotFound ==
    ASSUME Base, NEW k \in Keys, NEW i, i = Probe(KeyHash(k), k), InUse(mem[i])
    PROVE  file[mem[i].idx].key = k
<1>1. mem[i].hash # emptyBucket
  BY DEF InUse, emptyBucket, deletedBucket
<1>2. QED
  BY <1>1, FoundInUse, Zenon
-------------------------------------------------------------------------------------
(* Steps of the table *)

LEMMA Probed ==
    ASSUME Base, Sound(mem, size, file), NEW k \in Keys, NEW i, i = Probe(KeyHash(k), k)
    PROVE  /\ i \in 0 .. size - 1 /\ Reaches(mem, size, KeyHash(k), i)
           /\ \A j \in 0 .. size - 1 : InUse(mem[j]) /\ file[mem[j].idx].key = k => j = i
           /\ InUse(mem[i]) => file[mem[i].idx].key = k
<1>1. i \in 0 .. size - 1
  BY Found, Zenon
<1>2. Reaches(mem, size, KeyHash(k), i)
  BY ProbeReaches, Zenon
<1>3. \A j \in 0 .. size - 1 : InUse(mem[j]) /\ file[mem[j].idx].key = k => j = i
  BY ProbeFinds, Zenon
<1>4. InUse(mem[i]) => file[mem[i].idx].key = k
  BY NotFound, Zenon
<1>5. QED
  BY <1>1, <1>2, <1>3, <1>4, ZenonT(40)

LEMMA TableFacts ==
    ASSUME Base
    PROVE  /\ size \in Nat \ {0} /\ mem \in [0 .. size - 1 -> Bucket]
           /\ \A j \in 0 .. size - 1 : mem[j].hash # emptyBucket => mem[j].idx \in 1 .. Known
           /\ Known \in 0 .. Len(file) /\ Len(file) \in Nat
<1>1. size \in Nat \ {0} /\ mem \in [0 .. size - 1 -> Bucket]
  BY Zenon DEF Base, Shape, TableTypes
<1>2. DOMAIN mem = 0 .. size - 1
  BY <1>1, Zenon
<1>3. \A j \in 0 .. size - 1 : mem[j].hash # emptyBucket => mem[j].idx \in 1 .. Known
  BY <1>2, Zenon DEF Base, Shape, Indexed
<1>4. Known \in 0 .. Len(file) /\ Len(file) \in Nat
  BY KnownType, Zenon DEF Base, Outer
<1>5. QED
  BY <1>1, <1>3, <1>4, Zenon

LEMMA EmptySound ==
    ASSUME NEW n \in Nat, NEW f
    PROVE  Sound(NewMem(n), n, f) /\ HeldIn(NewMem(n)) = {}
<1>1. DOMAIN NewMem(n) = 0 .. n - 1 /\ \A i \in 0 .. n - 1 : ~InUse(NewMem(n)[i])
  BY DEF NewMem, InUse, emptyBucket, deletedBucket
<1>2. QED
  BY <1>1, Zenon DEF Sound, HeldIn

(* The bucket where a search for k ends is empty just when no record of k is held. *)
LEMMA HeldOf ==
    ASSUME Base, Table, NEW k \in Keys, NEW i, i = Probe(KeyHash(k), k)
    PROVE  /\ mem[i].hash # emptyBucket => mem[i].idx \in held /\ file[mem[i].idx].key = k
           /\ mem[i].hash = emptyBucket => \A x \in held : file[x].key # k
<1>1. Sound(mem, size, file) /\ DOMAIN mem = 0 .. size - 1
  BY TableFacts, Zenon DEF Table
<1>2. /\ i \in 0 .. size - 1
      /\ \A j \in 0 .. size - 1 : InUse(mem[j]) /\ file[mem[j].idx].key = k => j = i
  BY <1>1, Probed, Zenon
<1>3. ASSUME mem[i].hash # emptyBucket PROVE mem[i].idx \in held /\ file[mem[i].idx].key = k
  BY <1>1, <1>2, <1>3, FoundInUse, Zenon DEF held, HeldIn
<1>4. ASSUME mem[i].hash = emptyBucket, NEW x \in held, file[x].key = k PROVE FALSE
  <2>1. PICK j \in 0 .. size - 1 : InUse(mem[j]) /\ x = mem[j].idx
    BY <1>1, Zenon DEF held, HeldIn
  <2>2. j = i
    BY <1>2, <1>4, <2>1, Zenon
  <2>3. QED
    BY <1>4, <2>1, <2>2 DEF InUse, emptyBucket, deletedBucket
<1>5. QED
  BY <1>3, <1>4, Zenon

(* The records in use are among those known. *)
LEMMA HeldKnown ==
    ASSUME Base
    PROVE  held \subseteq 1 .. Known
<1>1. ASSUME NEW x \in held PROVE x \in 1 .. Known
  <2>1. size \in Nat /\ mem \in [0 .. size - 1 -> Bucket] /\ DOMAIN mem = 0 .. size - 1
    BY TableFacts, Zenon
  <2>2. PICK j \in 0 .. size - 1 : InUse(mem[j]) /\ x = mem[j].idx
    BY <2>1, Zenon DEF held, HeldIn
  <2>3. mem[j].hash # emptyBucket
    BY <2>1, <2>2, InUseFacts, Zenon
  <2>4. QED
    BY <2>2, <2>3, TableFacts, Zenon
<1>2. QED
  BY <1>1, Zenon

LEMMA HeldRecords ==
    ASSUME Base, NEW x \in held
    PROVE  /\ x \in 1 .. Known /\ x \in 1 .. Len(file)
           /\ file[x] \in Record /\ file[x].key \in Keys /\ file[x].ts \in Times \cup {0}
<1>1. x \in 1 .. Known /\ Known \in 0 .. Len(file) /\ Len(file) \in Nat
  BY HeldKnown, TableFacts, Zenon
<1>2. x \in 1 .. Len(file) /\ file \in Seq(Record)
  BY <1>1 DEF Base, Outer, StoreTypes
<1>3. file[x] \in Record
  BY <1>2
<1>4. QED
  BY <1>1, <1>2, <1>3, Zenon DEF Record
-------------------------------------------------------------------------------------
(* The effect of each step on the records and on those in use *)

Without(k) == {x \in held : file[x].key # k}

(* A CAS whose caller expects another pair returns an error. *)
Truthful(r) == r.op = "staleCAS" => r.err

(* Calls without effect, and the steps of expand(). *)
Quiet ==
    /\ UNCHANGED <<phase, file, length, deleted, pos>> /\ held' = held
    /\ numStoredKeys' <= numStoredKeys
    /\ ret'.err \/ checksum'.newChecksum = checksum.newChecksum
    /\ ret' = ret \/ Truthful(ret')
    /\ phase # "open" => ret' = ret

(* The new pair enters the checksum, the one it replaces leaves it. *)
SumsWrite(k, t) ==
    \/ /\ \A x \in held : file[x].key # k
       /\ checksum' = SumTerm(checksum, <<k, t>>, t)
    \/ \E x \in held :
       /\ file[x].key = k
       /\ checksum' = SumTerm(SubTerm(checksum, <<k, file[x].ts>>, t), <<k, t>>, t)

Writes(k, v, t) ==
    /\ phase = "open" /\ UNCHANGED <<phase, deleted, pos>>
    /\ ~Full(PairRecord(k, v, t)) /\ put(PairRecord(k, v, t))
    /\ held' = Without(k) \cup {Len(file) + 1}
    /\ numStoredKeys' <= numStoredKeys + 1
    /\ SumsWrite(k, t)
    /\ \/ \E pt, hv : CASTests(k, pt, hv) /\ ret' = [op |-> CASOp(k, pt, hv), err |-> FALSE]
       \/ /\ ret' = [op |-> "Set", err |-> FALSE]
          /\ \A x \in held : file[x].key = k => file[x].ts < t

Deletes(k, t) ==
    /\ phase = "open" /\ UNCHANGED <<phase, pos, numStoredKeys>>
    /\ held' = Without(k)
    /\ \E x \in held : /\ file[x].key = k /\ t >= file[x].ts
                       /\ deleted' = deleted + RecordLen(file[x])
                       /\ checksum' = SubTerm(checksum, <<k, file[x].ts>>, t)
    /\ \/ UNCHANGED store /\ ret' = [op |-> "Del", err |-> TRUE]
       \/ /\ ~Full(Tombstone(k)) /\ put(Tombstone(k))
          /\ ret' = [op |-> "Del", err |-> FALSE]

(* A turn of Open's loop on record r: a record of a deletion is garbage, like a pair that a
   later record replaces or deletes. *)
OwnGarbage(r) == IF r.live THEN 0 ELSE 12 + KeyLen[r.key]

Restores(r) ==
    /\ phase = "restoring" /\ pos \in 1 .. Len(file) /\ r = file[pos]
    /\ UNCHANGED <<phase, file, ret>>
    /\ pos' = pos + 1 /\ length' = length + RecordLen(r)
    /\ numStoredKeys' <= numStoredKeys + 1
    /\ \/ /\ SpaceRefused /\ held' = held /\ checksum' = checksum
          /\ deleted' = deleted + OwnGarbage(r)
       \/ /\ \A x \in held : file[x].key # r.key
          /\ deleted' = deleted + OwnGarbage(r)
          /\ held' = Without(r.key) \cup {pos}
          /\ checksum' = SumTerm(checksum, <<r.key, r.ts>>, r.ts)
       \/ \E x \in held :
          /\ file[x].key = r.key
          /\ deleted' = deleted + OwnGarbage(r) + RecordLen(file[x])
          /\ \/ /\ r.live /\ held' = Without(r.key) \cup {pos}
                /\ checksum' = SumTerm(SubTerm(checksum, <<r.key, file[x].ts>>, r.ts),
                                       <<r.key, r.ts>>, r.ts)
             \/ /\ ~r.live /\ held' = Without(r.key)
                /\ checksum' = SubTerm(checksum, <<r.key, file[x].ts>>, r.ts)

Effect ==
    \/ Quiet
    \/ \E k \in Keys, v \in Values, t \in Times : Writes(k, v, t)
    \/ \E k \in Keys, t \in Times : Deletes(k, t)
    \/ Down /\ held' = {}
    \/ Open /\ held' = held
    \/ EndOpen /\ held' = held
    \/ Restores(file[pos])

Appended(f, r, g) == f \in Seq(Record) /\ r \in Record /\ g = Append(f, r)

LEMMA AppendFacts ==
    ASSUME NEW g, NEW f, NEW r, Appended(f, r, g)
    PROVE  /\ g \in Seq(Record) /\ Len(f) \in Nat /\ Len(g) = Len(f) + 1
           /\ \A x \in 1 .. Len(f) : g[x] = f[x]
           /\ g[Len(f) + 1] = r
BY DEF Appended

(* Every step keeps Table and has one of the effects: one step of the proof for each action,
   after what they share about tables. *)
LEMMA StepEffect ==
    Base /\ Table /\ [Next]_vars
        => (Table' /\ Effect)
(* A bucket that takes another value, but not the empty one, hides no other bucket. *)
<1>ReachesPut.
    ASSUME NEW n \in Nat \ {0}, NEW m \in [0 .. n - 1 -> Bucket], NEW i \in 0 .. n - 1,
           NEW b \in Bucket, b.hash # emptyBucket, NEW w, w = [m EXCEPT ![i] = b],
           NEW h \in Nat, NEW j, Reaches(m, n, h, j)
    PROVE  Reaches(w, n, h, j)
  <2> USE <1>ReachesPut
  <2>1. PICK d \in 0 .. n - 1 : /\ Slot(h, d, n) = j
                                /\ \A e \in 0 .. d - 1 : m[Slot(h, e, n)].hash # emptyBucket
    BY DEF Reaches
  <2>2. ASSUME NEW e \in 0 .. d - 1 PROVE w[Slot(h, e, n)].hash # emptyBucket
    <3>1. PICK s : s = Slot(h, e, n)
      BY Zenon
    <3>2. s \in 0 .. n - 1
      BY <3>1, SlotIn
    <3>3. m[s].hash # emptyBucket
      BY <2>1, <3>1, Zenon
    <3>4. QED
      BY ONLY <3>1, <3>2, <3>3, m \in [0 .. n - 1 -> Bucket], w = [m EXCEPT ![i] = b], b.hash # emptyBucket, Zenon
  <2>3. QED
    BY <2>1, <2>2, Zenon DEF Reaches
(* Records that are added or dropped and that no bucket refers to do not matter; a bucket
   reached from the home of its key may be given to it, unless another one has the key. *)
<1>PutSound.
    ASSUME NEW n, NEW m, NEW i, NEW b, NEW w, NEW f, NEW g, NEW K, NEW k,
           Sound(m, n, f), Overwrites(m, n, i, b, w), Agree(m, n, K, f, g),
           OnlyFor(m, n, i, f, k), InUse(b) => b.hash = KeyHash(k) /\ g[b.idx].key = k
    PROVE  Sound(w, n, g)
  <2> USE <1>PutSound
  <2> /\ n \in Nat \ {0} /\ m \in [0 .. n - 1 -> Bucket] /\ i \in 0 .. n - 1
      /\ b \in Bucket /\ b.hash # emptyBucket /\ w = [m EXCEPT ![i] = b]
    BY Zenon DEF Overwrites
  <2>1. \A j \in 0 .. n - 1 : w[j] = IF j = i THEN b ELSE m[j]
    BY Zenon
  <2>2. \A j \in 0 .. n - 1 : InUse(m[j]) => m[j].hash \in Nat /\ g[m[j].idx] = f[m[j].idx]
    BY InUseFacts, Zenon DEF Agree
  <2>3. ASSUME NEW j \in 0 .. n - 1, InUse(w[j])
        PROVE  w[j].hash = KeyHash(g[w[j].idx].key) /\ Reaches(w, n, w[j].hash, j)
    <3>1. PICK h : h = w[j].hash
      BY Zenon
    <3>2. h = KeyHash(g[w[j].idx].key) /\ Reaches(m, n, h, j) /\ h \in Nat
      BY <2>1, <2>2, <2>3, <3>1, Zenon DEF Sound, Bucket, OnlyFor
    <3>3. Reaches(w, n, h, j)
      BY <3>2, <1>ReachesPut, Zenon
    <3>4. QED
      BY <3>1, <3>2, <3>3, Zenon
  <2>4. ASSUME NEW j \in 0 .. n - 1, NEW l \in 0 .. n - 1, InUse(w[j]), InUse(w[l]),
               g[w[j].idx].key = g[w[l].idx].key
        PROVE  j = l
    BY <2>1, <2>2, <2>4, Zenon DEF Sound, OnlyFor
  <2>5. QED
    BY <2>3, <2>4, Zenon DEF Sound
<1>SameSound.
    ASSUME NEW n, NEW m, NEW f, NEW g, NEW K, Sound(m, n, f), Agree(m, n, K, f, g)
    PROVE  Sound(m, n, g)
  <2> USE <1>SameSound
  <2>1. \A j \in 0 .. n - 1 : InUse(m[j]) => g[m[j].idx] = f[m[j].idx]
    BY InUseFacts, ZenonT(40) DEF Agree
  <2>2. QED
    BY <2>1, Zenon DEF Sound
(* What is in use once bucket i, the only one that may be of key k, is overwritten. *)
<1>HeldPut.
    ASSUME NEW n, NEW m, NEW i, NEW b, NEW w, NEW f, NEW k,
           Overwrites(m, n, i, b, w), OnlyFor(m, n, i, f, k)
    PROVE  HeldIn(w) = {x \in HeldIn(m) : f[x].key # k} \cup (IF InUse(b) THEN {b.idx} ELSE {})
  <2> USE <1>HeldPut
  <2>1. DOMAIN w = 0 .. n - 1 /\ DOMAIN m = 0 .. n - 1 /\ i \in 0 .. n - 1
        /\ \A j \in 0 .. n - 1 : w[j] = IF j = i THEN b ELSE m[j]
    BY Zenon DEF Overwrites
  <2>2. ASSUME NEW x \in HeldIn(w)
        PROVE  x \in {y \in HeldIn(m) : f[y].key # k} \cup (IF InUse(b) THEN {b.idx} ELSE {})
    <3>1. PICK j \in 0 .. n - 1 : InUse(w[j]) /\ x = w[j].idx
      BY <2>1, Zenon DEF HeldIn
    <3>2. CASE j = i
      BY <2>1, <3>1, <3>2, Zenon
    <3>3. CASE j # i
      <4>1. InUse(m[j]) /\ x = m[j].idx /\ f[x].key # k
        BY <2>1, <3>1, <3>3, Zenon DEF OnlyFor
      <4>2. QED
        BY <2>1, <4>1, Zenon DEF HeldIn
    <3>4. QED
      BY <3>2, <3>3, Zenon
  <2>3. ASSUME NEW x \in HeldIn(m), f[x].key # k
        PROVE  x \in HeldIn(w)
    <3>1. PICK j \in 0 .. n - 1 : InUse(m[j]) /\ x = m[j].idx
      BY <2>1, Zenon DEF HeldIn
    <3>2. j # i
      BY <2>3, <3>1, Zenon DEF OnlyFor
    <3>3. QED
      BY <2>1, <3>1, <3>2, Zenon DEF HeldIn
  <2>4. ASSUME InUse(b) PROVE b.idx \in HeldIn(w)
    BY <2>1, <2>4, Zenon DEF HeldIn
  <2>5. QED
    BY <2>2, <2>3, <2>4, Zenon
<1>KnownWithin.
    ASSUME Base
    PROVE  \A x \in 1 .. Known : x \in 1 .. Len(file)
  <2> USE <1>KnownWithin
  <2>1. Known \in 0 .. Len(file) /\ Len(file) \in Nat
    BY TableFacts, Zenon
  <2>2. QED
    BY ONLY <2>1
(* The bucket where the search for key k ends is overwritten by one that is in use for k or
   marked as deleted. *)
<1>PutTable.
    ASSUME Base, Table, NEW k \in Keys, NEW b \in Bucket, b.hash # emptyBucket,
           mem' = [mem EXCEPT ![Probe(KeyHash(k), k)] = b], size' = size, expand' = "no",
           \A x \in 1 .. Known : file'[x] = file[x],
           InUse(b) => b.hash = KeyHash(k) /\ file'[b.idx].key = k
    PROVE  /\ Table'
           /\ held' = {x \in held : file[x].key # k} \cup (IF InUse(b) THEN {b.idx} ELSE {})
  <2> USE <1>PutTable
  <2>1. PICK i : i = Probe(KeyHash(k), k)
    BY Zenon
  <2>2. PICK w, g : w = mem' /\ g = file' /\ w = [mem EXCEPT ![i] = b]
    BY <2>1, Zenon
  <2>3. size \in Nat \ {0} /\ mem \in [0 .. size - 1 -> Bucket] /\ Sound(mem, size, file)
    BY TableFacts, Zenon DEF Table
  <2>4. i \in 0 .. size - 1 /\ OnlyFor(mem, size, i, file, k)
    BY <2>1, <2>3, Probed, ZenonT(60) DEF OnlyFor
  <2>5. Overwrites(mem, size, i, b, w)
    BY <2>2, <2>3, <2>4, Zenon DEF Overwrites
  <2>6. Agree(mem, size, Known, file, g)
    BY <2>2, <2>3, TableFacts, Zenon DEF Agree
  <2>7. InUse(b) => b.hash = KeyHash(k) /\ g[b.idx].key = k
    BY <2>2, Zenon
  <2>8. Sound(w, size, g)
    BY ONLY <2>3, <2>4, <2>5, <2>6, <2>7, <1>PutSound, Zenon
  <2>9. Table'
    BY <2>2, <2>8, Zenon DEF Table, Copied
  <2>10. HeldIn(w) = {x \in HeldIn(mem) : file[x].key # k} \cup (IF InUse(b) THEN {b.idx} ELSE {})
    BY ONLY <2>4, <2>5, <1>HeldPut
  <2>11. QED
    BY <2>2, <2>9, <2>10, Zenon DEF held
(* The table stays while records are added after those it refers to, or dropped. *)
<1>SameTable.
    ASSUME Base, Table, mem' = mem, size' = size, expand' = "no",
           \A x \in 1 .. Known : file'[x] = file[x]
    PROVE  Table' /\ held' = held
  <2> USE <1>SameTable
  <2>1. Sound(mem, size, file)
    BY Zenon DEF Table
  <2>2. PICK g : g = file'
    BY Zenon
  <2>3. Agree(mem, size, Known, file, g)
    BY <2>2, TableFacts, Zenon DEF Agree
  <2>4. Sound(mem, size, g)
    BY ONLY <2>1, <2>3, <1>SameSound, Zenon
  <2>5. Table'
    BY <2>2, <2>4, Zenon DEF Table, Copied
  <2>6. QED
    BY <2>5, Zenon DEF held
(* Another table of the same records, or the same table, as expand() goes on. *)
<1>StartExpandTable.
    ASSUME Base, Table, StartExpand
    PROVE  Table' /\ held' = held
  <2> USE <1>StartExpandTable
  <2>1. /\ mem' = mem /\ size' = size /\ file' = file
        /\ expand' = "running" /\ newMem' = NewMem(2 * size) /\ scan' = 0
    BY Zenon DEF StartExpand, table, store
  <2>2. size \in Nat \ {0} /\ 2 * size \in Nat
    BY TableFacts
  <2>3. Sound(mem, size, file)
    BY Zenon DEF Table
  <2>4. \A i \in 0 .. 2 * size - 1 : NewMem(2 * size)[i].hash = emptyBucket
    BY <2>2, Zenon DEF NewMem
  <2>5. Sound(NewMem(2 * size), 2 * size, file)
    BY <2>2, EmptySound, Zenon
  <2>6. \A j \in 0 .. 0 - 1 : FALSE
    OBVIOUS
  <2>7. Sound(mem', size', file')
    BY <2>1, <2>3, Zenon
  <2>8. Sound(newMem', 2 * size', file')
    BY <2>1, <2>5, Zenon
  <2>9. Copied'
    BY <2>1, <2>4, <2>6, <2>8, Zenon DEF Copied
  <2>10. QED
    BY <2>1, <2>7, <2>9, Zenon DEF Table, held
<1>ExpandBucketTable.
    ASSUME Base, Table, ExpandBucket
    PROVE  Table' /\ held' = held
  <2> USE <1>ExpandBucketTable
  <2>1. /\ expand = "running" /\ expand' = "running" /\ scan < size /\ scan' = scan + 1
        /\ mem' = mem /\ size' = size /\ file' = file
    BY Zenon DEF ExpandBucket, table, store
  <2>2. /\ size \in Nat \ {0} /\ mem \in [0 .. size - 1 -> Bucket] /\ scan \in 0 .. size
        /\ newMem \in [0 .. 2 * size - 1 -> Bucket]
    BY <2>1, TableFacts, Zenon DEF Base, Shape, ExpandTypes
  <2>3. Sound(mem, size, file) /\ Sound(newMem, 2 * size, file)
    BY <2>1, Zenon DEF Table, Copied
  <2>4. /\ \A i \in 0 .. 2 * size - 1 : newMem[i].hash # emptyBucket =>
               \E j \in 0 .. scan - 1 : newMem[i] = mem[j] /\ InUse(mem[j])
        /\ \A j \in 0 .. scan - 1 : InUse(mem[j]) =>
               \E i \in 0 .. 2 * size - 1 : newMem[i] = mem[j]
    BY <2>1, Zenon DEF Table, Copied
  <2>5. scan \in 0 .. size - 1 /\ 0 .. scan' - 1 = 0 .. scan - 1 \cup {scan}
    BY <2>1, <2>2
  <2>6. Sound(mem', size', file') /\ held' = held
    BY <2>1, <2>3, Zenon DEF held
  <2>7. CASE ~InUse(mem[scan])
    <3>1. newMem' = newMem
      BY <2>7, Zenon DEF ExpandBucket, InUse
    <3>2. Copied'
      BY <2>1, <2>3, <2>4, <2>5, <2>7, <3>1, Zenon DEF Copied
    <3>3. QED
      BY <2>6, <3>2, Zenon DEF Table
  <2>8. CASE InUse(mem[scan])
    <3>1. PICK h, b, N : h = mem[scan].hash /\ b = mem[scan] /\ N = 2 * size
      BY Zenon
    <3>2. PICK i, w : i = Slot(h, NewProbeLen(h), N) /\ w = newMem'
      BY Zenon
    <3>3. b \in Bucket /\ h \in Nat /\ b.hash # emptyBucket /\ N \in Nat \ {0} /\ InUse(b)
      BY <2>2, <2>5, <2>8, <3>1, InUseFacts, SMTT(30)
    <3>4. w = [newMem EXCEPT ![i] = b]
      BY <2>8, <3>1, <3>2, Zenon DEF ExpandBucket, InUse
    <3>5. /\ NewProbeLen(h) \in 0 .. N - 1 /\ i \in 0 .. N - 1 /\ newMem[i].hash = emptyBucket
          /\ \A e \in 0 .. NewProbeLen(h) - 1 : newMem[Slot(h, e, N)].hash # emptyBucket
      <4>1. \E j \in 0 .. 2 * size - 1 : newMem[j].hash = emptyBucket
        BY <2>1, NewEmptyBucketLeft, Zenon DEF Base, Shape
      <4>2. /\ NewProbeLen(h) \in 0 .. 2 * size - 1
            /\ newMem[Slot(h, NewProbeLen(h), 2 * size)].hash = emptyBucket
            /\ \A e \in 0 .. NewProbeLen(h) - 1 : newMem[Slot(h, e, 2 * size)].hash # emptyBucket
            /\ Slot(h, NewProbeLen(h), 2 * size) \in 0 .. 2 * size - 1
        BY <2>2, <3>3, <4>1, NewProbeFacts, Zenon
      <4>3. QED
        BY <3>1, <3>2, <4>2, Zenon
    <3>6. PICK k : k = file[b.idx].key
      BY ZenonT(40)
    <3>7. h = KeyHash(k)
      BY <2>3, <2>5, <2>8, <3>1, <3>6, Zenon DEF Sound
    <3>8. Overwrites(newMem, N, i, b, w)
      BY <2>2, <3>1, <3>3, <3>4, <3>5, Zenon DEF Overwrites
    <3>9. OnlyFor(newMem, N, i, file, k)
      <4>1. Reaches(newMem, N, KeyHash(k), i)
        BY <3>2, <3>5, <3>7, Zenon DEF Reaches
      <4>2. ASSUME NEW j \in 0 .. N - 1, InUse(newMem[j]), file[newMem[j].idx].key = k PROVE FALSE
        <5>1. newMem[j].hash # emptyBucket
          BY <2>2, <3>1, <3>3, <4>2, InUseFacts, Zenon
        <5>2. PICK l \in 0 .. scan - 1 : newMem[j] = mem[l] /\ InUse(mem[l])
          BY <2>4, <3>1, <5>1, Zenon
        <5>3. l \in 0 .. size - 1 /\ l # scan
          BY <2>2, SMTT(30)
        <5>4. QED
          BY <2>3, <2>5, <2>8, <3>1, <3>6, <4>2, <5>2, <5>3, Zenon DEF Sound
      <4>3. ~InUse(newMem[i])
        BY <3>5 DEF InUse, emptyBucket, deletedBucket
      <4>4. QED
        BY <4>1, <4>2, <4>3, Zenon DEF OnlyFor
    <3>10. \E K : Agree(newMem, N, K, file, file)
      <4>1. newMem \in [0 .. N - 1 -> Bucket] /\ Indexed(newMem) /\ DOMAIN newMem = 0 .. N - 1
        BY <2>1, <2>2, <3>1, Zenon DEF Base, Shape, Expanding
      <4>2. Agree(newMem, N, Known, file, file)
        BY <3>3, <4>1, Zenon DEF Agree, Indexed
      <4>3. QED
        BY <4>2, Zenon
    <3>11. Sound(w, N, file)
      <4>1. Sound(newMem, N, file) /\ (InUse(b) => b.hash = KeyHash(k) /\ file[b.idx].key = k)
        BY <2>3, <3>1, <3>6, <3>7, Zenon
      <4>2. QED
        BY ONLY <3>8, <3>9, <3>10, <4>1, <1>PutSound, Zenon
    <3>12. \A j \in 0 .. N - 1 : w[j] = IF j = i THEN b ELSE newMem[j]
      BY <2>2, <3>1, <3>4, Zenon
    <3>13. Copied'
      <4>1. ASSUME NEW j \in 0 .. N - 1, w[j].hash # emptyBucket
            PROVE  \E l \in 0 .. scan' - 1 : w[j] = mem[l] /\ InUse(mem[l])
        BY <2>4, <2>5, <2>8, <3>1, <3>12, <4>1, SMTT(30)
      <4>2. ASSUME NEW l \in 0 .. scan' - 1, InUse(mem[l])
            PROVE  \E j \in 0 .. N - 1 : w[j] = mem[l]
        <5>1. CASE l = scan
          BY <3>1, <3>5, <3>12, <5>1, Zenon
        <5>2. CASE l \in 0 .. scan - 1
          <6>1. PICK j \in 0 .. N - 1 : newMem[j] = mem[l]
            BY <2>4, <3>1, <4>2, <5>2, Zenon
          <6>2. j # i
            BY <3>5, <4>2, <6>1 DEF InUse, emptyBucket, deletedBucket
          <6>3. QED
            BY <3>12, <6>1, <6>2, Zenon
        <5>3. QED
          BY <2>5, <4>2, <5>1, <5>2, Zenon
      <4>3. QED
        BY <2>1, <3>1, <3>2, <3>11, <4>1, <4>2, Zenon DEF Copied
    <3>14. QED
      BY <2>6, <3>13, Zenon DEF Table
  <2>9. QED
    BY <2>7, <2>8, Zenon
<1>EndExpandTable.
    ASSUME Base, Table, EndExpand
    PROVE  Table' /\ held' = held
  <2> USE <1>EndExpandTable
  <2>1. /\ expand = "running" /\ expand' = "done" /\ scan = size
        /\ mem' = newMem /\ size' = 2 * size /\ file' = file
    BY Zenon DEF EndExpand, store
  <2>2. /\ DOMAIN mem = 0 .. size - 1 /\ newMem \in [0 .. 2 * size - 1 -> Bucket]
        /\ DOMAIN newMem = 0 .. 2 * size - 1 /\ 2 * size \in Nat
    BY <2>1, TableFacts DEF Base, Shape, ExpandTypes
  <2>3. /\ Sound(newMem, 2 * size, file)
        /\ \A i \in 0 .. 2 * size - 1 : newMem[i].hash # emptyBucket =>
               \E j \in 0 .. size - 1 : newMem[i] = mem[j] /\ InUse(mem[j])
        /\ \A j \in 0 .. size - 1 : InUse(mem[j]) =>
               \E i \in 0 .. 2 * size - 1 : newMem[i] = mem[j]
    BY <2>1, Zenon DEF Table, Copied
  <2>4. \A i \in 0 .. 2 * size - 1 : InUse(newMem[i]) => newMem[i].hash # emptyBucket
    BY <2>2, InUseFacts, Zenon
  <2>5. HeldIn(newMem) = HeldIn(mem)
    <3>1. ASSUME NEW x \in HeldIn(newMem) PROVE x \in HeldIn(mem)
      <4>1. PICK i \in 0 .. 2 * size - 1 : InUse(newMem[i]) /\ x = newMem[i].idx
        BY <2>2, Zenon DEF HeldIn
      <4>2. PICK j \in 0 .. size - 1 : newMem[i] = mem[j] /\ InUse(mem[j])
        BY <2>3, <2>4, <4>1, Zenon
      <4>3. QED
        BY <2>2, <4>1, <4>2, Zenon DEF HeldIn
    <3>2. ASSUME NEW x \in HeldIn(mem) PROVE x \in HeldIn(newMem)
      <4>1. PICK j \in 0 .. size - 1 : InUse(mem[j]) /\ x = mem[j].idx
        BY <2>2, Zenon DEF HeldIn
      <4>2. PICK i \in 0 .. 2 * size - 1 : newMem[i] = mem[j]
        BY <2>3, <4>1, Zenon
      <4>3. QED
        BY <2>2, <4>1, <4>2, Zenon DEF HeldIn
    <3>3. QED
      BY <3>1, <3>2, Zenon
  <2>6. Sound(mem', size', file')
    BY <2>1, <2>3, Zenon
  <2>7. Copied'
    BY <2>1, Zenon DEF Copied
  <2>8. QED
    BY <2>1, <2>5, <2>6, <2>7, Zenon DEF Table, held
(* Nothing happens to the tables, the records they refer to stay. *)
<1>IdleTable.
    ASSUME Base, Table, UNCHANGED <<table, expansion>>, \A x \in 1 .. Known : file'[x] = file[x]
    PROVE  Table' /\ held' = held
  <2> USE <1>IdleTable
  <2>1. UNCHANGED <<mem, size, newMem, scan, expand>>
    BY Zenon DEF table, expansion
  <2>2. Sound(mem, size, file)
    BY Zenon DEF Table
  <2>3. PICK g : g = file'
    BY Zenon
  <2>4. Agree(mem, size, Known, file, g)
    BY <2>3, TableFacts, Zenon DEF Agree
  <2>5. Sound(mem, size, g)
    BY ONLY <2>2, <2>4, <1>SameSound
  <2>6. ASSUME expand = "running" PROVE Sound(newMem, 2 * size, g)
    <3>1. /\ newMem \in [0 .. 2 * size - 1 -> Bucket] /\ Indexed(newMem)
          /\ DOMAIN newMem = 0 .. 2 * size - 1 /\ 2 * size \in Nat \ {0}
      BY <2>6, TableFacts DEF Base, Shape, ExpandTypes, Expanding
    <3>2. Agree(newMem, 2 * size, Known, file, g)
      BY <2>3, <3>1, Zenon DEF Agree, Indexed
    <3>3. Sound(newMem, 2 * size, file)
      BY <2>6, Zenon DEF Table, Copied
    <3>4. QED
      BY ONLY <3>2, <3>3, <1>SameSound, ZenonT(40)
  <2>7. Copied'
    BY <2>1, <2>3, <2>6, Zenon DEF Copied, Table
  <2>8. QED
    BY <2>1, <2>3, <2>5, <2>7, Zenon DEF Table, held
<1>WroteEffect.
    ASSUME Base, Table, NEW k \in Keys, NEW v \in Values, NEW t \in Times, WriteFrame,
           Wrote(k, v, t)
    PROVE  /\ Table' /\ put(PairRecord(k, v, t))
           /\ held' = Without(k) \cup {Len(file) + 1}
           /\ numStoredKeys' <= numStoredKeys + 1 /\ SumsWrite(k, t)
  <2> USE <1>WroteEffect
  <2>1. PICK i, r : i = Probe(KeyHash(k), k) /\ r = PairRecord(k, v, t)
    BY Zenon
  <2>2. /\ file \in Seq(Record) /\ r \in Record /\ r.key = k /\ r.ts = t /\ Len(file) \in Nat
        /\ KeyHash(k) \in Nat /\ KeyHash(k) > deletedBucket /\ KeyHash(k) # emptyBucket
        /\ numStoredKeys \in Nat
    BY <2>1, KeyHashFacts DEF PairRecord, Record, Base, Outer, StoreTypes, Shape, TableTypes
  <2>3. PICK b : b = [hash |-> KeyHash(k), idx |-> Len(file) + 1]
    BY Zenon
  <2>4. b \in Bucket /\ b.hash # emptyBucket /\ InUse(b) /\ b.idx = Len(file) + 1 /\ b.hash = KeyHash(k)
    BY <2>2, <2>3 DEF Bucket, InUse
  <2>5. put(r) /\ mem' = [mem EXCEPT ![i] = b]
    BY <2>1, <2>3, Zenon DEF Wrote, Insert, Replace
  <2>6. size' = size /\ expand' = "no"
    BY Zenon DEF WriteFrame
  <2>7. /\ \A x \in 1 .. Len(file) : file'[x] = file[x]
        /\ file'[Len(file) + 1] = r
    <3>1. PICK g : g = file'
      BY Zenon
    <3>2. Appended(file, r, g)
      BY <2>2, <2>5, <3>1, Zenon DEF put, Appended
    <3>3. (\A x \in 1 .. Len(file) : g[x] = file[x]) /\ g[Len(file) + 1] = r
      BY ONLY <3>2, AppendFacts, Zenon
    <3>4. QED
      BY <3>1, <3>3, Zenon
  <2>8. \A x \in 1 .. Known : file'[x] = file[x]
    BY <2>7, <1>KnownWithin, Zenon
  <2>9. InUse(b) => b.hash = KeyHash(k) /\ file'[b.idx].key = k
    BY <2>2, <2>4, <2>7, Zenon
  <2>10. Table' /\ held' = {x \in held : file[x].key # k} \cup (IF InUse(b) THEN {b.idx} ELSE {})
    BY <2>1, <2>4, <2>5, <2>6, <2>8, <2>9, <1>PutTable, Zenon
  <2>11. held' = Without(k) \cup {Len(file) + 1}
    BY <2>4, <2>10, Zenon DEF Without
  <2>12. numStoredKeys' <= numStoredKeys + 1
    <3>1. numStoredKeys' = numStoredKeys \/ numStoredKeys' = numStoredKeys + 1
      BY Zenon DEF Wrote, Insert, Replace
    <3>2. QED
      BY <2>2, <3>1
  <2>13. SumsWrite(k, t)
    <3>1. CASE mem[i].hash = emptyBucket
      <4>1. checksum' = SumTerm(checksum, <<k, t>>, t)
        BY <2>1, <2>2, <3>1, Zenon DEF Wrote, Insert
      <4>2. QED
        BY <2>1, <3>1, <4>1, HeldOf, Zenon DEF SumsWrite
    <3>2. CASE mem[i].hash # emptyBucket
      <4>1. checksum' = SumTerm(SubTerm(checksum, <<k, file[mem[i].idx].ts>>, t), <<k, t>>, t)
        BY <2>1, <2>2, <3>2, Zenon DEF Wrote, Replace
      <4>2. QED
        BY <2>1, <3>2, <4>1, HeldOf, Zenon DEF SumsWrite
    <3>3. QED
      BY <3>1, <3>2, Zenon
  <2>14. QED
    BY <2>1, <2>5, <2>10, <2>11, <2>12, <2>13, Zenon
(* A call in the open phase that leaves the records and the table alone. *)
<1>QuietCall.
    ASSUME Base, Table, phase = "open", UNCHANGED <<phase, file, length, deleted, pos, mem, size>>,
           numStoredKeys' = numStoredKeys, expand' = "no",
           ret'.err \/ checksum'.newChecksum = checksum.newChecksum,
           ret' = ret \/ Truthful(ret')
    PROVE  Table' /\ Quiet
  <2> USE <1>QuietCall
  <2>1. \A x \in 1 .. Known : file'[x] = file[x]
    BY Zenon
  <2>2. Table' /\ held' = held
    BY <2>1, <1>SameTable, Zenon
  <2>3. numStoredKeys' <= numStoredKeys
    BY DEF Base, Shape, TableTypes
  <2>4. QED
    BY <2>2, <2>3, Zenon DEF Quiet
<1>SetEffect.
    ASSUME Base, Table, NEW k \in Keys, NEW v \in Values, NEW t \in Times, Set(k, v, t)
    PROVE  Table' /\ (Quiet \/ Writes(k, v, t))
  <2> USE <1>SetEffect
  <2>1. PICK i, r : i = Probe(KeyHash(k), k) /\ r = PairRecord(k, v, t)
    BY Zenon
  <2>2. WriteFrame
    BY SetShape, Zenon
  <2>3. CASE Untouched
    <3>1. ret' = [op |-> "Set", err |-> FALSE] \/ ret' = [op |-> "Set", err |-> TRUE]
      BY Zenon DEF Set, Returns, Fails
    <3>2. Truthful(ret')
      BY ONLY <3>1 DEF Truthful
    <3>3. QED
      BY <2>2, <2>3, <3>2, <1>QuietCall, Zenon DEF Untouched, WriteFrame, store
  <2>4. CASE ~Untouched
    <3>1. /\ ~Full(r) /\ ret' = [op |-> "Set", err |-> FALSE]
          /\ mem[i].hash # emptyBucket => file[mem[i].idx].ts < t
      BY <2>1, <2>4, Zenon DEF Set, Returns
    <3>2. Wrote(k, v, t)
      BY <2>4, SetShape, Zenon
    <3>3. \A x \in held : file[x].key = k => file[x].ts < t
      <4>1. CASE mem[i].hash = emptyBucket
        BY <2>1, <4>1, HeldOf, Zenon
      <4>2. CASE mem[i].hash # emptyBucket
        <5>1. ASSUME NEW x \in held, file[x].key = k PROVE x = mem[i].idx
          <6>1. PICK j \in 0 .. size - 1 : InUse(mem[j]) /\ x = mem[j].idx
            BY <5>1, TableFacts, Zenon DEF held, HeldIn
          <6>2. j = i
            BY <2>1, <5>1, <6>1, ProbeFinds, Zenon DEF Table
          <6>3. QED
            BY <6>1, <6>2, Zenon
        <5>2. QED
          BY <3>1, <4>2, <5>1, Zenon
      <4>3. QED
        BY <4>1, <4>2, Zenon
    <3>4. QED
      BY <2>1, <2>2, <3>1, <3>2, <3>3, <1>WroteEffect, Zenon DEF Writes, WriteFrame
  <2>5. QED
    BY <2>3, <2>4, Zenon
<1>CASEffect.
    ASSUME Base, Table, NEW k \in Keys, NEW pt, NEW hv, NEW v \in Values, NEW t \in Times,
           CAS(k, pt, hv, v, t)
    PROVE  Table' /\ (Quiet \/ Writes(k, v, t))
  <2> USE <1>CASEffect
  <2>1. WriteFrame
    BY CASShape, Zenon
  <2>2. CASE Full(PairRecord(k, v, t))
    <3>1. UNCHANGED <<store, mem, numStoredKeys>> /\ ret' = [op |-> CASOp(k, pt, hv), err |-> TRUE]
      BY <2>2, Zenon DEF CAS, Untouched, Fails
    <3>2. ret'.err /\ Truthful(ret')
      BY <3>1, Zenon DEF Truthful
    <3>3. QED
      BY <2>1, <3>1, <3>2, <1>QuietCall, Zenon DEF WriteFrame, store
  <2>3. CASE ~Full(PairRecord(k, v, t))
    <3>1. /\ Wrote(k, v, t) /\ CASTests(k, pt, hv)
          /\ ret' = [op |-> CASOp(k, pt, hv), err |-> FALSE]
      BY <2>3, Zenon DEF CAS, Wrote, Returns
    <3>2. QED
      BY <2>1, <2>3, <3>1, <1>WroteEffect, Zenon DEF Writes, WriteFrame
  <2>4. QED
    BY <2>2, <2>3, Zenon
<1>RefusalEffect.
    ASSUME Base, Table, TableFull \/ \E k, pt, hv : CASMismatch(k, pt, hv)
    PROVE  Table' /\ Quiet
  <2> USE <1>RefusalEffect
  <2>1. CASE \E k, pt, hv : CASMismatch(k, pt, hv)
    <3>1. /\ phase = "open" /\ expand' = "no" /\ UNCHANGED <<phase, store, deleted, table, pos>>
          /\ \E op : ret' = [op |-> op, err |-> TRUE]
      BY <2>1, Zenon DEF CASMismatch, Fails
    <3>2. ret'.err /\ Truthful(ret')
      <4>1. PICK op : ret' = [op |-> op, err |-> TRUE]
        BY <3>1, Zenon
      <4>2. QED
        BY <4>1, Zenon DEF Truthful
    <3>3. QED
      BY <3>1, <3>2, <1>QuietCall, Zenon DEF store, table
  <2>2. CASE TableFull
    <3>1. /\ phase = "open" /\ expand' = "no" /\ UNCHANGED <<phase, store, deleted, table, pos>>
          /\ (ret' = [op |-> "CAS", err |-> TRUE] \/ ret' = [op |-> "Set", err |-> TRUE])
      BY <2>2, Zenon DEF TableFull, Fails, SpaceRefused, expansion
    <3>2. ret'.err /\ Truthful(ret')
      BY ONLY <3>1 DEF Truthful
    <3>3. QED
      BY <3>1, <3>2, <1>QuietCall, Zenon DEF store, table
  <2>3. QED
    BY <2>1, <2>2, Zenon
<1>ChecksumEffect.
    ASSUME Base, Table, NEW now \in Times, Checksum(now)
    PROVE  Table' /\ Quiet
  <2> USE <1>ChecksumEffect
  <2>1. /\ phase = "open" /\ expand' = "no" /\ UNCHANGED <<phase, store, deleted, table, pos>>
        /\ checksum' = MoveForward(checksum, now) /\ ret' = ret
    BY Zenon DEF Checksum, expansion
  <2>2. checksum \in Sums /\ now \in Nat
    BY TimeAssumption, Zenon DEF Base, Outer
  <2>3. checksum'.newChecksum = checksum.newChecksum
    BY <2>1, <2>2, MoveFacts, Zenon
  <2>4. QED
    BY <2>1, <2>3, <1>QuietCall, Zenon DEF store, table
<1>DelEffect.
    ASSUME Base, Table, NEW k \in Keys, NEW t \in Times, Del(k, t)
    PROVE  Table' /\ (Quiet \/ Deletes(k, t))
  <2> USE <1>DelEffect
  <2>1. PICK i, r : i = Probe(KeyHash(k), k) /\ r = Tombstone(k)
    BY Zenon
  <2>2. /\ phase = "open" /\ expand' = "no" /\ phase' = phase /\ size' = size
        /\ numStoredKeys' = numStoredKeys /\ pos' = pos
    BY DelShape, Zenon
  <2>3. CASE UNCHANGED <<store, deleted, mem, checksum>>
    <3>1. ret' = [op |-> "Del", err |-> FALSE] \/ ret' = [op |-> "Del", err |-> TRUE]
      BY Zenon DEF Del, Returns, Fails
    <3>2. Truthful(ret')
      BY ONLY <3>1 DEF Truthful
    <3>3. QED
      BY <2>2, <2>3, <3>2, <1>QuietCall, Zenon DEF store
  <2>4. CASE ~UNCHANGED <<store, deleted, mem, checksum>>
    <3>1. /\ mem[i].hash # emptyBucket /\ t >= file[mem[i].idx].ts
          /\ deleted' = deleted + RecordLen(file[mem[i].idx])
          /\ checksum' = SubTerm(checksum, <<k, file[mem[i].idx].ts>>, t)
          /\ mem' = [mem EXCEPT ![i].hash = deletedBucket]
          /\ \/ UNCHANGED store /\ ret' = [op |-> "Del", err |-> TRUE]
             \/ ~Full(r) /\ put(r) /\ ret' = [op |-> "Del", err |-> FALSE]
      BY <2>1, <2>4, Zenon DEF Del, Fails, Returns
    <3>2. PICK b : b = [hash |-> deletedBucket, idx |-> mem[i].idx]
      BY ZenonT(40)
    <3>3. i \in 0 .. size - 1 /\ mem[i] \in Bucket /\ TableTypes
      <4>1. TableTypes
        BY Zenon DEF Base, Shape
      <4>2. i \in 0 .. size - 1
        BY <2>1, Found, ZenonT(60)
      <4>3. QED
        BY <4>1, <4>2, Zenon DEF TableTypes
    <3>4. b \in Bucket /\ b.hash # emptyBucket /\ ~InUse(b)
      BY <3>2, <3>3 DEF Bucket, InUse, emptyBucket, deletedBucket
    <3>5. mem' = [mem EXCEPT ![i] = b]
      BY <3>1, <3>2, <3>3, MarkBucket, Zenon
    <3>6. \A x \in 1 .. Known : file'[x] = file[x]
      <4>1. file \in Seq(Record) /\ r \in Record
        BY <2>1, ValuesAssumption, Zenon DEF Tombstone, Record, Base, Outer, StoreTypes
      <4>2. CASE UNCHANGED store
        BY <4>2, Zenon DEF store
      <4>3. CASE put(r)
        <5>1. PICK g : g = file'
          BY Zenon
        <5>2. Appended(file, r, g)
          BY <4>1, <4>3, <5>1, Zenon DEF put, Appended
        <5>3. \A x \in 1 .. Len(file) : g[x] = file[x]
          BY ONLY <5>2, AppendFacts, Zenon
        <5>4. QED
          BY <5>1, <5>3, <1>KnownWithin, Zenon
      <4>4. QED
        BY <3>1, <4>2, <4>3, Zenon
    <3>7. Table' /\ held' = {x \in held : file[x].key # k} \cup (IF InUse(b) THEN {b.idx} ELSE {})
      BY <2>1, <2>2, <3>4, <3>5, <3>6, <1>PutTable, Zenon
    <3>8. held' = Without(k)
      BY <3>4, <3>7, Zenon DEF Without
    <3>9. mem[i].idx \in held /\ file[mem[i].idx].key = k
      BY <2>1, <3>1, HeldOf, Zenon
    <3>10. QED
      BY <2>1, <2>2, <3>1, <3>7, <3>8, <3>9, Zenon DEF Deletes
  <2>5. QED
    BY <2>3, <2>4, Zenon
<1>ExpansionEffect.
    ASSUME Base, Table, StartExpand \/ ExpandBucket \/ EndExpand
    PROVE  Table' /\ Quiet
  <2> USE <1>ExpansionEffect
  <2>1. Table' /\ held' = held
    BY <1>StartExpandTable, <1>ExpandBucketTable, <1>EndExpandTable, Zenon
  <2>2. UNCHANGED <<phase, file, length, deleted, pos>> /\ checksum' = checksum
    BY Zenon DEF StartExpand, ExpandBucket, EndExpand, store
  <2>3. numStoredKeys' <= numStoredKeys
    <3>1. numStoredKeys \in Nat
      BY Zenon DEF Base, Shape, TableTypes
    <3>2. CASE StartExpand \/ ExpandBucket
      BY <3>1, <3>2 DEF StartExpand, ExpandBucket, table
    <3>3. CASE EndExpand
      <4>1. expand = "running" /\ numStoredKeys' = newStored
        BY <3>3, Zenon DEF EndExpand
      <4>2. Cardinality(Scanned(mem, scan)) <= numStoredKeys /\ scan \in Nat /\ newStored \in Nat
            /\ newStored <= Cardinality(Scanned(mem, scan))
        BY <4>1, NewEmptyBucketLeft, SMTT(30) DEF Base, Shape, Expanding, ExpandTypes, TableTypes
      <4>3. Cardinality(Scanned(mem, scan)) \in Nat
        BY <4>2, ScanStep, Zenon
      <4>4. QED
        BY <3>1, <4>1, <4>2, <4>3, SMTT(30)
    <3>4. QED
      BY <3>2, <3>3, Zenon
  <2>4. (phase # "open" => ret' = ret) /\ (ret' = ret \/ Truthful(ret'))
    <3>1. phase # "open" => ret = None
      BY Zenon DEF Base, Outer, Phases
    <3>2. ret' = ret \/ ret' = None
      BY Zenon DEF StartExpand, ExpandBucket, EndExpand
    <3>3. Truthful(None)
      BY DEF Truthful, None
    <3>4. QED
      BY <3>1, <3>2, <3>3, Zenon
  <2>5. QED
    BY <2>1, <2>2, <2>3, <2>4, Zenon DEF Quiet
<1>DownEffect.
    ASSUME Down
    PROVE  Table' /\ held' = {}
  <2> USE <1>DownEffect
  <2>1. mem' = NewMem(InitSize) /\ size' = InitSize /\ expand' = "no"
    BY Zenon DEF Down
  <2>2. InitSize \in Nat
    BY SizeAssumption, Zenon
  <2>3. PICK g : g = file'
    BY Zenon
  <2>4. Sound(NewMem(InitSize), InitSize, g) /\ HeldIn(NewMem(InitSize)) = {}
    BY <2>2, EmptySound, Zenon
  <2>5. Copied'
    BY <2>1, Zenon DEF Copied
  <2>6. QED
    BY <2>1, <2>3, <2>4, <2>5, Zenon DEF Table, held
<1>OpenEffect.
    ASSUME Base, Table, Open \/ EndOpen
    PROVE  Table' /\ held' = held
  <2> USE <1>OpenEffect
  <2>1. UNCHANGED <<table, expansion>>
    BY Zenon DEF Open, EndOpen
  <2>2. \A x \in 1 .. Known : file'[x] = file[x]
    <3>1. CASE Open
      BY <3>1, Zenon DEF Open, store
    <3>2. CASE EndOpen
      <4>1. file' = SubSeq(file, 1, pos - 1) /\ phase = "restoring"
        BY <3>2, Zenon DEF EndOpen
      <4>2. Known = pos - 1 /\ file \in Seq(Record) /\ pos - 1 \in 0 .. Len(file)
        BY <4>1, TableFacts, Zenon DEF Known, Base, Outer, StoreTypes
      <4>3. QED
        BY <4>1, <4>2
    <3>3. QED
      BY <3>1, <3>2, Zenon
  <2>3. QED
    BY <2>1, <2>2, <1>IdleTable, Zenon
<1>RestoreEffect.
    ASSUME Base, Table, RestorePair
    PROVE  Table' /\ Restores(file[pos])
  <2> USE <1>RestoreEffect
  <2>1. PICK r, k : r = file[pos] /\ k = r.key
    BY Zenon
  <2>2. PICK i : i = Probe(KeyHash(k), k)
    BY Zenon
  <2>3. /\ phase = "restoring" /\ pos \in 1 .. Len(file) /\ Len(file) \in Nat
        /\ k \in Keys /\ UNCHANGED <<phase, file, size, ret>>
        /\ pos' = pos + 1 /\ expand' = "no"
    BY <2>1, RestoreFacts, Zenon
  <2>4. length' = length + RecordLen(r)
    BY <2>1, Zenon DEF RestorePair
  <2>5. \A x \in 1 .. Known : file'[x] = file[x]
    BY <2>3, Zenon
  <2>6. numStoredKeys' <= numStoredKeys + 1
    <3>1. numStoredKeys' = numStoredKeys \/ numStoredKeys' = numStoredKeys + 1
      BY Zenon DEF RestorePair
    <3>2. QED
      BY <3>1 DEF Base, Shape, TableTypes
  <2>7. CASE SpaceRefused
    <3>1. UNCHANGED <<mem, checksum>> /\ deleted' = deleted + OwnGarbage(r)
      BY <2>1, <2>7, Zenon DEF RestorePair, SpaceRefused, SpaceChecked, OwnGarbage
    <3>2. Table' /\ held' = held
      BY <2>3, <2>5, <3>1, <1>SameTable, Zenon
    <3>3. QED
      BY <2>1, <2>3, <2>4, <2>6, <2>7, <3>1, <3>2, Zenon DEF Restores
  <2>8. ASSUME NEW b, b \in Bucket, b.hash # emptyBucket, mem' = [mem EXCEPT ![i] = b],
               InUse(b) => b.hash = KeyHash(k) /\ b.idx = pos
        PROVE  Table' /\ held' = Without(k) \cup (IF InUse(b) THEN {b.idx} ELSE {})
    <3>1. InUse(b) => b.hash = KeyHash(k) /\ file'[b.idx].key = k
      BY <2>1, <2>3, <2>8, Zenon
    <3>2. QED
      BY <2>2, <2>3, <2>5, <2>8, <3>1, <1>PutTable, Zenon DEF Without
  <2>9. PICK b, c : b = [hash |-> KeyHash(k), idx |-> pos]
                    /\ c = [hash |-> deletedBucket, idx |-> mem[i].idx]
    BY Zenon
  <2>10. /\ b \in Bucket /\ b.hash # emptyBucket /\ InUse(b) /\ b.hash = KeyHash(k) /\ b.idx = pos
    BY <2>3, <2>9, KeyHashFacts, SMTT(30) DEF Bucket, InUse
  <2>11. c \in Bucket /\ c.hash # emptyBucket /\ ~InUse(c)
    <3>1. mem[i] \in Bucket
      BY <2>2, <2>3, Found, Zenon
    <3>2. QED
      BY <2>9, <3>1 DEF Bucket, InUse, emptyBucket, deletedBucket
  <2>12. CASE SpaceChecked /\ mem[i].hash = emptyBucket
    <3>1. /\ mem' = [mem EXCEPT ![i] = b] /\ checksum' = SumTerm(checksum, <<k, r.ts>>, r.ts)
          /\ deleted' = deleted + OwnGarbage(r)
      BY <2>1, <2>2, <2>9, <2>12, Zenon DEF RestorePair, SpaceRefused, SpaceChecked, OwnGarbage
    <3>2. Table' /\ held' = Without(k) \cup {pos}
      BY <2>8, <2>10, <3>1, Zenon
    <3>3. \A x \in held : file[x].key # k
      BY <2>2, <2>3, <2>12, HeldOf, Zenon
    <3>4. QED
      BY <2>1, <2>3, <2>4, <2>6, <3>1, <3>2, <3>3, Zenon DEF Restores
  <2>13. CASE SpaceChecked /\ mem[i].hash # emptyBucket
    <3>1. PICK x : x = mem[i].idx /\ x \in held /\ file[x].key = k
      BY <2>2, <2>3, <2>13, HeldOf, Zenon
    <3>2. deleted' = deleted + OwnGarbage(r) + RecordLen(file[x])
      BY <2>1, <2>2, <2>13, <3>1, Zenon DEF RestorePair, SpaceRefused, SpaceChecked, OwnGarbage
    <3>3. CASE r.live
      <4>1. /\ mem' = [mem EXCEPT ![i] = b]
            /\ checksum' = SumTerm(SubTerm(checksum, <<k, file[x].ts>>, r.ts), <<k, r.ts>>, r.ts)
        BY <2>1, <2>2, <2>9, <2>13, <3>1, <3>3, Zenon DEF RestorePair, SpaceRefused, SpaceChecked
      <4>2. Table' /\ held' = Without(k) \cup {pos}
        BY <2>8, <2>10, <4>1, Zenon
      <4>3. QED
        BY <2>1, <2>3, <2>4, <2>6, <3>1, <3>2, <3>3, <4>1, <4>2, Zenon DEF Restores
    <3>4. CASE ~r.live
      <4>1. /\ mem' = [mem EXCEPT ![i].hash = deletedBucket]
            /\ checksum' = SubTerm(checksum, <<k, file[x].ts>>, r.ts)
        BY <2>1, <2>2, <2>13, <3>1, <3>4, Zenon DEF RestorePair, SpaceRefused, SpaceChecked
      <4>2. mem' = [mem EXCEPT ![i] = c]
        <5>1. i \in 0 .. size - 1 /\ TableTypes
          BY <2>2, <2>3, Found, Zenon DEF Base, Shape
        <5>2. QED
          BY <2>9, <4>1, <5>1, MarkBucket, Zenon
      <4>3. Table' /\ held' = Without(k)
        BY <2>8, <2>11, <4>2, Zenon
      <4>4. QED
        BY <2>1, <2>3, <2>4, <2>6, <3>1, <3>2, <3>4, <4>1, <4>3, Zenon DEF Restores
    <3>5. QED
      BY <3>3, <3>4, Zenon
  <2>14. SpaceRefused \/ SpaceChecked
    BY Zenon DEF RestorePair
  <2>15. QED
    BY <2>7, <2>12, <2>13, <2>14, Zenon
<1>StutterEffect.
    ASSUME Base, Table, UNCHANGED vars
    PROVE  Table' /\ Quiet
  <2> USE <1>StutterEffect
  <2>1. /\ UNCHANGED <<phase, file, length, deleted, pos, table, expansion>> /\ checksum' = checksum
        /\ ret' = ret /\ numStoredKeys' = numStoredKeys
    BY Zenon DEF vars, store, table
  <2>2. Table' /\ held' = held
    BY <2>1, <1>IdleTable, Zenon
  <2>3. numStoredKeys' <= numStoredKeys
    BY <2>1 DEF Base, Shape, TableTypes
  <2>4. QED
    BY <2>1, <2>2, <2>3, Zenon DEF Quiet
<1> SUFFICES ASSUME Base, Table, [Next]_vars
             PROVE  Table' /\ Effect
  BY Zenon
<1>1. CASE UNCHANGED vars
  BY <1>1, <1>StutterEffect, Zenon DEF Effect
<1>2. CASE StartExpand \/ ExpandBucket \/ EndExpand
  BY <1>2, <1>ExpansionEffect, Zenon DEF Effect
<1>3. CASE TableFull
  BY <1>3, <1>RefusalEffect, Zenon DEF Effect
<1>4. CASE \E k \in Keys, v \in Values, t \in Times : Set(k, v, t)
  BY <1>4, <1>SetEffect, Zenon DEF Effect
<1>5. CASE \E k \in Keys, pt \in Times \cup {0}, w \in Values : CASMismatch(k, pt, ValHash[w])
  BY <1>5, <1>RefusalEffect, Zenon DEF Effect
<1>6. CASE \E k \in Keys, pt \in Times \cup {0}, w \in Values : \E v \in Values, t \in Times :
              CAS(k, pt, ValHash[w], v, t)
  BY <1>6, <1>CASEffect, Zenon DEF Effect
<1>7. CASE \E k \in Keys, t \in Times : Del(k, t)
  BY <1>7, <1>DelEffect, Zenon DEF Effect
<1>8. CASE \E now \in Times : Checksum(now)
  BY <1>8, <1>ChecksumEffect, Zenon DEF Effect
<1>9. CASE Close \/ Crash
  BY <1>9, <1>DownEffect, Zenon DEF Effect, Close, Crash
<1>10. CASE Open \/ EndOpen
  BY <1>10, <1>OpenEffect, Zenon DEF Effect
<1>11. CASE RestorePair
  BY <1>11, <1>RestoreEffect, Zenon DEF Effect
<1>12. QED
  BY <1>1, <1>2, <1>3, <1>4, <1>5, <1>6, <1>7, <1>8, <1>9, <1>10, <1>11, Zenon DEF Next

LEMMA InitTable == ASSUME Init PROVE Table
<1>1. mem = NewMem(InitSize) /\ size = InitSize /\ expand = "no" /\ InitSize \in Nat
  BY SizeAssumption, Zenon DEF Init
<1>2. Sound(NewMem(InitSize), InitSize, file)
  BY <1>1, EmptySound, Zenon
<1>3. Copied
  BY <1>1, Zenon DEF Copied
<1>4. QED
  BY <1>1, <1>2, <1>3, Zenon DEF Table

(* Every bucket in use stays where the search for its key finds it, whatever collides, is
   deleted, replaced, restored or moved to a larger table. *)
THEOREM TableInvariant == Spec => []Table
<1>1. Init => Table
  BY InitTable
<1>2. Base /\ Table /\ [Next]_vars => Table'
  BY StepEffect, Zenon
<1>3. QED
  BY <1>1, <1>2, BaseInvariant, PTL DEF Spec
-------------------------------------------------------------------------------------
(* Looking keys up *)

View(r) == [ts |-> r.ts, val |-> r.val]

(* What Get returns, in terms of the records in use. *)
Lookup ==
    \A k \in Keys : /\ \A x \in held : file[x].key = k => Get(k) = View(file[x])
                    /\ (\A x \in held : file[x].key # k) => Get(k) = Absent

(* The tests of CAS are on the pair that Get returns. *)
LEMMA CASExpects ==
    ASSUME PlainHashes, NEW k \in Keys, NEW pt, NEW hv, CASTests(k, pt, hv)
    PROVE  CASOp(k, pt, hv) = "CAS"
<1>1. KeyHash(k) = Hash32[k]
  <2>1. Hash32[k] \in Nat /\ Hash32[k] >= 2
    BY KeyHashFacts, Zenon DEF PlainHashes
  <2>2. QED
    BY ONLY <2>1 DEF KeyHash, hashReMap
<1>2. PICK b : b = mem[Probe(KeyHash(k), k)]
  BY Zenon
<1>3. CASE b.hash = emptyBucket
  BY <1>1, <1>2, <1>3, Zenon DEF CASTests, CASOp, Expects, Get
<1>4. CASE b.hash # emptyBucket
  <2>1. PICK r : r = file[b.idx]
    BY Zenon
  <2>2. Get(k) = [ts |-> r.ts, val |-> r.val] /\ r.ts = pt /\ ValHash[r.val] = hv
    BY <1>1, <1>2, <1>4, <2>1, Zenon DEF CASTests, Get
  <2>3. Get(k).ts = pt /\ ValHash[Get(k).val] = hv /\ (Get(k) = Absent => pt = 0)
    BY <2>2 DEF Absent
  <2>4. QED
    BY <2>3, Zenon DEF CASOp, Expects
<1>5. QED
  BY <1>3, <1>4, Zenon

LEMMA LookupHolds == ASSUME PlainHashes, Base, Table PROVE Lookup
<1>1. SUFFICES ASSUME NEW k \in Keys
               PROVE  /\ \A x \in held : file[x].key = k => Get(k) = View(file[x])
                      /\ (\A x \in held : file[x].key # k) => Get(k) = Absent
  BY Zenon DEF Lookup
<1>2. KeyHash(k) = Hash32[k]
  <2>1. Hash32[k] \in Nat /\ Hash32[k] >= 2
    BY KeyHashFacts, Zenon DEF PlainHashes
  <2>2. QED
    BY <2>1 DEF KeyHash, hashReMap
<1>3. PICK i : i = Probe(KeyHash(k), k)
  BY Zenon
<1>4. /\ mem[i].hash # emptyBucket => mem[i].idx \in held /\ file[mem[i].idx].key = k
      /\ mem[i].hash = emptyBucket => \A x \in held : file[x].key # k
  BY <1>3, HeldOf, Zenon
<1>5. Get(k) = IF mem[i].hash = emptyBucket THEN Absent ELSE View(file[mem[i].idx])
  BY <1>2, <1>3, Zenon DEF Get, View
<1>6. ASSUME NEW x \in held, file[x].key = k PROVE Get(k) = View(file[x])
  <2>1. PICK j \in 0 .. size - 1 : InUse(mem[j]) /\ x = mem[j].idx
    BY TableFacts, Zenon DEF held, HeldIn
  <2>2. j = i
    BY <1>3, <1>6, <2>1, ProbeFinds, Zenon DEF Table
  <2>3. mem[i].hash # emptyBucket
    BY <1>4, <1>6, Zenon
  <2>4. QED
    BY <1>5, <2>1, <2>2, <2>3, Zenon
<1>7. ASSUME \A x \in held : file[x].key # k PROVE Get(k) = Absent
  BY <1>4, <1>5, <1>7, Zenon
<1>8. QED
  BY <1>6, <1>7, Zenon

LEMMA LookupInvariant == ASSUME PlainHashes PROVE Spec => []Lookup
<1>1. Base /\ Table => Lookup
  BY LookupHolds, Zenon
<1>2. QED
  BY <1>1, BaseInvariant, TableInvariant, PTL

(* Get finds every pair the table holds: FindsStored, for keys whose hash Get does not
   search in place of a marker. *)
THEOREM StoredPairsFound == ASSUME PlainHashes PROVE Spec => []FindsStored
<1>1. Base /\ Lookup => FindsStored
  <2>1. SUFFICES ASSUME Base, Lookup, NEW i \in DOMAIN mem, mem[i].hash > deletedBucket
                 PROVE  Get(file[mem[i].idx].key) = View(file[mem[i].idx])
    BY Zenon DEF FindsStored, View
  <2>2. mem[i].idx \in held
    BY <2>1, Zenon DEF held, HeldIn, InUse
  <2>3. file[mem[i].idx].key \in Keys
    BY <2>1, <2>2, HeldRecords, Zenon
  <2>4. QED
    BY <2>1, <2>2, <2>3, Zenon DEF Lookup
<1>2. QED
  BY <1>1, BaseInvariant, LookupInvariant, PTL
-------------------------------------------------------------------------------------
(* The records in use are the last ones of their keys *)

(* Open ends its loop at a key of length zero. *)
NonemptyKeys == \A k \in Keys : KeyLen[k] > 0

(* The store is full before the table is: a table that may not grow any more takes more
   records, of 13 bytes at least, than fit in the store. *)
RoomyTable == \A n \in Nat : 2 * n > SizeLimit => 13 * ((n * 7) \div 10) > StoreSize

(* Record x of f is the last one of its key among the first n. *)
Last(f, x, n) == x \in 1 .. n /\ \A q \in 1 .. n : f[q].key = f[x].key => q <= x

Room ==
    /\ 13 * Len(file) <= StoreSize
    /\ numStoredKeys <= Known
    /\ 13 * Known <= length

(* A deletion is recorded only for a pair that was there. *)
Recorded(f, n) ==
    /\ f[n].live => f[n].ts \in Times
    /\ ~f[n].live => /\ f[n].ts = 0 /\ f[n].val = Empty
                     /\ \E x \in 1 .. n - 1 :
                           f[x].live /\ f[x].key = f[n].key /\ Last(f, x, n - 1)
FileShape == \A n \in 1 .. Len(file) : Recorded(file, n)

Kept == \A x \in held : file[x].live /\ Last(file, x, Known)

(* Open leaves out no pair; a failed Del may. *)
Complete ==
    phase = "restoring" =>
        \A x \in 1 .. Known : file[x].live /\ Last(file, x, Known) => x \in held

Contents == Room /\ FileShape /\ Kept /\ Complete

LEMMA LastSame ==
    ASSUME NEW f, NEW g, NEW x, NEW n, Last(f, x, n), \A q \in 1 .. n : g[q] = f[q]
    PROVE  Last(g, x, n)
BY Zenon DEF Last

LEMMA LastMore ==
    ASSUME NEW f, NEW n \in Nat, NEW x, Last(f, x, n), f[n + 1].key # f[x].key
    PROVE  Last(f, x, n + 1)
BY DEF Last

LEMMA LastOwn ==
    ASSUME NEW f, NEW n \in Nat
    PROVE  Last(f, n + 1, n + 1)
BY DEF Last

LEMMA LastUnique ==
    ASSUME NEW f, NEW n \in Nat, NEW x, NEW y, Last(f, x, n), Last(f, y, n), f[x].key = f[y].key
    PROVE  x = y
BY DEF Last

LEMMA WholeRecordLen ==
    ASSUME NonemptyKeys, NEW r \in Record
    PROVE  RecordLen(r) \in Nat /\ RecordLen(r) >= 13
<1>1. r.key \in Keys
  BY Zenon DEF Record
<1>2. KeyLen[r.key] \in Nat /\ KeyLen[r.key] > 0
  BY <1>1, KeysAssumption, Zenon DEF NonemptyKeys
<1>3. QED
  BY <1>2, RecordLenFacts

(* What put does to the store in the open phase. *)
LEMMA PutFacts ==
    ASSUME NonemptyKeys, Base, phase = "open", phase' = phase, NEW r \in Record, put(r)
    PROVE  /\ file' \in Seq(Record) /\ Len(file) \in Nat /\ Len(file') = Len(file) + 1
           /\ \A q \in 1 .. Len(file) : file'[q] = file[q]
           /\ file'[Len(file) + 1] = r
           /\ Known = Len(file) /\ Known' = Len(file) + 1
           /\ RecordLen(r) \in Nat /\ RecordLen(r) >= 13 /\ length \in Nat
           /\ length' = length + RecordLen(r)
<1>1. file \in Seq(Record) /\ length \in Nat
  BY Zenon DEF Base, Outer, StoreTypes
<1>2. PICK g : g = file' /\ g = Append(file, r)
  BY Zenon DEF put
<1>3. /\ g \in Seq(Record) /\ Len(file) \in Nat /\ Len(g) = Len(file) + 1
      /\ \A q \in 1 .. Len(file) : g[q] = file[q]
      /\ g[Len(file) + 1] = r
  <2>1. Appended(file, r, g)
    BY <1>1, <1>2, Zenon DEF Appended
  <2>2. QED
    BY <2>1, AppendFacts, Zenon
<1>4. Known = Len(file) /\ Known' = Len(file')
  BY Zenon DEF Known
<1>5. QED
  BY <1>1, <1>2, <1>3, <1>4, WholeRecordLen, Zenon DEF put

LEMMA EndOpenFacts ==
    ASSUME NonemptyKeys, Base, EndOpen
    PROVE  /\ phase = "restoring" /\ phase' \in {"open", "panicked"}
           /\ file' = file /\ Known' = Known /\ Known = Len(file) /\ Len(file) \in Nat
           /\ UNCHANGED <<length, numStoredKeys, checksum, ret, mem, size>>
<1>1. /\ phase = "restoring" /\ ~RecordLeft /\ file' = SubSeq(file, 1, pos - 1)
      /\ phase' \in {"open", "panicked"} /\ UNCHANGED <<length, numStoredKeys, checksum, ret, mem, size>>
  BY Zenon DEF EndOpen, table
<1>2. file \in Seq(Record) /\ pos \in 0 .. Len(file) + 1 /\ pos >= 1 /\ Len(file) \in Nat
  BY <1>1 DEF Base, Outer, StoreTypes, Phases
<1>3. pos = Len(file) + 1
  <2>1. SUFFICES ASSUME pos <= Len(file) PROVE FALSE
    BY <1>2
  <2>2. file[pos] \in Record
    BY <1>2, <2>1
  <2>3. KeyLen[file[pos].key] > 0
    BY <2>2, Zenon DEF Record, NonemptyKeys
  <2>4. QED
    BY <1>1, <2>1, <2>3, Zenon DEF RecordLeft
<1>4. file' = file
  BY <1>1, <1>2, <1>3
<1>5. QED
  BY <1>1, <1>2, <1>3, <1>4 DEF Known

LEMMA RoomTypes ==
    ASSUME Base
    PROVE  /\ Len(file) \in Nat /\ Known \in Nat /\ Known <= Len(file) /\ length \in Nat
           /\ numStoredKeys \in Nat /\ StoreSize \in Nat /\ file \in Seq(Record)
<1>1. Known \in 0 .. Len(file) /\ Len(file) \in Nat
  BY TableFacts, Zenon
<1>2. QED
  BY <1>1, SizeAssumption DEF Base, Outer, StoreTypes, Shape, TableTypes

(* The table never refuses a record that was in the file. *)
LEMMA NeverRefused ==
    ASSUME RoomyTable, Base, Contents
    PROVE  ~SpaceRefused
<1>1. SUFFICES ASSUME MustExpand, AtSizeLimit PROVE FALSE
  BY Zenon DEF SpaceRefused
<1>2. size \in Nat
  BY TableFacts, Zenon
<1>3. PICK e : e = (size * 7) \div 10
  BY Zenon
<1>4. e \in Int
  BY <1>2, <1>3
<1>5. 13 * e > StoreSize
  <2>1. 2 * size > SizeLimit
    BY <1>1, <1>2, SizeAssumption DEF AtSizeLimit
  <2>2. QED
    BY <1>2, <1>3, <2>1, Zenon DEF RoomyTable
<1>6. numStoredKeys >= e
  BY <1>1, <1>3, Zenon DEF MustExpand, numKeysToExpand
<1>7. 13 * Len(file) <= StoreSize /\ numStoredKeys <= Known
  BY Zenon DEF Contents, Room
<1>8. QED
  BY <1>4, <1>5, <1>6, <1>7, RoomTypes, SMTT(30)

LEMMA InitContents == ASSUME Init PROVE Contents
<1>1. /\ phase = "open" /\ file = << >> /\ length = 0 /\ numStoredKeys = 0
      /\ mem = NewMem(InitSize) /\ InitSize \in Nat /\ StoreSize \in Nat
  BY SizeAssumption, Zenon DEF Init
<1>2. held = {}
  BY <1>1, EmptySound, Zenon DEF held
<1>3. Len(file) = 0 /\ Known = 0
  BY <1>1, Zenon DEF Known
<1>4. Room
  BY <1>1, <1>3, SMTT(30) DEF Room
<1>5. FileShape /\ Kept /\ Complete
  BY <1>1, <1>2, <1>3, SMTT(30) DEF FileShape, Kept, Complete
<1>6. QED
  BY <1>4, <1>5, Zenon DEF Contents

(* Whatever a step does to the records and to those in use, it keeps Contents. *)
LEMMA EffectContents ==
    NonemptyKeys /\ RoomyTable /\ Base /\ Base' /\ Contents /\ Effect
        => Contents'
<1>LastLess.
    ASSUME NEW f, NEW n \in Nat, NEW x, Last(f, x, n + 1), x # n + 1
    PROVE  Last(f, x, n) /\ f[n + 1].key # f[x].key
  BY <1>LastLess DEF Last
(* Nothing of what Contents speaks of changes but for fewer buckets counted. *)
<1>SameContents.
    ASSUME Base, Base', Contents, file' = file, held' = held, Known' = Known, length' = length,
           numStoredKeys' <= numStoredKeys,
           phase' = "restoring" => phase = "restoring"
    PROVE  Contents'
  <2> USE <1>SameContents
  <2>1. Room'
    <3>1. numStoredKeys' \in Nat
      BY Zenon DEF Base, Shape, TableTypes
    <3>2. QED
      BY <3>1, RoomTypes DEF Contents, Room
  <2>2. FileShape' /\ Kept'
    BY Zenon DEF Contents, FileShape, Kept
  <2>3. Complete'
    BY Zenon DEF Contents, Complete
  <2>4. QED
    BY <2>1, <2>2, <2>3, Zenon DEF Contents
<1>QuietContents.
    ASSUME Base, Base', Contents, Quiet
    PROVE  Contents'
  <2> USE <1>QuietContents
  <2>1. UNCHANGED <<phase, file, length, pos>> /\ held' = held /\ numStoredKeys' <= numStoredKeys
    BY Zenon DEF Quiet
  <2>2. Known' = Known
    BY <2>1, Zenon DEF Known
  <2>3. QED
    BY <2>1, <2>2, <1>SameContents, Zenon
<1>DownContents.
    ASSUME Base, Contents, Down, held' = {}
    PROVE  Contents'
  <2> USE <1>DownContents
  <2>1. /\ phase' = "closed" /\ file' = file /\ length' = 0 /\ numStoredKeys' = 0
        /\ Known' = 0
    BY Zenon DEF Down, Known
  <2>2. Room'
    BY <2>1 DEF Contents, Room
  <2>3. FileShape'
    BY <2>1, Zenon DEF Contents, FileShape
  <2>4. Kept' /\ Complete'
    BY <2>1, Zenon DEF Kept, Complete
  <2>5. QED
    BY <2>2, <2>3, <2>4, Zenon DEF Contents
<1>OpenContents.
    ASSUME Base, Base', Contents, Open, held' = held
    PROVE  Contents'
  <2> USE <1>OpenContents
  <2>1. /\ phase = "closed" /\ phase' = "restoring" /\ pos' = 1
        /\ file' = file /\ length' = length /\ numStoredKeys' = numStoredKeys
    BY Zenon DEF Open, store, table
  <2>2. Known = 0 /\ Known' = 0
    BY <2>1 DEF Known
  <2>3. Room'
    BY <2>1, <2>2, Zenon DEF Contents, Room
  <2>4. FileShape' /\ Kept'
    BY <2>1, <2>2, Zenon DEF Contents, FileShape, Kept
  <2>5. Complete'
    BY <2>2 DEF Complete
  <2>6. QED
    BY <2>3, <2>4, <2>5, Zenon DEF Contents
<1>EndOpenContents.
    ASSUME NonemptyKeys, Base, Base', Contents, EndOpen, held' = held
    PROVE  Contents'
  <2> USE <1>EndOpenContents
  <2>1. /\ file' = file /\ Known' = Known /\ length' = length /\ numStoredKeys' = numStoredKeys
        /\ phase' \in {"open", "panicked"}
    BY EndOpenFacts, Zenon
  <2>2. numStoredKeys' <= numStoredKeys /\ phase' # "restoring"
    BY <2>1, RoomTypes
  <2>3. QED
    BY <2>1, <2>2, <1>SameContents, Zenon
(* A record is appended that fits: one more record, one more bucket at most. *)
<1>PutRoom.
    ASSUME NonemptyKeys, Base, Base', Contents, phase = "open", phase' = phase,
           NEW r \in Record, put(r), ~Full(r), numStoredKeys' <= numStoredKeys + 1
    PROVE  Room'
  <2> USE <1>PutRoom
  <2>1. /\ Len(file') = Len(file) + 1 /\ Known = Len(file) /\ Known' = Len(file) + 1
        /\ RecordLen(r) \in Nat /\ RecordLen(r) >= 13
        /\ length' = length + RecordLen(r)
    BY PutFacts, Zenon
  <2>2. length + RecordLen(r) < StoreSize
    BY <2>1, RoomTypes DEF Full
  <2>3. numStoredKeys' \in Nat
    BY Zenon DEF Base, Shape, TableTypes
  <2>4. QED
    BY <2>1, <2>2, <2>3, RoomTypes, SMTT(30) DEF Contents, Room
(* The records that were there stay as they were recorded. *)
<1>PutShape.
    ASSUME NonemptyKeys, Base, Contents, phase = "open", phase' = phase,
           NEW r \in Record, put(r), Recorded(file', Len(file) + 1)
    PROVE  FileShape'
  <2> USE <1>PutShape
  <2>1. /\ Len(file') = Len(file) + 1 /\ Len(file) \in Nat
        /\ \A q \in 1 .. Len(file) : file'[q] = file[q]
    BY PutFacts, Zenon
  <2>2. PICK g : g = file' /\ \A q \in 1 .. Len(file) : g[q] = file[q]
    BY <2>1, Zenon
  <2>3. ASSUME NEW n \in 1 .. Len(file) PROVE Recorded(g, n)
    <3>1. Recorded(file, n) /\ g[n] = file[n]
      BY <2>2, Zenon DEF Contents, FileShape
    <3>2. ASSUME NEW x \in 1 .. n - 1, Last(file, x, n - 1) PROVE Last(g, x, n - 1) /\ g[x] = file[x]
      <4>1. \A q \in 1 .. n - 1 : g[q] = file[q]
        BY <2>1, <2>2
      <4>2. QED
        BY <3>2, <4>1, LastSame, Zenon
    <3>3. QED
      BY <3>1, <3>2, Zenon DEF Recorded
  <2>4. \A n \in 1 .. Len(file') : n \in 1 .. Len(file) \/ n = Len(file) + 1
    BY <2>1
  <2>5. QED
    BY <2>2, <2>3, <2>4, Zenon DEF FileShape
(* Of the records in use those of other keys stay the last ones of theirs. *)
<1>PutKept.
    ASSUME NonemptyKeys, Base, Contents, phase = "open", phase' = phase,
           NEW r \in Record, put(r), NEW x \in Without(r.key)
    PROVE  file'[x].live /\ Last(file', x, Known')
  <2> USE <1>PutKept
  <2>1. /\ Known = Len(file) /\ Known' = Len(file) + 1 /\ Len(file) \in Nat
        /\ \A q \in 1 .. Len(file) : file'[q] = file[q]
        /\ file'[Len(file) + 1] = r
    BY PutFacts, Zenon
  <2>2. x \in held /\ file[x].key # r.key
    BY Zenon DEF Without
  <2>3. file[x].live /\ Last(file, x, Len(file)) /\ x \in 1 .. Len(file)
    BY <2>1, <2>2, HeldRecords, Zenon DEF Contents, Kept
  <2>4. PICK g : g = file' /\ \A q \in 1 .. Len(file) : g[q] = file[q]
    BY <2>1, Zenon
  <2>5. Last(g, x, Len(file))
    BY <2>3, <2>4, LastSame, Zenon
  <2>6. g[Len(file) + 1].key # g[x].key
    BY <2>1, <2>2, <2>3, <2>4, Zenon
  <2>7. Last(g, x, Len(file) + 1)
    BY <2>1, <2>5, <2>6, LastMore, Zenon
  <2>8. QED
    BY <2>1, <2>3, <2>4, <2>7, Zenon
<1>WritesContents.
    ASSUME NonemptyKeys, Base, Base', Contents, NEW k \in Keys, NEW v \in Values, NEW t \in Times,
           Writes(k, v, t)
    PROVE  Contents'
  <2> USE <1>WritesContents
  <2>1. PICK r : r = PairRecord(k, v, t)
    BY Zenon
  <2>2. r \in Record /\ r.key = k /\ r.live /\ r.ts \in Times
    BY <2>1, Zenon DEF PairRecord, Record
  <2>3. /\ phase = "open" /\ phase' = phase /\ put(r) /\ ~Full(r)
        /\ held' = Without(k) \cup {Len(file) + 1} /\ numStoredKeys' <= numStoredKeys + 1
    BY <2>1, Zenon DEF Writes
  <2>4. /\ Known' = Len(file) + 1 /\ file'[Len(file) + 1] = r /\ Len(file) \in Nat
    BY <2>2, <2>3, PutFacts, Zenon
  <2>5. Room'
    BY <2>2, <2>3, <1>PutRoom, Zenon
  <2>6. FileShape'
    <3>1. Recorded(file', Len(file) + 1)
      BY <2>2, <2>4, Zenon DEF Recorded
    <3>2. QED
      BY <2>2, <2>3, <3>1, <1>PutShape, Zenon
  <2>7. Kept'
    <3>1. \A x \in Without(k) : file'[x].live /\ Last(file', x, Known')
      BY <2>2, <2>3, <1>PutKept, Zenon
    <3>2. PICK g : g = file'
      BY Zenon
    <3>3. Last(g, Len(file) + 1, Len(file) + 1)
      BY <2>4, LastOwn, Zenon
    <3>4. QED
      BY <2>2, <2>3, <2>4, <3>1, <3>2, <3>3, Zenon DEF Kept
  <2>8. Complete'
    BY <2>3, Zenon DEF Complete
  <2>9. QED
    BY <2>5, <2>6, <2>7, <2>8, Zenon DEF Contents
<1>DeletesContents.
    ASSUME NonemptyKeys, Base, Base', Contents, NEW k \in Keys, NEW t \in Times, Deletes(k, t)
    PROVE  Contents'
  <2> USE <1>DeletesContents
  <2>1. PICK r : r = Tombstone(k)
    BY Zenon
  <2>2. r \in Record /\ r.key = k /\ ~r.live /\ r.ts = 0 /\ r.val = Empty
    BY <2>1, ValuesAssumption, Zenon DEF Tombstone, Record
  <2>3. /\ phase = "open" /\ phase' = phase /\ pos' = pos /\ numStoredKeys' = numStoredKeys
        /\ held' = Without(k)
    BY Zenon DEF Deletes
  <2>4. PICK x \in held : file[x].key = k
    BY Zenon DEF Deletes
  <2>5. Complete'
    BY <2>3, Zenon DEF Complete
  <2>6. CASE UNCHANGED store
    <3>1. file' = file /\ length' = length
      BY <2>6, Zenon DEF store
    <3>2. Known' = Known
      BY <2>3, <3>1, Zenon DEF Known
    <3>3. Room'
      BY <2>3, <3>1, <3>2, Zenon DEF Contents, Room
    <3>4. FileShape'
      BY <3>1, Zenon DEF Contents, FileShape
    <3>5. Kept'
      BY <2>3, <3>1, <3>2, Zenon DEF Contents, Kept, Without
    <3>6. QED
      BY <2>5, <3>3, <3>4, <3>5, Zenon DEF Contents
  <2>7. CASE ~Full(r) /\ put(r)
    <3>1. /\ Known = Len(file) /\ Len(file) \in Nat /\ file'[Len(file) + 1] = r
          /\ \A q \in 1 .. Len(file) : file'[q] = file[q]
      BY <2>2, <2>3, <2>7, PutFacts, Zenon
    <3>2. Room'
      <4>1. numStoredKeys' <= numStoredKeys + 1
        BY <2>3, RoomTypes
      <4>2. QED
        BY <2>2, <2>3, <2>7, <4>1, <1>PutRoom, Zenon
    <3>3. FileShape'
      <4>1. file[x].live /\ Last(file, x, Len(file)) /\ x \in 1 .. Len(file)
        BY <3>1, <2>4, HeldRecords, Zenon DEF Contents, Kept
      <4>2. PICK g : g = file' /\ \A q \in 1 .. Len(file) : g[q] = file[q]
        BY <3>1, Zenon
      <4>3. Last(g, x, Len(file))
        BY <4>1, <4>2, LastSame, Zenon
      <4>4. PICK n : n = Len(file) + 1
        BY Zenon
      <4>5. n - 1 = Len(file)
        BY <3>1, <4>4
      <4>6. Recorded(g, n)
        BY <2>2, <2>4, <3>1, <4>1, <4>2, <4>3, <4>4, <4>5, Zenon DEF Recorded
      <4>7. QED
        BY <2>2, <2>3, <2>7, <4>2, <4>4, <4>6, <1>PutShape, Zenon
    <3>4. Kept'
      BY <2>2, <2>3, <2>7, <1>PutKept, Zenon DEF Kept
    <3>5. QED
      BY <2>5, <3>2, <3>3, <3>4, Zenon DEF Contents
  <2>8. QED
    BY <2>1, <2>6, <2>7, Zenon DEF Deletes
<1>RestoresContents.
    ASSUME NonemptyKeys, RoomyTable, Base, Base', Contents, NEW r, Restores(r)
    PROVE  Contents'
  <2> USE <1>RestoresContents
  <2>1. /\ phase = "restoring" /\ phase' = phase /\ pos \in 1 .. Len(file) /\ r = file[pos]
        /\ file' = file /\ pos' = pos + 1 /\ length' = length + RecordLen(r)
        /\ numStoredKeys' <= numStoredKeys + 1
    BY Zenon DEF Restores
  <2>2. PICK n \in Nat : n = Known /\ pos = n + 1 /\ Known' = n + 1
    BY <2>1, RoomTypes DEF Known
  <2>3. r \in Record
    BY <2>1, RoomTypes, SMTT(30)
  <2>4. Room'
    <3>1. numStoredKeys' \in Nat
      BY Zenon DEF Base, Shape, TableTypes
    <3>2. RecordLen(r) \in Nat /\ RecordLen(r) >= 13
      BY <2>3, WholeRecordLen, Zenon
    <3>3. QED
      BY <2>1, <2>2, <3>1, <3>2, RoomTypes, SMTT(30) DEF Contents, Room
  <2>5. FileShape'
    BY <2>1, Zenon DEF Contents, FileShape
  <2>6. /\ \A x \in held : file[x].live /\ Last(file, x, n)
        /\ \A x \in 1 .. n : file[x].live /\ Last(file, x, n) => x \in held
    BY <2>1, <2>2, Zenon DEF Contents, Kept, Complete
  <2>7. \/ r.live /\ held' = Without(r.key) \cup {pos}
        \/ ~r.live /\ held' = Without(r.key)
    <3>1. ASSUME ~r.live PROVE \E x \in held : file[x].key = r.key
      <4>1. Recorded(file, pos) /\ pos - 1 = n
        BY <2>1, <2>2 DEF Contents, FileShape
      <4>2. PICK x \in 1 .. n : file[x].live /\ file[x].key = r.key /\ Last(file, x, n)
        BY <2>1, <3>1, <4>1, Zenon DEF Recorded
      <4>3. QED
        BY <2>6, <4>2, Zenon
    <3>2. ~SpaceRefused
      BY NeverRefused, Zenon
    <3>3. QED
      BY <3>1, <3>2, Zenon DEF Restores
  <2>8. \A x \in Without(r.key) : file[x].live /\ Last(file, x, n + 1)
    <3>1. ASSUME NEW x \in Without(r.key) PROVE file[x].live /\ Last(file, x, n + 1)
      <4>1. x \in held /\ file[x].key # file[n + 1].key
        BY <2>1, <2>2, Zenon DEF Without
      <4>2. Last(file, x, n) /\ file[x].live
        BY <2>6, <4>1, Zenon
      <4>3. QED
        BY <4>1, <4>2, LastMore, Zenon
    <3>2. QED
      BY <3>1, Zenon
  <2>9. Kept'
    <3>1. Last(file, n + 1, n + 1)
      BY LastOwn, Zenon
    <3>2. \A x \in held' : file[x].live /\ Last(file, x, n + 1)
      BY <2>1, <2>2, <2>7, <2>8, <3>1, Zenon
    <3>3. QED
      BY <2>1, <2>2, <3>2, Zenon DEF Kept
  <2>10. Complete'
    <3>1. ASSUME NEW x \in 1 .. n + 1, file[x].live, Last(file, x, n + 1) PROVE x \in held'
      <4>1. CASE x = n + 1
        BY <2>1, <2>2, <2>7, <3>1, <4>1, Zenon
      <4>2. CASE x # n + 1
        <5>1. Last(file, x, n) /\ file[n + 1].key # file[x].key
          BY <3>1, <4>2, <1>LastLess, Zenon
        <5>2. x \in held
          BY <2>6, <3>1, <5>1, Zenon DEF Last
        <5>3. x \in Without(r.key)
          BY <2>1, <2>2, <5>1, <5>2, Zenon DEF Without
        <5>4. QED
          BY <2>7, <5>3, Zenon
      <4>3. QED
        BY <4>1, <4>2, Zenon
    <3>2. QED
      BY <2>1, <2>2, <3>1, Zenon DEF Complete
  <2>11. QED
    BY <2>4, <2>5, <2>9, <2>10, Zenon DEF Contents
<1> SUFFICES ASSUME NonemptyKeys, RoomyTable, Base, Base', Contents, Effect
             PROVE  Contents'
  BY Zenon
<1>1. QED
  BY <1>QuietContents, <1>WritesContents, <1>DeletesContents, <1>DownContents, <1>OpenContents,
     <1>EndOpenContents, <1>RestoresContents, Zenon DEF Effect

(* In use are the last records of keys, all of pairs; a map being reopened has in use all
   of those it came by.  The store fills up before the table does. *)
THEOREM ContentsInvariant == ASSUME NonemptyKeys, RoomyTable PROVE Spec => []Contents
<1>1. Init => Contents
  BY InitContents, Zenon
<1>2. Base /\ Base' /\ Effect /\ Contents => Contents'
  BY EffectContents, Zenon
<1>3. Base /\ Table /\ [Next]_vars => Effect
  BY StepEffect, Zenon
<1>4. QED
  BY <1>1, <1>2, <1>3, BaseInvariant, TableInvariant, PTL DEF Spec
=====================================================================================

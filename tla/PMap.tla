----------------------------------- MODULE PMap -----------------------------------
(***************************************************************************)
(* core/pmap: the map that stores one chunk.  Pairs live in an append-only *)
(* memory-mapped file (store.go); an open-addressing hash table with       *)
(* linear probing in RAM (hashmap.go) gives the position of each key's     *)
(* current record.  Open rebuilds the table from the file.  The caller     *)
(* holds the chunk's mutex, so primitives do not overlap.                  *)
(*                                                                         *)
(* Abstractions: a store index is the ordinal of a record, not its byte    *)
(* offset (sizes in bytes are kept, they decide when the store is full);   *)
(* a key is a member of Keys with a length and a 32-bit hash.  Expanding   *)
(* the table and reopening the file are loops of the code and take one     *)
(* step per bucket or record here; nothing else can happen meanwhile.      *)
(***************************************************************************)
EXTENDS SyncChecksum, Sequences, FiniteSets

CONSTANTS
    Keys, Values,
    Empty,          \* the value of length zero
    KeyLen,         \* length in bytes of each key
    ValLen,         \* length in bytes of each value, its 8-byte timestamp apart
    Hash32,         \* low 32 bits of FNV1a64 of each key
    ValHash,        \* FNV1a64 of each value
    Times,          \* timestamps, nanoseconds since the epoch
    StoreSize,      \* bytes of the memory-mapped file
    InitSize,       \* buckets of a new table: 2^defaultHashMapInitialLog2Size
    SizeLimit,      \* defaultHashMapSizeLimit
    MinCount        \* bound on how far refused CAS calls may drive a term of the checksum down

ASSUME KeysAssumption == /\ KeyLen \in [Keys -> Nat]
                         /\ Hash32 \in [Keys -> Nat]
ASSUME ValuesAssumption == /\ Empty \in Values
                           /\ ValLen \in [Values -> Nat]
                           /\ ValLen[Empty] = 0
ASSUME TimeAssumption == Times \subseteq Nat \ {0}
ASSUME SizeAssumption == /\ StoreSize \in Nat
                         /\ InitSize \in Nat \ {0}
                         /\ SizeLimit \in Nat
                         /\ MinCount \in Int

VARIABLES
    phase,          \* "open", "closed", "restoring" (inside Open) or "panicked"
    file,           \* the records of the file, in order
    length,         \* store.length: bytes in use
    deleted,        \* store.deleted: bytes known to be garbage
    mem,            \* hashmap.mem: bucket -> hash and store index
    size,           \* hashmap.size
    numStoredKeys,  \* hashmap.numStoredKeys: buckets in use, deleted ones included
    newMem,         \* expand(): the table being filled, twice the size of mem
    newStored,      \* expand(): its numStoredKeys
    scan,           \* expand(): the next bucket of mem to copy
    expand,         \* "no", "running", or "done" until the caller of expand() resumes
    checksum,       \* the syncChecksum struct
    pos,            \* Open: the next record to restore
    ret             \* the write that returned last and whether it returned an error; None
                    \* while one is inside expand()

store == <<file, length>>
table == <<mem, size, numStoredKeys>>
expansion == <<newMem, newStored, scan, expand>>
vars == <<phase, store, deleted, table, expansion, checksum, pos, ret>>
-------------------------------------------------------------------------------------
(* Records and buckets *)

emptyBucket == 0
deletedBucket == 1

Pairs == [ts : Times, val : Values]
Record == [key : Keys, live : BOOLEAN, ts : Times \cup {0}, val : Values]
Bucket == [hash : Nat, idx : Nat]
Terms == Keys \X (Times \cup {0})

None == [op |-> "none", err |-> FALSE]

(* What Get returns for a key that has no pair. *)
Absent == [ts |-> 0, val |-> Empty]

PairRecord(k, v, t) == [key |-> k, live |-> TRUE, ts |-> t, val |-> v]

(* put(key, nil).  A record with an empty value marks a deletion; the 8 bytes read as its
   timestamp when it is restored are its trailer and the next key length, a time close to
   the epoch. *)
Tombstone(k) == [key |-> k, live |-> FALSE, ts |-> 0, val |-> Empty]

(* store.put: 12 bytes of lengths around the key and the value. *)
RecordLen(r) == 12 + KeyLen[r.key] + (IF r.live THEN 8 + ValLen[r.val] ELSE 0)

Full(r) == length + RecordLen(r) >= StoreSize

put(r) == /\ file' = Append(file, r)
          /\ length' = length + RecordLen(r)

hashReMap(h) == IF h < 2 THEN h + 2 ELSE h
KeyHash(k) == hashReMap(Hash32[k])

NewMem(n) == [i \in 0 .. n - 1 |-> [hash |-> emptyBucket, idx |-> 0]]
numKeysToExpandWholeTable == size
numKeysToExpand == (size * 7) \div 10

(* The bucket reached from the home bucket of hash h after d steps of linear probing. *)
Slot(h, d, n) == (h + d) % n

(* The loop that every primitive runs: from the home bucket of h on, the first bucket
   that is empty or holds hash h and key k. *)
Stops(h, k, d) ==
    LET b == mem[Slot(h, d, size)]
    IN  b.hash = emptyBucket \/ (b.hash = h /\ file[b.idx].key = k)
ProbeLen(h, k) ==
    CHOOSE d \in 0 .. size - 1 : Stops(h, k, d) /\ \A e \in 0 .. d - 1 : ~Stops(h, k, e)
Probe(h, k) == Slot(h, ProbeLen(h, k), size)

(* Get probes with the raw hash: unlike the other primitives it does not remap it. *)
Get(k) ==
    LET b == mem[Probe(Hash32[k], k)]
    IN  IF b.hash = emptyBucket THEN Absent
        ELSE [ts |-> file[b.idx].ts, val |-> file[b.idx].val]

isPresentAnyTime(i) == Get(file[i].key) # Absent

(* isPresent: the record at position i is the one Get finds, judged by its timestamp. *)
isPresent(i) == Get(file[i].key) # Absent /\ Get(file[i].key).ts = file[i].ts

(* The records that Iterate and BackwardsIterate hand to their callback. *)
Iterated == {i \in DOMAIN file : isPresent(i)}
-------------------------------------------------------------------------------------
(* hashmap.expand *)

MustExpand == numStoredKeys >= numKeysToExpand
AtSizeLimit == size * 2 > SizeLimit

(* The tests that Set, CAS and restorePair begin with. *)
SpaceChecked == expand = "done" \/ (expand = "no" /\ ~MustExpand)
SpaceRefused == expand = "no" /\ MustExpand /\ AtSizeLimit

RecordLeft == pos <= Len(file) /\ KeyLen[file[pos].key] > 0

(* The start of a Set or CAS, or of restorePair, on a table that has reached its load. *)
StartExpand ==
    /\ phase = "open" \/ (phase = "restoring" /\ RecordLeft)
    /\ expand = "no" /\ MustExpand /\ ~AtSizeLimit
    /\ expand' = "running"
    /\ newMem' = NewMem(2 * size)
    /\ newStored' = 0
    /\ scan' = 0
    /\ ret' = None
    /\ UNCHANGED <<phase, store, deleted, table, checksum, pos>>

NewProbeLen(h) ==
    CHOOSE d \in 0 .. 2 * size - 1 :
        /\ newMem[Slot(h, d, 2 * size)].hash = emptyBucket
        /\ \A e \in 0 .. d - 1 : newMem[Slot(h, e, 2 * size)].hash # emptyBucket

ExpandBucket ==
    /\ expand = "running" /\ scan < size
    /\ scan' = scan + 1
    /\ IF mem[scan].hash > deletedBucket
       THEN LET h == mem[scan].hash
            IN  /\ newMem' = [newMem EXCEPT ![Slot(h, NewProbeLen(h), 2 * size)] = mem[scan]]
                /\ newStored' = newStored + 1
       ELSE UNCHANGED <<newMem, newStored>>
    /\ UNCHANGED <<phase, store, deleted, table, expand, checksum, pos, ret>>

EndExpandKeepingSize ==
    /\ expand = "running" /\ scan = size
    /\ mem' = newMem
    /\ size' = size
    /\ numStoredKeys' = newStored
    /\ expand' = "done"
    /\ newMem' = NewMem(0) /\ newStored' = 0 /\ scan' = 0
    /\ UNCHANGED <<phase, store, deleted, checksum, pos, ret>>

EndExpand ==
    /\ expand = "running" /\ scan = size
    /\ mem' = newMem
    /\ size' = 2 * size
    /\ numStoredKeys' = newStored
    /\ expand' = "done"
    /\ newMem' = NewMem(0) /\ newStored' = 0 /\ scan' = 0
    /\ UNCHANGED <<phase, store, deleted, checksum, pos, ret>>
-------------------------------------------------------------------------------------
(* Primitives *)

(* The end of a write that found an empty bucket i. *)
Insert(i, h, r) ==
    /\ put(r)
    /\ mem' = [mem EXCEPT ![i] = [hash |-> h, idx |-> Len(file) + 1]]
    /\ numStoredKeys' = numStoredKeys + 1
    /\ checksum' = SumTerm(checksum, <<r.key, r.ts>>, r.ts)

ReplaceWithoutSub(i, h, r) ==
    /\ put(r)
    /\ mem' = [mem EXCEPT ![i] = [hash |-> h, idx |-> Len(file) + 1]]
    /\ numStoredKeys' = numStoredKeys
    /\ checksum' = SumTerm(checksum, <<r.key, r.ts>>, r.ts)

(* The end of a write that found the key in bucket i. *)
Replace(i, h, r) ==
    /\ put(r)
    /\ mem' = [mem EXCEPT ![i] = [hash |-> h, idx |-> Len(file) + 1]]
    /\ numStoredKeys' = numStoredKeys
    /\ checksum' = SumTerm(SubTerm(checksum, <<r.key, file[mem[i].idx].ts>>, r.ts),
                           <<r.key, r.ts>>, r.ts)

(* A CAS whose caller expects another pair than Get returns is told from one of a caller who
   is right. *)
Results == [op : {"none", "Set", "CAS", "staleCAS", "Del"}, err : BOOLEAN]

Fails(op) == ret' = [op |-> op, err |-> TRUE]
Returns(op) == ret' = [op |-> op, err |-> FALSE]

Untouched == UNCHANGED <<store, mem, numStoredKeys, checksum>>

(* Set and CAS: the table cannot grow, the error is returned before anything is looked up. *)
TableFull ==
    /\ phase = "open" /\ SpaceRefused
    /\ Fails("Set") \/ Fails("CAS")
    /\ UNCHANGED <<phase, store, deleted, table, expansion, checksum, pos>>

Set(k, v, t) ==
    LET h == KeyHash(k)
        i == Probe(h, k)
        r == PairRecord(k, v, t)
        found == mem[i].hash # emptyBucket
        newer == found => file[mem[i].idx].ts < t
    IN  /\ phase = "open" /\ SpaceChecked
        /\ expand' = "no"
        /\ \/ ~newer /\ Untouched /\ Returns("Set")
           \/ newer /\ Full(r) /\ Untouched /\ Fails("Set")
           \/ ~found /\ ~Full(r) /\ Insert(i, h, r) /\ Returns("Set")
           \/ found /\ newer /\ ~Full(r) /\ Replace(i, h, r) /\ Returns("Set")
        /\ UNCHANGED <<phase, deleted, size, newMem, newStored, scan, pos>>

(* CAS: pt and hv are the timestamp and the hash the stored pair must have. *)
CASTests(k, pt, hv) ==
    LET b == mem[Probe(KeyHash(k), k)]
    IN  IF b.hash # emptyBucket
        THEN file[b.idx].ts = pt /\ ValHash[file[b.idx].val] = hv
        ELSE pt = 0 \/ hv = ValHash[Empty]

(* ret names a CAS after the pair p that Get would return to its caller: "staleCAS" if the
   caller expects another one, by the two tests of the comment on CAS. *)
Expects(p, pt, hv) == IF p = Absent THEN pt = 0 \/ hv = ValHash[Empty]
                      ELSE p.ts = pt /\ ValHash[p.val] = hv
CASOp(k, pt, hv) == IF Expects(Get(k), pt, hv) THEN "CAS" ELSE "staleCAS"

CASMismatch(k, pt, hv) ==
    /\ phase = "open" /\ SpaceChecked
    /\ ~CASTests(k, pt, hv)
    /\ expand' = "no"
    /\ Fails(CASOp(k, pt, hv))
    /\ UNCHANGED <<phase, store, deleted, table, newMem, newStored, scan, checksum, pos>>

(* The tests pass: v and t are the new pair.  The old pair leaves the checksum before the
   new record is known to fit. *)
CAS(k, pt, hv, v, t) ==
    LET h == KeyHash(k)
        i == Probe(h, k)
        r == PairRecord(k, v, t)
        found == mem[i].hash # emptyBucket
        old == <<k, file[mem[i].idx].ts>>
        op == CASOp(k, pt, hv)
    IN  /\ phase = "open" /\ SpaceChecked
        /\ CASTests(k, pt, hv)
        /\ expand' = "no"
        /\ \/ ~found /\ Full(r) /\ Untouched /\ Fails(op)
           \/ /\ found /\ Full(r) /\ Fails(op)
              /\ checksum.newChecksum[old] > MinCount
              /\ checksum' = SubTerm(checksum, old, t)
              /\ UNCHANGED <<store, mem, numStoredKeys>>
           \/ ~found /\ ~Full(r) /\ Insert(i, h, r) /\ Returns(op)
           \/ found /\ ~Full(r) /\ Replace(i, h, r) /\ Returns(op)
        /\ UNCHANGED <<phase, deleted, size, newMem, newStored, scan, pos>>

DelEmptyingBucket(k, t) ==
    LET i == Probe(KeyHash(k), k)
        found == mem[i].hash # emptyBucket
        old == file[mem[i].idx]
        r == Tombstone(k)
    IN  /\ phase = "open" /\ expand = "no"
        /\ \/ /\ found => t < old.ts
              /\ UNCHANGED <<store, deleted, mem, checksum>> /\ Returns("Del")
           \/ /\ found /\ t >= old.ts
              /\ deleted' = deleted + RecordLen(old)
              /\ checksum' = SubTerm(checksum, <<k, old.ts>>, t)
              /\ mem' = [mem EXCEPT ![i].hash = emptyBucket]
              /\ IF Full(r) THEN UNCHANGED store /\ Fails("Del")
                            ELSE put(r) /\ Returns("Del")
        /\ UNCHANGED <<phase, size, numStoredKeys, expansion, pos>>

DelCountingTombstone(k, t) ==
    LET i == Probe(KeyHash(k), k)
        found == mem[i].hash # emptyBucket
        old == file[mem[i].idx]
        r == Tombstone(k)
    IN  /\ phase = "open" /\ expand = "no"
        /\ \/ /\ found => t < old.ts
              /\ UNCHANGED <<store, deleted, mem, checksum>> /\ Returns("Del")
           \/ /\ found /\ t >= old.ts
              /\ deleted' = deleted + RecordLen(old) + RecordLen(r)
              /\ checksum' = SubTerm(checksum, <<k, old.ts>>, t)
              /\ mem' = [mem EXCEPT ![i].hash = deletedBucket]
              /\ IF Full(r) THEN UNCHANGED store /\ Fails("Del")
                            ELSE put(r) /\ Returns("Del")
        /\ UNCHANGED <<phase, size, numStoredKeys, expansion, pos>>

(* The bucket is released first, then the tombstone is written: it may not fit. *)
Del(k, t) ==
    LET i == Probe(KeyHash(k), k)
        found == mem[i].hash # emptyBucket
        old == file[mem[i].idx]
        r == Tombstone(k)
    IN  /\ phase = "open" /\ expand = "no"
        /\ \/ /\ found => t < old.ts
              /\ UNCHANGED <<store, deleted, mem, checksum>> /\ Returns("Del")
           \/ /\ found /\ t >= old.ts
              /\ deleted' = deleted + RecordLen(old)
              /\ checksum' = SubTerm(checksum, <<k, old.ts>>, t)
              /\ mem' = [mem EXCEPT ![i].hash = deletedBucket]
              /\ IF Full(r) THEN UNCHANGED store /\ Fails("Del")
                            ELSE put(r) /\ Returns("Del")
        /\ UNCHANGED <<phase, size, numStoredKeys, expansion, pos>>

Checksum(now) ==
    /\ phase = "open" /\ expand = "no"
    /\ checksum' = MoveForward(checksum, now)
    /\ UNCHANGED <<phase, store, deleted, table, expansion, pos, ret>>
-------------------------------------------------------------------------------------
(* Life of a map *)

Init ==
    /\ phase = "open"
    /\ file = << >> /\ length = 0 /\ deleted = 0
    /\ mem = NewMem(InitSize) /\ size = InitSize /\ numStoredKeys = 0
    /\ newMem = NewMem(0) /\ newStored = 0 /\ scan = 0 /\ expand = "no"
    /\ checksum = NewSyncChecksum(Terms)
    /\ pos = 0 /\ ret = None

(* Everything but the file is gone. *)
Down ==
    /\ phase' = "closed"
    /\ length' = 0 /\ deleted' = 0
    /\ mem' = NewMem(InitSize) /\ size' = InitSize /\ numStoredKeys' = 0
    /\ newMem' = NewMem(0) /\ newStored' = 0 /\ scan' = 0 /\ expand' = "no"
    /\ checksum' = NewSyncChecksum(Terms)
    /\ pos' = 0 /\ ret' = None
    /\ UNCHANGED file

Close == phase = "open" /\ expand = "no" /\ Down

(* The process is killed between two records: the mapping is shared, the file is complete. *)
Crash == phase # "closed" /\ Down

Open ==
    /\ phase = "closed"
    /\ phase' = "restoring"
    /\ pos' = 1
    /\ UNCHANGED <<store, deleted, table, expansion, checksum, ret>>

(* One turn of Open's loop.  An error of restorePair is dropped: the record is skipped. *)
RestorePair ==
    LET r == file[pos]
        h == KeyHash(r.key)
        i == Probe(h, r.key)
        found == mem[i].hash # emptyBucket
        old == file[mem[i].idx]
        minusOld == SubTerm(checksum, <<r.key, old.ts>>, r.ts)
        own == IF r.live THEN 0 ELSE 12 + KeyLen[r.key]
    IN  /\ phase = "restoring" /\ RecordLeft
        /\ \/ /\ SpaceRefused
              /\ deleted' = deleted + own
              /\ UNCHANGED <<mem, numStoredKeys, checksum>>
           \/ /\ SpaceChecked /\ ~found
              /\ deleted' = deleted + own
              /\ mem' = [mem EXCEPT ![i] = [hash |-> h, idx |-> pos]]
              /\ numStoredKeys' = numStoredKeys + 1
              /\ checksum' = SumTerm(checksum, <<r.key, r.ts>>, r.ts)
           \/ /\ SpaceChecked /\ found
              /\ deleted' = deleted + own + RecordLen(old)
              /\ mem' = IF r.live THEN [mem EXCEPT ![i] = [hash |-> h, idx |-> pos]]
                                  ELSE [mem EXCEPT ![i].hash = deletedBucket]
              /\ numStoredKeys' = numStoredKeys
              /\ checksum' = IF r.live THEN SumTerm(minusOld, <<r.key, r.ts>>, r.ts) ELSE minusOld
        /\ length' = length + RecordLen(r)
        /\ pos' = pos + 1
        /\ expand' = "no"
        /\ UNCHANGED <<phase, file, size, newMem, newStored, scan, ret>>

(* The loop ends at a key of length zero.  Reading that length takes the four bytes after
   the last record: the slice is out of range when the file ends sooner. *)
EndOpen ==
    /\ phase = "restoring" /\ ~RecordLeft
    /\ phase' = IF length + 4 > StoreSize THEN "panicked" ELSE "open"
    /\ file' = SubSeq(file, 1, pos - 1)
    /\ pos' = 0
    /\ UNCHANGED <<length, deleted, table, expansion, checksum, ret>>

Next ==
    \/ StartExpand \/ ExpandBucket \/ EndExpand
    \/ TableFull
    \/ \E k \in Keys, v \in Values, t \in Times : Set(k, v, t)
    \/ \E k \in Keys, pt \in Times \cup {0}, w \in Values :
            \/ CASMismatch(k, pt, ValHash[w])
            \/ \E v \in Values, t \in Times : CAS(k, pt, ValHash[w], v, t)
    \/ \E k \in Keys, t \in Times : Del(k, t)
    \/ \E now \in Times : Checksum(now)
    \/ Close \/ Crash \/ Open \/ RestorePair \/ EndOpen

Spec == Init /\ [][Next]_vars
-------------------------------------------------------------------------------------
(* Properties *)

StoreTypes ==
    /\ phase \in {"open", "closed", "restoring", "panicked"}
    /\ file \in Seq(Record) /\ pos \in 0 .. Len(file) + 1
    /\ length \in Nat /\ deleted \in Nat

TableTypes ==
    /\ size \in Nat \ {0} /\ numStoredKeys \in Nat
    /\ mem \in [0 .. size - 1 -> Bucket]

ExpandTypes ==
    /\ expand \in {"no", "running", "done"}
    /\ scan \in 0 .. size /\ newStored \in Nat
    /\ newMem \in [IF expand = "running" THEN 0 .. 2 * size - 1 ELSE {} -> Bucket]

Sums == [newChecksum : [Terms -> Int], mediumChecksum : [Terms -> Int],
         oldChecksum : [Terms -> Int], newTime : Int, mediumTime : Int, oldTime : Int]

(* Types; an index in use is a record of the file; the table being filled has its size. *)
TypeOK ==
    /\ StoreTypes /\ TableTypes /\ ExpandTypes
    /\ checksum \in Sums
    /\ ret \in Results
    /\ \A i \in DOMAIN mem : mem[i].hash # emptyBucket => mem[i].idx \in DOMAIN file

(* Every probing loop ends (Get, Set, CAS, Del, restorePair, expand): the load factor, the
   test for it before a bucket is taken and the recount in expand always leave an empty
   bucket in the table searched. *)
ProbesEnd ==
    /\ \E i \in DOMAIN mem : mem[i].hash = emptyBucket
    /\ expand = "running" => \E i \in DOMAIN newMem : newMem[i].hash = emptyBucket

(* The last record of k in the file decides what a restart makes of k. *)
FileView(k) ==
    LET I == {i \in DOMAIN file : file[i].key = k}
        l == CHOOSE i \in I : \A j \in I : j <= i
    IN  IF I = {} THEN Absent
        ELSE IF file[l].live THEN [ts |-> file[l].ts, val |-> file[l].val] ELSE Absent

(* The map is a last-writer-wins dictionary that survives restarts, whatever collides,
   expands, is deleted and set again, or is restored: see LWWMap. *)
Dictionary == INSTANCE LWWMap WITH
    dict <- [k \in Keys |-> IF phase = "open" THEN Get(k) ELSE Absent],
    disk <- [k \in Keys |-> FileView(k)],
    up <- phase = "open"
RefinesLWWMap == Dictionary!Spec

(* newChecksum is the sum over the pairs the map holds. *)
ChecksumExact ==
    \A k \in Keys : \A t \in Times \cup {0} :
        checksum.newChecksum[<<k, t>>] = IF t # 0 /\ Get(k).ts = t THEN 1 ELSE 0

(* No step that does not report an error makes the checksum differ from the contents: not
   a write, an expansion, a deletion nor the replay of a file full of old records. *)
SuccessKeepsChecksum == [][ChecksumExact /\ ~ret'.err => ChecksumExact']_vars

(* Iterate and BackwardsIterate, that feed defragmentation, transfer and repair, visit the
   current record of every key and no record of a deleted pair. *)
IterateComplete ==
    phase = "open" =>
        /\ \A k \in Keys : Get(k) # Absent =>
               \E i \in Iterated : file[i] = PairRecord(k, Get(k).val, Get(k).ts)
        /\ \A i \in Iterated : file[i].live /\ FileView(file[i].key) # Absent

(* The bytes of the records of the pairs the map holds, those of k as <<k, 1>>, <<k, 2>> ... *)
HeldBytes ==
    UNION {{k} \X (1 .. RecordLen(PairRecord(k, Get(k).val, Get(k).ts))) :
               k \in {k \in Keys : Get(k) # Absent}}

(* store.deleted never counts a byte twice nor a byte of a pair the map still holds, so
   the defragmenter's estimate of what it can reclaim is never too high. *)
DeletedIsGarbage == phase = "open" => deleted + Cardinality(HeldBytes) <= length

(* Get finds every pair that a bucket of the table holds. *)
FindsStored ==
    \A i \in DOMAIN mem : mem[i].hash > deletedBucket =>
        LET r == file[mem[i].idx] IN Get(r.key) = [ts |-> r.ts, val |-> r.val]
=====================================================================================

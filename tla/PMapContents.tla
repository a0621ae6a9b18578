-------------------------------- MODULE PMapContents --------------------------------
(***************************************************************************)
(* What the chunk map holds, for any keys, hashes, sizes and limits.  From *)
(* Table and Contents: the map is a last-writer-wins dictionary whose      *)
(* iteration is complete and whose checksum is the sum over the pairs it   *)
(* holds, and store.deleted counts no byte of a record in use.             *)
(***************************************************************************)
EXTENDS PMapTable
-------------------------------------------------------------------------------------
(* The file *)

(* FileView, of any records f. *)
ViewIn(f, k) ==
    LET I == {i \in DOMAIN f : f[i].key = k}
        l == CHOOSE i \in I : \A j \in I : j <= i
    IN  IF I = {} THEN Absent
        ELSE IF f[l].live THEN [ts |-> f[l].ts, val |-> f[l].val] ELSE Absent

LEMMA ViewLast ==
    ASSUME NEW f \in Seq(Record), NEW x, Last(f, x, Len(f)), NEW k, f[x].key = k
    PROVE  ViewIn(f, k) = IF f[x].live THEN View(f[x]) ELSE Absent
<1> DEFINE I == {i \in DOMAIN f : f[i].key = k}
           l == CHOOSE i \in I : \A j \in I : j <= i
<1>1. x \in I /\ (\A j \in I : j <= x) /\ I \subseteq Nat
  BY DEF Last
<1>2. l \in I /\ \A j \in I : j <= l
  BY <1>1, Zenon
<1>3. l = x
  <2>1. l \in Nat /\ x \in Nat /\ l <= x /\ x <= l
    BY <1>1, <1>2, Zenon
  <2>2. QED
    BY <2>1
<1>4. I # {}
  BY <1>1, Zenon
<1>5. ViewIn(f, k) = IF I = {} THEN Absent
                     ELSE IF f[l].live THEN [ts |-> f[l].ts, val |-> f[l].val] ELSE Absent
  BY Zenon DEF ViewIn
<1>6. QED
  BY <1>3, <1>4, <1>5, Zenon DEF View

LEMMA ViewNone ==
    ASSUME NEW f \in Seq(Record), NEW k, \A i \in 1 .. Len(f) : f[i].key # k
    PROVE  ViewIn(f, k) = Absent
<1>1. {i \in DOMAIN f : f[i].key = k} = {}
  OBVIOUS
<1>2. QED
  BY <1>1, Zenon DEF ViewIn

(* A pair in use is not what Get returns for an absent one. *)
LEMMA HeldPair ==
    ASSUME Base, Contents, NEW x \in held
    PROVE  /\ file[x].live /\ file[x].ts \in Times /\ file[x].ts \in Nat /\ file[x].ts # 0
           /\ View(file[x]) # Absent /\ View(file[x]).ts = file[x].ts
<1>1. x \in 1 .. Len(file) /\ file[x].live
  BY HeldRecords, Zenon DEF Contents, Kept
<1>2. file[x].ts \in Times
  BY <1>1, Zenon DEF Contents, FileShape, Recorded
<1>3. file[x].ts \in Nat /\ file[x].ts # 0
  BY <1>2, TimeAssumption, Zenon
<1>4. View(file[x]).ts = file[x].ts /\ Absent.ts = 0
  BY Zenon DEF View, Absent
<1>5. QED
  BY <1>1, <1>2, <1>3, <1>4, Zenon

(* Iterate hands over the current record of every key and no record of a deleted pair:
   IterateComplete. *)
THEOREM IterationComplete ==
    ASSUME PlainHashes, NonemptyKeys, RoomyTable
    PROVE  Spec => []IterateComplete
<1>1. Base /\ Lookup /\ Contents => IterateComplete
  <2>1. SUFFICES ASSUME Base, Lookup, Contents, phase = "open"
                 PROVE  /\ \A k \in Keys : Get(k) # Absent =>
                             \E i \in Iterated : file[i] = PairRecord(k, Get(k).val, Get(k).ts)
                        /\ \A i \in Iterated : file[i].live /\ FileView(file[i].key) # Absent
    BY Zenon DEF IterateComplete
  <2>2. Known = Len(file) /\ file \in Seq(Record) /\ DOMAIN file = 1 .. Len(file)
    BY <2>1, RoomTypes, SMTT(30) DEF Known
  <2>3. \A k \in Keys : Get(k) # Absent =>
            \E x \in held : file[x].key = k /\ Get(k) = View(file[x])
    BY <2>1, Zenon DEF Lookup
  <2>4. ASSUME NEW k \in Keys, Get(k) # Absent
        PROVE  \E i \in Iterated : file[i] = PairRecord(k, Get(k).val, Get(k).ts)
    <3>1. PICK x \in held : file[x].key = k /\ Get(k) = View(file[x])
      BY <2>3, <2>4, Zenon
    <3>2. x \in 1 .. Len(file) /\ file[x] \in Record
      BY <2>1, HeldRecords, Zenon
    <3>3. file[x].live /\ View(file[x]).ts = file[x].ts
      BY <2>1, HeldPair, Zenon
    <3>4. x \in Iterated
      BY <2>2, <2>4, <3>1, <3>2, <3>3, Zenon DEF Iterated, isPresent
    <3>5. file[x] = PairRecord(k, Get(k).val, Get(k).ts)
      <4>1. Get(k).ts = file[x].ts /\ Get(k).val = file[x].val
        BY <3>1 DEF View
      <4>2. file[x].live = TRUE
        BY <3>2, <3>3, Zenon DEF Record
      <4>3. QED
        BY <3>1, <3>2, <4>1, <4>2, Zenon DEF PairRecord, Record
    <3>6. QED
      BY <3>4, <3>5, Zenon
  <2>5. ASSUME NEW i \in Iterated PROVE file[i].live /\ FileView(file[i].key) # Absent
    <3>1. PICK k : k = file[i].key
      BY Zenon
    <3>2. i \in 1 .. Len(file) /\ Get(k) # Absent /\ Get(k).ts = file[i].ts
      BY <2>2, <3>1, Zenon DEF Iterated, isPresent
    <3>3. k \in Keys
      <4>1. file[i] \in Record
        BY <2>2, <3>2, SMTT(30)
      <4>2. QED
        BY <3>1, <4>1, Zenon DEF Record
    <3>4. PICK x \in held : file[x].key = k /\ Get(k) = View(file[x])
      BY <2>3, <3>2, <3>3, Zenon
    <3>5. file[x].live /\ file[x].ts # 0 /\ View(file[x]).ts = file[x].ts /\ View(file[x]) # Absent
      BY <2>1, HeldPair, Zenon
    <3>6. file[i].live
      <4>1. file[i].ts # 0
        BY <3>2, <3>4, <3>5, Zenon
      <4>2. QED
        BY <2>1, <3>2, <4>1, Zenon DEF Contents, FileShape, Recorded
    <3>7. Last(file, x, Len(file))
      BY <2>1, <2>2, Zenon DEF Contents, Kept
    <3>8. ViewIn(file, k) = View(file[x])
      BY <2>2, <3>4, <3>5, <3>7, ViewLast, Zenon
    <3>9. FileView(k) = ViewIn(file, k)
      BY Zenon DEF FileView, ViewIn
    <3>10. QED
      BY <3>1, <3>5, <3>6, <3>8, <3>9, Zenon
  <2>6. QED
    BY <2>4, <2>5, Zenon
<1>2. QED
  BY <1>1, BaseInvariant, LookupInvariant, ContentsInvariant, PTL
-------------------------------------------------------------------------------------
(* What each effect does to what Get returns *)

(* Key k has the same record in use before and after. *)
LEMMA GetKeeps ==
    ASSUME Lookup, Lookup', NEW k \in Keys,
           \A x \in held : file[x].key = k => x \in held' /\ file'[x] = file[x],
           (\A x \in held : file[x].key # k) => \A x \in held' : file'[x].key # k
    PROVE  Get(k)' = Get(k)
<1>1. CASE \E x \in held : file[x].key = k
  <2>1. PICK x \in held : file[x].key = k
    BY <1>1, Zenon
  <2>2. x \in held' /\ file'[x] = file[x]
    BY <2>1, Zenon
  <2>3. Get(k) = View(file[x])
    BY <2>1, Zenon DEF Lookup
  <2>4. Get(k)' = View(file'[x])
    BY <2>1, <2>2, Zenon DEF Lookup
  <2>5. QED
    BY <2>2, <2>3, <2>4, Zenon
<1>2. CASE \A x \in held : file[x].key # k
  <2>1. Get(k) = Absent
    BY <1>2, Zenon DEF Lookup
  <2>2. Get(k)' = Absent
    BY <1>2, Zenon DEF Lookup
  <2>3. QED
    BY <2>1, <2>2, Zenon
<1>3. QED
  BY <1>1, <1>2, Zenon

LEMMA SameGets ==
    ASSUME Lookup, Lookup', file' = file, held' = held
    PROVE  \A k \in Keys : Get(k)' = Get(k)
<1>1. SUFFICES ASSUME NEW k \in Keys PROVE Get(k)' = Get(k)
  BY Zenon
<1>2. QED
  BY GetKeeps, Zenon

(* Record n of key k comes into use. *)
LEMMA PlacedGets ==
    ASSUME Base, Lookup, Lookup', \A x \in held : file'[x] = file[x],
           NEW k \in Keys, NEW n, held' = Without(k) \cup {n}, file'[n].key = k
    PROVE  /\ Get(k)' = View(file'[n])
           /\ \A j \in Keys \ {k} : Get(j)' = Get(j)
<1>1. Get(k)' = View(file'[n])
  BY Zenon DEF Lookup
<1>2. ASSUME NEW j \in Keys \ {k} PROVE Get(j)' = Get(j)
  <2>1. \A x \in held : file[x].key = j => x \in held' /\ file'[x] = file[x]
    BY Zenon DEF Without
  <2>2. (\A x \in held : file[x].key # j) => \A x \in held' : file'[x].key # j
    BY Zenon DEF Without
  <2>3. QED
    BY <2>1, <2>2, GetKeeps, Zenon
<1>3. QED
  BY <1>1, <1>2, Zenon

(* The record of key k goes out of use. *)
LEMMA RemovedGets ==
    ASSUME Base, Lookup, Lookup', \A x \in held : file'[x] = file[x],
           NEW k \in Keys, held' = Without(k)
    PROVE  /\ Get(k)' = Absent
           /\ \A j \in Keys \ {k} : Get(j)' = Get(j)
<1>1. \A x \in held' : file'[x].key # k
  BY Zenon DEF Without
<1>2. Get(k)' = Absent
  BY <1>1, Zenon DEF Lookup
<1>3. ASSUME NEW j \in Keys \ {k} PROVE Get(j)' = Get(j)
  <2>1. \A x \in held : file[x].key = j => x \in held' /\ file'[x] = file[x]
    BY Zenon DEF Without
  <2>2. (\A x \in held : file[x].key # j) => \A x \in held' : file'[x].key # j
    BY Zenon DEF Without
  <2>3. QED
    BY <2>1, <2>2, GetKeeps, Zenon
<1>4. QED
  BY <1>2, <1>3, Zenon

LEMMA WritesGets ==
    ASSUME NonemptyKeys, Base, Lookup, Lookup',
           NEW k \in Keys, NEW v \in Values, NEW t \in Times, Writes(k, v, t)
    PROVE  /\ Get(k)' = [ts |-> t, val |-> v]
           /\ \A j \in Keys \ {k} : Get(j)' = Get(j)
<1>1. PICK r, n : r = PairRecord(k, v, t) /\ n = Len(file) + 1
  BY Zenon
<1>2. r \in Record /\ r.key = k /\ View(r) = [ts |-> t, val |-> v]
  BY <1>1, Zenon DEF PairRecord, Record, View
<1>3. phase = "open" /\ phase' = phase /\ put(r) /\ held' = Without(k) \cup {n}
  BY <1>1, Zenon DEF Writes
<1>4. file'[n] = r /\ \A q \in 1 .. Len(file) : file'[q] = file[q]
  BY <1>1, <1>2, <1>3, PutFacts, Zenon
<1>5. \A x \in held : file'[x] = file[x]
  BY <1>4, HeldRecords, Zenon
<1>6. file'[n].key = k
  BY <1>2, <1>4, Zenon
<1>7. QED
  BY <1>2, <1>3, <1>4, <1>5, <1>6, PlacedGets, Zenon

LEMMA DeletesGets ==
    ASSUME NonemptyKeys, Base, Lookup, Lookup', NEW k \in Keys, NEW t \in Times, Deletes(k, t)
    PROVE  /\ Get(k)' = Absent
           /\ \A j \in Keys \ {k} : Get(j)' = Get(j)
<1>1. PICK r : r = Tombstone(k)
  BY Zenon
<1>2. r \in Record
  BY <1>1, ValuesAssumption, Zenon DEF Tombstone, Record
<1>3. /\ phase = "open" /\ phase' = phase /\ held' = Without(k)
      /\ UNCHANGED store \/ put(r)
  BY <1>1, Zenon DEF Deletes
<1>4. \A q \in 1 .. Len(file) : file'[q] = file[q]
  <2>1. CASE UNCHANGED store
    BY <2>1, Zenon DEF store
  <2>2. CASE put(r)
    BY <1>2, <1>3, <2>2, PutFacts, Zenon
  <2>3. QED
    BY <1>3, <2>1, <2>2, Zenon
<1>5. \A x \in held : file'[x] = file[x]
  BY <1>4, HeldRecords, Zenon
<1>6. QED
  BY <1>3, <1>5, RemovedGets, Zenon
-------------------------------------------------------------------------------------
(* The checksum *)

(* Sum c counts, for each key, the pair with the timestamp that g gives the key. *)
Counts(c, g) ==
    \A j \in Keys : \A t \in Times \cup {0} : c[<<j, t>>] = IF t # 0 /\ g[j] = t THEN 1 ELSE 0

stamps == [j \in Keys |-> Get(j).ts]

(* A record restored brings its pair into use, or takes the one it deletes out of use. *)
LEMMA RestoresKinds ==
    ASSUME RoomyTable, Base, Contents, NEW r, Restores(r)
    PROVE  /\ r \in Record /\ r.key \in Keys /\ r.ts \in Nat /\ file' = file /\ r = file'[pos]
           /\ (\A x \in held : file[x].key # r.key) => r.live
           /\ \/ /\ r.ts \in Times /\ SumsWrite(r.key, r.ts)
                 /\ held' = Without(r.key) \cup {pos}
              \/ /\ held' = Without(r.key)
                 /\ \E x \in held :
                       /\ file[x].key = r.key
                       /\ checksum' = SubTerm(checksum, <<r.key, file[x].ts>>, r.ts)
<1>1. /\ phase = "restoring" /\ pos \in 1 .. Len(file) /\ r = file[pos] /\ file' = file
  BY Zenon DEF Restores
<1>2. r \in Record /\ Known = pos - 1
  BY <1>1, RoomTypes DEF Known
<1>3. r.key \in Keys /\ r.ts \in Nat
  <2>1. r.key \in Keys /\ r.ts \in Times \cup {0}
    BY <1>2, Zenon DEF Record
  <2>2. \A t \in Times \cup {0} : t \in Nat
    BY TimeAssumption
  <2>3. QED
    BY <2>1, <2>2, Zenon
<1>4. Recorded(file, pos)
  BY <1>1, Zenon DEF Contents, FileShape
<1>5. r.live => r.ts \in Times
  BY <1>1, <1>4, Zenon DEF Recorded
<1>6. ~SpaceRefused
  BY NeverRefused, Zenon
<1>7. ASSUME \A x \in held : file[x].key # r.key PROVE r.live
  <2>1. SUFFICES ASSUME ~r.live PROVE FALSE
    BY Zenon
  <2>2. PICK x \in 1 .. pos - 1 : file[x].live /\ file[x].key = r.key /\ Last(file, x, pos - 1)
    BY <1>1, <1>4, <2>1, Zenon DEF Recorded
  <2>3. x \in held
    BY <1>1, <1>2, <2>2, Zenon DEF Contents, Complete
  <2>4. QED
    BY <1>7, <2>2, <2>3, Zenon
<1>8. QED
  BY <1>1, <1>2, <1>3, <1>5, <1>6, <1>7, Zenon DEF Restores, SumsWrite

(* No effect without an error takes the checksum away from the sum over the pairs held. *)
LEMMA EffectExact ==
    NonemptyKeys /\ RoomyTable /\ Base /\ Lookup /\ Lookup' /\ Contents /\ Effect
        /\ ChecksumExact /\ ~ret'.err
        => ChecksumExact'
<1>ExactCounts.
    ChecksumExact <=> Counts(checksum.newChecksum, stamps)
  BY Zenon DEF ChecksumExact, Counts, stamps
<1>AddAt.
    ASSUME NEW c \in [Terms -> Int], NEW k \in Keys, NEW s \in Times \cup {0}, NEW n \in Int,
           NEW d, d = AddTo(c, <<k, s>>, n)
    PROVE  /\ d \in [Terms -> Int] /\ <<k, s>> \in Terms
           /\ \A j \in Keys : \A t \in Times \cup {0} :
                  d[<<j, t>>] = IF j = k /\ t = s THEN c[<<j, t>>] + n ELSE c[<<j, t>>]
  <2> USE <1>AddAt
  <2>1. \A j \in Keys : \A t \in Times \cup {0} : <<j, t>> \in Terms
    BY Zenon DEF Terms
  <2>2. PICK x \in Terms : x = <<k, s>>
    BY <2>1, Zenon
  <2>3. d = [c EXCEPT ![x] = @ + n]
    BY <2>2, Zenon DEF AddTo
  <2>4. d \in [Terms -> Int]
    BY <2>3
  <2>5. ASSUME NEW j \in Keys, NEW t \in Times \cup {0}
        PROVE  d[<<j, t>>] = IF j = k /\ t = s THEN c[<<j, t>>] + n ELSE c[<<j, t>>]
    <3>1. PICK y \in Terms : y = <<j, t>>
      BY <2>1, Zenon
    <3>2. d[y] = IF y = x THEN c[y] + n ELSE c[y]
      BY <2>3, Zenon
    <3>3. y = x <=> j = k /\ t = s
      BY <2>2, <3>1, Zenon
    <3>4. QED
      BY <3>1, <3>2, <3>3, Zenon
  <2>6. QED
    BY <2>1, <2>4, <2>5, Zenon
(* A pair of a key without one is added. *)
<1>CountsAdded.
    ASSUME NEW c \in [Terms -> Int], NEW g, NEW h, Counts(c, g), NEW k \in Keys, NEW s \in Times,
           g[k] = 0, h[k] = s, \A j \in Keys \ {k} : h[j] = g[j],
           NEW d, d = AddTo(c, <<k, s>>, 1)
    PROVE  Counts(d, h)
  <2> USE <1>CountsAdded
  <2>1. s \in Times \cup {0} /\ s # 0 /\ 1 \in Int
    BY TimeAssumption
  <2>2. SUFFICES ASSUME NEW j \in Keys, NEW t \in Times \cup {0}
                 PROVE  d[<<j, t>>] = IF t # 0 /\ h[j] = t THEN 1 ELSE 0
    BY Zenon DEF Counts
  <2>3. PICK n : n = c[<<j, t>>]
    BY Zenon
  <2>4. d[<<j, t>>] = IF j = k /\ t = s THEN n + 1 ELSE n
    BY <2>1, <2>3, <1>AddAt, SMTT(30)
  <2>5. n = IF t # 0 /\ g[j] = t THEN 1 ELSE 0
    BY <2>3, Zenon DEF Counts
  <2>6. QED
    BY <2>1, <2>4, <2>5, SMTT(30)
(* The pair of a key is taken out. *)
<1>CountsRemoved.
    ASSUME NEW c \in [Terms -> Int], NEW g, NEW h, Counts(c, g), NEW k \in Keys,
           g[k] \in Times, h[k] = 0, \A j \in Keys \ {k} : h[j] = g[j],
           NEW d, d = AddTo(c, <<k, g[k]>>, -1)
    PROVE  d \in [Terms -> Int] /\ Counts(d, h)
  <2> USE <1>CountsRemoved
  <2>1. g[k] \in Times \cup {0} /\ g[k] # 0 /\ -1 \in Int
    BY TimeAssumption, SMTT(30)
  <2>2. d \in [Terms -> Int]
    BY <2>1, <1>AddAt, SMTT(30)
  <2>3. ASSUME NEW j \in Keys, NEW t \in Times \cup {0}
        PROVE  d[<<j, t>>] = IF t # 0 /\ h[j] = t THEN 1 ELSE 0
    <3>1. PICK n : n = c[<<j, t>>]
      BY Zenon
    <3>2. d[<<j, t>>] = IF j = k /\ t = g[k] THEN n + (-1) ELSE n
      BY <2>1, <3>1, <1>AddAt, SMTT(30)
    <3>3. n = IF t # 0 /\ g[j] = t THEN 1 ELSE 0
      BY <3>1, Zenon DEF Counts
    <3>4. QED
      BY <2>1, <3>2, <3>3, SMTT(30)
  <2>4. QED
    BY <2>2, <2>3, Zenon DEF Counts
<1>CountsReplaced.
    ASSUME NEW c \in [Terms -> Int], NEW g, NEW h, Counts(c, g), NEW k \in Keys, NEW s \in Times,
           g[k] \in Times, h[k] = s, \A j \in Keys \ {k} : h[j] = g[j],
           NEW d, d = AddTo(AddTo(c, <<k, g[k]>>, -1), <<k, s>>, 1)
    PROVE  Counts(d, h)
  <2> USE <1>CountsReplaced
  <2>1. PICK e, w : e = AddTo(c, <<k, g[k]>>, -1) /\ w = [j \in Keys |-> IF j = k THEN 0 ELSE g[j]]
    BY Zenon
  <2>2. w[k] = 0 /\ \A j \in Keys \ {k} : w[j] = g[j]
    BY <2>1, Zenon
  <2>3. e \in [Terms -> Int] /\ Counts(e, w)
    BY <2>1, <2>2, <1>CountsRemoved, Zenon
  <2>4. d = AddTo(e, <<k, s>>, 1) /\ \A j \in Keys \ {k} : h[j] = w[j]
    BY <2>1, <2>2, Zenon
  <2>5. QED
    BY <2>2, <2>3, <2>4, <1>CountsAdded, Zenon
<1>StampOf.
    ASSUME Base, Lookup, Contents, NEW k \in Keys
    PROVE  /\ \A x \in held : file[x].key = k => stamps[k] = file[x].ts /\ stamps[k] \in Times
           /\ (\A x \in held : file[x].key # k) => stamps[k] = 0
  <2> USE <1>StampOf
  <2>1. stamps[k] = Get(k).ts
    BY Zenon DEF stamps
  <2>2. ASSUME NEW x \in held, file[x].key = k PROVE stamps[k] = file[x].ts /\ stamps[k] \in Times
    <3>1. Get(k) = View(file[x])
      BY <2>2, Zenon DEF Lookup
    <3>2. QED
      BY <2>1, <3>1, HeldPair, Zenon
  <2>3. ASSUME \A x \in held : file[x].key # k PROVE stamps[k] = 0
    <3>1. Get(k) = Absent
      BY <2>3, Zenon DEF Lookup
    <3>2. Absent.ts = 0
      BY Zenon DEF Absent
    <3>3. QED
      BY <2>1, <3>1, <3>2, Zenon
  <2>4. QED
    BY <2>2, <2>3, Zenon
<1>SumTypes.
    ASSUME Base PROVE checksum \in Sums /\ checksum.newChecksum \in [Terms -> Int]
  BY <1>SumTypes, Zenon DEF Base, Outer, Sums
(* The pair of key k now has time s and the checksum was told so. *)
<1>PlacedExact.
    ASSUME Base, Lookup, Contents, ChecksumExact, NEW k \in Keys, NEW s \in Times,
           SumsWrite(k, s), Get(k)'.ts = s, \A j \in Keys \ {k} : Get(j)' = Get(j)
    PROVE  ChecksumExact'
  <2> USE <1>PlacedExact
  <2>1. PICK c, d, g, h : /\ c = checksum.newChecksum /\ d = checksum'.newChecksum
                          /\ g = stamps /\ h = stamps'
    BY Zenon
  <2>2. c \in [Terms -> Int] /\ Counts(c, g) /\ s \in Nat /\ s \in Times \cup {0}
    BY <2>1, <1>SumTypes, <1>ExactCounts, TimeAssumption, Zenon
  <2>3. h[k] = s /\ \A j \in Keys \ {k} : h[j] = g[j]
    BY <2>1, Zenon DEF stamps
  <2>4. <<k, s>> \in Terms
    BY <2>2, Zenon DEF Terms
  <2>5. Counts(d, h)
    <3>1. CASE /\ \A x \in held : file[x].key # k
               /\ checksum' = SumTerm(checksum, <<k, s>>, s)
      <4>1. g[k] = 0
        BY <2>1, <3>1, <1>StampOf, Zenon
      <4>2. d = AddTo(c, <<k, s>>, 1)
        BY <2>1, <2>2, <2>4, <3>1, <1>SumTypes, SumFacts, Zenon
      <4>3. QED
        BY ONLY <2>2, <2>3, <4>1, <4>2, k \in Keys, s \in Times, <1>CountsAdded, Zenon
    <3>2. CASE \E x \in held :
                  /\ file[x].key = k
                  /\ checksum' = SumTerm(SubTerm(checksum, <<k, file[x].ts>>, s), <<k, s>>, s)
      <4>1. PICK x \in held :
                  /\ file[x].key = k
                  /\ checksum' = SumTerm(SubTerm(checksum, <<k, file[x].ts>>, s), <<k, s>>, s)
        BY <3>2, Zenon
      <4>2. g[k] = file[x].ts /\ g[k] \in Times
        BY <2>1, <4>1, <1>StampOf, Zenon
      <4>3. PICK o, m : o = <<k, g[k]>> /\ m = SubTerm(checksum, o, s)
        BY Zenon
      <4>4. o \in Terms
        BY <4>2, <4>3, Zenon DEF Terms
      <4>5. m \in Sums /\ m.newChecksum = AddTo(c, o, -1)
        BY <2>1, <2>2, <4>3, <4>4, <1>SumTypes, SumFacts, Zenon
      <4>6. checksum' = SumTerm(m, <<k, s>>, s)
        BY <4>1, <4>2, <4>3, Zenon
      <4>7. checksum'.newChecksum = AddTo(m.newChecksum, <<k, s>>, 1)
        BY <2>2, <2>4, <4>5, <4>6, SumFacts, Zenon
      <4>8. d = AddTo(AddTo(c, <<k, g[k]>>, -1), <<k, s>>, 1)
        BY <2>1, <4>3, <4>5, <4>7, Zenon
      <4>9. QED
        BY ONLY <2>2, <2>3, <4>2, <4>8, k \in Keys, s \in Times, <1>CountsReplaced, Zenon
    <3>3. QED
      BY <3>1, <3>2, Zenon DEF SumsWrite
  <2>6. (ChecksumExact <=> Counts(checksum.newChecksum, stamps))'
    BY <1>ExactCounts, PTL
  <2>7. QED
    BY <2>1, <2>5, <2>6, Zenon
(* The pair of key k is gone and the checksum was told so, at time s. *)
<1>RemovedExact.
    ASSUME Base, Lookup, Contents, ChecksumExact, NEW k \in Keys, NEW s \in Nat, NEW x \in held,
           file[x].key = k, checksum' = SubTerm(checksum, <<k, file[x].ts>>, s),
           Get(k)' = Absent, \A j \in Keys \ {k} : Get(j)' = Get(j)
    PROVE  ChecksumExact'
  <2> USE <1>RemovedExact
  <2>1. PICK c, d, g, h : /\ c = checksum.newChecksum /\ d = checksum'.newChecksum
                          /\ g = stamps /\ h = stamps'
    BY Zenon
  <2>2. c \in [Terms -> Int] /\ Counts(c, g)
    BY <2>1, <1>SumTypes, <1>ExactCounts, Zenon
  <2>3. h[k] = 0 /\ \A j \in Keys \ {k} : h[j] = g[j]
    <3>1. Absent.ts = 0
      BY Zenon DEF Absent
    <3>2. QED
      BY <2>1, <3>1, Zenon DEF stamps
  <2>4. g[k] = file[x].ts /\ g[k] \in Times
    BY <2>1, <1>StampOf, Zenon
  <2>5. <<k, g[k]>> \in Terms
    BY <2>4, Zenon DEF Terms
  <2>6. checksum' = SubTerm(checksum, <<k, g[k]>>, s)
    BY <2>4, Zenon
  <2>7. d = AddTo(c, <<k, g[k]>>, -1)
    BY <2>1, <2>5, <2>6, <1>SumTypes, SumFacts, SMTT(30)
  <2>8. Counts(d, h)
    BY ONLY <2>2, <2>3, <2>4, <2>7, k \in Keys, <1>CountsRemoved, Zenon
  <2>9. (ChecksumExact <=> Counts(checksum.newChecksum, stamps))'
    BY <1>ExactCounts, PTL
  <2>10. QED
    BY <2>1, <2>8, <2>9, Zenon
<1>SameExact.
    ASSUME ChecksumExact, checksum'.newChecksum = checksum.newChecksum,
           \A k \in Keys : Get(k)' = Get(k)
    PROVE  ChecksumExact'
  BY <1>SameExact, Zenon DEF ChecksumExact
<1>RestoresExact.
    ASSUME RoomyTable, Base, Lookup, Lookup', Contents, ChecksumExact, NEW r, Restores(r)
    PROVE  ChecksumExact'
  <2> USE <1>RestoresExact
  <2>1. /\ r \in Record /\ r.key \in Keys /\ r.ts \in Nat /\ file' = file /\ r = file'[pos]
    BY RestoresKinds, Zenon
  <2>2. \A x \in held : file'[x] = file[x]
    BY <2>1, Zenon
  <2>3. ASSUME r.ts \in Times, SumsWrite(r.key, r.ts), held' = Without(r.key) \cup {pos}
        PROVE  ChecksumExact'
    <3>1. PICK k \in Keys : k = r.key
      BY <2>1, Zenon
    <3>2. file'[pos].key = k /\ held' = Without(k) \cup {pos}
      BY <2>1, <2>3, <3>1, Zenon
    <3>3. Get(k)' = View(file'[pos]) /\ \A j \in Keys \ {k} : Get(j)' = Get(j)
      BY <2>2, <3>2, PlacedGets, Zenon
    <3>4. View(r).ts = r.ts
      BY Zenon DEF View
    <3>5. Get(k)'.ts = r.ts /\ SumsWrite(k, r.ts)
      BY <2>1, <2>3, <3>1, <3>3, <3>4, Zenon
    <3>6. QED
      BY <2>3, <3>3, <3>5, <1>PlacedExact, Zenon
  <2>4. ASSUME held' = Without(r.key), NEW x \in held, file[x].key = r.key,
               checksum' = SubTerm(checksum, <<r.key, file[x].ts>>, r.ts)
        PROVE  ChecksumExact'
    <3>1. PICK k \in Keys : k = r.key
      BY <2>1, Zenon
    <3>2. /\ file[x].key = k /\ held' = Without(k)
          /\ checksum' = SubTerm(checksum, <<k, file[x].ts>>, r.ts)
      BY <2>4, <3>1, Zenon
    <3>3. Get(k)' = Absent /\ \A j \in Keys \ {k} : Get(j)' = Get(j)
      BY <2>2, <3>2, RemovedGets, Zenon
    <3>4. QED
      BY <2>1, <3>2, <3>3, <1>RemovedExact, Zenon
  <2>5. QED
    BY <2>3, <2>4, RestoresKinds, Zenon
<1>DownExact.
    ASSUME Lookup', Down, held' = {}
    PROVE  ChecksumExact'
  <2> USE <1>DownExact
  <2>1. checksum' = NewSyncChecksum(Terms)
    BY Zenon DEF Down
  <2>2. checksum'.newChecksum = [x \in Terms |-> 0]
    BY <2>1, Zenon DEF NewSyncChecksum
  <2>3. \A k \in Keys : Get(k)' = Absent
    BY Zenon DEF Lookup
  <2>4. ASSUME NEW k \in Keys, NEW t \in Times \cup {0}
        PROVE  checksum'.newChecksum[<<k, t>>] = IF t # 0 /\ Get(k)'.ts = t THEN 1 ELSE 0
    <3>1. <<k, t>> \in Terms
      BY Zenon DEF Terms
    <3>2. checksum'.newChecksum[<<k, t>>] = 0
      BY <2>2, <3>1, Zenon
    <3>3. Get(k)'.ts = 0
      <4>1. Absent.ts = 0
        BY Zenon DEF Absent
      <4>2. QED
        BY <2>3, <4>1, Zenon
    <3>4. QED
      BY <3>2, <3>3, Zenon
  <2>5. QED
    BY <2>4, Zenon DEF ChecksumExact
<1> SUFFICES ASSUME NonemptyKeys, RoomyTable, Base, Lookup, Lookup', Contents, Effect, ChecksumExact,
           ~ret'.err
             PROVE  ChecksumExact'
  BY Zenon
<1>1. CASE Quiet
  <2>1. file' = file /\ held' = held /\ checksum'.newChecksum = checksum.newChecksum
    BY <1>1, Zenon DEF Quiet
  <2>2. QED
    BY <2>1, SameGets, <1>SameExact, Zenon
<1>2. ASSUME NEW k \in Keys, NEW v \in Values, NEW t \in Times, Writes(k, v, t)
      PROVE  ChecksumExact'
  <2>1. Get(k)' = [ts |-> t, val |-> v] /\ \A j \in Keys \ {k} : Get(j)' = Get(j)
    BY <1>2, WritesGets, Zenon
  <2>2. Get(k)'.ts = t
    BY <2>1
  <2>3. SumsWrite(k, t)
    BY <1>2, Zenon DEF Writes
  <2>4. QED
    BY <2>1, <2>2, <2>3, <1>PlacedExact, Zenon
<1>3. ASSUME NEW k \in Keys, NEW t \in Times, Deletes(k, t)
      PROVE  ChecksumExact'
  <2>1. Get(k)' = Absent /\ \A j \in Keys \ {k} : Get(j)' = Get(j)
    BY <1>3, DeletesGets, Zenon
  <2>2. PICK x \in held : /\ file[x].key = k
                          /\ checksum' = SubTerm(checksum, <<k, file[x].ts>>, t)
    BY <1>3, Zenon DEF Deletes
  <2>3. t \in Nat
    BY TimeAssumption, Zenon
  <2>4. QED
    BY <2>1, <2>2, <2>3, <1>RemovedExact, Zenon
<1>4. CASE Down /\ held' = {}
  BY <1>4, <1>DownExact, Zenon
<1>5. CASE Open /\ held' = held
  <2>1. file' = file /\ checksum' = checksum
    BY <1>5, Zenon DEF Open, store
  <2>2. QED
    BY <1>5, <2>1, SameGets, <1>SameExact, Zenon
<1>6. CASE EndOpen /\ held' = held
  <2>1. file' = file /\ checksum' = checksum
    BY <1>6, EndOpenFacts, Zenon
  <2>2. QED
    BY <1>6, <2>1, SameGets, <1>SameExact, Zenon
<1>7. CASE Restores(file[pos])
  BY <1>7, <1>RestoresExact, Zenon
<1>8. QED
  BY <1>1, <1>2, <1>3, <1>4, <1>5, <1>6, <1>7, Zenon DEF Effect

(* A step that reports no error keeps the checksum the sum over the pairs the map holds:
   SuccessKeepsChecksum. *)
THEOREM ChecksumKept ==
    ASSUME PlainHashes, NonemptyKeys, RoomyTable
    PROVE  Spec => SuccessKeepsChecksum
<1>1. Base /\ Lookup /\ Lookup' /\ Contents /\ Effect =>
          (ChecksumExact /\ ~ret'.err => ChecksumExact')
  BY EffectExact, Zenon
<1>2. Base /\ Table /\ [Next]_vars => Effect
  BY StepEffect, Zenon
<1>3. QED
  BY <1>1, <1>2, BaseInvariant, TableInvariant, LookupInvariant, ContentsInvariant, PTL
  DEF Spec, SuccessKeepsChecksum
-------------------------------------------------------------------------------------
(* The map is a last-writer-wins dictionary *)

(* What PMap shows of itself as a LWWMap. *)
dictionary == [k \in Keys |-> IF phase = "open" THEN Get(k) ELSE Absent]
ondisk == [k \in Keys |-> FileView(k)]

LEMMA FileViewIn == \A k : FileView(k) = ViewIn(file, k)
BY Zenon DEF FileView, ViewIn

LEMMA InitRefines ==
    ASSUME Init, Base, Lookup
    PROVE  Dictionary!Init
<1>1. file = << >> /\ phase = "open" /\ ret = None /\ mem = NewMem(InitSize) /\ InitSize \in Nat \ {0}
  BY SizeAssumption, Zenon DEF Init
<1>2. held = {}
  BY <1>1, EmptySound, Zenon DEF held
<1>3. \A k \in Keys : Get(k) = Absent
  BY <1>2, Zenon DEF Lookup
<1>4. \A k \in Keys : FileView(k) = Absent
  <2>1. file \in Seq(Record) /\ Len(file) = 0
    BY <1>1
  <2>2. \A k : \A i \in 1 .. Len(file) : file[i].key # k
    BY <2>1
  <2>3. QED
    BY <2>1, <2>2, FileViewIn, ViewNone, Zenon
<1>5. dictionary = [k \in Keys |-> Absent] /\ ondisk = [k \in Keys |-> Absent]
  BY <1>1, <1>3, <1>4, Zenon DEF dictionary, ondisk
<1>6. Dictionary!Nothing = [k \in Keys |-> Absent]
  BY Zenon DEF Dictionary!Nothing, Dictionary!Absent, Absent
<1>7. QED
  BY <1>1, <1>5, <1>6, Zenon DEF Dictionary!Init, None, dictionary, ondisk

(* Every effect is a step of the dictionary, or none. *)
LEMMA EffectRefines ==
    PlainHashes /\ NonemptyKeys /\ Base /\ Base' /\ Lookup /\ Lookup' /\ Contents /\ Effect
        => [Dictionary!Next]_(Dictionary!vars)
(* A key that has a record has a last one. *)
<1>LastExists.
    ASSUME NEW f \in Seq(Record), NEW n \in 1 .. Len(f)
    PROVE  \E x \in 1 .. Len(f) : Last(f, x, Len(f)) /\ f[x].key = f[n].key
  <2> USE <1>LastExists
  <2> DEFINE N == Len(f)
             I == {i \in 1 .. N : f[i].key = f[n].key}
             S == {d \in 0 .. N : N - d \in I}
  <2>1. N \in Nat
    OBVIOUS
  <2>2. S \in SUBSET Nat /\ N - n \in S
    OBVIOUS
  <2>3. PICK m \in S : \A d \in S : m <= d
    BY <2>2, LeastElement, Zenon
  <2>4. N - m \in I /\ \A i \in I : i <= N - m
    <3>1. m \in 0 .. N /\ N - m \in I
      OBVIOUS
    <3>2. ASSUME NEW i \in I PROVE i <= N - m
      <4>1. N - i \in S
        BY <2>1
      <4>2. m <= N - i
        BY <2>3, <4>1, Zenon
      <4>3. QED
        BY <2>1, <3>1, <4>2, SMTT(30)
    <3>3. QED
      BY <3>1, <3>2, Zenon
  <2>5. Last(f, N - m, N)
    BY <2>4, Zenon DEF Last
  <2>6. QED
    BY <2>4, <2>5, Zenon
(* A record that is appended decides what a restart makes of its key, and of no other. *)
<1>ViewAppend.
    ASSUME NEW f, NEW r, NEW g, Appended(f, r, g), NEW k
    PROVE  ViewIn(g, k) = IF k = r.key THEN IF r.live THEN View(r) ELSE Absent
                                       ELSE ViewIn(f, k)
  <2> USE <1>ViewAppend
  <2>1. /\ f \in Seq(Record) /\ g \in Seq(Record) /\ Len(f) \in Nat /\ Len(g) = Len(f) + 1
        /\ \A x \in 1 .. Len(f) : g[x] = f[x]
        /\ g[Len(f) + 1] = r
    BY AppendFacts DEF Appended
  <2>2. CASE k = r.key
    <3>1. PICK x : x = Len(f) + 1
      BY Zenon
    <3>2. Last(g, x, Len(g)) /\ g[x].key = k /\ g[x] = r
      BY <2>1, <2>2, <3>1, LastOwn, Zenon
    <3>3. ViewIn(g, k) = IF g[x].live THEN View(g[x]) ELSE Absent
      BY <2>1, <3>2, ViewLast, Zenon
    <3>4. QED
      BY <2>2, <3>2, <3>3, Zenon
  <2>3. CASE k # r.key /\ \E n \in 1 .. Len(f) : f[n].key = k
    <3>1. PICK x \in 1 .. Len(f) : Last(f, x, Len(f)) /\ f[x].key = k
      <4>1. PICK n \in 1 .. Len(f) : f[n].key = k
        BY <2>3, Zenon
      <4>2. \E x \in 1 .. Len(f) : Last(f, x, Len(f)) /\ f[x].key = f[n].key
        BY <2>1, <1>LastExists, Zenon
      <4>3. QED
        BY <4>1, <4>2, Zenon
    <3>2. Last(g, x, Len(f)) /\ g[x] = f[x]
      BY <2>1, <3>1, LastSame, Zenon
    <3>3. g[Len(f) + 1].key # g[x].key
      BY <2>1, <2>3, <3>1, <3>2, Zenon
    <3>4. Last(g, x, Len(g))
      BY <2>1, <3>2, <3>3, LastMore, Zenon
    <3>5. ViewIn(g, k) = IF g[x].live THEN View(g[x]) ELSE Absent
      BY <2>1, <3>1, <3>2, <3>4, ViewLast, Zenon
    <3>6. ViewIn(f, k) = IF f[x].live THEN View(f[x]) ELSE Absent
      BY <2>1, <3>1, ViewLast, Zenon
    <3>7. QED
      BY <2>3, <3>2, <3>5, <3>6, Zenon
  <2>4. CASE k # r.key /\ \A n \in 1 .. Len(f) : f[n].key # k
    <3>1. \A n \in 1 .. Len(g) : g[n].key # k
      <4>1. \A n \in 1 .. Len(g) : n \in 1 .. Len(f) \/ n = Len(f) + 1
        BY <2>1
      <4>2. QED
        BY <2>1, <2>4, <4>1, Zenon
    <3>2. ViewIn(g, k) = Absent
      BY <2>1, <3>1, ViewNone, Zenon
    <3>3. ViewIn(f, k) = Absent
      BY <2>1, <2>4, ViewNone, Zenon
    <3>4. QED
      BY <2>4, <3>2, <3>3, Zenon
  <2>5. QED
    BY <2>2, <2>3, <2>4, Zenon
<1>OnDiskSame.
    ASSUME file' = file
    PROVE  ondisk' = ondisk
  BY <1>OnDiskSame, Zenon DEF ondisk, FileView
(* A function that changes at one place. *)
<1>ExceptAt.
    ASSUME NEW D, NEW d, NEW e, NEW k, NEW p, d = [j \in D |-> d[j]], e = [j \in D |-> e[j]],
           k \in D, e[k] = p, \A j \in D \ {k} : e[j] = d[j]
    PROVE  e = [d EXCEPT ![k] = p]
  <2> USE <1>ExceptAt
  <2>1. PICK f : f = [d EXCEPT ![k] = p]
    BY Zenon
  <2>2. f = [j \in D |-> f[j]] /\ \A j \in D : f[j] = e[j]
    BY <2>1, Zenon
  <2>3. QED
    BY <2>1, <2>2, Zenon
<1>DictionaryChange.
    ASSUME phase = "open", phase' = "open", NEW k \in Keys, NEW p, Get(k)' = p,
           \A j \in Keys \ {k} : Get(j)' = Get(j)
    PROVE  dictionary' = [dictionary EXCEPT ![k] = p] /\ dictionary[k] = Get(k)
  <2> USE <1>DictionaryChange
  <2>1. PICK d, e : d = dictionary /\ e = dictionary'
    BY Zenon
  <2>2. /\ d = [j \in Keys |-> d[j]] /\ e = [j \in Keys |-> e[j]]
        /\ e[k] = p /\ \A j \in Keys \ {k} : e[j] = d[j]
        /\ d[k] = Get(k)
    BY <2>1, Zenon DEF dictionary
  <2>3. e = [d EXCEPT ![k] = p]
    BY ONLY <2>2, k \in Keys, <1>ExceptAt, Zenon
  <2>4. QED
    BY <2>1, <2>2, <2>3, Zenon
<1>DictionarySame.
    ASSUME phase' = phase, \A j \in Keys : Get(j)' = Get(j)
    PROVE  dictionary' = dictionary
  BY <1>DictionarySame, Zenon DEF dictionary
(* A record is appended. *)
<1>OnDiskChange.
    ASSUME Base, NEW r \in Record, put(r), NEW p, p = IF r.live THEN View(r) ELSE Absent
    PROVE  ondisk' = [ondisk EXCEPT ![r.key] = p]
  <2> USE <1>OnDiskChange
  <2>1. PICK d, e, g, k : d = ondisk /\ e = ondisk' /\ g = file' /\ k = r.key
    BY Zenon
  <2>2. k \in Keys /\ file \in Seq(Record)
    BY <2>1, Zenon DEF Base, Outer, StoreTypes, Record
  <2>3. Appended(file, r, g)
    BY <2>1, <2>2, Zenon DEF put, Appended
  <2>4. \A j \in Keys : ViewIn(g, j) = IF j = k THEN p ELSE ViewIn(file, j)
    <3>1. SUFFICES ASSUME NEW j \in Keys
                   PROVE  ViewIn(g, j) = IF j = k THEN p ELSE ViewIn(file, j)
      BY Zenon
    <3>2. ViewIn(g, j) = IF j = r.key THEN IF r.live THEN View(r) ELSE Absent
                                      ELSE ViewIn(file, j)
      BY ONLY <2>3, <1>ViewAppend, SMTT(30)
    <3>3. QED
      BY <2>1, <3>2, Zenon
  <2>5. \A j : FileView(j)' = ViewIn(file', j)
    BY Zenon DEF FileView, ViewIn
  <2>6. /\ d = [j \in Keys |-> d[j]] /\ e = [j \in Keys |-> e[j]]
        /\ \A j \in Keys : d[j] = ViewIn(file, j) /\ e[j] = ViewIn(g, j)
    BY <2>1, <2>5, FileViewIn, Zenon DEF ondisk
  <2>7. e[k] = p /\ \A j \in Keys \ {k} : e[j] = d[j]
    BY <2>2, <2>4, <2>6, Zenon
  <2>8. e = [d EXCEPT ![k] = p]
    BY ONLY <2>2, <2>6, <2>7, <1>ExceptAt, Zenon
  <2>9. QED
    BY <2>1, <2>8, Zenon
<1>WritesRefines.
    ASSUME PlainHashes, NonemptyKeys, Base, Lookup, Lookup', Contents,
           NEW k \in Keys, NEW v \in Values, NEW t \in Times, Writes(k, v, t)
    PROVE  Dictionary!Next
  <2> USE <1>WritesRefines
  <2>1. PICK r, p : r = PairRecord(k, v, t) /\ p = [ts |-> t, val |-> v]
    BY Zenon
  <2>2. r \in Record /\ r.key = k /\ r.live /\ View(r) = p
    BY <2>1, Zenon DEF PairRecord, Record, View
  <2>3. phase = "open" /\ phase' = "open" /\ put(r)
    BY <2>1, Zenon DEF Writes
  <2>4. Get(k)' = p /\ \A j \in Keys \ {k} : Get(j)' = Get(j)
    BY <2>1, WritesGets, Zenon
  <2>5. dictionary' = [dictionary EXCEPT ![k] = p] /\ dictionary[k] = Get(k)
    BY <2>3, <2>4, <1>DictionaryChange, Zenon
  <2>6. ondisk' = [ondisk EXCEPT ![k] = p]
    BY <2>2, <2>3, <1>OnDiskChange, Zenon
  <2>7. CASE ret' = [op |-> "CAS", err |-> FALSE]
    <3>1. Dictionary!CAS(k, v, t)
      BY <2>1, <2>3, <2>5, <2>6, <2>7, Zenon
      DEF Dictionary!CAS, Dictionary!Returns, Dictionary!Store, dictionary, ondisk
    <3>2. QED
      BY <3>1, Zenon DEF Dictionary!Next
  <2>8. CASE /\ ret' = [op |-> "Set", err |-> FALSE]
             /\ \A x \in held : file[x].key = k => file[x].ts < t
    <3>1. Get(k).ts < t
      <4>1. CASE \E x \in held : file[x].key = k
        <5>1. PICK x \in held : file[x].key = k
          BY <4>1, Zenon
        <5>2. Get(k) = View(file[x]) /\ View(file[x]).ts = file[x].ts
          BY <5>1, HeldPair, Zenon DEF Lookup
        <5>3. QED
          BY <2>8, <5>1, <5>2, Zenon
      <4>2. CASE \A x \in held : file[x].key # k
        <5>1. Get(k) = Absent
          BY <4>2, Zenon DEF Lookup
        <5>2. Absent.ts = 0 /\ 0 < t
          BY TimeAssumption DEF Absent
        <5>3. QED
          BY <5>1, <5>2, Zenon
      <4>3. QED
        BY <4>1, <4>2, Zenon
    <3>2. dictionary[k].ts < t
      BY <2>5, <3>1, Zenon
    <3>3. Dictionary!Set(k, v, t)
      BY <2>1, <2>3, <2>5, <2>6, <2>8, <3>2, Zenon
      DEF Dictionary!Set, Dictionary!Returns, Dictionary!Store, dictionary, ondisk
    <3>4. QED
      BY <3>3, Zenon DEF Dictionary!Next
  <2>9. QED
    BY <2>7, <2>8, CASExpects, Zenon DEF Writes
<1>DeletesRefines.
    ASSUME NonemptyKeys, Base, Lookup, Lookup', Contents,
           NEW k \in Keys, NEW t \in Times, Deletes(k, t)
    PROVE  Dictionary!Next
  <2> USE <1>DeletesRefines
  <2>1. PICK r : r = Tombstone(k)
    BY Zenon
  <2>2. r \in Record /\ r.key = k /\ ~r.live
    BY <2>1, ValuesAssumption, Zenon DEF Tombstone, Record
  <2>3. phase = "open" /\ phase' = "open"
    BY Zenon DEF Deletes
  <2>4. Get(k)' = Absent /\ \A j \in Keys \ {k} : Get(j)' = Get(j)
    BY DeletesGets, Zenon
  <2>5. dictionary' = [dictionary EXCEPT ![k] = Absent] /\ dictionary[k] = Get(k)
    BY <2>3, <2>4, <1>DictionaryChange, Zenon
  <2>6. PICK x \in held : file[x].key = k /\ t >= file[x].ts
    BY Zenon DEF Deletes
  <2>7. Get(k) = View(file[x]) /\ View(file[x]) # Absent /\ View(file[x]).ts = file[x].ts
    BY <2>6, HeldPair, Zenon DEF Lookup
  <2>8. dictionary[k] # Absent /\ t >= dictionary[k].ts
    BY <2>5, <2>6, <2>7, Zenon
  <2>9. Dictionary!Absent = Absent
    BY Zenon DEF Dictionary!Absent, Absent
  <2>10. CASE UNCHANGED store /\ ret' = [op |-> "Del", err |-> TRUE]
    <3>1. ondisk' = ondisk
      BY <2>10, <1>OnDiskSame, Zenon DEF store
    <3>2. Dictionary!Del(k, t)
      BY <2>3, <2>5, <2>8, <2>9, <2>10, <3>1, Zenon
      DEF Dictionary!Del, Dictionary!Returns, dictionary, ondisk
    <3>3. QED
      BY <3>2, Zenon DEF Dictionary!Next
  <2>11. CASE put(r) /\ ret' = [op |-> "Del", err |-> FALSE]
    <3>1. ondisk' = [ondisk EXCEPT ![k] = Absent]
      BY <2>2, <2>11, <1>OnDiskChange, Zenon
    <3>2. Dictionary!Del(k, t)
      BY <2>3, <2>5, <2>8, <2>9, <2>11, <3>1, Zenon
      DEF Dictionary!Del, Dictionary!Returns, dictionary, ondisk
    <3>3. QED
      BY <3>2, Zenon DEF Dictionary!Next
  <2>12. QED
    BY <2>1, <2>10, <2>11, Zenon DEF Deletes
<1>QuietRefines.
    ASSUME Base', Lookup, Lookup', Quiet
    PROVE  [Dictionary!Next]_(Dictionary!vars)
  <2> USE <1>QuietRefines
  <2>1. /\ phase' = phase /\ file' = file /\ held' = held
        /\ phase # "open" => ret' = ret
        /\ ret' = ret \/ Truthful(ret')
    BY Zenon DEF Quiet
  <2>2. dictionary' = dictionary /\ ondisk' = ondisk
    BY <2>1, SameGets, <1>DictionarySame, <1>OnDiskSame, Zenon
  <2>3. CASE phase = "open" /\ Truthful(ret')
    <3>1. ret' \in Results
      BY Zenon DEF Base, Outer
    <3>2. ret' \in Dictionary!Results
      BY <2>3, <3>1, Zenon DEF Results, Dictionary!Results, Truthful
    <3>3. Dictionary!NoEffect
      BY <2>1, <2>2, <2>3, <3>2, Zenon DEF Dictionary!NoEffect, dictionary, ondisk
    <3>4. QED
      BY <3>3, Zenon DEF Dictionary!Next
  <2>4. CASE ret' = ret
    BY <2>1, <2>2, <2>4, Zenon DEF Dictionary!vars, dictionary, ondisk
  <2>5. QED
    BY <2>1, <2>3, <2>4, Zenon
<1>DownRefines.
    ASSUME Down
    PROVE  Dictionary!Next
  <2> USE <1>DownRefines
  <2>1. phase' = "closed" /\ file' = file /\ ret' = None
    BY Zenon DEF Down
  <2>2. ondisk' = ondisk
    BY <2>1, <1>OnDiskSame, Zenon
  <2>3. phase' # "open"
    BY <2>1, Zenon
  <2>4. dictionary' = [k \in Keys |-> Absent]
    BY <2>3, Zenon DEF dictionary
  <2>5. Dictionary!Nothing = [k \in Keys |-> Absent]
    BY Zenon DEF Dictionary!Nothing, Dictionary!Absent, Absent
  <2>6. Dictionary!Stop
    BY <2>1, <2>2, <2>3, <2>4, <2>5, Zenon DEF Dictionary!Stop, None, dictionary, ondisk
  <2>7. QED
    BY <2>6, Zenon DEF Dictionary!Next
(* A step inside Open, or its start. *)
<1>OpeningRefines.
    ASSUME phase # "open", phase' # "open", file' = file, ret' = ret
    PROVE  UNCHANGED Dictionary!vars
  <2> USE <1>OpeningRefines
  <2>1. ondisk' = ondisk
    BY <1>OnDiskSame, Zenon
  <2>2. dictionary' = dictionary
    BY Zenon DEF dictionary
  <2>3. QED
    BY <2>1, <2>2, Zenon DEF Dictionary!vars, dictionary, ondisk
(* Once every record is restored Get returns what the file says. *)
<1>AllRestored.
    ASSUME Base, Lookup, Contents, phase = "restoring", Known = Len(file), NEW k \in Keys
    PROVE  Get(k) = FileView(k)
  <2> USE <1>AllRestored
  <2>1. file \in Seq(Record) /\ Len(file) \in Nat
    BY RoomTypes, Zenon
  <2>2. FileView(k) = ViewIn(file, k)
    BY FileViewIn, Zenon
  <2>3. \A x \in held : file[x].live /\ Last(file, x, Len(file))
    BY Zenon DEF Contents, Kept
  <2>4. CASE \A n \in 1 .. Len(file) : file[n].key # k
    <3>1. \A x \in held : file[x].key # k
      BY <2>4, HeldRecords, Zenon
    <3>2. Get(k) = Absent
      BY <3>1, Zenon DEF Lookup
    <3>3. ViewIn(file, k) = Absent
      BY <2>1, <2>4, ViewNone, Zenon
    <3>4. QED
      BY <2>2, <3>2, <3>3, Zenon
  <2>5. ASSUME NEW n \in 1 .. Len(file), file[n].key = k PROVE Get(k) = FileView(k)
    <3>1. \E x \in 1 .. Len(file) : Last(file, x, Len(file)) /\ file[x].key = file[n].key
      BY <2>1, <1>LastExists, Zenon
    <3>2. PICK x \in 1 .. Len(file) : Last(file, x, Len(file)) /\ file[x].key = k
      BY <2>5, <3>1, Zenon
    <3>3. ViewIn(file, k) = IF file[x].live THEN View(file[x]) ELSE Absent
      BY <2>1, <3>2, ViewLast, Zenon
    <3>4. CASE file[x].live
      <4>1. x \in held
        BY <3>2, <3>4, Zenon DEF Contents, Complete
      <4>2. Get(k) = View(file[x])
        BY <3>2, <4>1, Zenon DEF Lookup
      <4>3. QED
        BY <2>2, <3>3, <3>4, <4>2, Zenon
    <3>5. CASE ~file[x].live
      <4>1. ASSUME NEW y \in held, file[y].key = k PROVE FALSE
        <5>1. y = x
          BY <2>1, <2>3, <3>2, <4>1, LastUnique, Zenon
        <5>2. QED
          BY <2>3, <3>5, <5>1, Zenon
      <4>2. Get(k) = Absent
        BY <4>1, Zenon DEF Lookup
      <4>3. QED
        BY <2>2, <3>3, <3>5, <4>2, Zenon
    <3>6. QED
      BY <3>4, <3>5, Zenon
  <2>6. QED
    BY <2>4, <2>5, Zenon
<1>EndOpenRefines.
    ASSUME NonemptyKeys, Base, Lookup, Lookup', Contents, EndOpen, held' = held
    PROVE  [Dictionary!Next]_(Dictionary!vars)
  <2> USE <1>EndOpenRefines
  <2>1. /\ phase = "restoring" /\ phase' \in {"open", "panicked"} /\ Known = Len(file)
        /\ file' = file /\ ret' = ret
    BY EndOpenFacts, Zenon
  <2>2. phase # "open"
    BY <2>1, Zenon
  <2>3. CASE phase' = "open"
    <3>1. \A k \in Keys : Get(k)' = FileView(k)
      BY <2>1, SameGets, <1>AllRestored, Zenon
    <3>2. dictionary' = ondisk /\ ondisk' = ondisk
      BY <2>1, <2>3, <3>1, <1>OnDiskSame, Zenon DEF dictionary, ondisk
    <3>3. Dictionary!Restart
      BY <2>1, <2>2, <2>3, <3>2, Zenon DEF Dictionary!Restart, dictionary, ondisk
    <3>4. QED
      BY <3>3, Zenon DEF Dictionary!Next
  <2>4. CASE phase' = "panicked"
    <3>1. phase' # "open"
      BY <2>4, Zenon
    <3>2. QED
      BY <2>1, <2>2, <3>1, <1>OpeningRefines, Zenon
  <2>5. QED
    BY <2>1, <2>3, <2>4, Zenon
<1> SUFFICES ASSUME PlainHashes, NonemptyKeys, Base, Base', Lookup, Lookup', Contents, Effect
             PROVE  [Dictionary!Next]_(Dictionary!vars)
  BY Zenon
<1>1. ASSUME Open PROVE UNCHANGED Dictionary!vars
  <2>1. phase = "closed" /\ phase' = "restoring" /\ file' = file /\ ret' = ret
    BY <1>1, Zenon DEF Open, store
  <2>2. phase # "open" /\ phase' # "open"
    BY <2>1, Zenon
  <2>3. QED
    BY <2>1, <2>2, <1>OpeningRefines, Zenon
<1>2. ASSUME Restores(file[pos]) PROVE UNCHANGED Dictionary!vars
  <2>1. phase = "restoring" /\ phase' = phase /\ file' = file /\ ret' = ret
    BY <1>2, Zenon DEF Restores
  <2>2. phase # "open" /\ phase' # "open"
    BY <2>1, Zenon
  <2>3. QED
    BY <2>1, <2>2, <1>OpeningRefines, Zenon
<1>3. QED
  BY <1>1, <1>2, <1>QuietRefines, <1>WritesRefines, <1>DeletesRefines, <1>DownRefines, <1>EndOpenRefines, Zenon
  DEF Effect

(* The map of a chunk, whatever collides, expands, is deleted and set again or restored
   from its file, is a last-writer-wins dictionary that survives restarts: RefinesLWWMap. *)
THEOREM LastWriterWins ==
    ASSUME PlainHashes, NonemptyKeys, RoomyTable
    PROVE  Spec => RefinesLWWMap
<1>1. Init /\ Base /\ Lookup => Dictionary!Init
  BY InitRefines, Zenon
<1>2. Base /\ Base' /\ Lookup /\ Lookup' /\ Contents /\ Effect =>
          [Dictionary!Next]_(Dictionary!vars)
  BY EffectRefines, Zenon
<1>3. Base /\ Table /\ [Next]_vars => Effect
  BY StepEffect
<1>4. QED
  BY <1>1, <1>2, <1>3, BaseInvariant, TableInvariant, LookupInvariant, ContentsInvariant, PTL
  DEF Spec, RefinesLWWMap, Dictionary!Spec
-------------------------------------------------------------------------------------
(* What store.deleted counts *)

(* The bytes of a record, and those of the records h of f. *)
BytesOf(r) == {r.key} \X (1 .. RecordLen(r))
Bytes(f, h) == UNION {BytesOf(f[x]) : x \in h}

(* In every phase, while Open replays the file as well, the bytes counted as deleted and
   those of the pairs in use are different bytes of the store. *)
Garbage ==
    /\ IsFiniteSet(Bytes(file, held))
    /\ deleted + Cardinality(Bytes(file, held)) <= length

LEMMA BytesFacts ==
    ASSUME NEW f, NEW h
    PROVE  /\ \A p : p \in Bytes(f, h) <=> \E x \in h : p \in BytesOf(f[x])
           /\ \A g : (\A x \in h : g[x] = f[x]) => Bytes(g, h) = Bytes(f, h)
<1>1. \A p : p \in Bytes(f, h) <=> \E x \in h : p \in BytesOf(f[x])
  BY Zenon DEF Bytes
<1>2. ASSUME NEW g, \A x \in h : g[x] = f[x] PROVE Bytes(g, h) = Bytes(f, h)
  <2>1. \A p : p \in Bytes(g, h) <=> \E x \in h : p \in BytesOf(g[x])
    BY Zenon DEF Bytes
  <2>2. \A p : p \in Bytes(g, h) <=> p \in Bytes(f, h)
    BY <1>1, <1>2, <2>1, Zenon
  <2>3. QED
    BY <2>2, Zenon
<1>3. QED
  BY <1>1, <1>2, Zenon

LEMMA EmptyGarbage ==
    ASSUME NEW f
    PROVE  IsFiniteSet(Bytes(f, {})) /\ Cardinality(Bytes(f, {})) = 0
<1>1. Bytes(f, {}) = {}
  BY BytesFacts, Zenon
<1>2. QED
  BY <1>1, FS_EmptySet, Zenon

(* Every effect keeps what store.deleted counts apart from the bytes of the records in use. *)
LEMMA EffectGarbage ==
    NonemptyKeys /\ RoomyTable /\ Base /\ Contents /\ Garbage /\ Effect
        => Garbage'
<1>RecordBytes.
    ASSUME NEW r \in Record
    PROVE  /\ RecordLen(r) \in Nat /\ IsFiniteSet(BytesOf(r))
           /\ Cardinality(BytesOf(r)) = RecordLen(r)
  <2> USE <1>RecordBytes
  <2>1. PICK n \in Nat : n = RecordLen(r)
    BY RecordLenFacts, Zenon
  <2>2. IsFiniteSet(1 .. n) /\ Cardinality(1 .. n) = n
    BY FS_Interval
  <2>3. PICK k : k = r.key
    BY Zenon
  <2>4. IsFiniteSet({k}) /\ Cardinality({k}) = 1
    BY FS_Singleton, Zenon
  <2>5. IsFiniteSet({k} \X (1 .. n)) /\ Cardinality({k} \X (1 .. n)) = n
    <3>1. PICK S, T : S = {k} /\ T = 1 .. n
      BY Zenon
    <3>2. IsFiniteSet(S \X T) /\ Cardinality(S \X T) = Cardinality(S) * Cardinality(T)
      BY <2>2, <2>4, <3>1, FS_Product, Zenon
    <3>3. Cardinality(S) = 1 /\ Cardinality(T) = n
      BY <2>2, <2>4, <3>1, Zenon
    <3>4. Cardinality(S \X T) = n
      BY ONLY <3>2, <3>3, <2>1
    <3>5. QED
      BY <3>1, <3>2, <3>4, Zenon
  <2>6. QED
    BY <2>1, <2>3, <2>5, Zenon DEF BytesOf
<1>OtherBytes.
    ASSUME NEW r, NEW s, r.key # s.key
    PROVE  BytesOf(r) \cap BytesOf(s) = {}
  BY ONLY <1>OtherBytes, Zenon DEF BytesOf
<1>DisjointCount.
    ASSUME NEW A, NEW B, IsFiniteSet(A), IsFiniteSet(B), A \cap B = {}
    PROVE  /\ IsFiniteSet(A \cup B) /\ Cardinality(A) \in Nat /\ Cardinality(B) \in Nat
           /\ Cardinality(A \cup B) = Cardinality(A) + Cardinality(B)
  <2> USE <1>DisjointCount
  <2>1. /\ IsFiniteSet(A \cup B)
        /\ Cardinality(A \cup B) = Cardinality(A) + Cardinality(B) - Cardinality(A \cap B)
    BY FS_Union, Zenon
  <2>2. Cardinality(A \cap B) = 0
    BY FS_EmptySet, Zenon
  <2>3. Cardinality(A) \in Nat /\ Cardinality(B) \in Nat
    BY FS_CardinalityType, Zenon
  <2>4. QED
    BY ONLY <2>1, <2>2, <2>3
(* What is left of the bytes in use when the pair of k goes. *)
<1>BytesWithout.
    ASSUME Base, Contents, Garbage, NEW k
    PROVE  /\ IsFiniteSet(Bytes(file, Without(k)))
           /\ Cardinality(Bytes(file, Without(k))) \in Nat
           /\ Cardinality(Bytes(file, held)) \in Nat
           /\ Cardinality(Bytes(file, Without(k))) <= Cardinality(Bytes(file, held))
           /\ \A r : r.key = k => Bytes(file, Without(k)) \cap BytesOf(r) = {}
           /\ \A x \in held : file[x].key = k =>
                 Cardinality(Bytes(file, Without(k))) + RecordLen(file[x])
                     = Cardinality(Bytes(file, held))
  <2> USE <1>BytesWithout
  <2>1. PICK B, U : B = Bytes(file, held) /\ U = Bytes(file, Without(k))
    BY Zenon
  <2>2. /\ \A p : p \in B <=> \E x \in held : p \in BytesOf(file[x])
        /\ \A p : p \in U <=> \E x \in Without(k) : p \in BytesOf(file[x])
    BY <2>1, BytesFacts, Zenon
  <2>3. \A x : x \in Without(k) <=> x \in held /\ file[x].key # k
    BY Zenon DEF Without
  <2>4. IsFiniteSet(B)
    BY <2>1, Zenon DEF Garbage
  <2>5. U \in SUBSET B
    BY <2>2, <2>3, Zenon
  <2>6. IsFiniteSet(U) /\ Cardinality(U) <= Cardinality(B)
    BY <2>4, <2>5, FS_Subset, Zenon
  <2>7. Cardinality(U) \in Nat /\ Cardinality(B) \in Nat
    BY <2>4, <2>6, FS_CardinalityType, Zenon
  <2>8. ASSUME NEW r, r.key = k PROVE U \cap BytesOf(r) = {}
    <3>1. \A x \in Without(k) : BytesOf(file[x]) \cap BytesOf(r) = {}
      BY <2>3, <2>8, <1>OtherBytes, Zenon
    <3>2. QED
      BY <2>2, <3>1, Zenon
  <2>9. ASSUME NEW x \in held, file[x].key = k
        PROVE  Cardinality(U) + RecordLen(file[x]) = Cardinality(B)
    <3>1. ASSUME NEW y \in held, file[y].key = k PROVE y = x
      <4>1. Last(file, x, Known) /\ Last(file, y, Known) /\ Known \in Nat
        BY <2>9, <3>1, RoomTypes, Zenon DEF Contents, Kept
      <4>2. QED
        BY <2>9, <3>1, <4>1, LastUnique, Zenon
    <3>2. B = U \cup BytesOf(file[x])
      <4>1. \A p : p \in B <=> p \in U \/ p \in BytesOf(file[x])
        BY <2>2, <2>3, <2>9, <3>1, Zenon
      <4>2. QED
        BY <4>1, Zenon
    <3>3. file[x] \in Record
      BY HeldRecords, Zenon
    <3>4. IsFiniteSet(BytesOf(file[x])) /\ Cardinality(BytesOf(file[x])) = RecordLen(file[x])
      BY <3>3, <1>RecordBytes, Zenon
    <3>5. U \cap BytesOf(file[x]) = {}
      BY <2>8, <2>9, Zenon
    <3>6. QED
      BY <2>6, <3>2, <3>4, <3>5, <1>DisjointCount, Zenon
  <2>10. QED
    BY <2>1, <2>6, <2>7, <2>8, <2>9, Zenon
(* A record y of key k comes into use, in place of the one there was. *)
<1>BytesPlaced.
    ASSUME Base, Contents, Garbage, NEW y, NEW f, f[y] \in Record,
           \A x \in Without(f[y].key) : f[x] = file[x]
    PROVE  LET k == f[y].key
           IN  /\ IsFiniteSet(Bytes(f, Without(k) \cup {y}))
               /\ Cardinality(Bytes(f, Without(k) \cup {y}))
                      = Cardinality(Bytes(file, Without(k))) + RecordLen(f[y])
  <2> USE <1>BytesPlaced
  <2>1. PICK r, k : r = f[y] /\ k = r.key
    BY Zenon
  <2>2. PICK U : U = Bytes(file, Without(k))
    BY Zenon
  <2>3. PICK C : C = Bytes(f, Without(k) \cup {y})
    BY Zenon
  <2>4. U = Bytes(f, Without(k))
    BY <2>1, <2>2, BytesFacts, Zenon
  <2>5. /\ \A p : p \in C <=> \E x \in Without(k) \cup {y} : p \in BytesOf(f[x])
        /\ \A p : p \in U <=> \E x \in Without(k) : p \in BytesOf(f[x])
    BY <2>3, <2>4, BytesFacts, Zenon
  <2>6. C = U \cup BytesOf(r)
    <3>1. \A p : p \in C <=> p \in U \/ p \in BytesOf(r)
      BY <2>1, <2>5, Zenon
    <3>2. QED
      BY <3>1, Zenon
  <2>7. IsFiniteSet(U) /\ U \cap BytesOf(r) = {}
    BY <2>1, <2>2, <1>BytesWithout, Zenon
  <2>8. IsFiniteSet(BytesOf(r)) /\ Cardinality(BytesOf(r)) = RecordLen(r)
    BY <2>1, <1>RecordBytes, Zenon
  <2>9. /\ IsFiniteSet(U \cup BytesOf(r))
        /\ Cardinality(U \cup BytesOf(r)) = Cardinality(U) + Cardinality(BytesOf(r))
    BY <2>7, <2>8, <1>DisjointCount, Zenon
  <2>10. IsFiniteSet(C) /\ Cardinality(C) = Cardinality(U) + RecordLen(r)
    BY <2>6, <2>8, <2>9, Zenon
  <2>11. QED
    BY <2>1, <2>2, <2>3, <2>10, Zenon
<1>StoreNumbers.
    ASSUME Base
    PROVE  deleted \in Nat /\ length \in Nat
  BY <1>StoreNumbers, Zenon DEF Base, Outer, StoreTypes
<1>SameGarbage.
    ASSUME Garbage, UNCHANGED <<file, length, deleted>>, held' = held
    PROVE  Garbage'
  BY <1>SameGarbage, Zenon DEF Garbage
<1>DownGarbage.
    ASSUME Down, held' = {}
    PROVE  Garbage'
  <2> USE <1>DownGarbage
  <2>1. PICK f : f = file'
    BY Zenon
  <2>2. PICK B : B = Bytes(f, {})
    BY Zenon
  <2>3. IsFiniteSet(B) /\ Cardinality(B) = 0
    BY <2>2, EmptyGarbage, Zenon
  <2>4. deleted' = 0 /\ length' = 0 /\ Bytes(file, held)' = B
    BY <2>1, <2>2, Zenon DEF Down, Bytes
  <2>5. 0 + 0 <= 0
    OBVIOUS
  <2>6. QED
    BY <2>3, <2>4, <2>5, Zenon DEF Garbage
(* The pair that a Set or CAS replaces is garbage that deleted leaves out. *)
<1>WritesGarbage.
    ASSUME NonemptyKeys, Base, Contents, Garbage, NEW k \in Keys, NEW v \in Values,
           NEW t \in Times, Writes(k, v, t)
    PROVE  Garbage'
  <2> USE <1>WritesGarbage
  <2>1. PICK r : r = PairRecord(k, v, t)
    BY Zenon
  <2>2. r \in Record /\ r.key = k
    BY <2>1, Zenon DEF PairRecord, Record
  <2>3. /\ phase = "open" /\ phase' = phase /\ put(r) /\ deleted' = deleted
        /\ held' = Without(k) \cup {Len(file) + 1}
    BY <2>1, Zenon DEF Writes
  <2>4. PICK f : f = file'
    BY Zenon
  <2>5. /\ f[Len(file) + 1] = r /\ length' = length + RecordLen(r) /\ RecordLen(r) \in Nat
        /\ \A q \in 1 .. Len(file) : f[q] = file[q]
    BY <2>2, <2>3, <2>4, PutFacts, Zenon
  <2>6. \A x \in Without(k) : f[x] = file[x]
    BY <2>5, HeldRecords, Zenon DEF Without
  <2>7. PICK y, C : y = Len(file) + 1 /\ C = Bytes(f, Without(k) \cup {y})
    BY Zenon
  <2>8. IsFiniteSet(C) /\ Cardinality(C) = Cardinality(Bytes(file, Without(k))) + RecordLen(r)
    <3>1. f[y] \in Record /\ f[y].key = k /\ f[y] = r
      BY <2>2, <2>5, <2>7, Zenon
    <3>2. QED
      BY <2>6, <2>7, <3>1, <1>BytesPlaced, Zenon
  <2>9. deleted + Cardinality(C) <= length'
    <3>1. /\ Cardinality(Bytes(file, Without(k))) \in Nat
          /\ Cardinality(Bytes(file, held)) \in Nat
          /\ Cardinality(Bytes(file, Without(k))) <= Cardinality(Bytes(file, held))
      BY <1>BytesWithout, Zenon
    <3>2. deleted + Cardinality(Bytes(file, held)) <= length /\ deleted \in Nat /\ length \in Nat
      BY <1>StoreNumbers, Zenon DEF Garbage
    <3>3. QED
      BY ONLY <2>5, <2>8, <3>1, <3>2
  <2>10. QED
    BY <2>3, <2>4, <2>7, <2>8, <2>9, Zenon DEF Garbage
(* The bytes of the pair deleted are no longer in use when they count as deleted, whether
   the tombstone fits or not. *)
<1>DeletesGarbage.
    ASSUME NonemptyKeys, Base, Contents, Garbage, NEW k \in Keys, NEW t \in Times, Deletes(k, t)
    PROVE  Garbage'
  <2> USE <1>DeletesGarbage
  <2>1. PICK r : r = Tombstone(k)
    BY Zenon
  <2>2. r \in Record
    BY <2>1, ValuesAssumption, Zenon DEF Tombstone, Record
  <2>3. phase = "open" /\ phase' = phase /\ held' = Without(k) /\ (UNCHANGED store \/ put(r))
    BY <2>1, Zenon DEF Deletes
  <2>4. PICK x \in held : file[x].key = k /\ deleted' = deleted + RecordLen(file[x])
    BY Zenon DEF Deletes
  <2>5. PICK f : f = file'
    BY Zenon
  <2>6. (\A q \in 1 .. Len(file) : f[q] = file[q]) /\ length \in Nat /\ length' \in Nat
        /\ length <= length'
    <3>1. CASE UNCHANGED store
      BY <2>5, <3>1, <1>StoreNumbers DEF store
    <3>2. CASE put(r)
      <4>1. /\ \A q \in 1 .. Len(file) : f[q] = file[q]
            /\ length \in Nat /\ RecordLen(r) \in Nat /\ length' = length + RecordLen(r)
        BY <2>2, <2>3, <2>5, <3>2, PutFacts, Zenon
      <4>2. QED
        BY ONLY <4>1
    <3>3. QED
      BY <2>3, <3>1, <3>2, Zenon
  <2>7. \A q \in Without(k) : f[q] = file[q]
    BY <2>6, HeldRecords, Zenon DEF Without
  <2>8. Bytes(f, Without(k)) = Bytes(file, Without(k))
    BY <2>7, BytesFacts, Zenon
  <2>9. /\ IsFiniteSet(Bytes(file, Without(k)))
        /\ Cardinality(Bytes(file, Without(k))) \in Nat
        /\ Cardinality(Bytes(file, Without(k))) + RecordLen(file[x]) = Cardinality(Bytes(file, held))
    BY <2>4, <1>BytesWithout, Zenon
  <2>10. deleted' + Cardinality(Bytes(file, Without(k))) <= length'
    <3>1. RecordLen(file[x]) \in Nat
      BY HeldRecords, RecordLenFacts, Zenon
    <3>2. deleted + Cardinality(Bytes(file, held)) <= length /\ deleted \in Nat
      BY <1>StoreNumbers, Zenon DEF Garbage
    <3>3. QED
      BY ONLY <2>4, <2>6, <2>9, <3>1, <3>2
  <2>11. QED
    BY <2>3, <2>5, <2>8, <2>9, <2>10, Zenon DEF Garbage
(* A turn of Open's loop: the record of a deletion is garbage from its first byte to its
   last, and so is the pair that the new record replaces or deletes. *)
<1>RestoresGarbage.
    ASSUME RoomyTable, Base, Contents, Garbage, NEW r, Restores(r)
    PROVE  Garbage'
  <2> USE <1>RestoresGarbage
  <2>1. /\ phase = "restoring" /\ pos \in 1 .. Len(file) /\ r = file[pos] /\ file' = file
        /\ length' = length + RecordLen(r)
    BY Zenon DEF Restores
  <2>2. r \in Record
    BY RestoresKinds, Zenon
  <2>3. PICK k, U, B : k = r.key /\ U = Bytes(file, Without(k)) /\ B = Bytes(file, held)
    BY Zenon
  <2>4. /\ IsFiniteSet(U) /\ Cardinality(U) \in Nat /\ Cardinality(B) \in Nat
        /\ Cardinality(U) <= Cardinality(B)
        /\ \A x \in held : file[x].key = k => Cardinality(U) + RecordLen(file[x]) = Cardinality(B)
    BY <2>3, <1>BytesWithout, Zenon
  <2>5. deleted + Cardinality(B) <= length /\ deleted \in Nat /\ length \in Nat
    BY <2>3, <1>StoreNumbers, Zenon DEF Garbage
  <2>6. /\ RecordLen(r) \in Nat
        /\ r.live => OwnGarbage(r) = 0
        /\ ~r.live => OwnGarbage(r) = RecordLen(r)
    <3>1. RecordLen(r) \in Nat /\ 12 + KeyLen[r.key] \in Nat
      BY <2>2, RecordLenFacts, KeysAssumption DEF Record
    <3>2. ~r.live => RecordLen(r) = 12 + KeyLen[r.key]
      BY <3>1, KeysAssumption, <2>2 DEF RecordLen, Record
    <3>3. QED
      BY <3>1, <3>2, Zenon DEF OwnGarbage
  <2>7. ASSUME r.live, held' = Without(k) \cup {pos},
               \/ deleted' = deleted /\ \A x \in held : file[x].key # k
               \/ \E x \in held : file[x].key = k /\ deleted' = deleted + RecordLen(file[x])
        PROVE  Garbage'
    <3>1. PICK C : C = Bytes(file, Without(k) \cup {pos})
      BY Zenon
    <3>2. IsFiniteSet(C) /\ Cardinality(C) = Cardinality(U) + RecordLen(r)
      BY <2>1, <2>2, <2>3, <3>1, <1>BytesPlaced, Zenon
    <3>3. deleted' + Cardinality(C) <= length'
      <4>1. CASE deleted' = deleted
        BY ONLY <2>1, <2>4, <2>5, <2>6, <3>2, <4>1
      <4>2. ASSUME NEW x \in held, file[x].key = k, deleted' = deleted + RecordLen(file[x])
            PROVE  deleted' + Cardinality(C) <= length'
        <5>1. RecordLen(file[x]) \in Nat
          BY HeldRecords, RecordLenFacts, Zenon
        <5>2. Cardinality(U) + RecordLen(file[x]) = Cardinality(B)
          BY <2>4, <4>2, Zenon
        <5>3. deleted' = deleted + RecordLen(file[x])
          BY <4>2, Zenon
        <5>4. length' = length + RecordLen(r)
          BY <2>1, Zenon
        <5>5. QED
          BY ONLY <5>4, <2>4, <2>5, <2>6, <3>2, <5>1, <5>2, <5>3
      <4>3. QED
        BY <2>7, <4>1, <4>2, Zenon
    <3>4. QED
      BY <2>1, <2>7, <3>1, <3>2, <3>3, Zenon DEF Garbage
  <2>8. ASSUME ~r.live, held' = Without(k), NEW x \in held, file[x].key = k,
               deleted' = deleted + OwnGarbage(r) + RecordLen(file[x])
        PROVE  Garbage'
    <3>1. RecordLen(file[x]) \in Nat
      BY HeldRecords, RecordLenFacts, Zenon
    <3>2. Cardinality(U) + RecordLen(file[x]) = Cardinality(B) /\ OwnGarbage(r) = RecordLen(r)
      BY <2>4, <2>6, <2>8, Zenon
    <3>3. deleted' = deleted + OwnGarbage(r) + RecordLen(file[x])
      BY <2>8, Zenon
    <3>4. deleted' + Cardinality(U) <= length'
      <4>1. length' = length + RecordLen(r)
        BY <2>1, Zenon
      <4>2. QED
        BY ONLY <4>1, <2>4, <2>5, <2>6, <3>1, <3>2, <3>3
    <3>5. QED
      BY <2>1, <2>3, <2>4, <2>8, <3>4, Zenon DEF Garbage
  <2>9. ~SpaceRefused
    BY <2>1, NeverRefused, Zenon
  <2>10. (\A x \in held : file[x].key # r.key) => r.live
    BY RestoresKinds, Zenon
  <2>11. deleted + 0 = deleted
    BY ONLY <2>5
  <2>12. QED
    <3>1. CASE (\A x \in held : file[x].key # r.key)
               /\ deleted' = deleted + OwnGarbage(r) /\ held' = Without(r.key) \cup {pos}
      <4>1. r.live /\ OwnGarbage(r) = 0
        BY <2>6, <2>10, <3>1, Zenon
      <4>2. deleted' = deleted
        BY <2>11, <3>1, <4>1, Zenon
      <4>3. QED
        BY <2>3, <2>7, <3>1, <4>1, <4>2, Zenon
    <3>2. ASSUME NEW x \in held, file[x].key = r.key, r.live, held' = Without(r.key) \cup {pos},
                 deleted' = deleted + OwnGarbage(r) + RecordLen(file[x])
          PROVE  Garbage'
      <4>1. deleted' = deleted + RecordLen(file[x])
        BY <2>6, <2>11, <3>2, Zenon
      <4>2. QED
        BY <2>3, <2>7, <3>2, <4>1, Zenon
    <3>3. ASSUME NEW x \in held, file[x].key = r.key, ~r.live, held' = Without(r.key),
                 deleted' = deleted + OwnGarbage(r) + RecordLen(file[x])
          PROVE  Garbage'
      BY <2>3, <2>8, <3>3, Zenon
    <3>4. QED
      BY <2>9, <3>1, <3>2, <3>3, Zenon DEF Restores
<1> SUFFICES ASSUME NonemptyKeys, RoomyTable, Base, Contents, Garbage, Effect
             PROVE  Garbage'
  BY Zenon
<1>1. CASE Quiet
  BY <1>1, <1>SameGarbage, Zenon DEF Quiet
<1>2. CASE \E k \in Keys, v \in Values, t \in Times : Writes(k, v, t)
  BY <1>2, <1>WritesGarbage, Zenon
<1>3. CASE \E k \in Keys, t \in Times : Deletes(k, t)
  BY <1>3, <1>DeletesGarbage, Zenon
<1>4. CASE Down /\ held' = {}
  BY <1>4, <1>DownGarbage, Zenon
<1>5. CASE Open /\ held' = held
  BY <1>5, <1>SameGarbage, Zenon DEF Open, store
<1>6. CASE EndOpen /\ held' = held
  <2>1. file' = file /\ length' = length
    BY <1>6, EndOpenFacts, Zenon
  <2>2. deleted' = deleted
    BY <1>6, Zenon DEF EndOpen
  <2>3. QED
    BY <1>6, <2>1, <2>2, <1>SameGarbage, Zenon
<1>7. CASE Restores(file[pos])
  BY <1>7, <1>RestoresGarbage, Zenon
<1>8. QED
  BY <1>1, <1>2, <1>3, <1>4, <1>5, <1>6, <1>7, Zenon DEF Effect

LEMMA InitGarbage == ASSUME Init PROVE Garbage
<1>1. length = 0 /\ deleted = 0 /\ mem = NewMem(InitSize) /\ InitSize \in Nat
  BY SizeAssumption, Zenon DEF Init
<1>2. held = {}
  BY <1>1, EmptySound, Zenon DEF held
<1>3. IsFiniteSet(Bytes(file, {})) /\ Cardinality(Bytes(file, {})) = 0
  BY EmptyGarbage, Zenon
<1>4. 0 + 0 <= 0
  OBVIOUS
<1>5. QED
  BY <1>1, <1>2, <1>3, <1>4, Zenon DEF Garbage

(* The bytes of the pairs that Get returns are those of the records in use. *)
LEMMA HeldBytesInUse ==
    ASSUME Base, Lookup, Contents
    PROVE  HeldBytes = Bytes(file, held)
<1> DEFINE Pair(k) == PairRecord(k, Get(k).val, Get(k).ts)
<1>1. ASSUME NEW x \in held
      PROVE  LET k == file[x].key
             IN  /\ k \in Keys /\ Get(k) # Absent
                 /\ Pair(k) = file[x]
  <2>1. PICK k : k = file[x].key
    BY Zenon
  <2>2. k \in Keys /\ file[x] \in Record /\ file[x].live
    BY <2>1, HeldRecords, HeldPair, Zenon
  <2>3. Get(k) = View(file[x]) /\ Get(k) # Absent
    BY <2>1, <2>2, HeldPair, Zenon DEF Lookup
  <2>4. PICK r \in Record : r = file[x]
    BY <2>2, Zenon
  <2>5. View(r).val = r.val /\ View(r).ts = r.ts
    BY Zenon DEF View
  <2>6. r.live = TRUE
    BY <2>2, <2>4, Zenon DEF Record
  <2>7. PairRecord(r.key, r.val, r.ts) = r
    BY ONLY <2>4, <2>6, Zenon DEF PairRecord, Record
  <2>8. QED
    BY <2>1, <2>2, <2>3, <2>4, <2>5, <2>7, Zenon
<1>2. ASSUME NEW k \in Keys, Get(k) # Absent PROVE \E x \in held : file[x].key = k
  BY <1>2, Zenon DEF Lookup
<1>3. \A p : p \in Bytes(file, held) <=> \E x \in held : p \in BytesOf(file[x])
  BY BytesFacts, Zenon
<1>4. \A k : Pair(k).key = k
  BY Zenon DEF PairRecord
<1>5. \A p : p \in HeldBytes <=>
               \E k \in Keys : Get(k) # Absent /\ p \in {k} \X (1 .. RecordLen(Pair(k)))
  BY Zenon DEF HeldBytes
<1> HIDE DEF Pair
<1>6. \A p : p \in HeldBytes <=> \E k \in Keys : Get(k) # Absent /\ p \in BytesOf(Pair(k))
  <2>1. ASSUME NEW k PROVE BytesOf(Pair(k)) = {k} \X (1 .. RecordLen(Pair(k)))
    BY <1>4, Zenon DEF BytesOf
  <2>2. QED
    BY <1>5, <2>1, Zenon
<1>7. ASSUME NEW p, p \in HeldBytes PROVE p \in Bytes(file, held)
  <2>1. PICK k \in Keys : Get(k) # Absent /\ p \in BytesOf(Pair(k))
    BY <1>6, <1>7, Zenon
  <2>2. PICK x \in held : file[x].key = k
    BY <1>2, <2>1, Zenon
  <2>3. Pair(k) = file[x]
    BY <1>1, <2>2, Zenon
  <2>4. QED
    BY <1>3, <2>1, <2>3, Zenon
<1>8. ASSUME NEW p, p \in Bytes(file, held) PROVE p \in HeldBytes
  <2>1. PICK x \in held : p \in BytesOf(file[x])
    BY <1>3, <1>8, Zenon
  <2>2. PICK k : k = file[x].key
    BY Zenon
  <2>3. k \in Keys /\ Get(k) # Absent /\ p \in BytesOf(Pair(k))
    BY <1>1, <2>1, <2>2, Zenon
  <2>4. QED
    BY <1>6, <2>3, Zenon
<1>9. QED
  BY <1>7, <1>8, Zenon

(* store.deleted never counts a byte twice nor a byte of a pair the map holds, whatever is
   set, deleted, refused for want of space, crashed and restored: DeletedIsGarbage. *)
THEOREM DeletedNeverTooHigh ==
    ASSUME PlainHashes, NonemptyKeys, RoomyTable
    PROVE  Spec => []DeletedIsGarbage
<1>1. Init => Garbage
  BY InitGarbage, Zenon
<1>2. Base /\ Contents /\ Garbage /\ Effect => Garbage'
  BY EffectGarbage, Zenon
<1>3. Base /\ Table /\ [Next]_vars => Effect
  BY StepEffect
<1>4. Base /\ Lookup /\ Contents /\ Garbage => DeletedIsGarbage
  BY HeldBytesInUse, Zenon DEF Garbage, DeletedIsGarbage
<1>5. QED
  BY <1>1, <1>2, <1>3, <1>4, BaseInvariant, TableInvariant, LookupInvariant, ContentsInvariant,
     PTL DEF Spec
=====================================================================================

-------------------------------- MODULE CoreProofs --------------------------------
(***************************************************************************)
(* The invariants of a server's chunks, for any chunks, pairs and bounds.  *)
(* Protection needs its timers in every phase.  Files and pairs need two   *)
(* descriptions: of the first life of the process, where a chunk has one   *)
(* file, and of all of them, where old files may be left behind and what   *)
(* counts is the file that the next Open will take (Kept).                 *)
(***************************************************************************)
EXTENDS Core, FiniteSetTheorems, WellFoundedInduction, TLAPS
-----------------------------------------------------------------------------------
(* Types *)

(* A nonempty set of naturals has a least element. *)
LEMMA LeastElement ==
    ASSUME NEW S \in SUBSET Nat, S # {}
    PROVE  \E m \in S : \A x \in S : m <= x
<1> DEFINE R == OpToRel(<, Nat)
<1>1. IsWellFoundedOn(R, Nat)
  BY NatLessThanWellFounded, Zenon
<1>2. \A y, z \in Nat : y < z => <<y, z>> \in R
  BY Zenon DEF OpToRel
<1> HIDE DEF R
<1>3. PICK m \in S : \A y \in S : <<y, m>> \notin R
  BY <1>1, WFMin, Zenon
<1>4. \A y \in S : ~(y < m)
  BY <1>2, <1>3, Zenon
<1>5. QED
  BY <1>4

(* A directory keeps its other names when a file is created or removed. *)
LEMMA LinkFacts ==
    ASSUME NEW D, NEW d \in [D -> Inodes], NEW r, NEW n \in Inodes
    PROVE  /\ Link(d, r, n) \in [D \cup {r} -> Inodes]
           /\ Link(d, r, n)[r] = n
           /\ \A q \in D \ {r} : Link(d, r, n)[q] = d[q]
BY DEF Link

LEMMA RestrictFacts ==
    ASSUME NEW D, NEW d \in [D -> Inodes], NEW r
    PROVE  /\ Restrict(d, D \ {r}) \in [D \ {r} -> Inodes]
           /\ \A q \in D \ {r} : Restrict(d, D \ {r})[q] = d[q]
BY DEF Restrict

(* A directory of one name, and the same without it. *)
LEMMA OneName ==
    ASSUME NEW r, NEW n \in Inodes
    PROVE  /\ Link(<< >>, r, n) = [q \in {r} |-> n]
           /\ Restrict(Link(<< >>, r, n), {r} \ {r}) = << >>
           /\ Link(<< >>, r, n) \in [{r} -> Inodes]
BY DEF Link, Restrict

(* A directory of two names, and the same without the first. *)
TwoNames(d, r, i, q, m) == r # q /\ d = Link(Link(<< >>, r, i), q, m)

LEMMA LinkTwo ==
    ASSUME NEW d, NEW r, NEW i, NEW q, NEW m, TwoNames(d, r, i, q, m)
    PROVE  /\ DOMAIN d = {r, q} /\ d[r] = i /\ d[q] = m
           /\ Restrict(d, DOMAIN d \ {r}) = Link(<< >>, q, m)
BY DEF TwoNames, Link, Restrict

LEMMA PMRev == \A p \in PM : p.rev \in Nat
BY DEF PM, NoPM

(* Creating a file in a directory of at most MaxDefrags names leaves an inode to choose:
   InodeFor gives the inode the name has, or one neither named nor mapped. *)
LEMMA InodeForFacts ==
    ASSUME TypeOK, NEW c \in Chunks, NEW rev \in 0 .. MaxDefrags
    PROVE  /\ InodeFor(c, rev) \in Inodes
           /\ rev \in DOMAIN dir[c] => InodeFor(c, rev) = dir[c][rev]
           /\ rev \notin DOMAIN dir[c] =>
                 InodeFor(c, rev) \notin Range(dir[c]) \cup {pm[c].inode, defrag.old.inode}
<1> DEFINE D == DOMAIN dir[c]
           N == Range(dir[c])
           U == N \cup {pm[c].inode, defrag.old.inode}
<1>0. MaxDefrags \in Nat /\ Inodes \subseteq Nat
  BY BoundsAssumption DEF Inodes
<1>1. dir[c] \in [D -> Inodes] /\ D \subseteq 0 .. MaxDefrags
  BY <1>0 DEF TypeOK, FileTypes, ProcessTypes
<1>2. CASE rev \in D
  BY <1>1, <1>2 DEF InodeFor
<1>3. CASE rev \notin D
  <2>1. IsFiniteSet(0 .. MaxDefrags) /\ Cardinality(0 .. MaxDefrags) = MaxDefrags + 1
    BY <1>0, FS_Interval
  <2>2. /\ IsFiniteSet((0 .. MaxDefrags) \ {rev})
        /\ Cardinality((0 .. MaxDefrags) \ {rev}) = MaxDefrags
    <3>1. \A S : IsFiniteSet(S) /\ rev \in S =>
                 IsFiniteSet(S \ {rev}) /\ Cardinality(S \ {rev}) = Cardinality(S) - 1
      BY FS_RemoveElement
    <3>2. QED
      BY <1>0, <2>1, <3>1
  <2>3. /\ IsFiniteSet(D) /\ Cardinality(D) <= MaxDefrags
    <3>1. D \subseteq (0 .. MaxDefrags) \ {rev}
      BY <1>1, <1>3
    <3>2. QED
      BY <2>2, <3>1, FS_Subset
  <2>4. IsFiniteSet(N) /\ Cardinality(N) <= Cardinality(D)
    <3>1. dir[c] \in Surjection(D, N)
      BY <1>1 DEF Surjection, Range
    <3>2. QED
      BY <2>3, <3>1, FS_Surjection
  <2>5. Cardinality(N) \in Nat /\ Cardinality(D) \in Nat
    BY <2>3, <2>4, FS_CardinalityType
  <2>6. \A S, x : IsFiniteSet(S) => /\ IsFiniteSet(S \cup {x})
                                    /\ Cardinality(S) \in Nat
                                    /\ Cardinality(S \cup {x}) <= Cardinality(S) + 1
    <3>1. SUFFICES ASSUME NEW S, NEW x, IsFiniteSet(S)
                   PROVE  /\ IsFiniteSet(S \cup {x})
                          /\ Cardinality(S) \in Nat
                          /\ Cardinality(S \cup {x}) <= Cardinality(S) + 1
      BY Zenon
    <3>2. /\ IsFiniteSet(S \cup {x})
          /\ Cardinality(S \cup {x}) = IF x \in S THEN Cardinality(S) ELSE Cardinality(S) + 1
      BY <3>1, FS_AddElement, Zenon
    <3>3. Cardinality(S) \in Nat
      BY <3>1, FS_CardinalityType
    <3>4. QED
      BY <3>2, <3>3
  <2>7. IsFiniteSet(U) /\ Cardinality(U) <= MaxDefrags + 2 /\ Cardinality(U) \in Nat
    <3> DEFINE V == N \cup {pm[c].inode}
    <3>1. IsFiniteSet(V) /\ Cardinality(V) <= Cardinality(N) + 1 /\ Cardinality(V) \in Nat
      BY <2>4, <2>6, Zenon
    <3>2. IsFiniteSet(V \cup {defrag.old.inode})
          /\ Cardinality(V \cup {defrag.old.inode}) <= Cardinality(V) + 1
          /\ Cardinality(V \cup {defrag.old.inode}) \in Nat
      BY <3>1, <2>6, Zenon
    <3>3. U = V \cup {defrag.old.inode}
      OBVIOUS
    <3> HIDE DEF U, V, N, D
    <3>4. QED
      BY <3>1, <3>2, <3>3, <2>3, <2>4, <2>5, <1>0
  <2>8. Cardinality(Inodes) = MaxDefrags + 3 /\ IsFiniteSet(Inodes)
    BY <1>0, FS_Interval DEF Inodes
  <2>9. Inodes \ U # {}
    <3>1. SUFFICES ASSUME Inodes \subseteq U PROVE FALSE
      OBVIOUS
    <3>2. Cardinality(Inodes) <= Cardinality(U)
      BY <2>7, <3>1, FS_Subset
    <3> HIDE DEF U
    <3>3. QED
      BY <2>7, <2>8, <3>2, <1>0
  <2>10. \E x \in Inodes \ U : \A y \in Inodes \ U : x <= y
    BY <1>0, <2>9, LeastElement, Zenon
  <2>11. Min(Inodes \ U) \in Inodes \ U
    BY <2>10 DEF Min
  <2>12. QED
    BY <1>3, <2>11 DEF InodeFor
<1>4. QED
  BY <1>2, <1>3

(* Open finds a file if the chunk has one. *)
LEMMA FindChunkFacts ==
    ASSUME TypeOK, NEW c \in Chunks, DOMAIN dir[c] # {}
    PROVE  /\ findChunk(c) \in DOMAIN dir[c]
           /\ \A q \in DOMAIN dir[c] : NameRank(findChunk(c)) <= NameRank(q)
<1> DEFINE D == DOMAIN dir[c]
           R == {NameRank(q) : q \in D}
<1>1. D \subseteq Nat
  BY DEF TypeOK, FileTypes, ProcessTypes
<1>2. R \subseteq Nat /\ R # {}
  BY <1>1 DEF NameRank
<1>3. PICK m \in R : \A x \in R : m <= x
  BY <1>2, LeastElement, Zenon
<1>4. \E r \in D : \A q \in D : NameRank(r) <= NameRank(q)
  BY <1>3
<1>5. QED
  BY <1>4 DEF findChunk
-----------------------------------------------------------------------------------
(* Types *)

(* What the phase of the process and the stage of the defragmenter imply. *)
Stages ==
    /\ \A c \in Chunks : revision[c] <= defrags
    /\ phase = "up" /\ defrag.stage = "taken" =>
          /\ \A c \in Chunks : DOMAIN dir[c] \subseteq 0 .. defrags - 1
          /\ revision[defrag.chunk] < defrags
    /\ phase = "up" /\ defrag.stage = "copying" => present[defrag.chunk]
    /\ phase = "panicked" => defrag.stage # "copying"
    /\ phase = "down" => /\ \A c \in Chunks : ~protected[c] /\ pm[c] = NoPM
                         /\ defrag = Idle

TypeInv == TypeOK /\ Stages

(* pmap.New made file rev of chunk c, with inode n. *)
Created(c, rev, n) ==
    /\ dir' = [dir EXCEPT ![c] = Link(dir[c], rev, n)]
    /\ data' = [data EXCEPT ![c] = [data[c] EXCEPT ![n] = {}]]
    /\ garbage' = [garbage EXCEPT ![c] = garbage[c] \ {n}]
    /\ pm' = [pm EXCEPT ![c] = [inode |-> n, rev |-> rev]]
    /\ rev \in DOMAIN dir[c] => n = dir[c][rev]
    /\ rev \notin DOMAIN dir[c] =>
          n \notin Range(dir[c]) \cup {pm[c].inode, defrag.old.inode}

(* What pmap.New does to the directory, the files and the table of chunks. *)
LEMMA NewStoreFacts ==
    ASSUME TypeOK, NEW c \in Chunks, NEW rev \in 0 .. defrags, NewStore(c, rev)
    PROVE  \E n \in Inodes : Created(c, rev, n)
<1>1. rev \in 0 .. MaxDefrags
  BY BoundsAssumption DEF TypeOK, ProcessTypes
<1>2. PICK n : n = InodeFor(c, rev)
  BY Zenon
<1>3. /\ n \in Inodes
      /\ rev \in DOMAIN dir[c] => n = dir[c][rev]
      /\ rev \notin DOMAIN dir[c] =>
            n \notin Range(dir[c]) \cup {pm[c].inode, defrag.old.inode}
  BY <1>1, <1>2, InodeForFacts
<1>4. /\ dir' = [dir EXCEPT ![c] = Link(dir[c], rev, n)]
      /\ data' = [data EXCEPT ![c] = [data[c] EXCEPT ![n] = {}]]
      /\ garbage' = [garbage EXCEPT ![c] = garbage[c] \ {n}]
      /\ pm' = [pm EXCEPT ![c] = [inode |-> n, rev |-> rev]]
  BY <1>2 DEF NewStore
<1>5. QED
  BY <1>3, <1>4, Zenon DEF Created

(* The types of what pmap.New changes. *)
LEMMA NewStoreTypes ==
    ASSUME TypeOK, NEW c \in Chunks, NEW rev \in 0 .. defrags, NewStore(c, rev),
           UNCHANGED <<stored, defrags>>
    PROVE  /\ FileTypes'
           /\ pm' \in [Chunks -> PM]
           /\ pm'[c] # NoPM
           /\ \A b \in Chunks \ {c} : pm'[b] = pm[b]
           /\ \A b \in Chunks : DOMAIN dir'[b] \subseteq DOMAIN dir[b] \cup {rev}
<1>1. PICK n \in Inodes : Created(c, rev, n)
  BY NewStoreFacts
<1>2. defrags \in Nat /\ DOMAIN dir = Chunks
  BY DEF TypeOK, ProcessTypes, FileTypes
<1>3. Link(dir[c], rev, n) \in [DOMAIN dir[c] \cup {rev} -> Inodes]
  BY LinkFacts, Zenon DEF TypeOK, FileTypes
<1>4. /\ DOMAIN dir' = Chunks
      /\ \A b \in Chunks : /\ dir'[b] \in [DOMAIN dir'[b] -> Inodes]
                           /\ DOMAIN dir'[b] \subseteq DOMAIN dir[b] \cup {rev}
                           /\ DOMAIN dir'[b] \subseteq 0 .. defrags
  <2>1. dir'[c] = Link(dir[c], rev, n) /\ DOMAIN dir' = Chunks
    BY <1>1, <1>2 DEF Created
  <2>2. \A b \in Chunks \ {c} : dir'[b] = dir[b]
    BY <1>1, <1>2 DEF Created
  <2>3. QED
    BY <2>1, <2>2, <1>3 DEF TypeOK, FileTypes
<1>5. data' \in [Chunks -> [Inodes -> SUBSET Items]] /\ garbage' \in [Chunks -> SUBSET Inodes]
  BY <1>1 DEF Created, TypeOK, FileTypes
<1>6. /\ pm' \in [Chunks -> PM] /\ pm'[c] # NoPM
      /\ \A b \in Chunks \ {c} : pm'[b] = pm[b]
  <2>1. [inode |-> n, rev |-> rev] \in PM /\ [inode |-> n, rev |-> rev].inode # 0
    BY <1>2, BoundsAssumption DEF PM, Inodes
  <2>2. QED
    BY <2>1, <1>1 DEF Created, TypeOK, MetaTypes, NoPM
<1>7. FileTypes'
  BY <1>4, <1>5, Zenon DEF FileTypes, TypeOK
<1>8. QED
  BY <1>4, <1>6, <1>7

LEMMA InitType == Init => TypeInv
<1> SUFFICES ASSUME Init PROVE TypeInv
  OBVIOUS
<1>1. 1 \in Inodes /\ {MaxDefrags, MaxProtections, MaxRestarts, MaxAsking, defragBufferSize} \subseteq Nat
  BY BoundsAssumption DEF Inodes
<1>2. Link(<< >>, 0, 1) \in [{0} -> Inodes]
  BY <1>1, OneName, Zenon
<1>3. Cardinality(Chunks) \in Nat
  BY ChunksAssumption, FS_CardinalityType, Zenon
<1>4. MetaTypes
  BY <1>1, <1>3 DEF Init, MetaTypes, PM
<1>5. ProcessTypes /\ DefragTypes
  BY <1>1 DEF Init, ProcessTypes, DefragTypes, Idle, PM
<1>6. FileTypes
  BY <1>1, <1>2 DEF Init, FileTypes
<1>7. [inode |-> 1, rev |-> 0] # NoPM
  BY DEF NoPM
<1>8. QED
  BY <1>4, <1>5, <1>6, <1>7 DEF Init, TypeInv, TypeOK, Stages, Idle

(* The types of what os.Remove changes. *)
LEMMA UnlinkTypes ==
    ASSUME TypeOK, NEW c \in Chunks, NEW r, Unlink(c, r)
    PROVE  /\ DOMAIN dir' = Chunks
           /\ dir'[c] = Restrict(dir[c], DOMAIN dir[c] \ {r})
           /\ \A b \in Chunks \ {c} : dir'[b] = dir[b]
           /\ \A b \in Chunks : /\ dir'[b] \in [DOMAIN dir'[b] -> Inodes]
                                /\ DOMAIN dir'[b] \subseteq DOMAIN dir[b]
<1>1. DOMAIN dir = Chunks /\ dir[c] \in [DOMAIN dir[c] -> Inodes]
  BY DEF TypeOK, FileTypes
<1>2. Restrict(dir[c], DOMAIN dir[c] \ {r}) \in [DOMAIN dir[c] \ {r} -> Inodes]
  BY <1>1, RestrictFacts, Zenon
<1>3. /\ dir'[c] = Restrict(dir[c], DOMAIN dir[c] \ {r}) /\ DOMAIN dir' = Chunks
      /\ \A b \in Chunks \ {c} : dir'[b] = dir[b]
  BY <1>1 DEF Unlink
<1>4. QED
  BY <1>2, <1>3, Zenon DEF TypeOK, FileTypes

(* Steps that leave the defragmenter and its queue alone. *)
LEMMA DefragTypesUnchanged ==
    ASSUME TypeOK, asking' = asking, queue' = queue, defrag' = defrag,
           disordered' \subseteq disordered
    PROVE  DefragTypes'
<1>1. DefragTypes
  BY DEF TypeOK
<1>2. QED
  BY <1>1, Zenon DEF DefragTypes

LEMMA TypeStepChunks ==
    ASSUME TypeInv, NEW c \in Chunks
    PROVE  \/ ChunkSetPresent(c) \/ ChunkSetNoPresent(c) \/ ChunkSetProtected(c)
           \/ \E t \in 1 .. MaxProtections : ProtectionExpires(c, t)
           \/ \E x \in Items : Set(c, x) \/ Delete(c, x)
           \/ AskDefrag(c)
           => TypeInv'
<1> USE DEF TypeInv
<1>0. defrags \in Nat /\ MaxProtections \in Nat /\ clock \in Nat
      /\ MaxAsking \in Nat /\ defragBufferSize \in Nat
  BY BoundsAssumption DEF TypeOK, ProcessTypes
<1>1. ASSUME ChunkSetPresent(c) PROVE TypeInv'
  <2>1. /\ FileTypes' /\ pm' \in [Chunks -> PM] /\ pm'[c] # NoPM
        /\ \A b \in Chunks \ {c} : pm'[b] = pm[b]
        /\ \A b \in Chunks : DOMAIN dir'[b] \subseteq DOMAIN dir[b] \cup {0}
    BY <1>0, <1>1, NewStoreTypes DEF ChunkSetPresent, counters
  <2>2. MetaTypes'
    <3>1. MetaTypes
      BY DEF TypeOK
    <3>2. /\ present' = [present EXCEPT ![c] = TRUE] /\ knownChunks' = knownChunks + 1
          /\ UNCHANGED <<protected, protectionTime, revision>>
      BY <1>1 DEF ChunkSetPresent
    <3>3. QED
      BY ONLY <2>1, <3>1, <3>2 DEF MetaTypes
  <2>3. ProcessTypes' /\ DefragTypes'
    <3>1. UNCHANGED <<phase, timers, defrags, restarts, clock, asking, queue, defrag, disordered>>
      BY <1>1, Zenon DEF ChunkSetPresent, counters
    <3>2. QED
      BY <3>1, DefragTypesUnchanged DEF TypeOK, ProcessTypes
  <2>4. TypeOK'
    BY <1>1, <2>1, <2>2, <2>3, Zenon DEF ChunkSetPresent, TypeOK, MetaTypes
  <2>5. Stages'
    <3>1. defrag.stage = "taken" /\ phase = "up" =>
             \A b \in Chunks : DOMAIN dir'[b] \subseteq 0 .. defrags - 1
      <4>1. defrag.stage = "taken" /\ phase = "up" => defrags > 0
        BY <1>0 DEF TypeOK, MetaTypes, DefragTypes, Stages, Idle
      <4>2. QED
        BY <1>0, <4>1, <2>1 DEF Stages
    <3>2. QED
      BY <1>1, <3>1 DEF ChunkSetPresent, TypeOK, MetaTypes, Stages, counters
  <2>6. QED
    BY <2>4, <2>5
<1>2. ASSUME ChunkSetNoPresent(c) PROVE TypeInv'
  <2>1. /\ DOMAIN dir' = Chunks
        /\ \A b \in Chunks : /\ dir'[b] \in [DOMAIN dir'[b] -> Inodes]
                             /\ DOMAIN dir'[b] \subseteq DOMAIN dir[b]
    BY <1>2, UnlinkTypes, Zenon DEF ChunkSetNoPresent
  <2>2. MetaTypes'
    BY <1>2 DEF ChunkSetNoPresent, TypeOK, MetaTypes, PM
  <2>3. ProcessTypes' /\ DefragTypes'
    BY <1>2, DefragTypesUnchanged, Zenon DEF ChunkSetNoPresent, TypeOK, ProcessTypes, counters
  <2>4. FileTypes'
    BY <1>2, <2>1 DEF ChunkSetNoPresent, TypeOK, FileTypes, counters
  <2>5. TypeOK'
    BY <1>2, <2>2, <2>3, <2>4, Zenon DEF ChunkSetNoPresent, TypeOK, MetaTypes
  <2>6. Stages'
    BY <1>2, <2>1 DEF ChunkSetNoPresent, TypeOK, MetaTypes, Stages, counters, Locked
  <2>7. QED
    BY <2>5, <2>6
<1>3. ASSUME ChunkSetProtected(c) PROVE TypeInv'
  <2>1. MetaTypes' /\ ProcessTypes'
    BY <1>0, <1>3, SMTT(30) DEF ChunkSetProtected, TypeOK, MetaTypes, ProcessTypes
  <2>2. DefragTypes' /\ FileTypes' /\ Stages'
    BY <1>3, DefragTypesUnchanged DEF ChunkSetProtected, TypeOK, FileTypes, MetaTypes, Stages, files
  <2>3. QED
    BY <1>3, <2>1, <2>2, Zenon DEF ChunkSetProtected, TypeOK
<1>4. ASSUME NEW t \in 1 .. MaxProtections, ProtectionExpires(c, t) PROVE TypeInv'
  <2>1. MetaTypes'
    <3>1. MetaTypes
      BY DEF TypeOK
    <3>2. /\ protectionTime' \in {protectionTime, [protectionTime EXCEPT ![c] = 0]}
          /\ protected' \in {protected, [protected EXCEPT ![c] = FALSE]}
          /\ UNCHANGED <<present, revision, pm, knownChunks>>
      BY <1>4 DEF ProtectionExpires
    <3>3. protectionTime' \in [Chunks -> Nat]
      BY ONLY <3>1, <3>2 DEF MetaTypes
    <3>4. protected' \in [Chunks -> BOOLEAN]
      BY ONLY <3>1, <3>2, Zenon DEF MetaTypes
    <3>5. QED
      BY <3>1, <3>2, <3>3, <3>4 DEF MetaTypes
  <2>2. ProcessTypes' /\ DefragTypes'
    <3>1. /\ UNCHANGED <<phase, defrags, restarts, clock, asking, queue, defrag, disordered>>
          /\ timers' \subseteq timers
      BY <1>4, Zenon DEF ProtectionExpires, counters
    <3>2. QED
      BY <3>1, DefragTypesUnchanged DEF TypeOK, ProcessTypes
  <2>3. FileTypes' /\ Stages'
    BY <1>4 DEF ProtectionExpires, TypeOK, FileTypes, MetaTypes, Stages, files, counters
  <2>4. QED
    BY <1>4, <2>1, <2>2, <2>3, Zenon DEF ProtectionExpires, TypeOK
<1>5. ASSUME NEW x \in Items, Set(c, x) PROVE TypeInv'
  <2>1. pm[c].inode \in Inodes
    BY <1>5 DEF Set, TypeOK, MetaTypes, PM
  <2>2. MetaTypes' /\ ProcessTypes' /\ DefragTypes' /\ Stages'
    BY <1>5, DefragTypesUnchanged, Zenon
    DEF Set, TypeOK, MetaTypes, ProcessTypes, Stages, meta, counters
  <2>3. FileTypes'
    BY <1>5, <2>1, Zenon DEF Set, TypeOK, FileTypes, counters
  <2>4. QED
    BY <1>5, <2>2, <2>3, Zenon DEF Set, TypeOK, meta
<1>6. ASSUME NEW x \in Items, Delete(c, x) PROVE TypeInv'
  <2>1. pm[c].inode \in Inodes
    BY <1>6 DEF Delete, TypeOK, MetaTypes, PM
  <2>2. MetaTypes' /\ ProcessTypes' /\ Stages'
    BY <1>6, Zenon DEF Delete, TypeOK, MetaTypes, ProcessTypes, Stages, meta, counters
  <2>3. DefragTypes'
    <3>1. asking' \in [Chunks -> 0 .. MaxAsking]
      <4>1. asking \in [Chunks -> 0 .. MaxAsking]
        BY Zenon DEF TypeOK, DefragTypes
      <4>2. \/ asking' = asking
            \/ asking[c] < MaxAsking /\ asking' = [asking EXCEPT ![c] = asking[c] + 1]
        BY <1>6 DEF Delete
      <4>3. QED
        BY ONLY <1>0, <4>1, <4>2, c \in Chunks
    <3>2. queue' = queue /\ defrag' = defrag /\ disordered' = disordered /\ DefragTypes
      BY <1>6, Zenon DEF Delete, TypeOK
    <3>3. QED
      BY <3>1, <3>2, Zenon DEF DefragTypes
  <2>4. FileTypes'
    BY <1>6, <2>1 DEF Delete, TypeOK, FileTypes, counters
  <2>5. QED
    BY <1>6, <2>2, <2>3, <2>4, Zenon DEF Delete, TypeOK, meta
<1>7. ASSUME AskDefrag(c) PROVE TypeInv'
  <2>1. MetaTypes' /\ ProcessTypes' /\ FileTypes' /\ Stages'
    BY <1>7, Zenon DEF AskDefrag, TypeOK, MetaTypes, ProcessTypes, FileTypes, Stages, meta, files, counters
  <2>2. DefragTypes'
    <3>1. DefragTypes
      BY DEF TypeOK
    <3>2. asking' \in [Chunks -> 0 .. MaxAsking]
      <4>1. asking[c] > 0 /\ asking' = [asking EXCEPT ![c] = asking[c] - 1]
        BY <1>7 DEF AskDefrag
      <4>2. asking \in [Chunks -> 0 .. MaxAsking]
        BY <3>1, Zenon DEF DefragTypes
      <4>3. QED
        BY ONLY <1>0, <4>1, <4>2, c \in Chunks
    <3>3. queue' \in Seq(Chunks) /\ Len(queue') <= defragBufferSize
      <4>1. queue \in Seq(Chunks)
        BY <3>1, Zenon DEF DefragTypes
      <4>2. Len(queue) < defragBufferSize /\ queue' = Append(queue, c)
        BY <1>7 DEF AskDefrag
      <4>3. QED
        BY ONLY <1>0, <4>1, <4>2, c \in Chunks
    <3>4. defrag' = defrag /\ disordered' = disordered
      BY <1>7 DEF AskDefrag
    <3>5. QED
      BY <3>1, <3>2, <3>3, <3>4, Zenon DEF DefragTypes
  <2>3. QED
    BY <1>7, <2>1, <2>2, Zenon DEF AskDefrag, TypeOK, meta
<1>8. QED
  BY <1>1, <1>2, <1>3, <1>4, <1>5, <1>6, <1>7, Zenon

LEMMA TypeStepDefrag ==
    ASSUME TypeInv
    PROVE  \/ DefragTake \/ DefragStart \/ DefragEnd
           \/ \E x \in Items : DefragCopy(x)
           => TypeInv'
<1> USE DEF TypeInv
<1>0. /\ defrags \in Nat /\ MaxDefrags \in Nat /\ defrags <= MaxDefrags
      /\ NoPM \in PM
  BY BoundsAssumption DEF TypeOK, ProcessTypes, PM
<1>1. ASSUME DefragTake PROVE TypeInv'
  <2>1. /\ phase = "up" /\ phase' \in {"up", "panicked"} /\ MetaTypes'
        /\ UNCHANGED <<files, stored, meta, timers, asking, disordered, restarts, clock>>
    <3>1. phase = "up" /\ phase' \in {"up", "panicked"}
      BY <1>1 DEF DefragTake
    <3>2. UNCHANGED <<files, stored, meta, timers, asking, disordered, restarts, clock>> /\ MetaTypes
      BY <1>1 DEF DefragTake, TypeOK
    <3>3. MetaTypes'
      BY <3>2, Zenon DEF MetaTypes, meta
    <3>4. QED
      BY <3>1, <3>2, <3>3
  <2>2. defrags' = defrags + 1 /\ defrags' \in 0 .. MaxDefrags
    BY <1>0, <1>1 DEF DefragTake
  <2>3. ProcessTypes'
    BY <2>1, <2>2, Zenon DEF TypeOK, ProcessTypes
  <2>4. FileTypes'
    <3>1. UNCHANGED <<dir, data, garbage, stored>>
      BY <2>1 DEF files
    <3>2. QED
      BY <3>1, <2>2, <1>0 DEF TypeOK, FileTypes
  <2>5. Head(queue) \in Chunks /\ queue' \in Seq(Chunks) /\ Len(queue') <= defragBufferSize
    <3>1. queue \in Seq(Chunks) /\ Len(queue) <= defragBufferSize /\ queue # << >> /\ defragBufferSize \in Nat
      BY <1>1, BoundsAssumption DEF DefragTake, TypeOK, DefragTypes
    <3>2. queue' = Tail(queue)
      BY <1>1 DEF DefragTake
    <3>3. QED
      BY ONLY <3>1, <3>2
  <2>6. DefragTypes'
    <3>0. DefragTypes /\ asking' = asking /\ disordered' = disordered
      BY <2>1 DEF TypeOK
    <3>1. CASE UNCHANGED defrag
      BY <3>0, <3>1, <2>5, Zenon DEF DefragTypes
    <3>2. CASE defrag' = [Idle EXCEPT !.chunk = Head(queue), !.stage = "taken"]
      BY <1>0, <3>0, <2>5, <3>2, Zenon DEF DefragTypes, Idle
    <3>3. QED
      BY <1>1, <3>1, <3>2 DEF DefragTake
  <2>7. TypeOK'
    BY <2>1, <2>3, <2>4, <2>6, Zenon DEF TypeOK, meta
  <2>8. Stages'
    <3>1. \A c \in Chunks : revision'[c] <= defrags /\ revision'[c] \in Nat
      BY <2>1, Zenon DEF Stages, meta, TypeOK, MetaTypes
    <3>2. \A c \in Chunks : DOMAIN dir'[c] \subseteq 0 .. defrags' - 1
      BY <2>1, <2>2, <1>0 DEF files, TypeOK, FileTypes
    <3>3. defrag' = [Idle EXCEPT !.chunk = Head(queue), !.stage = "taken"] \/ defrag' = Idle
      BY <1>1, Zenon DEF DefragTake
    <3>4. phase' = "up" \/ phase' = "panicked"
      BY <2>1
    <3>5. /\ Idle.stage = "idle"
          /\ [Idle EXCEPT !.chunk = Head(queue), !.stage = "taken"].stage = "taken"
          /\ [Idle EXCEPT !.chunk = Head(queue), !.stage = "taken"].chunk = Head(queue)
      BY DEF Idle
    <3>6. defrag'.stage # "copying" /\ (defrag'.stage = "taken" => defrag'.chunk \in Chunks)
      <4>1. CASE defrag' = Idle
        BY <4>1, <3>5
      <4>2. CASE defrag' = [Idle EXCEPT !.chunk = Head(queue), !.stage = "taken"]
        BY <4>2, <3>5, <2>5
      <4>3. QED
        BY <3>3, <4>1, <4>2
    <3>7. \A c \in Chunks : revision'[c] < defrags' /\ revision'[c] <= defrags'
      BY <3>1, <2>2, <1>0
    <3>8. QED
      BY <3>2, <3>4, <3>6, <3>7, Zenon DEF Stages
  <2>9. QED
    BY <2>7, <2>8
<1>2. ASSUME DefragStart PROVE TypeInv'
  <2> DEFINE c == defrag.chunk
             rev == revision[c] + 1
  <2>1. c \in Chunks /\ phase = "up"
    BY <1>2 DEF DefragStart, TypeOK, DefragTypes, Idle
  <2>2. rev \in 0 .. defrags /\ rev \in Nat
    BY <1>0, <1>2, <2>1 DEF DefragStart, Stages, TypeOK, MetaTypes
  <2>3. /\ NewStore(c, rev) /\ revision' = [revision EXCEPT ![c] = rev]
        /\ UNCHANGED <<present, protected, protectionTime, knownChunks, timers, asking, queue,
                       stored, defrags, restarts, clock>>
        /\ disordered' \subseteq disordered \cup {c}
        /\ \/ pm[c] = NoPM /\ phase' = "panicked" /\ defrag' = defrag
           \/ /\ pm[c] # NoPM /\ phase' = phase
              /\ defrag' = [defrag EXCEPT !.stage = "copying", !.old = pm[c],
                                          !.todo = data'[c][pm[c].inode]]
    BY <1>2 DEF DefragStart, counters
  <2> HIDE DEF c, rev
  <2>4. /\ FileTypes' /\ pm' \in [Chunks -> PM] /\ pm'[c] # NoPM
        /\ \A b \in Chunks \ {c} : pm'[b] = pm[b]
        /\ \A b \in Chunks : DOMAIN dir'[b] \subseteq DOMAIN dir[b] \cup {rev}
    BY <2>1, <2>2, <2>3, NewStoreTypes
  <2>5. MetaTypes'
    <3>1. MetaTypes
      BY DEF TypeOK
    <3>2. QED
      BY ONLY <3>1, <2>1, <2>2, <2>3, <2>4, Zenon DEF MetaTypes
  <2>6. ProcessTypes'
    BY <2>1, <2>3 DEF TypeOK, ProcessTypes
  <2>7. DefragTypes'
    <3>1. CASE defrag' = defrag
      <4>1. DefragTypes
        BY DEF TypeOK
      <4>2. QED
        BY <2>1, <2>3, <3>1, <4>1, Zenon DEF DefragTypes
    <3>2. CASE pm[c] # NoPM /\ phase' = phase
              /\ defrag' = [defrag EXCEPT !.stage = "copying", !.old = pm[c],
                                          !.todo = data'[c][pm[c].inode]]
      <4>1. pm[c] \in PM /\ pm[c].inode \in Inodes
        BY <2>1, <3>2, Zenon DEF TypeOK, MetaTypes, PM
      <4>2. data'[c][pm[c].inode] \in SUBSET Items
        BY <2>1, <2>4, <4>1 DEF FileTypes
      <4>3. DefragTypes
        BY DEF TypeOK
      <4>4. PICK todo : todo = data'[c][pm[c].inode]
        BY Zenon
      <4>5. PICK old : old = pm[c]
        BY Zenon
      <4>6. defrag'.chunk = c /\ defrag'.stage = "copying"
            /\ defrag' \in [chunk : Chunks \cup {"none"}, stage : {"idle", "taken", "copying"},
                   old : PM, todo : SUBSET Items]
        BY <3>2, <4>1, <4>2, <4>3, <4>4, <4>5, Zenon DEF DefragTypes, c
      <4>7. queue' = queue /\ asking' = asking /\ disordered' \subseteq Chunks
        BY <2>1, <2>3, <4>3, Zenon DEF DefragTypes
      <4>8. QED
        BY <4>3, <4>6, <4>7, <2>1, Zenon DEF DefragTypes
    <3>3. QED
      BY <2>3, <3>1, <3>2
  <2>8. TypeOK'
    BY <2>1, <2>3, <2>4, <2>5, <2>6, <2>7, Zenon DEF TypeOK
  <2>9. Stages'
    <3>1. \A b \in Chunks : revision'[b] <= defrags'
      BY <1>0, <2>1, <2>2, <2>3 DEF Stages, TypeOK, MetaTypes
    <3>2. phase' = "up" => defrag'.stage = "copying" /\ defrag'.chunk = c /\ present'[c]
      BY <2>1, <2>3, Zenon DEF TypeOK, DefragTypes, c
    <3>3. phase' = "panicked" => defrag'.stage = "taken"
      BY <1>2, <2>1, <2>3, Zenon DEF DefragStart
    <3>4. QED
      BY <2>1, <2>3, <3>1, <3>2, <3>3, Zenon DEF Stages
  <2>10. QED
    BY <2>8, <2>9
<1>3. ASSUME NEW x \in Items, DefragCopy(x) PROVE TypeInv'
  <2>1. PICK c : c = defrag.chunk
    BY Zenon
  <2>2. c \in Chunks /\ phase = "up" /\ present[c]
    BY <1>3, <2>1 DEF DefragCopy, TypeOK, DefragTypes, Idle, Stages
  <2>3. pm[c].inode \in Inodes
    BY <2>2 DEF TypeOK, MetaTypes, PM
  <2>4. /\ data' = [data EXCEPT ![c] = [data[c] EXCEPT ![pm[c].inode] = data[c][pm[c].inode] \cup {x}]]
        /\ defrag' = [defrag EXCEPT !.todo = defrag.todo \ {x}]
        /\ UNCHANGED <<phase, meta, timers, asking, queue, dir, garbage, stored, disordered, counters>>
    BY <1>3, <2>1 DEF DefragCopy
  <2>5. FileTypes'
    BY <2>2, <2>3, <2>4 DEF TypeOK, FileTypes, counters
  <2>6. DefragTypes' /\ defrag'.stage = "copying" /\ defrag'.chunk = c
    <3>1. /\ queue' = queue /\ asking' = asking /\ disordered' = disordered /\ DefragTypes
          /\ defrag' = [defrag EXCEPT !.todo = defrag.todo \ {x}]
          /\ defrag.stage = "copying" /\ c = defrag.chunk /\ c \in Chunks
      BY <1>3, <2>1, <2>2, <2>4, Zenon DEF TypeOK, DefragCopy
    <3>2. QED
      BY ONLY <3>1, Zenon DEF DefragTypes
  <2>7. MetaTypes' /\ ProcessTypes'
    BY <2>4 DEF TypeOK, MetaTypes, ProcessTypes, meta, counters
  <2>8. TypeOK'
    BY <2>4, <2>5, <2>6, <2>7, Zenon DEF TypeOK, meta
  <2>9. Stages'
    BY <2>2, <2>4, <2>6 DEF Stages, meta, counters
  <2>10. QED
    BY <2>8, <2>9
<1>4. ASSUME DefragEnd PROVE TypeInv'
  <2>1. PICK c : c = defrag.chunk
    BY Zenon
  <2>2. c \in Chunks /\ Unlink(c, defrag.old.rev)
    BY <1>4, <2>1 DEF DefragEnd, TypeOK, DefragTypes, Idle
  <2>3. /\ DOMAIN dir' = Chunks
        /\ \A b \in Chunks : /\ dir'[b] \in [DOMAIN dir'[b] -> Inodes]
                             /\ DOMAIN dir'[b] \subseteq DOMAIN dir[b]
    BY <2>2, UnlinkTypes, Zenon
  <2>4. MetaTypes' /\ ProcessTypes'
    BY <1>4 DEF DefragEnd, TypeOK, MetaTypes, ProcessTypes, meta, counters
  <2>5. DefragTypes'
    <3>1. /\ queue' = queue /\ asking' = asking /\ disordered' = disordered
          /\ DefragTypes /\ defrag' = Idle
      BY <1>4 DEF TypeOK, DefragEnd
    <3>2. Idle \in [chunk : Chunks \cup {"none"}, stage : {"idle", "taken", "copying"},
                   old : PM, todo : SUBSET Items]
      BY <1>0, Zenon DEF Idle
    <3>3. QED
      BY <3>1, <3>2, Zenon DEF DefragTypes
  <2>6. FileTypes'
    BY <1>4, <2>3 DEF DefragEnd, TypeOK, FileTypes, counters
  <2>7. TypeOK'
    BY <1>4, <2>4, <2>5, <2>6, Zenon DEF TypeOK, DefragEnd, meta
  <2>8. Stages'
    BY <1>4 DEF DefragEnd, Stages, meta, counters, Idle
  <2>9. QED
    BY <2>7, <2>8
<1>5. QED
  BY <1>1, <1>2, <1>3, <1>4

LEMMA TypeStepProcess ==
    ASSUME TypeInv
    PROVE  Close \/ Crash \/ Open \/ CreateNew => TypeInv'
<1> USE DEF TypeInv
<1>0. /\ defrags \in Nat /\ MaxDefrags \in Nat /\ defrags <= MaxDefrags
      /\ restarts \in Nat /\ MaxRestarts \in Nat /\ NoPM \in PM
      /\ MaxAsking \in Nat /\ defragBufferSize \in Nat
  BY BoundsAssumption DEF TypeOK, ProcessTypes, PM
<1>1. ASSUME Down PROVE TypeInv'
  <2>1. MetaTypes'
    BY <1>0, <1>1 DEF Down, MetaTypes
  <2>2. ProcessTypes'
    BY <1>1, Zenon DEF Down, TypeOK, ProcessTypes, counters
  <2>3. DefragTypes'
    <3>1. disordered' \subseteq Chunks
      BY <1>1, Zenon DEF Down, TypeOK, DefragTypes
    <3>2. asking' \in [Chunks -> 0 .. MaxAsking]
      BY <1>0, <1>1 DEF Down
    <3>3. QED
      BY <1>0, <1>1, <3>1, <3>2, SMTT(30) DEF Down, DefragTypes, Idle
  <2>4. FileTypes'
    BY <1>1, Zenon DEF Down, TypeOK, FileTypes, files, counters
  <2>5. Stages'
    BY <1>0, <1>1 DEF Down, Stages, counters, Idle
  <2>6. QED
    BY <1>1, <2>1, <2>2, <2>3, <2>4, <2>5 DEF Down, TypeOK
<1>2. ASSUME Open PROVE TypeInv'
  <2>1. ASSUME NEW c \in Chunks, DOMAIN dir[c] # {}
        PROVE  /\ [inode |-> dir[c][findChunk(c)], rev |-> findChunk(c)] \in PM
               /\ [inode |-> dir[c][findChunk(c)], rev |-> findChunk(c)] # NoPM
    <3>1. findChunk(c) \in DOMAIN dir[c]
      BY <2>1, FindChunkFacts
    <3>2. findChunk(c) \in Nat /\ dir[c][findChunk(c)] \in Inodes
      BY <1>0, <3>1 DEF TypeOK, FileTypes
    <3>3. dir[c][findChunk(c)] # 0
      BY <1>0, <3>2 DEF Inodes
    <3>4. QED
      BY <3>2, <3>3 DEF PM, NoPM
  <2>2. /\ present' = [c \in Chunks |-> DOMAIN dir[c] # {}]
        /\ pm' = [c \in Chunks |-> IF DOMAIN dir[c] = {} THEN NoPM
                        ELSE [inode |-> dir[c][findChunk(c)], rev |-> findChunk(c)]]
    BY <1>2 DEF Open
  <2>3. pm' \in [Chunks -> PM] /\ \A c \in Chunks : present'[c] <=> pm'[c] # NoPM
    BY <1>0, <2>1, <2>2, Zenon
  <2>4. present' \in [Chunks -> BOOLEAN]
    BY <2>2, Zenon
  <2>5. MetaTypes'
    BY <1>2, <2>3, <2>4, Zenon DEF Open, TypeOK, MetaTypes
  <2>6. ProcessTypes'
    BY <1>0, <1>2, SMTT(30) DEF Open, TypeOK, ProcessTypes
  <2>7. DefragTypes' /\ FileTypes'
    BY <1>2, DefragTypesUnchanged, Zenon DEF Open, TypeOK, FileTypes, files
  <2>8. Stages'
    <3>1. /\ phase' = "up" /\ defrag' = Idle
          /\ revision' = revision /\ defrags' = defrags
      BY <1>0, <1>2, Zenon DEF Open, Stages
    <3>2. \A c \in Chunks : revision[c] <= defrags
      BY <1>0, Zenon DEF Stages
    <3>3. QED
      BY ONLY <3>1, <3>2 DEF Stages, Idle
  <2>9. QED
    BY <2>3, <2>5, <2>6, <2>7, <2>8, Zenon DEF TypeOK
<1>3. ASSUME CreateNew PROVE TypeInv'
  <2>1. ASSUME NEW c \in Chunks
        PROVE  InodeFor(c, 0) \in Inodes /\ InodeFor(c, 0) # 0
    <3>1. InodeFor(c, 0) \in Inodes
      BY <1>0, InodeForFacts
    <3>2. QED
      BY <1>0, <3>1 DEF Inodes
  <2>2. ASSUME NEW c \in Chunks
        PROVE  /\ dir'[c] \in [DOMAIN dir'[c] -> Inodes]
               /\ DOMAIN dir'[c] \subseteq 0 .. defrags
    <3>1. dir'[c] = Link(dir[c], 0, InodeFor(c, 0))
      BY <1>3 DEF CreateNew
    <3>2. dir[c] \in [DOMAIN dir[c] -> Inodes] /\ DOMAIN dir[c] \subseteq 0 .. defrags
      BY DEF TypeOK, FileTypes
    <3>3. dir'[c] \in [DOMAIN dir[c] \cup {0} -> Inodes]
      BY <2>1, <3>1, <3>2 DEF Link
    <3>4. QED
      BY <1>0, <3>2, <3>3
  <2>3. data' \in [Chunks -> [Inodes -> SUBSET Items]] /\ garbage' \in [Chunks -> SUBSET Inodes]
    <3>1. data' = [c \in Chunks |-> [data[c] EXCEPT ![InodeFor(c, 0)] = {}]]
          /\ garbage' = [c \in Chunks |-> garbage[c] \ {InodeFor(c, 0)}]
      BY <1>3 DEF CreateNew
    <3>2. PICK g : g = [c \in Chunks |-> InodeFor(c, 0)]
      BY Zenon
    <3>3. g \in [Chunks -> Inodes] /\ data \in [Chunks -> [Inodes -> SUBSET Items]]
          /\ garbage \in [Chunks -> SUBSET Inodes]
      BY <2>1, <3>2, Zenon DEF TypeOK, FileTypes
    <3>4. data' = [c \in Chunks |-> [data[c] EXCEPT ![g[c]] = {}]]
          /\ garbage' = [c \in Chunks |-> garbage[c] \ {g[c]}]
      BY <3>1, <3>2
    <3>5. QED
      BY ONLY <3>3, <3>4, Zenon
  <2>4. FileTypes'
    <3>1. DOMAIN dir' = Chunks /\ stored' = [c \in Chunks |-> {}] /\ defrags' = defrags
      BY <1>3 DEF CreateNew
    <3>2. QED
      BY <2>2, <2>3, <3>1, Zenon DEF FileTypes
  <2>5. pm' \in [Chunks -> PM] /\ \A c \in Chunks : pm'[c] # NoPM
    <3>1. pm' = [c \in Chunks |-> [inode |-> InodeFor(c, 0), rev |-> 0]]
      BY <1>3 DEF CreateNew
    <3>2. QED
      BY <2>1, <3>1, Zenon DEF PM, NoPM
  <2>6. Cardinality(Chunks) \in Int
    BY ChunksAssumption, FS_CardinalityType, SMTT(30)
  <2>7. MetaTypes'
    BY <1>3, <2>5, <2>6, Zenon DEF CreateNew, TypeOK, MetaTypes
  <2>8. ProcessTypes'
    BY <1>0, <1>3, SMTT(30) DEF CreateNew, TypeOK, ProcessTypes
  <2>9. DefragTypes'
    BY <1>3, DefragTypesUnchanged DEF CreateNew
  <2>10. Stages'
    <3>1. /\ phase' = "up" /\ defrag' = Idle
          /\ revision' = revision /\ defrags' = defrags
      BY <1>0, <1>3, ZenonT(40) DEF CreateNew, Stages
    <3>2. \A c \in Chunks : revision[c] <= defrags
      BY <1>0, Zenon DEF Stages
    <3>3. QED
      BY ONLY <3>1, <3>2 DEF Stages, Idle
  <2>11. TypeOK'
    BY <1>3, <2>4, <2>5, <2>7, <2>8, <2>9, Zenon DEF CreateNew, TypeOK
  <2>12. QED
    BY <2>10, <2>11
<1>4. QED
  BY <1>1, <1>2, <1>3 DEF Close, Crash

LEMMA TypeStep == TypeInv /\ [Next]_vars => TypeInv'
<1> SUFFICES ASSUME TypeInv, [Next]_vars PROVE TypeInv'
  OBVIOUS
<1>1. CASE UNCHANGED vars
  <2>1. MetaTypes' /\ ProcessTypes' /\ DefragTypes' /\ FileTypes'
    BY <1>1, Zenon DEF vars, meta, files, counters, TypeInv, TypeOK, MetaTypes, ProcessTypes,
                       DefragTypes, FileTypes
  <2>2. QED
    BY <1>1, <2>1, Zenon DEF vars, meta, files, counters, TypeInv, TypeOK, Stages
<1>2. CASE Next
  BY <1>2, TypeStepChunks, TypeStepDefrag, TypeStepProcess, Zenon DEF Next
<1>3. QED
  BY <1>1, <1>2

(* Types, as the code of core.go and defrag.go keeps them: a chunk has a pm exactly when it
   is present, and no file has a revision that no defragmentation gave. *)
THEOREM CoreTypeCorrect == Spec => []TypeOK
<1>1. Spec => []TypeInv
  BY InitType, TypeStep, PTL DEF Spec
<1>2. TypeInv => TypeOK
  BY DEF TypeInv
<1>3. QED
  BY <1>1, <1>2, PTL
-----------------------------------------------------------------------------------
(* Protection *)

(* Protection in every phase; a goroutine asleep has a time that has been given. *)
ProtectionInv ==
    /\ timers \subseteq Chunks \X (1 .. clock)
    /\ \A c \in Chunks : protected[c] => present[c] /\ <<c, protectionTime[c]>> \in timers

LEMMA ProtectionStep == TypeInv /\ ProtectionInv /\ [Next]_vars => ProtectionInv'
<1> SUFFICES ASSUME TypeInv, ProtectionInv, [Next]_vars PROVE ProtectionInv'
  OBVIOUS
<1>0. clock \in Nat /\ MaxProtections \in Nat
  BY BoundsAssumption DEF TypeInv, TypeOK, ProcessTypes
<1>1. CASE UNCHANGED <<protected, protectionTime, present, timers, clock>>
  BY <1>1, Zenon DEF ProtectionInv
<1>2. ASSUME NEW c \in Chunks, ChunkSetPresent(c) PROVE ProtectionInv'
  BY <1>2, Zenon DEF ChunkSetPresent, ProtectionInv, TypeInv, TypeOK, MetaTypes, counters
<1>3. ASSUME NEW c \in Chunks, ChunkSetNoPresent(c) PROVE ProtectionInv'
  BY <1>3, Zenon DEF ChunkSetNoPresent, ProtectionInv, TypeInv, TypeOK, MetaTypes, counters
<1>4. ASSUME NEW c \in Chunks, ChunkSetProtected(c) PROVE ProtectionInv'
  BY <1>0, <1>4 DEF ChunkSetProtected, ProtectionInv, TypeInv, TypeOK, MetaTypes
<1>5. ASSUME NEW c \in Chunks, NEW t \in 1 .. MaxProtections, ProtectionExpires(c, t)
      PROVE ProtectionInv'
  <2>1. CASE protectionTime[c] = t
    BY <1>5, <2>1, Zenon DEF ProtectionExpires, ProtectionInv, TypeInv, TypeOK, MetaTypes, counters
  <2>2. CASE protectionTime[c] # t
    BY <1>5, <2>2 DEF ProtectionExpires, ProtectionInv, counters
  <2>3. QED
    BY <2>1, <2>2, Zenon
<1>6. CASE Down
  BY <1>6, ZenonT(40) DEF Down, ProtectionInv, counters
<1>7. CASE Open \/ CreateNew
  BY <1>7 DEF Open, CreateNew, ProtectionInv, TypeInv, Stages
<1>8. CASE UNCHANGED vars
  BY <1>1, <1>8, Zenon DEF vars, meta, counters
<1>9. ASSUME NEW c \in Chunks, NEW x \in Items, Set(c, x) \/ Delete(c, x) PROVE ProtectionInv'
  BY <1>1, <1>9 DEF Set, Delete, meta, counters
<1>10. CASE DefragTake \/ DefragStart \/ DefragEnd
  BY <1>1, <1>10 DEF DefragTake, DefragStart, DefragEnd, meta, counters
<1>11. ASSUME NEW x \in Items, DefragCopy(x) PROVE ProtectionInv'
  BY <1>1, <1>11 DEF DefragCopy, meta, counters
<1>12. ASSUME NEW c \in Chunks, AskDefrag(c) PROVE ProtectionInv'
  BY <1>1, <1>12, Zenon DEF AskDefrag, meta, counters
<1>13. QED
  BY <1>2, <1>3, <1>4, <1>5, <1>6, <1>7, <1>8, <1>9, <1>10, <1>11, <1>12, Zenon DEF Next, Close, Crash

(* A protected chunk is present and the goroutine that will end its protection is asleep
   (ChunkSetProtected, core.go). *)
THEOREM ProtectionEnds == Spec => []NeverStuckProtected
<1>1. Init => ProtectionInv
  BY DEF Init, ProtectionInv
<1>2. ProtectionInv => NeverStuckProtected
  BY DEF ProtectionInv, NeverStuckProtected
<1>3. QED
  BY <1>1, <1>2, InitType, TypeStep, ProtectionStep, PTL DEF Spec

(* Protection ends only when the chunk is released or when the time of the last
   ChunkSetProtected is over. *)
THEOREM ProtectionHolds == Spec => ProtectionNotCutShort
<1> DEFINE P == \A c \in Chunks : protected[c] /\ ~protected'[c] /\ phase' = "up" =>
                    ~present'[c] \/ timers' = timers \ {<<c, protectionTime[c]>>}
<1>1. TypeInv /\ [Next]_vars => [P]_vars
  <2> SUFFICES ASSUME TypeInv, Next PROVE P
    OBVIOUS
  <2>0. protected \in [Chunks -> BOOLEAN] /\ present \in [Chunks -> BOOLEAN]
    BY DEF TypeInv, TypeOK, MetaTypes
  <2>1. CASE protected' = protected \/ phase' # "up"
    BY <2>1
  <2>2. ASSUME NEW c \in Chunks, ChunkSetNoPresent(c) PROVE P
    BY <2>0, <2>2 DEF ChunkSetNoPresent
  <2>3. ASSUME NEW c \in Chunks, ChunkSetProtected(c) PROVE P
    BY <2>0, <2>3 DEF ChunkSetProtected
  <2>4. ASSUME NEW c \in Chunks, NEW t \in 1 .. MaxProtections, ProtectionExpires(c, t) PROVE P
    <3>1. CASE protectionTime[c] = t
      BY <2>0, <2>4, <3>1 DEF ProtectionExpires
    <3>2. CASE protectionTime[c] # t
      BY <2>4, <3>2 DEF ProtectionExpires
    <3>3. QED
      BY <3>1, <3>2
  <2> HIDE DEF P
  <2>5. ASSUME NEW c \in Chunks, ChunkSetPresent(c) PROVE P
    BY <2>1, <2>5, Zenon DEF ChunkSetPresent
  <2>6. ASSUME NEW c \in Chunks, NEW x \in Items, Set(c, x) \/ Delete(c, x) PROVE P
    BY <2>1, <2>6 DEF Set, Delete, meta
  <2>7. CASE DefragTake \/ DefragStart \/ DefragEnd
    BY <2>1, <2>7 DEF DefragTake, DefragStart, DefragEnd, meta
  <2>8. ASSUME NEW x \in Items, DefragCopy(x) PROVE P
    BY <2>1, <2>8, ZenonT(40) DEF DefragCopy, meta
  <2>9. CASE Close \/ Crash \/ Open \/ CreateNew
    BY <2>1, <2>9, Zenon DEF Close, Crash, Down, Open, CreateNew
  <2>10. ASSUME NEW c \in Chunks, AskDefrag(c) PROVE P
    BY <2>1, <2>10, Zenon DEF AskDefrag, meta
  <2>11. QED
    BY <2>2, <2>3, <2>4, <2>5, <2>6, <2>7, <2>8, <2>9, <2>10, Zenon DEF Next
<1>2. QED
  BY <1>1, InitType, TypeStep, PTL DEF Spec, ProtectionNotCutShort
-----------------------------------------------------------------------------------
(* The process that created the database *)

(* A step into a state of the first process comes from one. *)
LEMMA FirstBefore ==
    ASSUME TypeInv, Next, First'
    PROVE  First /\ ~Open /\ ~CreateNew /\ ~Down /\ phase' = "up"
<1>0. restarts \in Nat
  BY DEF TypeInv, TypeOK, ProcessTypes
<1>1. phase' = "up" /\ restarts' = 0
  BY Zenon DEF First
<1>2. ~Open /\ ~CreateNew /\ ~Down
  <2>1. restarts + 1 # 0
    BY ONLY <1>0
  <2>2. QED
    BY <1>1, <2>1, Zenon DEF Open, CreateNew, Down
<1>3. First
  BY <1>0, <1>1, <1>2, Zenon
  DEF Next, First, Close, Crash, ChunkSetPresent, ChunkSetNoPresent, ChunkSetProtected, ProtectionExpires,
      Set, Delete, AskDefrag, DefragTake, DefragStart, DefragEnd, DefragCopy, counters
<1>4. QED
  BY <1>1, <1>2, <1>3

LEMMA CountStep == TypeInv /\ KnownMatchesPresent /\ [Next]_vars => KnownMatchesPresent'
<1> SUFFICES ASSUME TypeInv, KnownMatchesPresent, [Next]_vars, First'
             PROVE  knownChunks' = Cardinality({c \in Chunks : present'[c]})
  BY DEF KnownMatchesPresent
<1> DEFINE P == {c \in Chunks : present[c]}
           Q == {c \in Chunks : present'[c]}
<1>1. IsFiniteSet(P)
  BY ChunksAssumption, FS_Subset
<1>2. present \in [Chunks -> BOOLEAN]
  BY DEF TypeInv, TypeOK, MetaTypes
<1>3. CASE First /\ UNCHANGED <<present, knownChunks>>
  BY <1>3 DEF KnownMatchesPresent
<1>4. CASE UNCHANGED vars
  BY <1>3, <1>4 DEF vars, meta, counters, First
<1>5. CASE Next
  <2>1. First /\ ~Open /\ ~CreateNew /\ ~Down /\ knownChunks = Cardinality(P)
    BY <1>5, FirstBefore DEF KnownMatchesPresent
  <2>2. ASSUME NEW c \in Chunks, ChunkSetPresent(c) PROVE knownChunks' = Cardinality(Q)
    <3>1. Q = P \cup {c} /\ c \notin P
      BY <1>2, <2>2 DEF ChunkSetPresent
    <3>2. Cardinality(Q) = Cardinality(P) + 1
      BY <1>1, <3>1, FS_AddElement, Zenon
    <3>3. QED
      BY <2>1, <2>2, <3>2 DEF ChunkSetPresent
  <2>3. ASSUME NEW c \in Chunks, ChunkSetNoPresent(c) PROVE knownChunks' = Cardinality(Q)
    <3>1. Q = P \ {c} /\ c \in P
      BY <1>2, <2>3, Zenon DEF ChunkSetNoPresent
    <3>2. Cardinality(Q) = Cardinality(P) - 1
      BY <1>1, <3>1, FS_RemoveElement
    <3>3. QED
      BY <2>1, <2>3, <3>2, Zenon DEF ChunkSetNoPresent
  <2>4. ASSUME NEW c \in Chunks,
               \/ ChunkSetProtected(c)
               \/ \E t \in 1 .. MaxProtections : ProtectionExpires(c, t)
               \/ \E x \in Items : Set(c, x) \/ Delete(c, x)
               \/ AskDefrag(c)
        PROVE  UNCHANGED <<present, knownChunks>>
    BY <2>4, Zenon DEF ChunkSetProtected, ProtectionExpires, Set, Delete, AskDefrag, meta
  <2>5. CASE DefragTake \/ DefragStart \/ DefragEnd \/ \E x \in Items : DefragCopy(x)
    BY <1>3, <2>1, <2>5, Zenon DEF DefragTake, DefragStart, DefragEnd, DefragCopy, meta
  <2>6. QED
    BY <1>3, <1>5, <2>1, <2>2, <2>3, <2>4, <2>5, Zenon DEF Next, Close, Crash
<1>6. QED
  BY <1>4, <1>5

(* PresentChunks returns the number of present chunks (core.go), in the process that created
   the database. *)
THEOREM PresentChunksCounted == Spec => []KnownMatchesPresent
<1>1. Init => KnownMatchesPresent
  <2>1. SUFFICES ASSUME Init PROVE knownChunks = Cardinality({c \in Chunks : present[c]})
    BY DEF KnownMatchesPresent
  <2>2. {c \in Chunks : present[c]} = Chunks
    BY <2>1, Zenon DEF Init
  <2>3. QED
    BY <2>1, <2>2, Zenon DEF Init
<1>2. QED
  BY <1>1, InitType, TypeStep, CountStep, PTL DEF Spec

(* A chunk that is not being rewritten has one file, the one it is mapped to, or none; and
   the file holds what was stored. *)
Settled(c) ==
    /\ dir[c] = IF present[c] THEN Link(<< >>, pm[c].rev, pm[c].inode) ELSE << >>
    /\ present[c] => pm[c].rev <= revision[c]
    /\ Served(c) = stored[c]

(* A chunk that is has the old file, complete, and the new one with what is copied. *)
Copying(c) ==
    /\ defrag.old.inode \in Inodes
    /\ defrag.old.rev < pm[c].rev /\ pm[c].rev <= revision[c]
    /\ defrag.old.inode # pm[c].inode
    /\ dir[c] = Link(Link(<< >>, defrag.old.rev, defrag.old.inode), pm[c].rev, pm[c].inode)
    /\ data[c][defrag.old.inode] = stored[c]
    /\ data[c][pm[c].inode] \cup defrag.todo = stored[c]

FirstFiles == First => \A c \in Chunks : IF Locked(c) THEN Copying(c) ELSE Settled(c)

(* Nothing of chunk b changes. *)
SameChunk(b) ==
    /\ dir'[b] = dir[b] /\ data'[b] = data[b] /\ stored'[b] = stored[b]
    /\ present'[b] = present[b] /\ revision'[b] = revision[b] /\ pm'[b] = pm[b]

LEMMA SettledSame ==
    ASSUME NEW b \in Chunks, Settled(b), SameChunk(b)
    PROVE  Settled(b)'
BY SMTT(30) DEF Settled, SameChunk, Served

LEMMA CopyingSame ==
    ASSUME NEW b \in Chunks, Copying(b), SameChunk(b), defrag' = defrag
    PROVE  Copying(b)'
<1>1. PICK p, o, d, a, s : p = pm[b] /\ o = defrag.old /\ d = dir[b] /\ a = data[b] /\ s = stored[b]
  BY Zenon
<1>2. p = pm'[b] /\ o = defrag'.old /\ d = dir'[b] /\ a = data'[b] /\ s = stored'[b]
  BY <1>1, Zenon DEF SameChunk
<1>3. /\ o.inode \in Inodes /\ o.rev < p.rev /\ p.rev <= revision[b] /\ o.inode # p.inode
      /\ d = Link(Link(<< >>, o.rev, o.inode), p.rev, p.inode)
      /\ a[o.inode] = s /\ a[p.inode] \cup defrag.todo = s
  BY <1>1, Zenon DEF Copying
<1>4. revision'[b] = revision[b] /\ defrag'.todo = defrag.todo
  BY Zenon DEF SameChunk
<1>5. QED
  BY <1>2, <1>3, <1>4, Zenon DEF Copying

LEMMA FilesSame ==
    ASSUME NEW b \in Chunks, IF Locked(b) THEN Copying(b) ELSE Settled(b),
           SameChunk(b), defrag' = defrag
    PROVE  (IF Locked(b) THEN Copying(b) ELSE Settled(b))'
<1>1. Locked(b)' <=> Locked(b)
  BY Zenon DEF Locked
<1>2. QED
  BY <1>1, SettledSame, CopyingSame

(* Writing W to one file of a chunk. *)
LEMMA WriteFacts ==
    ASSUME FileTypes, NEW c \in Chunks, NEW i \in Inodes, NEW W,
           data' = [data EXCEPT ![c] = [data[c] EXCEPT ![i] = W]]
    PROVE  /\ data'[c][i] = W
           /\ \A j \in Inodes \ {i} : data'[c][j] = data[c][j]
           /\ \A b \in Chunks \ {c} : data'[b] = data[b]
BY DEF FileTypes

(* What the operations on chunks and pairs do to the files of the first process. *)
LEMMA FilesStepChunks ==
    ASSUME TypeInv, NEW c \in Chunks, NEW b \in Chunks,
           \A a \in Chunks : IF Locked(a) THEN Copying(a) ELSE Settled(a)
    PROVE  \/ ChunkSetPresent(c) \/ ChunkSetNoPresent(c) \/ ChunkSetProtected(c)
           \/ \E t \in 1 .. MaxProtections : ProtectionExpires(c, t)
           \/ \E x \in Items : Set(c, x) \/ Delete(c, x)
           \/ AskDefrag(c)
           => (IF Locked(b) THEN Copying(b) ELSE Settled(b))'
<1> DEFINE Goal == (IF Locked(b) THEN Copying(b) ELSE Settled(b))'
<1>0. /\ MetaTypes /\ FileTypes /\ defrags \in Nat /\ MaxDefrags \in Nat
      /\ IF Locked(b) THEN Copying(b) ELSE Settled(b)
  BY BoundsAssumption DEF TypeInv, TypeOK, ProcessTypes
<1>1. ASSUME SameChunk(b), defrag' = defrag PROVE Goal
  BY <1>0, <1>1, FilesSame
<1> HIDE DEF Goal
<1>2. ASSUME ChunkSetPresent(c) PROVE Goal
  <2>1. PICK n \in Inodes : Created(c, 0, n)
    BY <1>0, <1>2, NewStoreFacts DEF ChunkSetPresent, TypeInv
  <2>2. CASE b # c
    <3>1. SameChunk(b)
      BY <1>0, <1>2, <2>1, <2>2, Zenon
      DEF SameChunk, Created, ChunkSetPresent, MetaTypes, FileTypes
    <3>2. QED
      BY <1>1, <1>2, <3>1, Zenon DEF ChunkSetPresent, Goal
  <2>3. CASE b = c
    <3>1. ~Locked(c) /\ ~Locked(c)' /\ ~present[c] /\ Settled(c)
      BY <1>0, <1>2, <2>3, Zenon DEF ChunkSetPresent, Locked
    <3>2. dir[c] = << >> /\ stored[c] = {}
      BY <3>1, Zenon DEF Settled, Served
    <3>3. dir'[c] = Link(<< >>, 0, n) /\ pm'[c] = [inode |-> n, rev |-> 0] /\ data'[c][n] = {}
      BY <1>0, <2>1, <3>2, Zenon DEF Created, MetaTypes, FileTypes
    <3>4. present'[c] /\ stored'[c] = {} /\ revision'[c] \in Nat
      BY <1>0, <1>2, <3>2, Zenon DEF ChunkSetPresent, MetaTypes
    <3>5. Settled(c)'
      <4>1. pm'[c].rev = 0 /\ pm'[c].inode = n
        BY ONLY <3>3
      <4>2. 0 <= revision'[c]
        BY ONLY <3>4
      <4>3. QED
        BY <3>3, <3>4, <4>1, <4>2, ZenonT(40) DEF Settled, Served
    <3>6. QED
      BY <2>3, <3>1, <3>5 DEF Goal
  <2>4. QED
    BY <2>2, <2>3, Zenon
<1>3. ASSUME ChunkSetNoPresent(c) PROVE Goal
  <2>1. Unlink(c, pm[c].rev)
    BY <1>3 DEF ChunkSetNoPresent
  <2>2. CASE b # c
    <3>1. SameChunk(b)
      BY <1>0, <1>3, <2>1, <2>2, Zenon DEF SameChunk, Unlink, ChunkSetNoPresent, MetaTypes, FileTypes
    <3>2. QED
      BY <1>1, <1>3, <3>1, Zenon DEF ChunkSetNoPresent, Goal
  <2>3. CASE b = c
    <3>1. ~Locked(c) /\ ~Locked(c)' /\ present[c] /\ Settled(c)
      BY <1>0, <1>3, <2>3, Zenon DEF ChunkSetNoPresent, Locked
    <3>2. dir[c] = Link(<< >>, pm[c].rev, pm[c].inode)
      BY <3>1, Zenon DEF Settled
    <3>3. pm[c].inode \in Inodes
      BY <1>3, <1>0 DEF ChunkSetNoPresent, TypeInv, TypeOK, MetaTypes, PM
    <3>4. PICK r, n : r = pm[c].rev /\ n = pm[c].inode
      BY Zenon
    <3>5. DOMAIN dir[c] = {r} /\ Restrict(dir[c], {r} \ {r}) = << >>
      <4>1. dir[c] = Link(<< >>, r, n) /\ n \in Inodes
        BY <3>2, <3>3, <3>4, Zenon
      <4>2. QED
        BY ONLY <4>1, OneName, Zenon
    <3>6. dir'[c] = << >>
      BY <1>0, <2>1, <3>4, <3>5, Zenon DEF Unlink, FileTypes
    <3>7. ~present'[c] /\ stored'[c] = {}
      BY <1>0, <1>3, Zenon DEF ChunkSetNoPresent, MetaTypes, FileTypes
    <3>8. Settled(c)'
      BY <3>6, <3>7, Zenon DEF Settled, Served
    <3>9. QED
      BY <2>3, <3>1, <3>8, Zenon DEF Goal
  <2>4. QED
    BY <2>2, <2>3, Zenon
<1>4. ASSUME ChunkSetProtected(c) \/ \E t \in 1 .. MaxProtections : ProtectionExpires(c, t)
      PROVE  Goal
  BY <1>1, <1>4, Zenon DEF ChunkSetProtected, ProtectionExpires, SameChunk, files, Goal
<1>5. ASSUME NEW x \in Items, Set(c, x) \/ Delete(c, x) PROVE Goal
  <2>1. PICK i : i = pm[c].inode
    BY Zenon
  <2>2. /\ UNCHANGED <<dir, defrag, meta>> /\ ~Locked(c) /\ present[c]
        /\ \E W \in {data[c][i] \cup {x}, data[c][i] \ {x}} :
              data' = [data EXCEPT ![c] = [data[c] EXCEPT ![i] = W]]
        /\ \A a \in Chunks \ {c} : stored'[a] = stored[a]
        /\ data[c][i] = stored[c] =>
              data' = [data EXCEPT ![c] = [data[c] EXCEPT ![i] = stored'[c]]]
    BY <1>0, <1>5, <2>1, Zenon DEF Set, Delete, FileTypes
  <2>3. i \in Inodes
    BY <1>5, <1>0, <2>1, Zenon DEF Set, Delete, TypeInv, TypeOK, MetaTypes, PM
  <2>4. CASE b # c
    <3>1. data'[b] = data[b]
      <4>1. PICK W : data' = [data EXCEPT ![c] = [data[c] EXCEPT ![i] = W]]
        BY <2>2, Zenon
      <4>2. QED
        BY <1>0, <2>3, <2>4, <4>1, WriteFacts, Zenon
    <3>2. SameChunk(b)
      BY <2>2, <2>4, <3>1 DEF SameChunk, meta
    <3>3. QED
      BY <1>1, <2>2, <3>2 DEF Goal
  <2>5. CASE b = c
    <3>1. ~Locked(c)' /\ Settled(c)
      BY <1>0, <2>2, <2>5, Zenon DEF Locked
    <3>2. data[c][i] = stored[c]
      BY <2>1, <2>2, <3>1, Zenon DEF Settled, Served
    <3>3. data'[c][i] = stored'[c]
      <4>1. PICK W : W = stored'[c]
        BY Zenon
      <4>2. data' = [data EXCEPT ![c] = [data[c] EXCEPT ![i] = W]]
        BY <2>2, <3>2, <4>1, Zenon
      <4>3. data'[c][i] = W
        BY ONLY <1>0, <2>3, <4>2, Zenon DEF FileTypes
      <4>4. QED
        BY <4>1, <4>3
    <3>4. Settled(c)'
      BY <2>1, <2>2, <3>1, <3>3, Zenon DEF Settled, Served, meta
    <3>5. QED
      BY <2>5, <3>1, <3>4 DEF Goal
  <2>6. QED
    BY <2>4, <2>5
<1>6. ASSUME AskDefrag(c) PROVE Goal
  BY <1>1, <1>6, Zenon DEF AskDefrag, SameChunk, meta, files, Goal
<1>7. QED
  BY <1>2, <1>3, <1>4, <1>5, <1>6, Zenon DEF Goal

(* What the defragmenter does to them. *)
LEMMA FilesStepDefrag ==
    ASSUME TypeInv, phase = "up", phase' = "up", NEW b \in Chunks,
           \A a \in Chunks : IF Locked(a) THEN Copying(a) ELSE Settled(a)
    PROVE  DefragTake \/ DefragStart \/ DefragEnd \/ (\E x \in Items : DefragCopy(x))
           => (IF Locked(b) THEN Copying(b) ELSE Settled(b))'
<1> DEFINE Goal == (IF Locked(b) THEN Copying(b) ELSE Settled(b))'
<1>c. PICK c : c = defrag.chunk
  BY Zenon
<1>0. /\ MetaTypes /\ FileTypes /\ DefragTypes /\ defrags \in Nat /\ MaxDefrags \in Nat
      /\ IF Locked(b) THEN Copying(b) ELSE Settled(b)
  BY BoundsAssumption DEF TypeInv, TypeOK, ProcessTypes
<1>1. ASSUME SameChunk(b), ~Locked(b), ~Locked(b)' PROVE Goal
  BY <1>0, <1>1, SettledSame, Zenon
<1>2. defrag.stage # "idle" => c \in Chunks
  BY <1>0, <1>c DEF DefragTypes, Idle
<1> HIDE DEF Goal
<1>3. ASSUME DefragTake PROVE Goal
  <2>1. SameChunk(b)
    BY <1>3 DEF DefragTake, SameChunk, meta, files
  <2>2. ~Locked(b)
    BY <1>3 DEF DefragTake, Locked, Idle
  <2>3. defrag' = [Idle EXCEPT !.chunk = Head(queue), !.stage = "taken"]
    BY <1>3 DEF DefragTake
  <2>4. ~Locked(b)'
    BY <2>3 DEF Locked, Idle
  <2>5. QED
    BY <1>1, <2>1, <2>2, <2>4
<1>4. ASSUME DefragStart PROVE Goal
  <2>1. PICK rev : rev = revision[c] + 1
    BY Zenon
  <2>2. c \in Chunks /\ ~Locked(c) /\ Settled(c) /\ ~Locked(b) /\ Settled(b)
    BY <1>0, <1>2, <1>4 DEF DefragStart, Locked
  <2>3. /\ revision' = [revision EXCEPT ![c] = rev]
        /\ NewStore(c, rev) /\ pm[c] # NoPM
        /\ defrag' = [defrag EXCEPT !.stage = "copying", !.old = pm[c],
                                    !.todo = data'[c][pm[c].inode]]
        /\ UNCHANGED <<present, stored>>
    BY <1>c, <1>4, <2>1 DEF DefragStart
  <2>4. /\ defrag'.chunk = c /\ defrag'.stage = "copying" /\ defrag'.old = pm[c]
        /\ defrag'.todo = data'[c][pm[c].inode]
    BY ONLY <1>c, <1>0, <2>3, Zenon DEF DefragTypes
  <2>5. rev \in 0 .. defrags
    BY <1>c, <1>0, <1>4, <2>1, <2>2 DEF TypeInv, Stages, MetaTypes, DefragStart
  <2>6. PICK n \in Inodes : Created(c, rev, n)
    BY <2>2, <2>3, <2>5, NewStoreFacts, Zenon DEF TypeInv
  <2>7. CASE b # c
    <3>1. SameChunk(b)
      BY <1>0, <2>2, <2>3, <2>6, <2>7, Zenon DEF SameChunk, Created, MetaTypes, FileTypes
    <3>2. ~Locked(b)'
      BY <2>4, <2>7 DEF Locked
    <3>3. QED
      BY <1>1, <2>2, <3>1, <3>2, Zenon
  <2>8. CASE b = c
    <3>1. PICK r, i : r = pm[c].rev /\ i = pm[c].inode
      BY Zenon
    <3>2. i \in Inodes /\ r \in Nat /\ present[c]
      BY <1>0, <2>2, <2>3, <3>1, Zenon DEF TypeInv, TypeOK, MetaTypes, PM
    <3>3. dir[c] = Link(<< >>, r, i) /\ r <= revision[c] /\ data[c][i] = stored[c]
      BY <2>2, <3>1, <3>2, Zenon DEF Settled, Served
    <3>4. r < rev /\ revision'[c] = rev
      BY <1>0, <2>1, <2>2, <2>3, <3>2, <3>3 DEF MetaTypes
    <3>5. DOMAIN dir[c] = {r}
      BY ONLY <3>2, <3>3, OneName, Zenon
    <3>6. n # i /\ pm'[c].rev = rev /\ pm'[c].inode = n
      BY <1>0, <2>2, <2>6, <3>1, <3>2, <3>4, <3>5, SMTT(30) DEF Created, MetaTypes
    <3>7. dir'[c] = Link(Link(<< >>, r, i), rev, n)
      BY <1>0, <2>2, <2>6, <3>3, ZenonT(40) DEF Created, FileTypes
    <3>8. data'[c][n] = {} /\ data'[c][i] = data[c][i]
      BY <1>0, <2>2, <2>6, <3>2, <3>6, Zenon DEF Created, FileTypes
    <3>9. defrag'.old.rev = r /\ defrag'.old.inode = i /\ defrag'.todo = stored'[c]
      BY <2>3, <2>4, <3>1, <3>3, <3>8, ZenonT(40)
    <3>10. Copying(c)'
      <4>1. rev \in Nat /\ stored'[c] = stored[c]
        BY <1>0, <2>3, <2>5
      <4>2. defrag'.old.rev < pm'[c].rev /\ pm'[c].rev <= revision'[c]
        BY ONLY <3>2, <3>4, <3>6, <3>9, <4>1
      <4>3. data'[c][n] \cup defrag'.todo = stored'[c]
        BY ONLY <3>8, <3>9, Zenon
      <4>4. QED
        BY <3>2, <3>3, <3>6, <3>7, <3>8, <3>9, <4>1, <4>2, <4>3, Zenon DEF Copying
    <3>11. Locked(c)'
      BY ONLY <2>4, Zenon DEF Locked
    <3>12. QED
      BY <2>8, <3>10, <3>11 DEF Goal
  <2>9. QED
    BY <2>7, <2>8
<1>5. ASSUME NEW x \in Items, DefragCopy(x) PROVE Goal
  <2>1. PICK i : i = pm[c].inode
    BY Zenon
  <2>2. PICK W : W = data[c][i] \cup {x}
    BY Zenon
  <2>3. c \in Chunks /\ Locked(c) /\ Copying(c)
    BY <1>c, <1>0, <1>2, <1>5, Zenon DEF DefragCopy, Locked
  <2>4. /\ data' = [data EXCEPT ![c] = [data[c] EXCEPT ![i] = W]]
        /\ defrag' = [defrag EXCEPT !.todo = defrag.todo \ {x}]
        /\ UNCHANGED <<dir, stored>> /\ UNCHANGED meta /\ x \in defrag.todo
    BY <1>c, <1>5, <2>1, <2>2, Zenon DEF DefragCopy
  <2>5. /\ defrag'.chunk = c /\ defrag'.stage = "copying" /\ defrag'.old = defrag.old
        /\ defrag'.todo = defrag.todo \ {x}
    BY <1>c, <1>0, <1>5, <2>4, Zenon DEF DefragTypes, DefragCopy
  <2>6. present[c] /\ i \in Inodes
    BY <1>c, <1>0, <1>5, <2>1, <2>3, Zenon DEF TypeInv, TypeOK, Stages, MetaTypes, PM, DefragCopy
  <2>7. CASE b # c
    <3>1. SameChunk(b)
      BY <1>0, <2>3, <2>4, <2>7, Zenon DEF SameChunk, FileTypes, meta
    <3>2. ~Locked(b) /\ ~Locked(b)'
      BY <1>c, <2>5, <2>7, Zenon DEF Locked
    <3>3. QED
      BY <1>1, <3>1, <3>2, Zenon
  <2>8. CASE b = c
    <3>1. data'[c][i] = W /\ \A j \in Inodes \ {i} : data'[c][j] = data[c][j]
      BY ONLY <1>0, <2>3, <2>4, <2>6, Zenon DEF FileTypes
    <3>2. pm' = pm /\ revision' = revision
      BY <2>4, Zenon DEF meta
    <3>3. data[c][i] \cup defrag.todo = stored[c] /\ data[c][defrag.old.inode] = stored[c]
          /\ defrag.old.inode \in Inodes \ {i}
      BY <2>1, <2>3, Zenon DEF Copying
    <3>4. data'[c][i] \cup defrag'.todo = stored'[c]
      BY <2>2, <2>4, <2>5, <3>1, <3>3, Zenon
    <3>5. data'[c][defrag'.old.inode] = stored'[c]
      BY <2>4, <2>5, <3>1, <3>3, Zenon
    <3>6. Copying(c)'
      BY <2>1, <2>3, <2>4, <2>5, <3>2, <3>4, <3>5, Zenon DEF Copying
    <3>7. QED
      BY <2>5, <2>8, <3>6, Zenon DEF Goal, Locked
  <2>9. QED
    BY <2>7, <2>8
<1>6. ASSUME DefragEnd PROVE Goal
  <2>1. c \in Chunks /\ Locked(c) /\ Copying(c) /\ present[c] /\ defrag.todo = {}
    BY <1>c, <1>0, <1>2, <1>6, Zenon DEF DefragEnd, Locked, TypeInv, Stages
  <2>2. Unlink(c, defrag.old.rev) /\ ~Locked(b)'
    BY <1>c, <1>6, Zenon DEF DefragEnd, Locked, Idle
  <2>3. UNCHANGED <<data, stored>> /\ UNCHANGED meta
    BY <1>6 DEF DefragEnd
  <2>4. CASE b # c
    <3>1. SameChunk(b)
      BY <1>0, <2>1, <2>2, <2>3, <2>4, Zenon DEF SameChunk, Unlink, FileTypes, meta
    <3>2. QED
      BY <1>c, <1>1, <2>2, <2>4, <3>1, Zenon DEF Locked
  <2>5. CASE b = c
    <3>1. PICK r, i, q, m : /\ r = defrag.old.rev /\ i = defrag.old.inode
                            /\ q = pm[c].rev /\ m = pm[c].inode
      BY Zenon
    <3>2. r # q
      <4>1. r \in Nat /\ q \in Nat
        BY <1>0, <2>1, <3>1, PMRev, Zenon DEF TypeInv, TypeOK, MetaTypes, DefragTypes
      <4>2. r < q
        BY <2>1, <3>1, Zenon DEF Copying
      <4>3. QED
        BY ONLY <4>1, <4>2
    <3>3. dir[c] = Link(Link(<< >>, r, i), q, m)
      BY <2>1, <3>1, Zenon DEF Copying
    <3>4. Restrict(dir[c], DOMAIN dir[c] \ {r}) = Link(<< >>, q, m)
      <4>1. TwoNames(dir[c], r, i, q, m)
        BY <3>2, <3>3, Zenon DEF TwoNames
      <4>2. QED
        BY ONLY <4>1, LinkTwo, Zenon
    <3>5. dir'[c] = Link(<< >>, q, m)
      BY <1>0, <2>1, <2>2, <3>1, <3>4, Zenon DEF Unlink, FileTypes
    <3>6. data[c][m] = stored[c] /\ q <= revision[c]
      BY <2>1, <3>1, Zenon DEF Copying
    <3>7. Settled(c)'
      BY <2>1, <2>3, <3>1, <3>5, <3>6, Zenon DEF Settled, Served, meta
    <3>8. QED
      BY <2>2, <2>5, <3>7 DEF Goal
  <2>6. QED
    BY <2>4, <2>5, Zenon
<1>7. QED
  BY <1>3, <1>4, <1>5, <1>6 DEF Goal

LEMMA FilesStep == TypeInv /\ FirstFiles /\ [Next]_vars => FirstFiles'
<1> SUFFICES ASSUME TypeInv, FirstFiles, [Next]_vars, First', NEW b \in Chunks
             PROVE  (IF Locked(b) THEN Copying(b) ELSE Settled(b))'
  BY DEF FirstFiles
<1>1. CASE UNCHANGED vars
  <2>1. IF Locked(b) THEN Copying(b) ELSE Settled(b)
    BY <1>1, Zenon DEF FirstFiles, First, vars, counters
  <2>2. SameChunk(b) /\ defrag' = defrag
    BY <1>1, Zenon DEF SameChunk, vars, meta, files
  <2>3. QED
    BY <2>1, <2>2, FilesSame, Zenon
<1>2. CASE Next
  <2>1. First /\ ~Open /\ ~CreateNew /\ ~Down /\ phase' = "up"
    BY <1>2, FirstBefore
  <2>2. phase = "up" /\ \A a \in Chunks : IF Locked(a) THEN Copying(a) ELSE Settled(a)
    BY <2>1 DEF FirstFiles, First
  <2>3. QED
    BY <1>2, <2>1, <2>2, FilesStepChunks, FilesStepDefrag, Zenon DEF Next, Close, Crash
<1>3. QED
  BY <1>1, <1>2, Zenon

LEMMA FilesInvariant == Spec => []FirstFiles
<1>1. Init => FirstFiles
  <2>1. SUFFICES ASSUME Init, NEW c \in Chunks PROVE ~Locked(c) /\ Settled(c)
    BY Zenon DEF FirstFiles
  <2>2. ~Locked(c)
    BY <2>1 DEF Init, Locked, Idle
  <2>3. dir[c] = Link(<< >>, 0, 1) /\ pm[c] = [inode |-> 1, rev |-> 0] /\ present[c]
    BY <2>1, Zenon DEF Init
  <2>4. revision[c] = 0 /\ data[c][1] = {} /\ stored[c] = {}
    BY <2>1, BoundsAssumption DEF Init, Inodes
  <2>5. QED
    BY <2>2, <2>3, <2>4 DEF Settled, Served
<1>2. QED
  BY <1>1, InitType, TypeStep, FilesStep, PTL DEF Spec

(* In the process that created the database every present chunk has one file, the one it is
   mapped to, and an absent chunk has none (defrag.go removes the old revision, and
   ChunkSetNoPresent the file the chunk has). *)
THEOREM OneFile == Spec => []OneFilePerChunk
<1>1. FirstFiles => OneFilePerChunk
  BY Zenon DEF FirstFiles, OneFilePerChunk, Settled
<1>2. QED
  BY <1>1, FilesInvariant, PTL

(* It serves nothing that was deleted, and nothing of an earlier life of a chunk. *)
THEOREM NothingResurrected == Spec => []NoResurrection
<1>1. FirstFiles => NoResurrection
  BY DEF FirstFiles, NoResurrection, Settled
<1>2. QED
  BY <1>1, FilesInvariant, PTL

(* Nothing stored is lost while the process that created the database runs, however many
   defragmentations it makes. *)
THEOREM NothingLostFirst == Spec => [](restarts = 0 => NoLoss)
<1>1. FirstFiles => (restarts = 0 => NoLoss)
  BY Zenon DEF FirstFiles, First, NoLoss, Settled
<1>2. QED
  BY <1>1, FilesInvariant, PTL
-----------------------------------------------------------------------------------
(* Restarts *)

(* File names sort in an order of their own, in which no two are equal and rev0 is first. *)
LEMMA NameRankFacts ==
    /\ NameRank(0) = 0
    /\ \A q \in Nat : NameRank(q) \in Nat
    /\ \A q, r \in Nat : NameRank(q) = NameRank(r) => q = r
BY DEF NameRank

(* Two names link two inodes. *)
OneToOne(d) == \A q, r \in DOMAIN d : d[q] = d[r] => q = r
Separate == \A c \in Chunks : OneToOne(dir[c])

LEMMA LinkOneToOne ==
    ASSUME NEW D, NEW d \in [D -> Inodes], NEW r, NEW n \in Inodes, OneToOne(d),
           r \in D => n = d[r], r \notin D => n \notin Range(d)
    PROVE  OneToOne(Link(d, r, n))
BY DEF OneToOne, Link, Range

LEMMA RestrictOneToOne ==
    ASSUME NEW D, NEW d \in [D -> Inodes], NEW r, OneToOne(d)
    PROVE  OneToOne(Restrict(d, D \ {r}))
BY DEF OneToOne, Restrict

LEMMA SeparateStep == TypeInv /\ Separate /\ [Next]_vars => Separate'
<1> SUFFICES ASSUME TypeInv, Separate, [Next]_vars PROVE Separate'
  OBVIOUS
<1>0. FileTypes /\ TypeOK /\ defrags \in Nat
  BY DEF TypeInv, TypeOK, ProcessTypes
<1>1. CASE dir' = dir
  BY <1>1, Zenon DEF Separate
<1>2. ASSUME NEW c \in Chunks, NEW rev \in 0 .. defrags, NewStore(c, rev) PROVE Separate'
  <2>1. PICK n \in Inodes : Created(c, rev, n)
    BY <1>0, <1>2, NewStoreFacts, Zenon
  <2>2. PICK d : d = dir[c]
    BY Zenon
  <2>3. d \in [DOMAIN d -> Inodes] /\ OneToOne(d)
    BY <1>0, <2>2, Zenon DEF FileTypes, Separate
  <2>4. (rev \in DOMAIN d => n = d[rev]) /\ (rev \notin DOMAIN d => n \notin Range(d))
    BY <2>1, <2>2, Zenon DEF Created
  <2>5. OneToOne(Link(d, rev, n))
    BY ONLY <2>3, <2>4, n \in Inodes, LinkOneToOne, Zenon
  <2>6. dir'[c] = Link(d, rev, n) /\ \A b \in Chunks \ {c} : dir'[b] = dir[b]
    BY <1>0, <2>1, <2>2, Zenon DEF Created, FileTypes
  <2>7. QED
    BY <2>5, <2>6, Zenon DEF Separate
<1>3. ASSUME NEW c \in Chunks, NEW r, Unlink(c, r) PROVE Separate'
  <2>1. PICK d : d = dir[c]
    BY Zenon
  <2>2. d \in [DOMAIN d -> Inodes] /\ OneToOne(d)
    BY <1>0, <2>1, Zenon DEF FileTypes, Separate
  <2>3. OneToOne(Restrict(d, DOMAIN d \ {r}))
    BY ONLY <2>2, RestrictOneToOne, Zenon
  <2>4. dir'[c] = Restrict(d, DOMAIN d \ {r}) /\ \A b \in Chunks \ {c} : dir'[b] = dir[b]
    BY <1>0, <1>3, <2>1, UnlinkTypes, Zenon
  <2>5. QED
    BY <2>3, <2>4, Zenon DEF Separate
<1>4. CASE CreateNew
  <2> SUFFICES ASSUME NEW c \in Chunks PROVE OneToOne(dir'[c])
    BY DEF Separate
  <2>1. PICK d, n : d = dir[c] /\ n = InodeFor(c, 0)
    BY Zenon
  <2>2. 0 \in 0 .. MaxDefrags
    BY BoundsAssumption
  <2>3. /\ n \in Inodes
        /\ (0 \in DOMAIN d => n = d[0]) /\ (0 \notin DOMAIN d => n \notin Range(d))
    BY <1>0, <2>1, <2>2, InodeForFacts, Zenon
  <2>4. d \in [DOMAIN d -> Inodes] /\ OneToOne(d)
    BY <1>0, <2>1, Zenon DEF FileTypes, Separate
  <2>5. OneToOne(Link(d, 0, n))
    BY ONLY <2>3, <2>4, LinkOneToOne, Zenon
  <2>6. dir'[c] = Link(d, 0, n)
    BY <1>4, <2>1, Zenon DEF CreateNew
  <2>7. QED
    BY <2>5, <2>6, Zenon
<1>5. ASSUME NEW c \in Chunks,
             \/ ChunkSetProtected(c) \/ AskDefrag(c)
             \/ \E t \in 1 .. MaxProtections : ProtectionExpires(c, t)
             \/ \E x \in Items : Set(c, x) \/ Delete(c, x)
      PROVE  dir' = dir
  BY <1>5, Zenon DEF ChunkSetProtected, AskDefrag, ProtectionExpires, Set, Delete, files
<1>6. ASSUME NEW c \in Chunks, ChunkSetPresent(c) \/ ChunkSetNoPresent(c) PROVE Separate'
  <2>1. 0 \in 0 .. defrags
    BY <1>0
  <2>2. QED
    BY <1>2, <1>3, <1>6, <2>1, Zenon DEF ChunkSetPresent, ChunkSetNoPresent
<1>7. CASE DefragStart
  <2>1. PICK c, rev : c = defrag.chunk /\ rev = revision[c] + 1
    BY Zenon
  <2>2. c \in Chunks /\ NewStore(c, rev)
    BY <1>7, <2>1 DEF DefragStart, TypeInv, TypeOK, DefragTypes, Idle
  <2>3. rev \in 0 .. defrags
    BY <1>0, <1>7, <2>1, <2>2 DEF DefragStart, TypeInv, Stages, TypeOK, MetaTypes
  <2>4. QED
    BY <1>2, <2>2, <2>3, Zenon
<1>8. CASE DefragEnd
  <2>1. defrag.chunk \in Chunks /\ Unlink(defrag.chunk, defrag.old.rev)
    BY <1>8 DEF DefragEnd, TypeInv, TypeOK, DefragTypes, Idle
  <2>2. QED
    BY <1>3, <2>1, Zenon
<1>9. CASE DefragTake \/ (\E x \in Items : DefragCopy(x)) \/ Down \/ Open \/ UNCHANGED vars
  BY <1>1, <1>9, Zenon DEF DefragTake, DefragCopy, Down, Open, vars, files
<1>10. QED
  BY <1>1, <1>4, <1>5, <1>6, <1>7, <1>8, <1>9, Zenon DEF Next, Close, Crash

(* File r of chunk c is the one Open takes. *)
Leads(c, r) == r \in DOMAIN dir[c] /\ \A q \in DOMAIN dir[c] : NameRank(r) <= NameRank(q)

(* A running process: the file a chunk is mapped to leads and holds what was stored; of a
   chunk being rewritten the old file leads, the new one will lead without it, and what the
   new one lacks is still to be copied. *)
KeptIdle(c) ==
    /\ Leads(c, pm[c].rev) /\ dir[c][pm[c].rev] = pm[c].inode
    /\ stored[c] \subseteq data[c][pm[c].inode]

KeptCopying(c) ==
    /\ Leads(c, defrag.old.rev) /\ dir[c][defrag.old.rev] = defrag.old.inode
    /\ pm[c].rev \in DOMAIN dir[c] \ {defrag.old.rev} /\ dir[c][pm[c].rev] = pm[c].inode
    /\ \A q \in DOMAIN dir[c] \ {defrag.old.rev} : NameRank(pm[c].rev) <= NameRank(q)
    /\ defrag.old.inode # pm[c].inode
    /\ stored[c] \subseteq data[c][defrag.old.inode]
    /\ stored[c] \subseteq data[c][pm[c].inode] \cup defrag.todo

KeptUp(c) ==
    IF Locked(c) THEN KeptCopying(c)
    ELSE IF present[c] THEN KeptIdle(c) ELSE stored[c] = {}

(* No process: what was stored is in the file that leads. *)
KeptDown(c) ==
    stored[c] = {} \/ \E r \in DOMAIN dir[c] : Leads(c, r) /\ stored[c] \subseteq data[c][dir[c][r]]

Kept == \A c \in Chunks \ disordered : IF phase = "up" THEN KeptUp(c) ELSE KeptDown(c)

LEMMA KeptSame ==
    ASSUME NEW b \in Chunks, KeptUp(b), SameChunk(b), Locked(b)' <=> Locked(b),
           Locked(b) => defrag' = defrag
    PROVE  KeptUp(b)'
BY Zenon DEF KeptUp, KeptIdle, KeptCopying, Leads, SameChunk

(* The operations on chunks and pairs. *)
LEMMA KeptStepChunks ==
    ASSUME TypeInv, NEW c \in Chunks, NEW b \in Chunks \ disordered',
           \A a \in Chunks \ disordered : KeptUp(a)
    PROVE  \/ ChunkSetPresent(c) \/ ChunkSetNoPresent(c) \/ ChunkSetProtected(c)
           \/ \E t \in 1 .. MaxProtections : ProtectionExpires(c, t)
           \/ \E x \in Items : Set(c, x) \/ Delete(c, x)
           \/ AskDefrag(c)
           => KeptUp(b)'
<1>0. MetaTypes /\ FileTypes /\ defrags \in Nat /\ (b \notin disordered => KeptUp(b))
  BY DEF TypeInv, TypeOK, ProcessTypes
<1>1. ASSUME SameChunk(b), defrag' = defrag, b \notin disordered PROVE KeptUp(b)'
  <2>1. Locked(b)' <=> Locked(b)
    BY <1>1 DEF Locked
  <2>2. QED
    BY <1>0, <1>1, <2>1, KeptSame, Zenon
<1>2. ASSUME ChunkSetPresent(c) PROVE KeptUp(b)'
  <2>1. PICK n \in Inodes : Created(c, 0, n)
    BY <1>0, <1>2, NewStoreFacts DEF ChunkSetPresent, TypeInv
  <2>2. CASE b # c
    <3>1. SameChunk(b)
      BY <1>0, <1>2, <2>1, <2>2
      DEF SameChunk, Created, ChunkSetPresent, MetaTypes, FileTypes
    <3>2. QED
      BY <1>1, <1>2, <3>1, Zenon DEF ChunkSetPresent
  <2>3. CASE b = c
    <3>1. ~Locked(c)' /\ stored'[c] = {} /\ present'[c]
      BY <1>0, <1>2, <2>3, Zenon DEF ChunkSetPresent, Locked, KeptUp, MetaTypes
    <3>2. dir'[c] = Link(dir[c], 0, n) /\ pm'[c].rev = 0 /\ pm'[c].inode = n
      BY <1>0, <2>1, Zenon DEF Created, MetaTypes, FileTypes
    <3>3. DOMAIN dir'[c] = DOMAIN dir[c] \cup {0} /\ dir'[c][0] = n
      BY <3>2, Zenon DEF Link
    <3>4. Leads(c, 0)'
      <4>1. \A q \in DOMAIN dir[c] : q \in Nat
        BY <1>0 DEF FileTypes
      <4>2. \A q \in DOMAIN dir[c] \cup {0} : NameRank(0) <= NameRank(q)
        BY ONLY <4>1, NameRankFacts
      <4>3. QED
        BY <3>3, <4>2, Zenon DEF Leads
    <3>5. KeptIdle(c)'
      BY <3>1, <3>2, <3>3, <3>4, Zenon DEF KeptIdle
    <3>6. QED
      BY <2>3, <3>1, <3>5, Zenon DEF KeptUp
  <2>4. QED
    BY <2>2, <2>3, Zenon
<1>3. ASSUME ChunkSetNoPresent(c) PROVE KeptUp(b)'
  <2>1. CASE b # c
    <3>1. SameChunk(b)
      BY <1>0, <1>3, <2>1 DEF SameChunk, Unlink, ChunkSetNoPresent, MetaTypes, FileTypes
    <3>2. QED
      BY <1>1, <1>3, <2>1, <3>1, Zenon DEF ChunkSetNoPresent
  <2>2. CASE b = c
    BY <1>0, <1>3, <2>2, Zenon DEF ChunkSetNoPresent, Locked, KeptUp, MetaTypes, FileTypes
  <2>3. QED
    BY <2>1, <2>2
<1>4. ASSUME ChunkSetProtected(c) \/ \E t \in 1 .. MaxProtections : ProtectionExpires(c, t)
      PROVE  KeptUp(b)'
  BY <1>1, <1>4, Zenon DEF ChunkSetProtected, ProtectionExpires, SameChunk, files
<1>5. ASSUME NEW x \in Items, Set(c, x) \/ Delete(c, x) PROVE KeptUp(b)'
  <2>1. PICK i : i = pm[c].inode
    BY Zenon
  <2>2. UNCHANGED <<dir, defrag, meta>> /\ ~Locked(c) /\ present[c]
    BY <1>5, Zenon DEF Set, Delete
  <2>3. i \in Inodes
    BY <1>5, <1>0, <2>1, <2>2, Zenon DEF Set, Delete, TypeInv, TypeOK, MetaTypes, PM
  <2>4. /\ \A a \in Chunks \ {c} : data'[a] = data[a] /\ stored'[a] = stored[a]
        /\ stored[c] \subseteq data[c][i] => stored'[c] \subseteq data'[c][i]
    <3>1. PICK D, S : D = data'[c][i] /\ S = stored'[c]
      BY Zenon
    <3>2. CASE Set(c, x)
      <4>1. /\ \A a \in Chunks \ {c} : data'[a] = data[a] /\ stored'[a] = stored[a]
            /\ D = data[c][i] \cup {x} /\ S = stored[c] \cup {x}
        BY <1>0, <2>1, <2>3, <3>1, <3>2, Zenon DEF Set, FileTypes
      <4>2. QED
        BY <3>1, <4>1, Zenon
    <3>3. CASE Delete(c, x)
      <4>1. /\ \A a \in Chunks \ {c} : data'[a] = data[a] /\ stored'[a] = stored[a]
            /\ D = data[c][i] \ {x} /\ S = stored[c] \ {x}
        BY <1>0, <2>1, <2>3, <3>1, <3>3, Zenon DEF Delete, FileTypes
      <4>2. QED
        BY <3>1, <4>1, Zenon
    <3>4. QED
      BY <1>5, <3>2, <3>3, Zenon
  <2>5. CASE b # c
    <3>1. SameChunk(b) /\ defrag' = defrag
      BY <2>2, <2>4, <2>5, Zenon DEF SameChunk, meta
    <3>2. QED
      BY <1>1, <1>5, <3>1, Zenon DEF Set, Delete
  <2>6. CASE b = c
    <3>1. ~Locked(c)' /\ present'[c] /\ pm' = pm /\ dir' = dir
      BY <2>2, Zenon DEF Locked, meta
    <3>2. KeptIdle(c)
      BY <1>0, <1>5, <2>2, <2>6, Zenon DEF KeptUp, Set, Delete
    <3>3. KeptIdle(c)'
      BY <2>1, <2>4, <3>1, <3>2, Zenon DEF KeptIdle, Leads
    <3>4. QED
      BY <2>6, <3>1, <3>3, Zenon DEF KeptUp
  <2>7. QED
    BY <2>5, <2>6
<1>6. ASSUME AskDefrag(c) PROVE KeptUp(b)'
  BY <1>1, <1>6, Zenon DEF AskDefrag, SameChunk, meta, files
<1>7. QED
  BY <1>2, <1>3, <1>4, <1>5, <1>6, Zenon

(* The defragmenter. *)
LEMMA KeptStepDefrag ==
    ASSUME TypeInv, Separate, phase = "up", phase' = "up", NEW b \in Chunks \ disordered',
           \A a \in Chunks \ disordered : KeptUp(a)
    PROVE  DefragTake \/ DefragStart \/ DefragEnd \/ (\E x \in Items : DefragCopy(x))
           => KeptUp(b)'
<1>c. PICK c : c = defrag.chunk
  BY Zenon
<1>0. /\ MetaTypes /\ FileTypes /\ DefragTypes /\ defrags \in Nat
      /\ b \notin disordered => KeptUp(b)
  BY DEF TypeInv, TypeOK, ProcessTypes
<1>1. ASSUME SameChunk(b), ~Locked(b), ~Locked(b)', b \notin disordered PROVE KeptUp(b)'
  BY <1>0, <1>1, KeptSame, Zenon
<1>2. defrag.stage # "idle" => c \in Chunks
  BY <1>0, <1>c DEF DefragTypes, Idle
<1>3. ASSUME DefragTake PROVE KeptUp(b)'
  <2>1. SameChunk(b)
    BY <1>3 DEF DefragTake, SameChunk, meta, files
  <2>2. ~Locked(b)
    BY <1>3 DEF DefragTake, Locked, Idle
  <2>3. defrag' = [Idle EXCEPT !.chunk = Head(queue), !.stage = "taken"]
    BY <1>3 DEF DefragTake
  <2>4. ~Locked(b)'
    BY <2>3 DEF Locked, Idle
  <2>5. QED
    BY <1>1, <1>3, <2>1, <2>2, <2>4, Zenon DEF DefragTake
<1>4. ASSUME DefragStart PROVE KeptUp(b)'
  <2>0. PICK rev : rev = revision[c] + 1
    BY Zenon
  <2>1. c \in Chunks /\ ~Locked(c) /\ ~Locked(b)
    BY <1>2, <1>4, Zenon DEF DefragStart, Locked
  <2>2. b \notin disordered /\ (b = c => InOrder(c, rev))
    BY <1>c, <1>4, <2>0, Zenon DEF DefragStart
  <2>3. /\ NewStore(c, rev) /\ pm[c] # NoPM
        /\ defrag' = [defrag EXCEPT !.stage = "copying", !.old = pm[c],
                                    !.todo = data'[c][pm[c].inode]]
        /\ UNCHANGED <<present, stored>>
        /\ \A a \in Chunks \ {c} : revision'[a] = revision[a]
    BY <1>0, <1>c, <1>4, <2>0 DEF DefragStart, MetaTypes
  <2>4. /\ defrag'.chunk = c /\ defrag'.stage = "copying" /\ defrag'.old = pm[c]
        /\ defrag'.todo = data'[c][pm[c].inode]
    BY ONLY <1>c, <1>0, <2>3, Zenon DEF DefragTypes
  <2>5. rev \in 0 .. defrags
    BY <1>c, <1>0, <1>4, <2>0, <2>1 DEF TypeInv, Stages, MetaTypes, DefragStart
  <2>6. PICK n \in Inodes : Created(c, rev, n)
    BY <2>1, <2>3, <2>5, NewStoreFacts, Zenon DEF TypeInv
  <2>7. CASE b # c
    <3>1. SameChunk(b)
      BY <1>0, <2>1, <2>3, <2>6, <2>7, Zenon DEF SameChunk, Created, MetaTypes, FileTypes
    <3>2. ~Locked(b)'
      BY <2>4, <2>7, Zenon DEF Locked
    <3>3. QED
      BY <1>1, <2>1, <2>2, <3>1, <3>2, Zenon
  <2>8. CASE b = c
    <3>1. PICK r, i, d : r = pm[c].rev /\ i = pm[c].inode /\ d = dir[c]
      BY Zenon
    <3>2. i \in Inodes /\ present[c] /\ r \in Nat
      BY <1>0, <2>1, <2>3, <3>1, ZenonT(40) DEF TypeInv, TypeOK, MetaTypes, PM
    <3>3. /\ r \in DOMAIN d /\ \A q \in DOMAIN d : NameRank(r) <= NameRank(q)
          /\ d[r] = i /\ stored[c] \subseteq data[c][i]
      BY <1>0, <2>1, <2>2, <2>8, <3>1, <3>2, Zenon DEF KeptUp, KeptIdle, Leads
    <3>4. /\ NameRank(r) < NameRank(rev)
          /\ \A q \in DOMAIN d \ {r} : NameRank(rev) <= NameRank(q)
      BY <2>2, <2>8, <3>1, Zenon DEF InOrder
    <3>5. rev # r /\ NameRank(r) <= NameRank(rev) /\ NameRank(rev) <= NameRank(rev)
      BY ONLY <1>0, <2>5, <3>2, <3>4, NameRankFacts
    <3>6. n # i
      <4>1. rev \in DOMAIN d => n = d[rev]
        BY <2>6, <3>1, Zenon DEF Created
      <4>2. rev \notin DOMAIN d => n # i
        BY <2>6, <3>1, Zenon DEF Created
      <4>3. OneToOne(d)
        BY <2>1, <3>1, Zenon DEF Separate
      <4>4. QED
        BY <3>3, <3>5, <4>1, <4>2, <4>3, Zenon DEF OneToOne
    <3>7. pm'[c].rev = rev /\ pm'[c].inode = n
      <4>1. pm'[c] = [inode |-> n, rev |-> rev]
        BY <1>0, <2>1, <2>6, Zenon DEF Created, MetaTypes
      <4>2. QED
        BY ONLY <4>1
    <3>8. /\ DOMAIN dir'[c] = DOMAIN d \cup {rev} /\ dir'[c][r] = i /\ dir'[c][rev] = n
      <4>1. dir'[c] = Link(d, rev, n)
        BY <1>0, <2>1, <2>6, <3>1, ZenonT(40) DEF Created, FileTypes
      <4>2. QED
        BY <3>3, <3>5, <4>1, Zenon DEF Link
    <3>9. data'[c][n] = {} /\ data'[c][i] = data[c][i]
      BY <1>0, <2>1, <2>6, <3>2, <3>6, Zenon DEF Created, FileTypes
    <3>10. defrag'.old.rev = r /\ defrag'.old.inode = i /\ defrag'.todo = data'[c][i]
      BY <2>4, <3>1, Zenon
    <3>11. Leads(c, r)'
      BY <3>3, <3>5, <3>8, Zenon DEF Leads
    <3>12. \A q \in DOMAIN dir'[c] \ {r} : NameRank(rev) <= NameRank(q)
      BY <3>4, <3>5, <3>8, Zenon
    <3>13. stored'[c] \subseteq data'[c][i] /\ stored'[c] \subseteq data'[c][n] \cup defrag'.todo
      BY <2>3, <3>3, <3>9, <3>10, Zenon
    <3>14. KeptCopying(c)'
      <4>1. rev \in DOMAIN dir'[c] \ {r}
        BY <3>5, <3>8, Zenon
      <4>2. QED
        BY <3>6, <3>7, <3>8, <3>10, <3>11, <3>12, <3>13, <4>1, Zenon DEF KeptCopying
    <3>15. QED
      BY <2>4, <2>8, <3>14, Zenon DEF KeptUp, Locked
  <2>9. QED
    BY <2>7, <2>8
<1>5. ASSUME NEW x \in Items, DefragCopy(x) PROVE KeptUp(b)'
  <2>1. PICK i : i = pm[c].inode
    BY Zenon
  <2>2. PICK W : W = data[c][i] \cup {x}
    BY Zenon
  <2>3. c \in Chunks /\ Locked(c) /\ b \notin disordered /\ (b = c => KeptCopying(c))
    BY <1>0, <1>c, <1>2, <1>5, Zenon DEF DefragCopy, Locked, KeptUp
  <2>4. /\ data' = [data EXCEPT ![c] = [data[c] EXCEPT ![i] = W]]
        /\ defrag' = [defrag EXCEPT !.todo = defrag.todo \ {x}]
        /\ UNCHANGED <<dir, stored>> /\ UNCHANGED meta
    BY <1>c, <1>5, <2>1, <2>2, Zenon DEF DefragCopy
  <2>5. /\ defrag'.chunk = c /\ defrag'.stage = "copying" /\ defrag'.old = defrag.old
        /\ defrag'.todo = defrag.todo \ {x}
    BY <1>c, <1>0, <1>5, <2>4, Zenon DEF DefragTypes, DefragCopy
  <2>6. i \in Inodes
    BY <1>c, <1>0, <1>5, <2>1, <2>3, Zenon DEF TypeInv, TypeOK, Stages, MetaTypes, PM, DefragCopy
  <2>7. CASE b # c
    <3>1. SameChunk(b)
      BY <1>0, <2>3, <2>4, <2>7, Zenon DEF SameChunk, FileTypes, meta
    <3>2. ~Locked(b) /\ ~Locked(b)'
      BY <1>c, <2>5, <2>7, Zenon DEF Locked
    <3>3. QED
      BY <1>1, <2>3, <3>1, <3>2, Zenon
  <2>8. CASE b = c
    <3>0. KeptCopying(c)
      BY <2>3, <2>8
    <3>1. data'[c][i] = W /\ \A j \in Inodes \ {i} : data'[c][j] = data[c][j]
      BY ONLY <1>0, <2>3, <2>4, <2>6, Zenon DEF FileTypes
    <3>2. pm' = pm
      BY <2>4 DEF meta
    <3>3. defrag.old.inode \in Inodes \ {i}
      <4>1. defrag.old.inode = dir[c][defrag.old.rev] /\ defrag.old.rev \in DOMAIN dir[c]
            /\ defrag.old.inode # i
        BY <2>1, <3>0, Zenon DEF KeptCopying, Leads
      <4>2. dir[c] \in [DOMAIN dir[c] -> Inodes]
        BY <1>0, <2>3, Zenon DEF FileTypes
      <4>3. QED
        BY <4>1, <4>2, Zenon
    <3>4. stored'[c] \subseteq data'[c][i] \cup defrag'.todo
      BY <2>1, <2>2, <3>0, <2>4, <2>5, <3>1, Zenon DEF KeptCopying
    <3>5. stored'[c] \subseteq data'[c][defrag'.old.inode]
      BY <3>0, <2>4, <2>5, <3>1, <3>3, Zenon DEF KeptCopying
    <3>6. KeptCopying(c)'
      BY <2>1, <3>0, <2>4, <2>5, <3>2, <3>4, <3>5, Zenon DEF KeptCopying, Leads
    <3>7. QED
      BY <2>5, <2>8, <3>6, Zenon DEF KeptUp, Locked
  <2>9. QED
    BY <2>7, <2>8
<1>6. ASSUME DefragEnd PROVE KeptUp(b)'
  <2>1. /\ c \in Chunks /\ Locked(c) /\ present[c] /\ defrag.todo = {}
        /\ b \notin disordered /\ (b = c => KeptCopying(c))
    BY <1>c, <1>0, <1>2, <1>6, Zenon DEF DefragEnd, Locked, TypeInv, Stages, KeptUp
  <2>2. Unlink(c, defrag.old.rev) /\ ~Locked(b)'
    BY <1>c, <1>6, Zenon DEF DefragEnd, Locked, Idle
  <2>3. UNCHANGED <<data, stored>> /\ UNCHANGED meta
    BY <1>6, Zenon DEF DefragEnd
  <2>4. CASE b # c
    <3>1. SameChunk(b)
      BY <1>0, <2>1, <2>2, <2>3, <2>4, Zenon DEF SameChunk, Unlink, FileTypes, meta
    <3>2. QED
      BY <1>c, <1>1, <2>1, <2>2, <2>4, <3>1, Zenon DEF Locked
  <2>5. CASE b = c
    <3>0. KeptCopying(c)
      BY <2>1, <2>5
    <3>1. PICK r, q, d : r = defrag.old.rev /\ q = pm[c].rev /\ d = dir[c]
      BY Zenon
    <3>2. /\ q \in DOMAIN d \ {r} /\ d[q] = pm[c].inode
          /\ \A p \in DOMAIN d \ {r} : NameRank(q) <= NameRank(p)
      BY <3>0, <3>1, Zenon DEF KeptCopying
    <3>3. dir'[c] = Restrict(d, DOMAIN d \ {r})
      BY <1>0, <2>1, <2>2, <3>1, Zenon DEF Unlink, FileTypes
    <3>4. DOMAIN dir'[c] = DOMAIN d \ {r} /\ dir'[c][q] = pm[c].inode
      BY <3>2, <3>3, Zenon DEF Restrict
    <3>5. stored[c] \subseteq data[c][pm[c].inode]
      BY <2>1, <3>0, Zenon DEF KeptCopying
    <3>6. pm' = pm /\ present' = present /\ data' = data /\ stored' = stored
      BY <2>3, Zenon DEF meta
    <3>7. Leads(c, q)'
      BY <3>2, <3>4, Zenon DEF Leads
    <3>8. pm'[c].rev = q
      BY <3>1, <3>6, Zenon
    <3>9. KeptIdle(c)'
      BY <3>4, <3>5, <3>6, <3>7, <3>8, Zenon DEF KeptIdle
    <3>10. QED
      BY <2>1, <2>2, <2>5, <3>6, <3>9, Zenon DEF KeptUp
  <2>6. QED
    BY <2>4, <2>5
<1>7. QED
  BY <1>3, <1>4, <1>5, <1>6, Zenon

(* A process that ends, at any point, leaves in the file that leads all that was stored. *)
LEMMA KeptUpDown ==
    ASSUME NEW c \in Chunks, KeptUp(c)
    PROVE  KeptDown(c)
<1>1. CASE Locked(c)
  BY <1>1, Zenon DEF KeptUp, KeptCopying, KeptDown, Leads
<1>2. CASE ~Locked(c) /\ present[c]
  BY <1>2, Zenon DEF KeptUp, KeptIdle, KeptDown, Leads
<1>3. CASE ~Locked(c) /\ ~present[c]
  BY <1>3, Zenon DEF KeptUp, KeptDown
<1>4. QED
  BY <1>1, <1>2, <1>3, Zenon

LEMMA KeptDownSame ==
    ASSUME NEW b \in Chunks, KeptDown(b), dir'[b] = dir[b], data'[b] = data[b],
           stored'[b] = stored[b]
    PROVE  KeptDown(b)'
BY Zenon DEF KeptDown, Leads

(* Open maps the file that leads. *)
LEMMA KeptStepOpen ==
    ASSUME TypeInv, NEW c \in Chunks, KeptDown(c), Open
    PROVE  KeptUp(c)'
<1>0. /\ FileTypes /\ defrags \in Nat /\ defrags <= MaxDefrags /\ MaxDefrags \in Nat
      /\ defrag = Idle
  BY BoundsAssumption, SMTT(30) DEF TypeInv, TypeOK, ProcessTypes, Stages, Open
<1>1. ~Locked(c)' /\ UNCHANGED <<dir, data, stored>>
  BY <1>0, Zenon DEF Open, Locked, Idle, files
<1>2. CASE DOMAIN dir[c] = {}
  <2>1. ~present'[c]
    BY <1>2, Zenon DEF Open
  <2>2. stored[c] = {}
    BY <1>2, ZenonT(40) DEF KeptDown
  <2>3. QED
    BY <1>1, <2>1, <2>2 DEF KeptUp
<1>3. CASE DOMAIN dir[c] # {}
  <2>1. PICK f : f = findChunk(c)
    BY Zenon
  <2>2. f \in DOMAIN dir[c] /\ \A q \in DOMAIN dir[c] : NameRank(f) <= NameRank(q)
    BY <1>3, <2>1, FindChunkFacts, Zenon DEF TypeInv
  <2>3. \A q \in DOMAIN dir[c] : q \in Nat
    <3>1. DOMAIN dir[c] \subseteq 0 .. defrags
      BY <1>0, Zenon DEF FileTypes
    <3>2. QED
      BY <1>0, <3>1
  <2>5. Leads(c, f)
    BY <2>2, Zenon DEF Leads
  <2>6. present'[c] /\ pm'[c] = [inode |-> dir[c][f], rev |-> f]
    BY <1>3, <2>1, Zenon DEF Open
  <2>7. stored[c] \subseteq data[c][dir[c][f]]
    <3>1. \A r \in DOMAIN dir[c] : Leads(c, r) => r = f
      <4>1. \A a, b \in Nat : NameRank(a) <= NameRank(b) /\ NameRank(b) <= NameRank(a) => a = b
        BY ONLY NameRankFacts
      <4>2. QED
        BY ONLY <2>3, <2>5, <4>1, Zenon DEF Leads
    <3>2. QED
      BY <3>1, Zenon DEF KeptDown
  <2>8. KeptIdle(c)'
    BY <1>1, <2>5, <2>6, <2>7 DEF KeptIdle, Leads
  <2>9. QED
    BY <1>1, <2>6, <2>8, Zenon DEF KeptUp
<1>4. QED
  BY <1>2, <1>3, ZenonT(40)

LEMMA KeptStepCreate ==
    ASSUME TypeInv, NEW c \in Chunks, CreateNew
    PROVE  KeptUp(c)'
<1>0. FileTypes /\ defrags \in Nat /\ defrag = Idle
  <2>1. defrags \in 0 .. MaxDefrags
    BY Zenon DEF TypeInv, TypeOK, ProcessTypes
  <2>2. defrags \in Nat
    BY ONLY <2>1
  <2>3. QED
    BY <2>2, Zenon DEF TypeInv, TypeOK, Stages, CreateNew
<1>1. ~Locked(c)' /\ present'[c] /\ stored'[c] = {}
  BY <1>0, Zenon DEF CreateNew, Locked, Idle
<1>2. PICK n : n = InodeFor(c, 0)
  BY ZenonT(40)
<1>3. dir'[c] = Link(dir[c], 0, n) /\ pm'[c] = [inode |-> n, rev |-> 0]
  BY <1>2, Zenon DEF CreateNew
<1>4. DOMAIN dir'[c] = DOMAIN dir[c] \cup {0} /\ dir'[c][0] = n
  BY <1>3, Zenon DEF Link
<1>5. Leads(c, 0)'
  <2>1. DOMAIN dir[c] \subseteq 0 .. defrags
    BY <1>0, Zenon DEF FileTypes
  <2>2. \A q \in DOMAIN dir[c] \cup {0} : NameRank(0) <= NameRank(q)
    BY ONLY <1>0, <2>1, NameRankFacts
  <2>3. QED
    BY <1>4, <2>2, Zenon DEF Leads
<1>6. pm'[c].rev = 0 /\ pm'[c].inode = n
  BY ONLY <1>3
<1>7. KeptIdle(c)'
  BY <1>1, <1>4, <1>5, <1>6, Zenon DEF KeptIdle
<1>8. QED
  BY <1>1, <1>7, Zenon DEF KeptUp

(* The defragmenter panics: DefragTake, or DefragStart, of a released chunk. *)
LEMMA KeptStepPanic ==
    ASSUME TypeInv, phase = "up", phase' # "up", NEW b \in Chunks \ disordered,
           \A a \in Chunks \ disordered : KeptUp(a)
    PROVE  DefragTake \/ DefragStart => KeptDown(b)'
<1>0. MetaTypes /\ FileTypes /\ DefragTypes /\ defrags \in Nat /\ KeptUp(b) /\ KeptDown(b)
  BY KeptUpDown DEF TypeInv, TypeOK, ProcessTypes
<1>1. CASE DefragTake
  BY <1>0, <1>1, KeptDownSame, Zenon DEF DefragTake, files
<1>2. ASSUME DefragStart PROVE KeptDown(b)'
  <2>1. PICK c : c = defrag.chunk
    BY Zenon
  <2>2. PICK rev : rev = revision[c] + 1
    BY Zenon
  <2>3. c \in Chunks /\ ~Locked(c)
    BY <1>0, <1>2, <2>1 DEF DefragStart, DefragTypes, Idle, Locked
  <2>4. NewStore(c, rev) /\ pm[c] = NoPM /\ stored' = stored
    BY <1>2, <2>1, <2>2, Zenon DEF DefragStart
  <2>5. CASE b = c
    <3>1. ~present[c]
      BY <2>3, <2>4, Zenon DEF TypeInv, TypeOK
    <3>2. stored'[c] = {}
      BY <1>0, <2>3, <2>4, <2>5, <3>1, Zenon DEF KeptUp
    <3>3. QED
      BY <2>5, <3>2 DEF KeptDown
  <2>6. CASE b # c
    <3>1. dir'[b] = dir[b] /\ data'[b] = data[b]
      BY <1>0, <2>3, <2>4, <2>6, Zenon DEF NewStore, FileTypes
    <3>2. QED
      BY <1>0, <2>4, <3>1, KeptDownSame, Zenon
  <2>7. QED
    BY <2>5, <2>6
<1>3. QED
  BY <1>1, <1>2, Zenon

LEMMA KeptStep == TypeInv /\ Separate /\ Kept /\ [Next]_vars => Kept'
<1> SUFFICES ASSUME TypeInv, Separate, Kept, [Next]_vars, NEW b \in Chunks \ disordered'
             PROVE  IF phase' = "up" THEN KeptUp(b)' ELSE KeptDown(b)'
  BY DEF Kept
<1>0. phase = "up" => \A a \in Chunks \ disordered : KeptUp(a)
  BY DEF Kept
<1>1. b \notin disordered => KeptDown(b)
  BY KeptUpDown DEF Kept
<1>2. CASE UNCHANGED vars
  BY <1>2, Zenon DEF Kept, KeptUp, KeptDown, KeptIdle, KeptCopying, Leads, Locked, vars, meta, files
<1>3. CASE \E c \in Chunks : \/ ChunkSetPresent(c) \/ ChunkSetNoPresent(c) \/ ChunkSetProtected(c)
                             \/ \E t \in 1 .. MaxProtections : ProtectionExpires(c, t)
                             \/ \E x \in Items : Set(c, x) \/ Delete(c, x)
                             \/ AskDefrag(c)
  <2>1. phase = "up" /\ phase' = "up"
    BY <1>3, Zenon DEF ChunkSetPresent, ChunkSetNoPresent, ChunkSetProtected, ProtectionExpires, Set, Delete,
                       AskDefrag
  <2>2. QED
    BY <1>0, <1>3, <2>1, KeptStepChunks, Zenon
<1>4. CASE DefragTake \/ DefragStart \/ DefragEnd \/ \E x \in Items : DefragCopy(x)
  <2>1. phase = "up"
    BY <1>4, Zenon DEF DefragTake, DefragStart, DefragEnd, DefragCopy
  <2>2. CASE phase' = "up"
    BY <1>0, <1>4, <2>1, <2>2, KeptStepDefrag, Zenon
  <2>3. CASE phase' # "up"
    <3>1. DefragTake \/ DefragStart
      BY <1>4, <2>1, <2>3, Zenon DEF DefragEnd, DefragCopy
    <3>2. b \notin disordered
      BY <3>1, Zenon DEF DefragTake, DefragStart
    <3>3. QED
      BY <1>0, <2>1, <2>3, <3>1, <3>2, KeptStepPanic, Zenon
  <2>4. QED
    BY <2>2, <2>3
<1>5. CASE Down
  BY <1>1, <1>5, KeptDownSame, Zenon DEF Down, files
<1>6. CASE Open
  <2>1. phase' = "up" /\ disordered' = disordered
    BY <1>6 DEF Open
  <2>2. QED
    BY <1>1, <1>6, <2>1, KeptStepOpen, Zenon
<1>7. CASE CreateNew
  <2>1. phase' = "up"
    BY <1>7 DEF CreateNew
  <2>2. QED
    BY <1>7, <2>1, KeptStepCreate, ZenonT(40)
<1>8. QED
  BY <1>2, <1>3, <1>4, <1>5, <1>6, <1>7, Zenon DEF Next, Close, Crash

(* Nothing written to a chunk is lost while the chunk is held, across any number of
   defragmentations, crashes at any point of one and restarts (findChunk and Open, core.go;
   defrag.go), unless a defragmentation of the chunk gave its new file a name out of order. *)
THEOREM NothingLost == Spec => []NoLossInOrder
<1>1. Init => Separate /\ Kept
  <2> SUFFICES ASSUME Init, NEW c \in Chunks PROVE OneToOne(dir[c]) /\ KeptUp(c) /\ phase = "up"
    BY DEF Separate, Kept
  <2>1. ~Locked(c) /\ present[c] /\ stored[c] = {} /\ pm[c].rev = 0 /\ pm[c].inode = 1 /\ phase = "up"
    BY DEF Init, Locked, Idle
  <2>2. DOMAIN dir[c] = {0} /\ dir[c][0] = 1
    BY DEF Init, Link
  <2>3. Leads(c, 0)
    BY <2>2, NameRankFacts DEF Leads
  <2>4. QED
    BY <2>1, <2>2, <2>3 DEF OneToOne, KeptUp, KeptIdle
<1>2. Kept => NoLossInOrder
  BY DEF Kept, KeptUp, KeptIdle, NoLossInOrder, Served
<1>3. QED
  BY <1>1, <1>2, InitType, TypeStep, SeparateStep, KeptStep, PTL DEF Spec
===================================================================================

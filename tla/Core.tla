----------------------------------- MODULE Core -----------------------------------
(***************************************************************************)
(* core/core.go and core/defrag.go: the chunks of one server, the files    *)
(* that hold them and the defragmenter that rewrites them.  Every          *)
(* operation runs under the chunk's mutex and is one step here, except the *)
(* defragmentation of a chunk, that a crash can cut anywhere.              *)
(*                                                                         *)
(* Abstractions: the pairs of a chunk are a set of items (what a primitive *)
(* does to them is PMap's subject); a file is a name, <chunk>_rev<n>, that *)
(* links an inode, and an open PMap maps an inode, whatever its name is    *)
(* made to mean later.  A Delete asks for a defragmentation when enough of *)
(* the file is garbage: here, when some is, or not.  A crash ends the      *)
(* process, not the machine: the mapping is shared, so the files keep all  *)
(* that was written.  RAM-only databases have no files.                    *)
(***************************************************************************)
EXTENDS Integers, Sequences, FiniteSets, Functions, FiniteSetsExt

CONSTANTS
    Chunks, Items,
    MaxDefrags,     \* bound: defragmentations started
    MaxRestarts,    \* bound: processes started after the first
    MaxProtections, \* bound: ChunkSetProtected calls
    MaxAsking,      \* bound: Deletes of a chunk that are about to ask for a defragmentation
    defragBufferSize    \* the capacity of defragChannel

ASSUME BoundsAssumption ==
    /\ {MaxDefrags, MaxRestarts, MaxProtections, MaxAsking, defragBufferSize} \subseteq Nat
    /\ MaxDefrags < 100     \* revisions of at most two digits, see NameRank

ASSUME ChunksAssumption == IsFiniteSet(Chunks)

VARIABLES
    phase,          \* "up", "down" or "panicked"
    present, protected, protectionTime, revision,   \* metaChunk, by chunk
    pm,             \* metaChunk.pm: the inode mapped and the revision in its path, or NoPM
    knownChunks,
    timers,         \* goroutines of ChunkSetProtected still asleep: chunk and time
    asking,         \* by chunk: the Deletes that have unlocked it and will send on the channel
    queue,          \* defragChannel
    defrag,         \* the defragmenter: Idle, or the chunk it works on, and how far it is
    dir,            \* by chunk: revision -> inode, the names in the chunks directory
    data,           \* by chunk: inode -> items
    garbage,        \* by chunk: the inodes that hold the record of a deleted pair
    stored,         \* history: by chunk, the items written and not deleted since
    disordered,     \* history: the chunks a defragmentation of which was named out of order
    defrags, restarts, clock    \* bounded counters

meta == <<present, protected, protectionTime, revision, pm, knownChunks>>
files == <<dir, data, garbage>>
counters == <<defrags, restarts, clock>>
vars == <<phase, meta, timers, asking, queue, defrag, files, stored, disordered, counters>>

NoPM == [inode |-> 0, rev |-> 0]
Idle == [chunk |-> "none", stage |-> "idle", old |-> NoPM, todo |-> {}]
Inodes == 1 .. MaxDefrags + 3

(* The inode that creating file rev of chunk c gives: O_CREATE|O_TRUNC reuses the file
   that has the name, otherwise it is one neither named nor mapped. *)
InodeFor(c, rev) ==
    IF rev \in DOMAIN dir[c] THEN dir[c][rev]
    ELSE Min(Inodes \ (Range(dir[c]) \cup {pm[c].inode, defrag.old.inode}))

(* The directory d with name rev made to link inode n. *)
Link(d, rev, n) == [r \in DOMAIN d \cup {rev} |-> IF r = rev THEN n ELSE d[r]]

(* pmap.New: the file with that name, empty. *)
NewStore(c, rev) ==
    LET n == InodeFor(c, rev)
    IN  /\ dir' = [dir EXCEPT ![c] = Link(@, rev, n)]
        /\ data' = [data EXCEPT ![c][n] = {}]
        /\ garbage' = [garbage EXCEPT ![c] = @ \ {n}]
        /\ pm' = [pm EXCEPT ![c] = [inode |-> n, rev |-> rev]]

(* deleteStore: os.Remove of the name the store was opened with. *)
Unlink(c, rev) == dir' = [dir EXCEPT ![c] = Restrict(@, DOMAIN @ \ {rev})]

(* The order of ioutil.ReadDir, by name: rev10 comes between rev1 and rev2. *)
NameRank(rev) == IF rev < 10 THEN 20 * rev ELSE 2 * rev + 1

findChunkLast(c) == CHOOSE r \in DOMAIN dir[c] : \A q \in DOMAIN dir[c] : NameRank(r) >= NameRank(q)

findChunk(c) == CHOOSE r \in DOMAIN dir[c] : \A q \in DOMAIN dir[c] : NameRank(r) <= NameRank(q)

LockedNever(c) == FALSE

Locked(c) == defrag.chunk = c /\ defrag.stage = "copying"
-----------------------------------------------------------------------------------
(* Chunks *)

ChunkSetPresentAgain(c) ==
    /\ phase = "up" /\ ~Locked(c)
    /\ NewStore(c, 0)
    /\ knownChunks' = knownChunks + 1
    /\ present' = [present EXCEPT ![c] = TRUE]
    /\ UNCHANGED <<phase, protected, protectionTime, revision, timers, asking, queue,
                   defrag, stored, disordered, counters>>

ChunkSetPresent(c) ==
    /\ phase = "up" /\ ~Locked(c) /\ ~present[c]
    /\ NewStore(c, 0)
    /\ knownChunks' = knownChunks + 1
    /\ present' = [present EXCEPT ![c] = TRUE]
    /\ UNCHANGED <<phase, protected, protectionTime, revision, timers, asking, queue,
                   defrag, stored, disordered, counters>>

ChunkSetNoPresentMapped(c) ==
    /\ phase = "up" /\ ~Locked(c) /\ present[c]
    /\ Unlink(c, pm[c].rev)
    /\ knownChunks' = knownChunks - 1
    /\ present' = [present EXCEPT ![c] = FALSE]
    /\ protected' = [protected EXCEPT ![c] = FALSE]
    /\ stored' = [stored EXCEPT ![c] = {}]
    /\ disordered' = disordered \ {c}
    /\ UNCHANGED <<phase, pm, protectionTime, revision, timers, asking, queue, defrag, data,
                   garbage, counters>>

ChunkSetNoPresentProtected(c) ==
    /\ phase = "up" /\ ~Locked(c) /\ present[c]
    /\ Unlink(c, pm[c].rev)
    /\ pm' = [pm EXCEPT ![c] = NoPM]
    /\ knownChunks' = knownChunks - 1
    /\ present' = [present EXCEPT ![c] = FALSE]
    /\ stored' = [stored EXCEPT ![c] = {}]
    /\ disordered' = disordered \ {c}
    /\ UNCHANGED <<phase, protected, protectionTime, revision, timers, asking, queue, defrag, data,
                   garbage, counters>>

ChunkSetNoPresent(c) ==
    /\ phase = "up" /\ ~Locked(c) /\ present[c]
    /\ Unlink(c, pm[c].rev)
    /\ pm' = [pm EXCEPT ![c] = NoPM]
    /\ knownChunks' = knownChunks - 1
    /\ present' = [present EXCEPT ![c] = FALSE]
    /\ protected' = [protected EXCEPT ![c] = FALSE]
    /\ stored' = [stored EXCEPT ![c] = {}]
    /\ disordered' = disordered \ {c}
    /\ UNCHANGED <<phase, protectionTime, revision, timers, asking, queue, defrag, data,
                   garbage, counters>>

ChunkSetProtected(c) ==
    /\ phase = "up" /\ ~Locked(c) /\ present[c]
    /\ clock < MaxProtections
    /\ clock' = clock + 1
    /\ protected' = [protected EXCEPT ![c] = TRUE]
    /\ protectionTime' = [protectionTime EXCEPT ![c] = clock']
    /\ timers' = timers \cup {<<c, clock'>>}
    /\ UNCHANGED <<phase, present, revision, pm, knownChunks, asking, queue, defrag, files,
                   stored, disordered, defrags, restarts>>

ProtectionExpiresAnyway(c, t) ==
    /\ phase = "up" /\ ~Locked(c) /\ <<c, t>> \in timers
    /\ timers' = timers \ {<<c, t>>}
    /\ IF TRUE
       THEN /\ protectionTime' = [protectionTime EXCEPT ![c] = 0]
            /\ protected' = [protected EXCEPT ![c] = FALSE]
       ELSE UNCHANGED <<protectionTime, protected>>
    /\ UNCHANGED <<phase, present, revision, pm, knownChunks, asking, queue, defrag, files,
                   stored, disordered, counters>>

(* The goroutine that ChunkSetProtected left behind wakes up after protectionTime. *)
ProtectionExpires(c, t) ==
    /\ phase = "up" /\ ~Locked(c) /\ <<c, t>> \in timers
    /\ timers' = timers \ {<<c, t>>}
    /\ IF protectionTime[c] = t
       THEN /\ protectionTime' = [protectionTime EXCEPT ![c] = 0]
            /\ protected' = [protected EXCEPT ![c] = FALSE]
       ELSE UNCHANGED <<protectionTime, protected>>
    /\ UNCHANGED <<phase, present, revision, pm, knownChunks, asking, queue, defrag, files,
                   stored, disordered, counters>>
-----------------------------------------------------------------------------------
(* Primitives *)

(* Set, and a CAS that passes. *)
Set(c, x) ==
    /\ phase = "up" /\ ~Locked(c) /\ present[c]
    /\ data' = [data EXCEPT ![c][pm[c].inode] = @ \cup {x}]
    /\ stored' = [stored EXCEPT ![c] = @ \cup {x}]
    /\ UNCHANGED <<phase, meta, timers, asking, queue, defrag, dir, garbage, disordered, counters>>

Delete(c, x) ==
    /\ phase = "up" /\ ~Locked(c) /\ present[c]
    /\ data' = [data EXCEPT ![c][pm[c].inode] = @ \ {x}]
    /\ garbage' = IF x \in data[c][pm[c].inode]
                  THEN [garbage EXCEPT ![c] = @ \cup {pm[c].inode}] ELSE garbage
    /\ stored' = [stored EXCEPT ![c] = @ \ {x}]
    /\ \/ asking' = asking
       \/ /\ pm[c].inode \in garbage'[c]
          /\ asking[c] < MaxAsking /\ asking' = [asking EXCEPT ![c] = @ + 1]
    /\ UNCHANGED <<phase, meta, timers, queue, defrag, dir, disordered, counters>>

(* The end of such a Delete, without the chunk's mutex: it waits while the channel is full. *)
AskDefrag(c) ==
    /\ phase = "up" /\ asking[c] > 0
    /\ Len(queue) < defragBufferSize
    /\ asking' = [asking EXCEPT ![c] = @ - 1]
    /\ queue' = Append(queue, c)
    /\ UNCHANGED <<phase, meta, timers, defrag, files, stored, disordered, counters>>
-----------------------------------------------------------------------------------
(* The defragmenter *)

(* It logs pm.Deleted() of the chunk before it locks anything: a chunk released since the
   Delete has a nil pm. *)
DefragTake ==
    /\ phase = "up" /\ defrag = Idle /\ queue # << >>
    /\ defrags < MaxDefrags
    /\ defrags' = defrags + 1
    /\ queue' = Tail(queue)
    /\ IF pm[Head(queue)] = NoPM
       THEN phase' = "panicked" /\ UNCHANGED defrag
       ELSE phase' = phase /\ defrag' = [Idle EXCEPT !.chunk = Head(queue), !.stage = "taken"]
    /\ UNCHANGED <<meta, timers, asking, files, stored, disordered, restarts, clock>>

(* Of the files of c, the new one, rev, comes right after the one it replaces in the order
   of their names, which is the order Open searches them in. *)
InOrder(c, rev) ==
    /\ NameRank(pm[c].rev) < NameRank(rev)
    /\ \A q \in DOMAIN dir[c] \ {pm[c].rev} : NameRank(rev) <= NameRank(q)

(* Both mutexes are held from here to DefragEnd. *)
DefragStart ==
    LET c == defrag.chunk
        rev == revision[c] + 1
    IN  /\ phase = "up" /\ defrag.stage = "taken"
        /\ revision' = [revision EXCEPT ![c] = rev]
        /\ NewStore(c, rev)
        /\ IF pm[c] = NoPM
           THEN phase' = "panicked" /\ UNCHANGED defrag       \* old.Iterate of a nil pm
           ELSE /\ phase' = phase
                /\ defrag' = [defrag EXCEPT !.stage = "copying", !.old = pm[c],
                                            !.todo = data'[c][pm[c].inode]]
        /\ disordered' = IF InOrder(c, rev) THEN disordered ELSE disordered \cup {c}
        /\ UNCHANGED <<present, protected, protectionTime, knownChunks, timers, asking, queue,
                       stored, counters>>

DefragCopy(x) ==
    LET c == defrag.chunk
    IN  /\ phase = "up" /\ defrag.stage = "copying" /\ x \in defrag.todo
        /\ data' = [data EXCEPT ![c][pm[c].inode] = @ \cup {x}]
        /\ defrag' = [defrag EXCEPT !.todo = @ \ {x}]
        /\ UNCHANGED <<phase, meta, timers, asking, queue, dir, garbage, stored, disordered,
                       counters>>

DefragEndKeepingFile ==
    /\ phase = "up" /\ defrag.stage = "copying" /\ defrag.todo = {}
    /\ dir' = dir
    /\ defrag' = Idle
    /\ UNCHANGED <<phase, meta, timers, asking, queue, data, garbage, stored, disordered,
                   counters>>

DefragEnd ==
    /\ phase = "up" /\ defrag.stage = "copying" /\ defrag.todo = {}
    /\ Unlink(defrag.chunk, defrag.old.rev)
    /\ defrag' = Idle
    /\ UNCHANGED <<phase, meta, timers, asking, queue, data, garbage, stored, disordered,
                   counters>>
-----------------------------------------------------------------------------------
(* The process *)

Down ==
    /\ phase' = "down"
    /\ present' = [c \in Chunks |-> FALSE] /\ protected' = [c \in Chunks |-> FALSE]
    /\ protectionTime' = [c \in Chunks |-> 0] /\ revision' = [c \in Chunks |-> 0]
    /\ pm' = [c \in Chunks |-> NoPM] /\ knownChunks' = 0
    /\ timers' = {} /\ defrag' = Idle
    /\ asking' = [c \in Chunks |-> 0] /\ queue' = << >>
    /\ UNCHANGED <<files, stored, disordered, counters>>

(* Close takes every chunk's mutex. *)
Close == phase = "up" /\ (\A c \in Chunks : ~Locked(c)) /\ Down

Crash == phase \in {"up", "panicked"} /\ Down

(* New, then Open.  The revision of the file is not read back from its name. *)
Open ==
    /\ phase = "down" /\ restarts < MaxRestarts
    /\ phase' = "up"
    /\ restarts' = restarts + 1
    /\ present' = [c \in Chunks |-> DOMAIN dir[c] # {}]
    /\ pm' = [c \in Chunks |-> IF DOMAIN dir[c] = {} THEN NoPM
                               ELSE [inode |-> dir[c][findChunk(c)], rev |-> findChunk(c)]]
    /\ UNCHANGED <<protected, protectionTime, revision, knownChunks, timers, asking, queue,
                   defrag, files, stored, disordered, defrags, clock>>

(* New, then ChunkSetPresent of every chunk: what Create does to make a new database. *)
CreateNew ==
    /\ phase = "down" /\ restarts < MaxRestarts
    /\ phase' = "up"
    /\ restarts' = restarts + 1
    /\ present' = [c \in Chunks |-> TRUE]
    /\ knownChunks' = Cardinality(Chunks)
    /\ dir' = [c \in Chunks |-> Link(dir[c], 0, InodeFor(c, 0))]
    /\ data' = [c \in Chunks |-> [data[c] EXCEPT ![InodeFor(c, 0)] = {}]]
    /\ garbage' = [c \in Chunks |-> garbage[c] \ {InodeFor(c, 0)}]
    /\ pm' = [c \in Chunks |-> [inode |-> InodeFor(c, 0), rev |-> 0]]
    /\ stored' = [c \in Chunks |-> {}] /\ disordered' = {}
    /\ UNCHANGED <<protected, protectionTime, revision, timers, asking, queue, defrag, defrags,
                   clock>>

(* A server that created its database in an empty directory. *)
Init ==
    /\ phase = "up"
    /\ present = [c \in Chunks |-> TRUE] /\ protected = [c \in Chunks |-> FALSE]
    /\ protectionTime = [c \in Chunks |-> 0] /\ revision = [c \in Chunks |-> 0]
    /\ pm = [c \in Chunks |-> [inode |-> 1, rev |-> 0]] /\ knownChunks = Cardinality(Chunks)
    /\ timers = {} /\ defrag = Idle
    /\ asking = [c \in Chunks |-> 0] /\ queue = << >>
    /\ dir = [c \in Chunks |-> Link(<< >>, 0, 1)]
    /\ data = [c \in Chunks |-> [n \in Inodes |-> {}]]
    /\ garbage = [c \in Chunks |-> {}]
    /\ stored = [c \in Chunks |-> {}] /\ disordered = {}
    /\ defrags = 0 /\ restarts = 0 /\ clock = 0

Next ==
    \/ \E c \in Chunks : \/ ChunkSetPresent(c) \/ ChunkSetNoPresent(c) \/ ChunkSetProtected(c)
                         \/ \E t \in 1 .. MaxProtections : ProtectionExpires(c, t)
                         \/ \E x \in Items : Set(c, x) \/ Delete(c, x)
                         \/ AskDefrag(c)
    \/ DefragTake \/ DefragStart \/ DefragEnd
    \/ \E x \in Items : DefragCopy(x)
    \/ Close \/ Crash \/ Open \/ CreateNew

Spec == Init /\ [][Next]_vars
-----------------------------------------------------------------------------------
(* Properties *)

PM == [inode : Inodes, rev : Nat] \cup {NoPM}

MetaTypes ==
    /\ present \in [Chunks -> BOOLEAN] /\ protected \in [Chunks -> BOOLEAN]
    /\ protectionTime \in [Chunks -> Nat] /\ revision \in [Chunks -> Nat]
    /\ pm \in [Chunks -> PM]
    /\ knownChunks \in Int

ProcessTypes ==
    /\ phase \in {"up", "down", "panicked"}
    /\ timers \subseteq Chunks \X (1 .. MaxProtections)
    /\ defrags \in 0 .. MaxDefrags /\ restarts \in 0 .. MaxRestarts
    /\ clock \in 0 .. MaxProtections

DefragTypes ==
    /\ asking \in [Chunks -> 0 .. MaxAsking]
    /\ queue \in Seq(Chunks) /\ Len(queue) <= defragBufferSize
    /\ defrag \in [chunk : Chunks \cup {"none"}, stage : {"idle", "taken", "copying"},
                   old : PM, todo : SUBSET Items]
    /\ defrag = Idle \/ (defrag.stage # "idle" /\ defrag.chunk \in Chunks)
    /\ disordered \subseteq Chunks

FileTypes ==
    /\ DOMAIN dir = Chunks
    /\ \A c \in Chunks : dir[c] \in [DOMAIN dir[c] -> Inodes] /\ DOMAIN dir[c] \subseteq 0 .. defrags
    /\ data \in [Chunks -> [Inodes -> SUBSET Items]]
    /\ garbage \in [Chunks -> SUBSET Inodes]
    /\ stored \in [Chunks -> SUBSET Items]

(* Types; a chunk has a pm exactly when it is present, and no file has a revision that no
   defragmentation gave. *)
TypeOK ==
    /\ MetaTypes /\ ProcessTypes /\ DefragTypes /\ FileTypes
    /\ phase = "up" => \A c \in Chunks : present[c] <=> pm[c] # NoPM

Served(c) == IF present[c] THEN data[c][pm[c].inode] ELSE {}

(* Nothing written to a chunk is lost while the chunk is held: not by a defragmentation,
   by releasing and taking chunks around it, nor by a crash at any point and a restart. *)
NoLoss == phase = "up" => \A c \in Chunks : ~Locked(c) => stored[c] \subseteq Served(c)

(* The same for the chunks whose defragmentations made their files in order: whatever the
   process does, is killed at and leaves behind, only a new file whose name does not come
   after that of the old one (or passes one left behind) can cost a pair. *)
NoLossInOrder ==
    phase = "up" => \A c \in Chunks \ disordered : ~Locked(c) => stored[c] \subseteq Served(c)

(* The three that follow are about the process that created the database. *)
First == phase = "up" /\ restarts = 0

(* Nothing deleted, and nothing of an earlier life of a chunk, is served again. *)
NoResurrection == First => \A c \in Chunks : ~Locked(c) => Served(c) \subseteq stored[c]

(* Every present chunk has one file, the one it is mapped to, and an absent chunk has none:
   a defragmentation leaves no old revision behind and deletes no file in use. *)
OneFilePerChunk ==
    First => \A c \in Chunks : ~Locked(c) =>
        dir[c] = IF present[c] THEN Link(<< >>, pm[c].rev, pm[c].inode) ELSE << >>

(* PresentChunks returns the number of present chunks (core.go). *)
KnownMatchesPresent == First => knownChunks = Cardinality({c \in Chunks : present[c]})

(* A protected chunk is present and the goroutine that will end its protection is asleep:
   protection never becomes permanent, which would block every release of the chunk. *)
NeverStuckProtected ==
    phase = "up" => \A c \in Chunks :
        protected[c] => present[c] /\ <<c, protectionTime[c]>> \in timers

(* Protection ends only when the chunk is released or when the time of the last
   ChunkSetProtected is over; the goroutine of an earlier call does not cut it short. *)
ProtectionNotCutShort ==
    [][\A c \in Chunks : protected[c] /\ ~protected'[c] /\ phase' = "up" =>
          ~present'[c] \/ timers' = timers \ {<<c, protectionTime[c]>>}]_vars
=====================================================================================

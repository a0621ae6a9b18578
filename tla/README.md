# Verification of the treeless engine

TLA+ models of the distributed key-value store in
`src/atomic-distributed-NoSqlDB-Engine/` (paths below are relative to it), the TLC instances
that check them and the theorems TLAPS proves about them. `PROJECT.json` has the same
information for tools: the lines each definition translates, the runs, a mutated definition
for every property, the findings, the hazards and the theorems.

## 1. The system

A database is a fixed number of *chunks*. A key belongs to one chunk by its hash, and every
chunk is held by up to `redundancy` servers. There is no master: clients write to all
holders of a chunk, the later timestamp wins, and holders repair each other when their
checksums differ.

| Part | State | Operations | What is hard |
|---|---|---|---|
| Chunk map, `core/pmap` | append-only mapped file, open-addressing table in RAM, count of garbage | Get, Set, CAS, Del, Iterate, New, Open, Close | probing past deleted buckets, expansion, a full file or table, rebuilding everything from a file full of old records |
| Checksum, `core/pmap/syncchecksum.go` | three sums with three time windows | sum, sub, checksum | writes arrive out of order, and replicas must agree all the same |
| Core and defragmenter, `core/*.go` | presence, protection, revision and map of each chunk; a queue | take, release and protect a chunk, primitives, Open, Close, defragment | a crash inside a defragmentation, late goroutines of old protections, a chunk released while it is queued |
| Server group, `dist/servergroup` | servers, the chunks each one reported, the holders of each chunk | add, remove, alive, dead, chunks reported | two tables updated from each other |
| Heartbeat, `dist/heartbeat`, `com/protocol/udpHeartbeat.go` | the request under way, its timeouts, recent news | ask, answer, time out, follow news | lost datagrams, servers that die, return, join and are announced by others |
| Rebalancer, `dist/rebalance` | duplications and releases under way | duplicate, protect, release | several servers decide at once, from what heartbeats told them |
| Repair, `dist/repair` | rounds a chunk was out of sync | compare checksums, send the chunk backwards | replicas change meanwhile |
| Connection broker, `com/comclient.go` | send channel, table of waiting calls, list of timeouts, three goroutines | send, wait, close | answer, timeout and closing race for one channel; wake-ups |
| Buffered connection, `com/buffconn` | write buffer, flusher, read buffer | write, flush, read, close | a stream cut anywhere, a lock held while sending to the goroutine that needs it |
| Client and server handlers, `client`, `server` | a view of the group | Get with read-repair, Set, Del, CAS | partial failure between replicas |

The server's handlers call the core, which calls a chunk's map. The heartbeat, the
rebalancer and the core's list of present chunks feed the server group. Client, rebalancer
and repair reach other servers through a broker for each server.

What makes it correct, part by part: a map is a last-writer-wins dictionary that survives
restarts; a lagging checksum depends on the set of writes and not on their order; a chunk
that is held loses nothing and gets nothing back that was deleted; protection ends on time
and not before; a node's two tables describe one cluster, and follow what happens to it;
replicas agree in the end, and a compare-and-swap succeeds once; a chunk that servers copy and
release is not lost; messages arrive whole and in order; each call returns once, with its own
result.

## 2. Modules

Definitions keep the names of the code. Those named after another definition plus a bug
(`DelEmptyingBucket` before `Del`) are its mutated forms. Nothing uses them but the
experiments listed in `PROJECT.json`, which show that a property depends on the code.

| Module | Models | Role |
|---|---|---|
| `SyncChecksum` | `syncchecksum.go` | operators; a 64-bit sum is a formal sum of terms |
| `ChecksumWindows` | the same as a state machine | time stability, proved in `PMapProofs` |
| `LWWMap` | | what a chunk map promises: the abstract dictionary |
| `PMap`, `PMapProofs`, `PMapTable`, `PMapContents` | `pmap.go`, `store.go`, `hashmap.go` | the table over the file; proved to refine `LWWMap` |
| `Core`, `CoreProofs` | `core.go`, `defrag.go`, Create in `server.go` | chunks, files and defragmenter of one process, with restarts; proved to lose nothing but by the names of its files |
| `CoreLocks` | the locking of `core.go`, `defrag.go` | who waits for whom |
| `ServerGroup` | `servergroup.go`, `virtualchunk.go` | the two tables, proved to agree; the abstract specification of `Heartbeat` |
| `Heartbeat`, `HeartbeatProofs` | `heartbeat.go`, `udpHeartbeat.go`, the UDP half of `comserver.go` and `comclient.go` | a node that keeps its group up to date; proved to implement `ServerGroup`, whose own theorems are in `HeartbeatProofs` too |
| `Replication`, `ReplicationProofs` | `client.go`, handlers of `server.go`, `repair.go` | one key on its replicas; CAS proved atomic as far as it is |
| `Rebalance` | `rebalance.go`, handlers of `server.go`, `repair.go` | one chunk on its way between servers |
| `BuffConn`, `BuffConnProofs` | `buffconn.go`, framing of `tcpMessage.go` | one direction of a connection; proved to deliver whole messages |
| `Broker`, `BrokerProofs` | `comclient.go`, its use in `virtualserver.go` | calls over one connection, proved to get their own result |
| `MC...` | | values of the constants for TLC |

**PMap.** `file` is the sequence of records, `mem` the buckets, `checksum` the struct of
`SyncChecksum`. A record's position stands for its byte offset. Its length in bytes is kept,
because it decides when the store is full. Each primitive is one action, with one disjunct
for each way out of the code. Expansion and Open are loops and take one step for each bucket
or record; the caller holds the chunk's mutex, so no other primitive comes between them, but
a crash can. `Get` and `isPresent` use the raw hash while the writers remap it, as the code
does. The refinement maps what `Get` returns to `dict`, and the last record of each key to
`disk`. `ret` is what the last call returned. A CAS is named in it after what its caller expects:
`LWWMap` lets a `staleCAS`, whose caller expects another pair than Get returns, end with an
error only, so that the refinement shows the comparison and not just the write.

**Core.** The pairs of a chunk are a set of items. A file is a name (chunk and revision)
that links an inode, and an open map maps an inode, so that truncating or removing a name
acts as it does on Linux. A defragmentation takes one step to dequeue, one to create the
new file, one for each pair and one to remove the old file, with the chunk locked between
the second and the last. A Delete that asks for a defragmentation sends its request after it
has unlocked the chunk (`AskDefrag`), and waits while the channel is full. `panicked` is a
process killed by a nil pointer. Two history variables: `stored` is what was written and not
deleted since, `disordered` are the chunks one of whose defragmentations made a file that does
not come next after the old one in the order in which Open searches the files.

**CoreLocks.** A function is the sequence of locks it takes and gives back, in the order of
its statements and its deferred calls, with what it does to `present` and `protected` between
them. One goroutine runs each function, again and again.

**ServerGroup.** Each method runs under the group's mutex and is one action. The list of
chunks a server reports is any list, which is what a heartbeat can bring. `ServerAlive` and
`RemoveServer` have no callers in the repository; the theorems cover them.

**Heartbeat.** It extends `ServerGroup`: its actions use the group's methods on the group's
own variables and add what surrounds them. `StartRound`, `Query`, `Reply`, `Timeout`,
`Receive`, `ReceiveUnknown` and `FollowNews` are the steps of one `request` after the other.
The other servers run the same code, so they change, crash, restart, join and spread news at
any time. `AmAlive` is what is left of an answer after Marshal and AmAliveUnMarshal: the list
of dead servers is encoded but never decoded. `age` and `seen` are history variables.

**Replication.** One key, all of whose holders are in `Servers`. A write is its timestamp, and
so is the checksum of a chunk that has no other pair. `calls` is the set of calls on their
way, which arrive in any order, late or never. `op` is where each client is inside Get (which
servers have answered, with what) or CAS (the master asked, the slaves to follow). `sums` is
what the group of each server says of each other server: CAS and repair decide by it, and it
is as old as the last heartbeat. `holders` is whom each node takes for a holder: a server that
does not answer three heartbeats leaves it (`DeadServer`), whether it has stopped or its answers
were lost, and the next answer brings it back. So clients may disagree on who the master of a
key is, and a server on who must agree before a CAS. `EmptyWrites` are writes of an empty value, which CAS does not
tell from an absent pair. `won`, `doubted` and `deleted` are history variables.

**Rebalance.** One chunk. For every server it has whether the chunk is present, protected and
filled, whom its group takes for a holder, and where its duplicator, its releaser and its
repair loop are. How many chunks a server has compared with the others, disk space and sleeping
times are free choices.

**BuffConn.** A byte is its number in the stream. The model has the arithmetic of both buffers
as it is in the code, the flusher with its channel of capacity one, and a TCP connection that
accepts and returns any number of bytes at a time.

**Broker.** Callers, the to-world goroutine, the ticker and the reader interleave at every
channel operation and every lock. The loops over the list run with the mutex locked and take
one step for each message. `next`, `prev`, `head` and `tail` are the pointers of the code, so
that what its list operations do with a malformed list is modelled too: `mutex` then ends as
`panicked` (a nil pointer) or `hung` (a walk that never ends). `misfiled` is a history variable:
push has taken its branch "To head". `holds` are the calls that have `VirtualServer.m` locked for
reading, which keeps the connection open: Get, Set, Del and CAS until the message is sent, the
calls that use sendAndReceive until they have their result.

## 3. Runs

Runs marked *violation* check one property that the repository states and the code does not
have.

| Run | Instance | Shows |
|---|---|---|
| `checksum_windows` | six clock ticks in three seconds | lagging sums hold exactly the older terms, in whatever order terms arrive; windows never turn back |
| `pmap_dictionary` | two keys of equal hash, two values, two times, a file of three records, a table that grows from two buckets | `PMap` refines `LWWMap`; iteration and checksum agree with the contents, and what is counted as garbage leaves room for the pairs held |
| `pmap_limit` | three keys with one home bucket, a table that grows once, to four buckets | every probe ends and finds what is stored, also when the table cannot grow, in use and while restoring a longer file |
| `core` | one chunk of two items, three defragmentations, two restarts, two protections | over restarts and crashes anywhere nothing is lost unless a new file was named out of order, and protection is neither cut short nor permanent; in the first life of the process nothing is resurrected, a chunk has one file and the count of chunks is exact |
| `core_reopen_defrag` | two defragmentations, an orderly restart between | *violation:* the chunk is emptied |
| `core_locks` | six functions of one chunk | *violation:* the goroutine that ends a protection waits for ever |
| `heartbeat` | a node, a server it knows and one it does not, one chunk, one change, one crash, one piece of news | tables agree, no duplicates, the dead hold nothing, others keep their place; what is recorded of a server is what it said last; servers down, up and new are found |
| `replication` | two servers with or without a pair, one client with up to two operations, one fault: a loss, a server that stops, or one taken for dead by mistake | a server accepts one CAS of those that expect the same pair, absent or not, and so does the whole system until a node takes a server for dead; replicas agree in the end |
| `rebalance_loss` | two servers, redundancy one, nothing lost and nobody crashes | *violation:* the pairs are in no server and on the way to none |
| `buffconn` | messages of 5 and 11 bytes, a read buffer of 10, a write buffer of 7, two changes of mode | messages arrive whole, once, in order and in the end, except after two stops the property names: two changes of mode that meet a tick, and a read buffer that is full with a message begun |
| `broker` | two calls with timeouts 2 and 1, in either order, two channels | own result, at most one; until push takes its branch "To head", no call is forgotten by the channel, the map and the list together, the list of timeouts is sound, no loop over it panics or hangs, and closing makes every accepted call return |
| `broker_lost_wakeup` | two calls with one timeout | *violation:* a call without answer may wait for ever |

### Bounds

- `StoreSize`: a file of three to five records is enough for a pair to be written, deleted,
  written again and refused, with a restart after each. `InitSize` is 2 instead of 2^10, so
  that the table expands; the load factor and the probing do not depend on it. `pmap_dictionary`
  with three keys takes nine minutes instead of two.
- `SizeLimit` 4 makes the limit of the table come before that of the file.
- `MinCount` stops refused CAS calls from subtracting the same term again and again.
- `MaxDefrags`, `MaxRestarts`, `MaxProtections`: two protections are needed for the goroutine of
  the first to wake during the second. Two defragmentations and one restart are needed for the
  finding; run `core` has three and two, in any life of the process, so that it meets files in
  order, out of order and left behind.
- `MaxAsking`, `defragBufferSize` 1 (256 in the code): a request waits while another is in the
  channel and a third is being served. A chunk may be released at each of these points.
- `timeoutRetries` is 2 instead of 3: two timeouts in a row differ from one as three do.
  `MaxChanges`, `MaxCrashes`, `MaxNews` 1 let a list be out of date, a server be dead and
  return, and one be announced. Losses of datagrams are not bounded.
- `Before` 1 and `MaxTime` 3 of `Replication`: the servers have no pair, or one of time 1, and
  two operations follow. Two writes meet in every order, and two CAS calls expect the same pair,
  or the absence of one (`Expected`). `MaxFaults` 1: one write reaches one server only, or one
  server stops, or one that runs is taken for dead. More faults are covered by the proof.
- Sizes of `BuffConn`: 5 fits into both buffers, but not a second time into the write buffer; 11
  fits into neither. `MaxBytes` 16 is one of each, in either order, or three small ones,
  the second of which ends where the read buffer does. `MaxModes` 2 is what a new connection gets.
- `MaxTime` of `Broker`: the clock stops at this value unless a waiting call has time left, so
  every deadline is reached, also with `MaxTime` 0. `BufferSize` 1: a full send channel is reached
  with two calls. The call with timeout 1 expires before, with or after the other, so that push
  takes each of its branches but one between two others, which the proofs cover.
  Calls without timeout are covered by the proofs only.
- `MaxCount` 1: terms enter and leave each sum.

Symmetry is used for `PMap`, over keys that the model compares for equality and that have the same
hash and length, and in run `core`, over the pairs of a chunk; none of these runs checks liveness.
Deadlock is not checked where what may happen is bounded and the system then rests (`Core`, `Broker`, `Replication`, `BuffConn`, `CoreLocks`, `Rebalance`).

### Fairness

- `Broker`: a caller that can put its message into the channel or take its result does so. The
  to-world goroutine and the ticker are strongly fair, because they compete for a `sync.Mutex`,
  which does not starve a waiter. The reader delivers what it has and notices a lost connection.
  Time passes. Nothing is assumed of the server: it may never answer. Nobody has to make a call
  or close the connection.
- `CoreLocks`: a goroutine that again and again finds the lock it wants free gets it (strong
  fairness, `sync.Mutex` again), and the sleep that ends a protection ends. Nobody has to call
  anything else.
- `Heartbeat`: the heartbeat goroutine runs and its timer fires. A running server that is asked
  again and again is able to answer once, and of its answers one arrives (strong fairness: the
  network loses datagrams, but not all for ever). Nobody has to crash, restart or change.
- `Replication`: heartbeats and rounds of repair of a running server go on, and its connections
  are served: of the calls that wait at it the youngest is handled in the end. Clients may stop
  anywhere.
- `BuffConn`: writer, flusher and reader run when they can, the flusher gets the mutex it waits
  for, and TCP delivers what it accepted while it is up. Nobody has to write.

## 4. Proofs

TLAPS proves the following for every value of the constants that meets the named
assumptions.

| Theorem | States | Assumptions |
|---|---|---|
| `ChecksumTypeCorrect`, `ChecksumInvariant`, `ChecksumTimeStable`, `ChecksumNothingAhead`, `ChecksumWindowsOnlyAdvance` | `[]WindowsTypeOK` (windows end at whole seconds), `[]WindowsInv`, `[]TimeStable`, `[]NothingAhead`, `WindowsOnlyAdvance` | a second has at least one tick, times are naturals |
| `TablesInvariant`, `HoldersAreReporters`, `HoldersAreDistinct`, `TheDeadHoldNothing`, `OthersTheorem` | `[]Inv` and its parts `TablesAgree`, `NoDuplicateHolder`, `DeadHoldsNothing`; `OthersKeepTheirPlace` | none |
| `HeartbeatImplementsGroup`, `HeartbeatTypeCorrect`, `HeartbeatOwnLists` | `HSpec => Spec` of `ServerGroup`, `[]HTypeOK`, `[]OwnLists` | the node is a server, `Nil` is none |
| `ReplicationTypeCorrect`, `CASIsAtomic` | `[]TypeOK`, `[]CASAtomic` | of any servers one has the greatest rank, the bounds are naturals, no server is a client |
| `IndicesInBuffers`, `MessagesArriveWhole` | `[]TypeOK`, `[]WholeMessages` | sizes are naturals, a message is not shorter than `MinimumMessageSize`, which is not 0 |
| `CoreTypeCorrect`, `ProtectionEnds`, `ProtectionHolds`, `PresentChunksCounted`, `OneFile`, `NothingResurrected`, `NothingLostFirst` | `[]TypeOK`, `[]NeverStuckProtected`, `ProtectionNotCutShort`, `[]KnownMatchesPresent`, `[]OneFilePerChunk`, `[]NoResurrection`, `[](restarts = 0 => NoLoss)` | finitely many chunks, revisions of at most two digits |
| `NothingLost` | `[]NoLossInOrder` | the same; restarts and defragmentations after them are not limited |
| `BaseInvariant`, `PMapTypeCorrect`, `ProbesAlwaysEnd`, `TableInvariant` | `[]Base`, `[]TypeOK`, `[]ProbesEnd`, `[]Table` | those of `PMap` on its constants |
| `StoredPairsFound` | `[]FindsStored` | also `PlainHashes`: no key has hash 0 or 1 |
| `ContentsInvariant` | `[]Contents` | `NonemptyKeys`: no key is empty; `RoomyTable`: the file is full before the table is |
| `IterationComplete`, `ChecksumKept`, `LastWriterWins`, `DeletedNeverTooHigh` | `[]IterateComplete`, `SuccessKeepsChecksum`, `RefinesLWWMap`, `[]DeletedIsGarbage` | all three |
| `BrokerTypeCorrect`, `CallsGetOwnAnswer`, `BrokerNeverBlocks`, `CallsAccounted` | `[]TypeOK`, `[]OwnAnswer`, `[]NeverBlocks`, `[]Accounted` | timeouts are naturals, the buffer has room for one, `Nil` is no other value |
| `WaitsAreTimed`, `NoCallForgotten` | `[]EveryWaitIsTimed`, which includes `NeverStuck`; `[]NobodyForgotten` | the same; timeouts may differ |

**Checksum.** `TimeStable` alone is not inductive. When the windows move, the old sum takes
over the medium one and the medium sum the newest. The invariant must therefore also say
that windows are in order and that no term is younger than the newest (`NothingAhead`). The
key lemma is that the next whole second is strictly after the time that caused the move.

**Server group.** `removeHolder` fills the gap with the last holder. `RemoveHolderFacts`
shows that a list without duplicates then loses exactly one server. Hence the absence of
duplicates is part of the invariant that makes the tables agree.

**Heartbeat.** Every step is a method of the group with its arguments, or leaves the group
alone; so the five results about `ServerGroup` hold of a node that runs the heartbeat, whatever
the network and the other servers do. `OwnLists` needs to know of an answer under way
that it is no younger than the server's list, and its list if it is as young.

**Replication.** `CASAtomic` says nothing about where pairs are. The invariant adds that a
running server's pair is younger than every pair that a CAS it accepted expected
(`ExpectedIsGone`): a server replaces a pair only by a younger one, so an expected pair never
returns to it. Hence each server accepts one CAS at most, whoever asks it. As long as no node has
taken a server for dead, every CAS call goes to the one master that everybody's list of holders
gives (`OneMaster`), so that what holds of each server holds of the system. Neither losses nor the
staleness of the tables of checksums matter to the argument. That nothing was deleted does: an
absent pair has no time to be younger. Nor does it reach further: once a server is taken for dead
clients may ask different masters, and section 5 says what follows.

**Buffered connection.** The invariant has a half for the writer and one for the reader, and
the steps of one leave the other's half alone. The writer's: the messages tile the bytes given
to Write, and those bytes are the stream, then the write buffer, then the message in hand. The
reader's: what is in the read buffer between its two indices, or in `bigBuffer`, are the bytes
of the stream from the end of the last message returned. With both, a message returned
starts where a message was written and has its size. The proof needs no relation between the
sizes: the read that stalls (section 5) loses nothing.

**Broker.** Neither property is inductive: a channel in the pool could hold an old result.
The invariant `IInv` says that the right to answer a request is in one place:
in the send channel, in `waits`, in the reader's hands or used up in the result channel; and
that a call keeps its channel to itself until it has its result. Each action moves the right
from one place to the next. The argument does not use the order or shape of the list of
timeouts, so the results also hold where the list has become malformed. The types come first (including the list's, after the flawed push), then the
steps of the callers and those of the goroutines. TLC checked `IInv` on the instance of run
`broker` as well.

`Accounted` is the other half of that invariant: the right to answer a call that waits is in at
least one of those places. It too holds of a malformed list, for a loop that hangs takes nothing
away. That the goroutine which writes ends with nobody left (`NobodyForgotten`) does use the
list, because closing fails only the requests that are on it.

For the list, `ListInv` says that, until push has taken its branch "To head" (`misfiled`), no loop
got lost and there is a sequence of `len`
different requests, linked both ways from `head` to `tail`, in order of their deadlines, with
every request of `waits` on it, none that is still in the send channel, and no link at any other
request. push walks from the tail to the last message that does not expire after the new one
(`WalkStops`) and links the new one behind it, at the tail or between two others
(`PushInserts`). clean and forall take the head. forall leaves the `next` of the new head as it
was, so that one link is not part of the invariant while it runs. Nothing is assumed of the
timeouts. With one timeout for all calls that wait push never gets to that branch; the
client's default is 500 ms for all of them (`client/client.go:13`), but it has a field for each
operation. What happens after the branch is in section 5 (`comclient.go:94`). Two facts about the recursive functions
`Chain` and `Walk` need induction on the position: the least position at which they fail leads to
a contradiction, so that a nonempty set of naturals has a least member is all that is used
(`LeastMembers`, a hypothesis of those lemmas, proved at the end of the module).

**Core.** None of the properties is inductive. Those on protection need the types and, for
every phase of the process, what stage the defragmenter may be in (`TypeInv`). Those on files
need to know what a chunk looks like while it is being rewritten, and there are two
descriptions. In the first life of the process a chunk has exactly the file it is mapped to,
and during a rewriting the old file, complete, and the new one, which lacks exactly the pairs
still to be copied (`FirstFiles`). After a crash an old file may be left behind, so a
restarted process needs a weaker description (`KeptUp`, `KeptDown`): what was stored is in the
file that the next Open takes, the one whose name comes first. While a chunk is rewritten
that is the old file, until it is removed, and then the new one. A crash at any point turns the
first description into the second. This argument needs the new name to come right after the old
one, which is `InOrder`, and nothing else: `NothingLost` has no bound on restarts or
defragmentations. In the first life of the process a name out of order loses nothing as long as
the process runs (`NothingLostFirst`). Section 5 lists how names get out of order.

**PMap.** Three invariants, one on top of the other. `Base`: the types, every bucket in use
points to a record, `numStoredKeys` is the number of such buckets and respects the load
factor, and the table that expand() fills has counted no more buckets than were scanned; hence
every search meets an empty bucket. `Table`: linear probing for the hash of its key reaches
each bucket in use without an empty one on the way, no two are of the same key, and the table
being filled has the buckets scanned and no others; hence a search ends at the bucket of its
key. `Contents`: the buckets in use point to the last records of their keys, a deletion is
recorded only after a record of the pair, and the replay of a file leaves out no pair. What a
step does to the table and the file is one of seven effects (`Effect`): nothing, a pair written,
a pair deleted, the map closed or crashed, the start and the end of a reopening, and a record
replayed.
That every action has one of them is proved once (`StepEffect`); the contents, the checksum
and the refinement are then proved of the effects (`EffectContents`, `EffectExact`,
`EffectRefines`, `EffectGarbage`). `PMapProofs` has `Base`, `PMapTable` the two invariants above
it, `PMapContents` what follows from them. `FileView`, the abstract `disk`, is the record with
the greatest position; a greatest element exists by well-foundedness, so no induction over
the file is needed.

`DeletedIsGarbage` is proved with sets of bytes in place of sums. A byte is a pair of a record's
key and a number up to its length (a key has at most one record in use); `Garbage` says that
`deleted` and the number of bytes of the records that buckets point to do not exceed the file. A
write takes away the bytes of at most one record without counting them: it forgets the garbage
of an overwritten pair, which is why the property is an inequality. A Del counts the record it
releases. The replay of a record counts the record it replaces or deletes and, if it is a
deletion, also its own 12 bytes and key. Only that disjoint finite sets add up is used, one
record at a time. During a replay this holds because a deletion is recorded only after a record
of its pair (`Contents`).

The hypotheses are those under which the code keeps the promise, and section 5 has what happens
without them: Get does not remap hashes 0 and 1; Open takes an empty key for the end of the
file; at the limit of the table Open drops records. The last does not happen in the sizes the
repository uses: a table may have 2^26 buckets, one of more than 2^25 takes at least 23 million
records before it is full, and a file of 2^27 bytes has room for 10 million of the shortest
(13 bytes). The instance of run `pmap_dictionary` meets all three, and TLC checked `Base`,
`Table` and `Contents` on it.

**Only model-checked.** Liveness (`CloseAnswersEveryone`, `DownIsFound`, `UpIsFound`,
`NewsAreFollowed`, `Converges`, `AllArrives`): the prover does not handle fairness and ENABLED.
Every invariant and every action property of a passing run has its theorem.
Operators declared RECURSIVE are not used in proved modules; recursive definitions there are
functions.

## 5. Disagreements with the repository

Shown by runs:

1. `core_reopen_defrag`: Open does not restore the revision (`core/core.go:91`). A chunk
   opened from file `rev1` is next defragmented into `rev1`, the file it is mapped to, which
   is truncated before it is copied and removed afterwards. The same cause has other effects: a
   chunk opened from `rev2` is defragmented into `rev1`, and a crash before the copy is complete
   makes the next Open take the incomplete file, as its name comes first.
   `NoLossInOrder` is about the chunks that this did not happen to.
2. `broker_lost_wakeup`: the activation of the ticker does not wait for a receiver
   (`com/comclient.go:226`). If the ticker is between finding the list empty and listening,
   no timeout fires until the next request.
3. `core_locks`: BackwardsIterate, which repair calls, locks the chunk and then its
   `defragMutex` (`core/core.go:319`), the defragmenter the other way round. Once each has its
   first lock, everybody who wants the chunk waits, among them holders of `Core.mutex`, and "The
   flag will be disabled automatically after a period of time" (`core/core.go:188`) is not
   true any more. With `defragMutex` first in both, the property holds on this
   instance.
4. `rebalance_loss`: a server that copies a chunk for the balance of load has it *present*
   four seconds before it asks for the transfer (`dist/rebalance/rebalance.go:129`). Its
   heartbeat makes it a holder, so the server with the pairs counts one holder too many, asks
   for its protection, gets it and releases the only copy; the transfer that follows finds no
   holder. The protection is there "to prevent data-loss" (`rebalance.go:179`). No message is
   lost and no server crashes.

Met while modelling, in the models as the code has them, outside the instances that are
checked or allowed by the abstract specification:

- `pmap.go:181`, `pmap.go:394`: Get and isPresent do not remap hashes 0 and 1, so a key with
  one of them is stored and never found. The instances have no such key.
- `pmap.go:383`: Del on a full store releases the bucket and returns an error; the pair
  comes back after a restart. `LWWMap` states this as Del's exception.
- `pmap.go:87`, `pmap.go:70`: at the table's size limit Open drops records silently.
- `pmap.go:64`: Open reads a length beyond the file when fewer than four bytes are left
  (`panicked` in `EndOpen`), and takes an empty key, a legal Set, for the end of the file.
- `pmap.go:306`: CAS on an absent key passes when either test does, not both.
- `pmap.go:337`: a CAS that does not fit has already left the checksum, hence the condition
  in `SuccessKeepsChecksum` that no error is returned.
- `pmap.go:400`: Iterate hands over every record whose timestamp is the current one, so a
  pair overwritten at an equal time by CAS is visited twice.
- `core.go:73`: revisions are compared as text, rev10 before rev2, so that the tenth
  defragmentation of a chunk is out of order also without a restart: cut by a crash, it leaves an
  incomplete file that Open takes. A file that an earlier crash left behind may also come between
  the old and the new one, and Open takes it after the old one is removed.
- `core.go:92`: Open does not count the chunks it finds, so `knownChunks` goes negative.
  `KnownMatchesPresent` is checked for a process that created its database.
- `core.go:165`: Create leaves other revisions of a chunk in place, and the next Open may
  find them. `OneFilePerChunk` and `NoResurrection` are checked without restarts for this
  reason.
- `defrag.go:21`: the defragmenter uses the map of a chunk that may have been released since
  it was queued; the process then panics (`DefragTake`, `DefragStart`).
- `rebalance.go:194`: two servers may both find that they are not protected, protect each
  other and both release: with `present \cap up # {}` in place of `DataKept`, TLC finds it in
  14 states. Repair may still bring pairs back that are on the way.
- `client.go:147` says that CAS "doesn't tolerate network partitions (permanent node failures are
  ok)". A master that acknowledges a CAS and stops before the slaves are written takes the pair
  with it, and once it is taken for dead a second CAS that expects the same pair succeeds at the
  next master. A partition is not needed either: three lost datagrams of a running master make
  it dead for one client (`heartbeat.go:78`), that client asks another server, which
  accepts as long as it has not heard of the first CAS. `CASAtomic` therefore speaks of the whole
  system only until a node takes a server for dead, and of each server afterwards.
- `buffconn.go:147`: Write sends to `ch` with `writeMutex` held. With two changes of mode in a
  row the second send waits for the flusher, which waits for the mutex if it has just seen a tick
  (`ModesDeadlock`): connection and callers stop for good. `SetNoDelay` does send the mode twice
  on a new connection (`virtualserver.go:47` and `virtualserver.go:167`). Run `buffconn` reaches
  it, and `AllArrives` excepts it by name.
- `buffconn.go:78`, `buffconn.go:112`: the rest of the read buffer is moved to its start only
  when a message is returned that began after byte 1400. A message that ends shortly before the
  end of the buffer, but began earlier, leaves no room for the next one, and Read calls tcp.Read
  with an empty slice for ever (`ReadSpins`; in bytes, a message of 1400 and one of 648). Run
  `buffconn` reaches it with three messages of 5 bytes, and `AllArrives` excepts it by name.
- `comclient.go:94`: the "To head" branch of push has no return, so the message is linked
  twice: once as the new head, once behind the old one. A message gets there when its timeout is
  shorter than what is left of all others, which needs timeouts that differ, as
  `testing/single_test.go:266` has them (`client/client.go:22` exports one for each operation). Then
  `next` goes round in a cycle and `prev` does not lead from the head to the others: clean and
  forall meet a nil pointer, which ends the client, and push may walk for ever with the mutex
  locked. Run `broker` reaches it;
  `EveryWaitIsTimed`, `NobodyForgotten` and `CloseAnswersEveryone` hold until then.
- `udpHeartbeat.go:82`: the zero that ends the added servers is not skipped, so the dead ones
  are never decoded. Deaths are found by each node's own timeouts, as `DownIsFound` says.
- `udpHeartbeat.go:30`: Marshal writes beyond its buffer of fixed size when a server holds about
  117 chunks or more. The model has no sizes of datagrams.
- `servergroup.go:212`: GetChunkHolders copies the holders into an array of eight. Nine servers
  would be needed.

## 6. Not modelled

- A put cut by a crash between its bytes: records are written in one step, and a torn one needs
  the bytes of the file as state. Loss of the machine, and so of pages not flushed.
- The use of a map that was closed while Iterate had the chunk's mutex released around its
  callback. `CoreLocks` has the locks, not the mapping.
- Writes of one key with equal timestamps at different replicas: `Replication` gives every write
  its own time. `PMap` has them on one server.
- A connection replaced while it is in use (the close callback of `virtualserver.go:36` frees
  whatever connection is there), several connections of one server, and the wrap of the 32-bit
  request identifier.
- The number of chunks of each server, from which the rebalancer draws its decisions: a free
  choice in `Rebalance`. How evenly load is spread is a matter of probabilities.
- Layouts of messages beyond their sizes, the TCP accept loop, the command line, progress output
  and test clusters, which have no state worth checking.
- `hashing.go`: a constant function of the key.

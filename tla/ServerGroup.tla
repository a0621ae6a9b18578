-------------------------------- MODULE ServerGroup --------------------------------
(***************************************************************************)
(* dist/servergroup: what a node (a server or a client) believes of the    *)
(* cluster.  Two tables are kept and must agree: each server's list of     *)
(* held chunks, as its last heartbeat gave it, and each chunk's list of    *)
(* holders.  Every method runs under the group's mutex and is one step.    *)
(*                                                                         *)
(* Abstractions: a server is its address; a list of AmAliveChunk, that has *)
(* each chunk once (PresentChunksList walks the array of chunks), is a     *)
(* partial function from chunks to checksums.  Connections are left out.   *)
(***************************************************************************)
EXTENDS Integers, Sequences, FiniteSets

CONSTANTS
    Servers,    \* addresses
    Chunks, Sums

VARIABLES
    servers,    \* the keys of sg.servers
    dead,       \* VirtualServer.dead
    heldChunks, \* VirtualServer.heldChunks; empty for a server not in the group
    holders     \* VirtualChunk.holders

vars == <<servers, dead, heldChunks, holders>>

ChunkLists == UNION {[D -> Sums] : D \in SUBSET Chunks}
NoChunks == [c \in {} |-> CHOOSE x \in Sums : TRUE]

hasHolder(c, s) == \E i \in DOMAIN holders[c] : holders[c][i] = s
NumHolders(c) == Len(holders[c])

(* VirtualServer.getChunk(cid).Checksum: the pointer is nil outside the domain. *)
getChunk(s, c) == heldChunks[s][c]

IsSynched(c) ==
    NumHolders(c) >= 2 =>
        \A i \in 2 .. NumHolders(c) : getChunk(holders[c][i], c) = getChunk(holders[c][1], c)

removeHolderLeavingGap(hs, s) ==
    [j \in DOMAIN hs |-> IF hs[j] = s THEN "nil" ELSE hs[j]]

removeHolderLast(hs, s) ==
    IF \E j \in DOMAIN hs : hs[j] = s THEN [j \in 1 .. Len(hs) - 1 |-> hs[j]] ELSE hs

removeHolderTruncated(hs, s) ==
    LET i == CHOOSE j \in DOMAIN hs : hs[j] = s
    IN  IF \E j \in DOMAIN hs : hs[j] = s THEN [j \in 1 .. i - 1 |-> hs[j]] ELSE hs

(* The place of s is taken by the last holder. *)
removeHolder(hs, s) ==
    LET i == CHOOSE j \in DOMAIN hs : hs[j] = s
    IN  IF \E j \in DOMAIN hs : hs[j] = s
        THEN [j \in 1 .. Len(hs) - 1 |-> IF j = i THEN hs[Len(hs)] ELSE hs[j]]
        ELSE hs

(* Every chunk in C forgets holder s. *)
Forget(C, s) == [c \in Chunks |-> IF c \in C THEN removeHolder(holders[c], s) ELSE holders[c]]
------------------------------------------------------------------------------------
(* A group as CreateServerGroup or UnmarhalServerGroup make it: addresses and no chunks. *)
Init ==
    /\ servers \in SUBSET Servers
    /\ dead = [s \in Servers |-> FALSE]
    /\ heldChunks = [s \in Servers |-> NoChunks]
    /\ holders = [c \in Chunks |-> << >>]

AddServerToGroup(s) ==
    /\ s \notin servers
    /\ servers' = servers \cup {s}
    /\ dead' = [dead EXCEPT ![s] = FALSE]
    /\ heldChunks' = [heldChunks EXCEPT ![s] = NoChunks]
    /\ UNCHANGED holders

SetServerChunksForgetful(s, cids) ==
    /\ s \in servers
    /\ dead' = [dead EXCEPT ![s] = FALSE]
    /\ holders' = [c \in Chunks |->
          IF c \in DOMAIN heldChunks[s] \ DOMAIN cids THEN removeHolder(holders[c], s)
          ELSE IF c \in DOMAIN cids THEN Append(holders[c], s)
          ELSE holders[c]]
    /\ heldChunks' = [heldChunks EXCEPT ![s] = cids]
    /\ UNCHANGED servers

SetServerChunksMerged(s, cids) ==
    /\ s \in servers
    /\ dead' = [dead EXCEPT ![s] = FALSE]
    /\ holders' = [c \in Chunks |->
          IF c \in DOMAIN cids /\ ~hasHolder(c, s) THEN Append(holders[c], s) ELSE holders[c]]
    /\ heldChunks' = [heldChunks EXCEPT ![s] =
          [c \in DOMAIN @ \cup DOMAIN cids |-> IF c \in DOMAIN cids THEN cids[c] ELSE @[c]]]
    /\ UNCHANGED servers

SetServerChunksUnrevived(s, cids) ==
    /\ s \in servers
    /\ holders' = [c \in Chunks |->
          IF c \in DOMAIN heldChunks[s] \ DOMAIN cids THEN removeHolder(holders[c], s)
          ELSE IF c \in DOMAIN cids /\ ~hasHolder(c, s) THEN Append(holders[c], s)
          ELSE holders[c]]
    /\ heldChunks' = [heldChunks EXCEPT ![s] = cids]
    /\ UNCHANGED <<servers, dead>>

(* A heartbeat of s, or the local server's own list after it released a chunk. *)
SetServerChunks(s, cids) ==
    /\ s \in servers
    /\ dead' = [dead EXCEPT ![s] = FALSE]
    /\ holders' = [c \in Chunks |->
          IF c \in DOMAIN heldChunks[s] \ DOMAIN cids THEN removeHolder(holders[c], s)
          ELSE IF c \in DOMAIN cids /\ ~hasHolder(c, s) THEN Append(holders[c], s)
          ELSE holders[c]]
    /\ heldChunks' = [heldChunks EXCEPT ![s] = cids]
    /\ UNCHANGED servers

ServerAlive(s) ==
    /\ s \in servers
    /\ dead' = [dead EXCEPT ![s] = FALSE]
    /\ UNCHANGED <<servers, heldChunks, holders>>

RemoveServer(s) ==
    /\ s \in servers
    /\ servers' = servers \ {s}
    /\ holders' = Forget(DOMAIN heldChunks[s], s)
    /\ dead' = [dead EXCEPT ![s] = FALSE]
    /\ heldChunks' = [heldChunks EXCEPT ![s] = NoChunks]

DeadServerKeepingHeld(s) ==
    /\ s \in servers
    /\ dead' = [dead EXCEPT ![s] = TRUE]
    /\ holders' = Forget(DOMAIN heldChunks[s], s)
    /\ UNCHANGED <<servers, heldChunks>>

(* The heartbeats of s timed out. *)
DeadServer(s) ==
    /\ s \in servers
    /\ dead' = [dead EXCEPT ![s] = TRUE]
    /\ holders' = Forget(DOMAIN heldChunks[s], s)
    /\ heldChunks' = [heldChunks EXCEPT ![s] = NoChunks]
    /\ UNCHANGED servers

Next ==
    \E s \in Servers :
        \/ AddServerToGroup(s) \/ ServerAlive(s) \/ RemoveServer(s) \/ DeadServer(s)
        \/ \E cids \in ChunkLists : SetServerChunks(s, cids)

Spec == Init /\ [][Next]_vars
------------------------------------------------------------------------------------
(* Properties *)

(* Types; a list of holders names servers. *)
TypeOK ==
    /\ servers \in SUBSET Servers
    /\ dead \in [Servers -> BOOLEAN]
    /\ heldChunks \in [Servers -> ChunkLists]
    /\ holders \in [Chunks -> Seq(Servers)]

(* The two tables agree: s is a holder of c exactly when s reported c. IsSynched follows
   nil when a holder has no record of the chunk, and requests go to holders only. *)
TablesAgree ==
    \A c \in Chunks : \A s \in Servers : hasHolder(c, s) <=> c \in DOMAIN heldChunks[s]

(* No server counts twice: NumHolders, that rebalancing compares with the redundancy, is
   the number of servers. *)
NoDuplicateHolder ==
    \A c \in Chunks : \A i, j \in DOMAIN holders[c] : holders[c][i] = holders[c][j] => i = j

(* A server believed dead, or removed, is nobody's holder. *)
DeadHoldsNothing ==
    \A s \in Servers : dead[s] \/ s \notin servers => \A c \in Chunks : ~hasHolder(c, s)

Inv == TypeOK /\ TablesAgree /\ NoDuplicateHolder /\ DeadHoldsNothing

(* News of one server never adds, drops or renames another one in a list of holders,
   wherever the swap with the last one puts it. *)
OthersKeepTheirPlace ==
    [][\E s \in Servers : \A o \in Servers \ {s}, c \in Chunks : hasHolder(c, o)' = hasHolder(c, o)]_vars
====================================================================================

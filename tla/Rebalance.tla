---------------------------------- MODULE Rebalance ----------------------------------
(***************************************************************************)
(* dist/rebalance/rebalance.go on several servers: who has a chunk, who is *)
(* believed to have it, and who has its pairs.  With the handlers of       *)
(* server/server.go it calls, the answers virtualserver.go makes up, and   *)
(* the loop of dist/repair/repair.go.                                      *)
(*                                                                         *)
(* Abstractions: one chunk, written before and no longer; chunks meet only *)
(* in the number of local chunks, so more or less work than the average is *)
(* a choice here.  Every server knows every other one, a heartbeat is one  *)
(* step (see Heartbeat).  Repair sends whenever it likes, not only out of  *)
(* sync (see Replication): it can only bring pairs back.  A server copies, *)
(* and releases, one time after the other.                                 *)
(***************************************************************************)
EXTENDS Naturals, FiniteSets

CONSTANTS
    Servers,
    redundancy,
    MaxLosses,      \* bound: calls lost or late, and live servers declared dead
    MaxCrashes,     \* bound: servers that stop for good
    MaxBalances     \* bound: copies and releases for the balance of load

VARIABLES
    up,                 \* the servers that run
    present, protected, \* the chunk in each server's core
    data,               \* the servers that have the pairs
    holders,            \* holders of the chunk in the group of each server
    taken,              \* whether repair's loop has taken a list, and if the chunk was in it
    copying,            \* the duplicator of each server: "no"; "empty" or "full", once GetChunkInfo
                        \* has answered; "wait", until the transfer is requested
    releasing, todo,    \* the releaser of each server, and the holders it has to ask
    transfers,          \* OpTransfer goroutines: from, to
    sets,               \* servers that the pairs are on the way to
    losses, balances    \* bounded counters

chunk == <<present, protected, data>>
tables == <<holders, taken>>
releaser == <<releasing, todo>>
net == <<transfers, sets>>
count == <<losses, balances>>
vars == <<up, chunk, tables, copying, releaser, net, count>>

NumHolders(s) == Cardinality(holders[s])
Lose == losses < MaxLosses /\ losses' = losses + 1
Balance == balances < MaxBalances /\ balances' = balances + 1

Believe(n, s, held) ==
    holders' = [holders EXCEPT ![n] = IF held THEN @ \cup {s} ELSE @ \ {s}]
--------------------------------------------------------------------------------------
(* Heartbeats, DeadServer, StartRepairSystem *)

Heartbeat(n, s) ==
    /\ n # s /\ {n, s} \subseteq up
    /\ Believe(n, s, s \in present)
    /\ UNCHANGED <<up, chunk, taken, copying, releaser, net, count>>

DeadServer(n, s) ==
    /\ n # s /\ n \in up /\ s \in holders[n]
    /\ IF s \in up THEN Lose ELSE UNCHANGED losses
    /\ Believe(n, s, FALSE)
    /\ UNCHANGED <<up, chunk, taken, copying, releaser, net, balances>>

TakeList(s) ==
    /\ s \in up /\ taken[s] = "no"
    /\ taken' = [taken EXCEPT ![s] = IF s \in present THEN "with" ELSE "without"]
    /\ UNCHANGED <<up, chunk, holders, copying, releaser, net, count>>

SetList(s) ==
    /\ s \in up /\ taken[s] # "no"
    /\ Believe(s, s, taken[s] = "with")
    /\ taken' = [taken EXCEPT ![s] = "no"]
    /\ UNCHANGED <<up, chunk, copying, releaser, net, count>>

repair(s) ==
    /\ s \in up \cap present \cap data
    /\ sets' = sets \cup holders[s]
    /\ UNCHANGED <<up, chunk, tables, copying, releaser, transfers, count>>
--------------------------------------------------------------------------------------
(* The duplicator *)

(* MaxUint64 ends the copy, and no answer counts as 0. *)
GetChunkInfo(h) == CASE h \notin up -> "empty"
                     [] h \in up /\ h \notin present -> "no"
                     [] h \in up /\ h \in present -> IF h \in data THEN "full" ELSE "empty"

duplicate(s) ==
    \/ holders[s] = {} /\ copying' = [copying EXCEPT ![s] = "no"]
    \/ \E h \in holders[s] : copying' = [copying EXCEPT ![s] = GetChunkInfo(h)]

DuplicateForRedundancy(s) ==
    /\ s \in up \ present /\ copying[s] = "no"
    /\ NumHolders(s) < redundancy
    /\ duplicate(s)
    /\ UNCHANGED <<up, chunk, tables, releaser, net, count>>

DuplicateForBalance(s) ==
    /\ s \in up \ present /\ copying[s] = "no"
    /\ NumHolders(s) <= redundancy
    /\ duplicate(s) /\ Balance
    /\ UNCHANGED <<up, chunk, tables, releaser, net, losses>>

ChunkSetPresent(s) ==
    /\ s \in up /\ copying[s] \in {"empty", "full"}
    /\ present' = present \cup {s}
    /\ copying' = [copying EXCEPT ![s] = IF @ = "full" THEN "wait" ELSE "no"]
    /\ UNCHANGED <<up, protected, data, tables, releaser, net, count>>

(* The first holder that does not return an error, as one that cannot be connected. *)
Transfer(s, h) ==
    /\ s \in up /\ copying[s] = "wait" /\ h \in holders[s] \ {s}
    /\ copying' = [copying EXCEPT ![s] = "no"]
    /\ transfers' = IF h \in up THEN transfers \cup {<<h, s>>} ELSE transfers
    /\ UNCHANGED <<up, chunk, tables, releaser, sets, count>>

NoTransfer(s) ==
    /\ s \in up /\ copying[s] = "wait"
    /\ IF holders[s] \subseteq {s} THEN UNCHANGED losses ELSE Lose
    /\ duplicate(s)
    /\ UNCHANGED <<up, chunk, tables, releaser, net, balances>>

(* The goroutine of OpTransfer *)
Iterate(h, s) ==
    /\ <<h, s>> \in transfers
    /\ transfers' = transfers \ {<<h, s>>}
    /\ sets' = IF h \in up \cap present \cap data THEN sets \cup {s} ELSE sets
    /\ UNCHANGED <<up, chunk, tables, copying, releaser, count>>

(* OpSet, OpAsyncSet *)
Set(s) ==
    /\ s \in sets
    /\ sets' = sets \ {s}
    /\ data' = IF s \in up \cap present THEN data \cup {s} ELSE data
    /\ UNCHANGED <<up, present, protected, tables, copying, releaser, transfers, count>>
--------------------------------------------------------------------------------------
(* The releaser *)

release(s) ==
    /\ s \in up \cap present /\ releasing[s] = "no"
    /\ NumHolders(s) > redundancy /\ Balance
    /\ releasing' = [releasing EXCEPT ![s] = "queued"]
    /\ UNCHANGED <<up, chunk, tables, copying, todo, net, losses>>

BeginRelease(s) ==
    /\ s \in up /\ releasing[s] = "queued"
    /\ IF s \in protected
       THEN releasing' = [releasing EXCEPT ![s] = "no"] /\ UNCHANGED todo
       ELSE /\ releasing' = [releasing EXCEPT ![s] = "asking"]
            /\ todo' = [todo EXCEPT ![s] = holders[s] \ {s}]
    /\ UNCHANGED <<up, chunk, tables, copying, net, count>>

(* OpProtect *)
ChunkSetProtected(h) == h \in up /\ NumHolders(h) > redundancy /\ h \in present

Protect(s, h) ==
    /\ s \in up /\ releasing[s] = "asking" /\ h \in todo[s]
    /\ ChunkSetProtected(h)
    /\ protected' = protected \cup {h}
    /\ todo' = [todo EXCEPT ![s] = @ \ {h}]
    /\ UNCHANGED <<up, present, data, tables, copying, releasing, net, count>>

(* h refuses, or protects the chunk and its answer is late. *)
NoProtection(s, h) ==
    /\ s \in up /\ releasing[s] = "asking" /\ h \in todo[s]
    /\ IF ChunkSetProtected(h) THEN Lose /\ protected' = protected \cup {h}
                               ELSE UNCHANGED <<losses, protected>>
    /\ releasing' = [releasing EXCEPT ![s] = "no"]
    /\ todo' = [todo EXCEPT ![s] = {}]
    /\ UNCHANGED <<up, present, data, tables, copying, net, balances>>

ChunkSetNoPresent(s) ==
    /\ s \in up /\ releasing[s] = "asking" /\ todo[s] = {}
    /\ present' = present \ {s} /\ protected' = protected \ {s} /\ data' = data \ {s}
    /\ Believe(s, s, FALSE)
    /\ releasing' = [releasing EXCEPT ![s] = "no"]
    /\ UNCHANGED <<up, taken, copying, todo, net, count>>

(* protectionTime, ten seconds, is longer than any release takes. *)
EndProtection(s) ==
    /\ s \in protected /\ \A t \in Servers : releasing[t] # "asking"
    /\ protected' = protected \ {s}
    /\ UNCHANGED <<up, present, data, tables, copying, releaser, net, count>>

(* The files stay, nothing of the process does. *)
Crash(s) ==
    /\ s \in up /\ Cardinality(Servers \ up) < MaxCrashes
    /\ up' = up \ {s} /\ protected' = protected \ {s}
    /\ taken' = [taken EXCEPT ![s] = "no"]
    /\ copying' = [copying EXCEPT ![s] = "no"]
    /\ releasing' = [releasing EXCEPT ![s] = "no"] /\ todo' = [todo EXCEPT ![s] = {}]
    /\ UNCHANGED <<present, data, holders, net, count>>
--------------------------------------------------------------------------------------
(* One server has the chunk; the others have joined and heard of it. *)
Init == \E first \in Servers :
    /\ up = Servers
    /\ present = {first} /\ protected = {} /\ data = {first}
    /\ holders = [s \in Servers |-> {first}]
    /\ taken = [s \in Servers |-> "no"]
    /\ copying = [s \in Servers |-> "no"]
    /\ releasing = [s \in Servers |-> "no"] /\ todo = [s \in Servers |-> {}]
    /\ transfers = {} /\ sets = {}
    /\ losses = 0 /\ balances = 0

Next == \E s \in Servers :
    \/ TakeList(s) \/ SetList(s) \/ repair(s) \/ Set(s) \/ Crash(s)
    \/ DuplicateForRedundancy(s) \/ DuplicateForBalance(s) \/ ChunkSetPresent(s) \/ NoTransfer(s)
    \/ release(s) \/ BeginRelease(s) \/ ChunkSetNoPresent(s) \/ EndProtection(s)
    \/ \E h \in Servers : \/ Heartbeat(s, h) \/ DeadServer(s, h) \/ Iterate(s, h)
                          \/ Transfer(s, h) \/ Protect(s, h) \/ NoProtection(s, h)

Spec == Init /\ [][Next]_vars
--------------------------------------------------------------------------------------
(* The pairs of a chunk are in a server, or on the way to one, whatever is copied and released:
   "It request a chunk "protection" from the other servers to prevent data-loss (avoiding
   multiple deletions simultaneously on the same chunk)" (rebalance.go:179-180). *)
DataKept == data # {} \/ sets # {}
======================================================================================

--------------------------------- MODULE Replication ---------------------------------
(***************************************************************************)
(* One key of a chunk that a fixed set of servers holds: the operations of *)
(* client/client.go, the handlers of server/server.go that serve them, and *)
(* the loop of dist/repair/repair.go.                                      *)
(*                                                                         *)
(* Abstractions: a write is its timestamp, and so is the checksum reported *)
(* for a chunk with one pair (ChecksumWindows has its delay).  A heartbeat *)
(* is one step (see Heartbeat), and so are the three without an answer     *)
(* that make a server dead for a node, whether it has stopped or not.      *)
(* Copies and releases are in Rebalance.                                   *)
(* Calls arrive in any order: a broken connection is replaced by a new one *)
(* while its last calls are handled.  Clocks agree, no two writes have the *)
(* same time.                                                              *)
(***************************************************************************)
EXTENDS Naturals

CONSTANTS
    Servers, Clients,
    EmptyWrites,    \* the times of the writes whose value is empty
    Rank,           \* hash of the key and a server's address, as CAS computes it
    Before,         \* the time of the pair that the servers may have to begin with
    MaxTime,        \* bound: the time of the last call of a client
    Expected,       \* bound: the timestamps that CAS calls expect
    MaxFaults       \* bound: calls or answers lost or late, running servers taken for dead,
                    \* servers that stop for good

ASSUME ReplicationAssumption ==
    /\ \A S \in SUBSET Servers : S # {} => \E s \in S : \A t \in S : Rank[t] <= Rank[s]
    /\ {Before, MaxTime, MaxFaults} \subseteq Nat /\ Before <= MaxTime
    /\ Servers \cap Clients = {}

VARIABLES
    up,         \* the servers that run
    pair,       \* timestamp of the pair in each core, 0 if there is none
    sums,       \* sums[n][s]: the checksum that the group of server n has for s
    holders,    \* the servers that the group of each node takes for holders
    calls,      \* calls in flight
    op,         \* the call of each client
    won,        \* history: the CAS calls that succeeded: server, expected and new timestamp
    doubted,    \* history: some node has taken a server for dead
    deleted,    \* history: some client has deleted the key
    now, faults \* bounded counters

servers == <<up, pair, sums>>
count == <<deleted, faults>>
vars == <<servers, holders, calls, op, won, doubted, now, count>>

Nodes == Servers \cup Clients
Idle == [kind |-> "none", ts |-> 0, asked |-> {}, wait |-> {}, times |-> [s \in Servers |-> 0]]
Call(kind, s, t, e) == [kind |-> kind, to |-> s, ts |-> t, expected |-> e]
SetCall(s, t) == Call("Set", s, t, 0)

Fault == faults < MaxFaults /\ faults' = faults + 1
(* A server that is down loses calls without end. *)
LoseAt(s) == IF s \in up THEN Fault ELSE UNCHANGED faults

Agree(S, sum) == \A s, t \in S : sum[s] = sum[t]
IsSynched(n) == Agree(holders[n], sums[n])
--------------------------------------------------------------------------------------
(* Clients.  Set, AsyncSet and Del differ for the servers in nothing but the waiting. *)

Send(kind) ==
    /\ now < MaxTime /\ now' = now + 1
    /\ \E c \in Clients :
        /\ op[c] = Idle
        /\ calls' = calls \cup {Call(kind, s, now', 0) : s \in holders[c]}
    /\ UNCHANGED <<servers, holders, op, won, doubted, faults>>

set == Send("Set") /\ UNCHANGED deleted
Del == Send("Del") /\ deleted' = TRUE

Get(c) ==
    /\ op[c] = Idle
    /\ now < MaxTime /\ now' = now + 1
    /\ op' = [op EXCEPT ![c] = [@ EXCEPT !.kind = "Get", !.asked = holders[c], !.wait = holders[c]]]
    /\ UNCHANGED <<servers, holders, calls, won, doubted, count>>

GetAnswer(c, s) ==
    /\ op[c].kind = "Get" /\ s \in op[c].wait /\ s \in up
    /\ op' = [op EXCEPT ![c].wait = @ \ {s}, ![c].times[s] = pair[s]]
    /\ UNCHANGED <<servers, holders, calls, won, doubted, now, count>>

GetTimeout(c, s) ==
    /\ op[c].kind = "Get" /\ s \in op[c].wait /\ LoseAt(s)
    /\ op' = [op EXCEPT ![c].wait = @ \ {s}]
    /\ UNCHANGED <<servers, holders, calls, won, doubted, now, deleted>>

EndGetToAll(c) ==
    LET asked == op[c].asked
        times == op[c].times
        latest == {s \in asked : \A t \in asked : times[t] <= times[s]}
    IN  /\ op[c].kind = "Get" /\ op[c].wait = {}
        /\ calls' = calls \cup {SetCall(s, times[t]) : s \in asked, t \in latest}
        /\ op' = [op EXCEPT ![c] = Idle]
        /\ UNCHANGED <<servers, holders, won, doubted, now, count>>

(* Read-repair, also of servers that did not answer. *)
EndGet(c) ==
    LET asked == op[c].asked
        times == op[c].times
        latest == {s \in asked : \A t \in asked : times[t] <= times[s]}
    IN  /\ op[c].kind = "Get" /\ op[c].wait = {}
        /\ calls' = calls \cup {SetCall(s, times[t]) : s \in asked \ latest, t \in latest}
        /\ op' = [op EXCEPT ![c] = Idle]
        /\ UNCHANGED <<servers, holders, won, doubted, now, count>>

Master(c) == CHOOSE s \in holders[c] : \A t \in holders[c] : Rank[t] <= Rank[s]

CAS(c, expected) ==
    /\ op[c] = Idle /\ holders[c] # {}
    /\ now < MaxTime /\ now' = now + 1
    /\ op' = [op EXCEPT ![c] = [@ EXCEPT !.kind = "CAS", !.ts = now', !.asked = holders[c],
                                          !.wait = {Master(c)}]]
    /\ calls' = calls \cup {Call("CAS", Master(c), now', expected)}
    /\ UNCHANGED <<servers, holders, won, doubted, count>>

(* Timeout: the master may have done it, or may do it later. *)
CASTimeout(c) ==
    /\ op[c].kind = "CAS"
    /\ op' = [op EXCEPT ![c] = Idle]
    /\ \E s \in op[c].wait : LoseAt(s)
    /\ UNCHANGED <<servers, holders, calls, won, doubted, now, deleted>>

(* Slave SETs *)
EndCAS(c) ==
    /\ op[c].kind = "won"
    /\ calls' = calls \cup {SetCall(s, op[c].ts) : s \in op[c].asked \ op[c].wait}
    /\ op' = [op EXCEPT ![c] = Idle]
    /\ UNCHANGED <<servers, holders, won, doubted, now, count>>
--------------------------------------------------------------------------------------
HandleWriteAnyTime(m) ==
    /\ m \in calls /\ m.to \in up /\ m.kind \in {"Set", "Del"}
    /\ calls' = calls \ {m}
    /\ pair' = [pair EXCEPT ![m.to] = IF m.kind = "Set" THEN m.ts ELSE 0]
    /\ UNCHANGED <<up, sums, holders, op, won, doubted, now, count>>

(* processMessage: OpSet, OpAsyncSet, OpDel.  The later timestamp wins, and a deleted pair
   has none. *)
HandleWrite(m) ==
    /\ m \in calls /\ m.to \in up /\ m.kind \in {"Set", "Del"}
    /\ calls' = calls \ {m}
    /\ pair' = CASE m.kind = "Set" /\ pair[m.to] < m.ts -> [pair EXCEPT ![m.to] = m.ts]
                 [] m.kind = "Del" /\ pair[m.to] <= m.ts -> [pair EXCEPT ![m.to] = 0]
                 [] OTHER -> pair
    /\ UNCHANGED <<up, sums, holders, op, won, doubted, now, count>>

HandleCASUncompared(m) ==
    LET ok == IsSynched(m.to)
        result(o) == IF o.kind # "CAS" \/ o.ts # m.ts THEN o
                     ELSE IF ok THEN [o EXCEPT !.kind = "won"] ELSE Idle
    IN  /\ m \in calls /\ m.to \in up /\ m.kind = "CAS"
        /\ calls' = calls \ {m}
        /\ pair' = IF ok THEN [pair EXCEPT ![m.to] = m.ts] ELSE pair
        /\ won' = IF ok THEN won \cup {<<m.to, m.expected, m.ts>>} ELSE won
        /\ op' = [c \in Clients |-> result(op[c])]
        /\ UNCHANGED <<up, sums, holders, doubted, now, count>>

(* PMap's CAS: a key without pair passes for one with an empty value too. *)
Matches(p, expected) == p = expected \/ (p = 0 /\ expected \in EmptyWrites)

(* OpCAS; its client may have given up. *)
HandleCAS(m) ==
    LET ok == IsSynched(m.to) /\ Matches(pair[m.to], m.expected)
        result(o) == IF o.kind # "CAS" \/ o.ts # m.ts THEN o
                     ELSE IF ok THEN [o EXCEPT !.kind = "won"] ELSE Idle
    IN  /\ m \in calls /\ m.to \in up /\ m.kind = "CAS"
        /\ calls' = calls \ {m}
        /\ pair' = IF ok THEN [pair EXCEPT ![m.to] = m.ts] ELSE pair
        /\ won' = IF ok THEN won \cup {<<m.to, m.expected, m.ts>>} ELSE won
        /\ op' = [c \in Clients |-> result(op[c])]
        /\ UNCHANGED <<up, sums, holders, doubted, now, count>>

LoseCall(m) ==
    /\ m \in calls /\ LoseAt(m.to)
    /\ calls' = calls \ {m}
    /\ UNCHANGED <<servers, holders, op, won, doubted, now, deleted>>
--------------------------------------------------------------------------------------
(* Heartbeats, SetServerChunks of the own list, DeadServer *)

(* An answer to the heartbeat of a server or a client: SetServerChunks makes s a holder
   again, and a server reads its checksum from it. *)
Heartbeat(n, s) ==
    /\ n # s /\ n \in up \cup Clients /\ s \in up
    /\ sums' = IF n \in Servers THEN [sums EXCEPT ![n][s] = pair[s]] ELSE sums
    /\ holders' = [holders EXCEPT ![n] = @ \cup {s}]
    /\ UNCHANGED <<up, pair, calls, op, won, doubted, now, count>>

(* Three heartbeats without an answer: s has stopped, or its answers were lost. *)
DeadServer(n, s) ==
    /\ n # s /\ n \in up \cup Clients /\ s \in holders[n] /\ LoseAt(s)
    /\ holders' = [holders EXCEPT ![n] = @ \ {s}]
    /\ sums' = IF n \in Servers THEN [sums EXCEPT ![n][s] = 0] ELSE sums
    /\ doubted' = TRUE
    /\ UNCHANGED <<up, pair, calls, op, won, now, deleted>>

(* A round of StartRepairSystem: the own list goes to the group.  A chunk that was out of
   sync in enough rounds is repaired (BackwardsIterate). *)
Round(s) ==
    /\ s \in up
    /\ sums' = [sums EXCEPT ![s][s] = pair[s]]
    /\ UNCHANGED <<up, pair, holders, calls, op, won, doubted, now, count>>

repair(s) ==
    /\ s \in up /\ pair[s] # 0
    /\ sums' = [sums EXCEPT ![s][s] = pair[s]]
    /\ ~Agree(holders[s], sums'[s])
    /\ calls' = calls \cup {SetCall(h, pair[s]) : h \in holders[s]}
    /\ UNCHANGED <<up, pair, holders, op, won, doubted, now, count>>

(* Connections to it break, nobody will see its pair again. *)
Crash(s) ==
    /\ s \in up /\ Fault
    /\ up' = up \ {s}
    /\ pair' = [pair EXCEPT ![s] = 0]
    /\ sums' = [sums EXCEPT ![s] = [t \in Servers |-> 0]]
    /\ holders' = [holders EXCEPT ![s] = {}]
    /\ calls' = {m \in calls : m.to # s}
    /\ UNCHANGED <<op, won, doubted, now, deleted>>
--------------------------------------------------------------------------------------
(* The key is in no server, or in all of them since Before. *)
Init ==
    /\ up = Servers
    /\ \E t \in {0, Before} : /\ pair = [s \in Servers |-> t]
                              /\ sums = [n \in Servers |-> [s \in Servers |-> t]]
    /\ holders = [n \in Nodes |-> Servers]
    /\ calls = {} /\ op = [c \in Clients |-> Idle] /\ won = {}
    /\ doubted = FALSE /\ deleted = FALSE /\ now = Before /\ faults = 0

Handle(m) == HandleWrite(m) \/ HandleCAS(m)

Next ==
    \/ set \/ Del
    \/ \E c \in Clients :
          \/ Get(c) \/ EndGet(c) \/ CASTimeout(c) \/ EndCAS(c)
          \/ \E t \in Expected \cap 0 .. now : CAS(c, t)
          \/ \E s \in Servers : GetAnswer(c, s) \/ GetTimeout(c, s)
    \/ \E m \in calls : HandleWrite(m) \/ HandleCAS(m) \/ LoseCall(m)
    \/ \E s \in Servers :
          \/ Round(s) \/ repair(s) \/ Crash(s)
          \/ \E n \in Nodes : Heartbeat(n, s) \/ DeadServer(n, s)

Spec == Init /\ [][Next]_vars

(* Heartbeats between servers and repair go on, and so do connections: of the calls that wait
   at a server the youngest is handled in the end.  No client has to do anything. *)
Fairness ==
    \A s \in Servers :
        /\ WF_vars(repair(s))
        /\ \A n \in Servers \ {s} : WF_vars(Heartbeat(n, s))
        /\ WF_vars(\E m \in calls : /\ m.to = s /\ \A k \in calls : k.to = s => k.ts <= m.ts
                                    /\ Handle(m))
FairSpec == Spec /\ Fairness
--------------------------------------------------------------------------------------
Ops == [kind : {"none", "Get", "CAS", "won"}, ts : 0 .. now, asked : SUBSET Servers,
        wait : SUBSET Servers, times : [Servers -> 0 .. now]]

Calls(t) == [kind : {"Set", "Del", "CAS"}, to : Servers, ts : 1 .. t, expected : 0 .. t]

ServerTypes ==
    /\ up \subseteq Servers /\ pair \in [Servers -> 0 .. now]
    /\ sums \in [Servers -> [Servers -> 0 .. now]]
    /\ holders \in [Nodes -> SUBSET Servers]

ClientTypes ==
    /\ calls \subseteq Calls(now)
    /\ op \in [Clients -> Ops]
    /\ \A c \in Clients : op[c].kind \in {"CAS", "won"} => op[c].ts # 0
    /\ won \subseteq Servers \X (0 .. now) \X (1 .. now)

Counters == now \in 0 .. MaxTime /\ faults \in 0 .. MaxFaults

Histories == doubted \in BOOLEAN /\ deleted \in BOOLEAN

(* Types; no write is younger than the clock or has the time of an absent pair. *)
TypeOK == ServerTypes /\ ClientTypes /\ Counters /\ Histories

(* Of all CAS calls that expect the same pair a server accepts one at most, also when a call
   was given up and is handled later, Sets and repairs come between them, the tables of the
   servers are out of date or servers stop; and one succeeds at most in the whole system as long
   as no node has taken a server for dead, for then everybody asks the same master.  (The pairs
   are never deleted: a deleted pair has no timestamp to compare.) *)
CASAtomic ==
    ~deleted => \A x, y \in won : x[2] = y[2] /\ (x[1] = y[1] \/ ~doubted) => x = y

(* When clients stop, the servers that run come to have the same pair and keep it, though
   calls were lost or came in another order at each server, a client gave up between the master
   and its slaves, and a server stopped: by repair, that goes on until checksums agree. *)
Converges == <>[](\A s, t \in up : pair[s] = pair[t])
======================================================================================

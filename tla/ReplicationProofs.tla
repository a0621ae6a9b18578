------------------------------ MODULE ReplicationProofs ------------------------------
(***************************************************************************)
(* What a CAS guarantees, for any number of servers, clients and calls,    *)
(* any loss, delay and order of calls, and servers taken for dead or not.  *)
(* The argument: a pair of a running server is only ever replaced by a     *)
(* younger one, hence the pair that a successful CAS expected is gone from *)
(* that server for good.  And while nobody takes a server for dead,        *)
(* everybody knows all holders and asks the same master.                   *)
(***************************************************************************)
EXTENDS Replication, TLAPS

(* Types but those of the history. *)
Types == ServerTypes /\ ClientTypes /\ Counters

(* A call of a known kind to a server, with times that have been. *)
LEMMA CallType ==
    ASSUME NEW n \in Nat, NEW k \in {"Set", "Del", "CAS"}, NEW s \in Servers, NEW t \in 1 .. n,
           NEW e \in 0 .. n
    PROVE  Call(k, s, t, e) \in Calls(n)
BY DEF Call, Calls

(* What was of its type is so at the next tick. *)
LEMMA Tick ==
    ASSUME Types, now' = now + 1
    PROVE  /\ Calls(now) \subseteq Calls(now') /\ Ops \subseteq Ops'
           /\ Servers \X (0 .. now) \X (1 .. now) \subseteq Servers \X (0 .. now') \X (1 .. now')
           /\ [Servers -> 0 .. now] \subseteq [Servers -> 0 .. now']
<1>1. now \in Nat
  BY ReplicationAssumption DEF Types, Counters
<1>2. [Servers -> 0 .. now] \subseteq [Servers -> 0 .. now']
  BY <1>1
<1>3. 0 .. now \subseteq 0 .. now' /\ 1 .. now \subseteq 1 .. now'
  BY <1>1
<1>4. Ops \subseteq Ops'
  BY <1>2, <1>3 DEF Ops
<1>5. Calls(now) \subseteq Calls(now')
  BY <1>3 DEF Calls
<1> QED
  BY <1>2, <1>3, <1>4, <1>5

(* The idle client. *)
LEMMA IdleType ==
    ASSUME now \in Nat PROVE Idle \in Ops /\ Idle.kind = "none"
BY DEF Idle, Ops

(* The master of a key is a holder. *)
LEMMA MasterIsHolder ==
    ASSUME Types, NEW c \in Clients, holders[c] # {}
    PROVE  Master(c) \in holders[c] /\ Master(c) \in Servers
<1>1. holders[c] \subseteq Servers
  BY DEF Types, ServerTypes, Nodes
<1>2. \E s \in holders[c] : \A t \in holders[c] : Rank[t] <= Rank[s]
  BY <1>1, ReplicationAssumption
<1> QED
  BY <1>1, <1>2, Zenon DEF Master

(* Steps that start a call, at the next tick. *)
LEMMA StartsKeepTypes ==
    ASSUME Types, set \/ Del \/ \E c \in Clients : Get(c) \/ \E e \in 0 .. now : CAS(c, e)
    PROVE  Types'
<1> USE DEF Types
<1>a. now < MaxTime /\ now' = now + 1 /\ UNCHANGED faults
  <2>1. CASE set \/ Del
    BY <2>1 DEF set, Del, Send
  <2>2. CASE \E c \in Clients : \E e \in 0 .. now : CAS(c, e)
    BY <2>2, Zenon DEF CAS, count
  <2>3. CASE \E c \in Clients : Get(c)
    BY <2>3, Zenon DEF Get, count
  <2> QED
    BY <2>1, <2>2, <2>3
<1>0. now \in Nat /\ now' = now + 1 /\ now' \in 0 .. MaxTime
  BY <1>a, ReplicationAssumption DEF Counters
<1>1. ServerTypes'
  <2>1. UNCHANGED <<servers, holders>>
    BY Zenon DEF set, Del, Send, CAS, Get
  <2> QED
    BY <2>1, <1>0, Tick, SMTT(30) DEF ServerTypes, servers
<1>2. Counters'
  BY <1>0, <1>a, SMTT(30) DEF Counters
<1>3. won' \subseteq Servers \X (0 .. now') \X (1 .. now')
  <2>1. won' = won
    BY Zenon DEF set, Del, Send, CAS, Get
  <2> QED
    BY <1>0, <2>1, Tick DEF ClientTypes
<1>4. CASE set \/ Del
  <2>1. PICK k \in {"Set", "Del"}, c \in Clients :
            calls' = calls \cup {Call(k, s, now', 0) : s \in holders[c]} /\ op' = op
    BY <1>4 DEF set, Del, Send
  <2>2. \A s \in holders[c] : Call(k, s, now', 0) \in Calls(now')
    BY <1>0, CallType DEF ServerTypes, Nodes
  <2>3. ClientTypes'
    BY <1>0, <1>3, <2>1, <2>2, Tick DEF ClientTypes
  <2> QED
    BY <1>1, <1>2, <2>3
<1>5. ASSUME NEW c \in Clients, NEW e \in 0 .. now, CAS(c, e)
      PROVE  Types'
  <2>1. Master(c) \in Servers /\ holders[c] \subseteq Servers
    BY <1>5, MasterIsHolder, Zenon DEF CAS, ServerTypes, Nodes
  <2>2. Call("CAS", Master(c), now', e) \in Calls(now')
    BY <1>0, <2>1, CallType
  <2> DEFINE o == [op[c] EXCEPT !.kind = "CAS", !.ts = now', !.asked = holders[c], !.wait = {Master(c)}]
  <2>3. op[c] \in Ops' /\ now' \in 0 .. now'
    BY <1>0, Tick DEF ClientTypes
  <2>4. o \in Ops' /\ o.kind = "CAS" /\ o.ts = now'
    BY <2>1, <2>3, Zenon DEF Ops
  <2>5. op' = [op EXCEPT ![c] = o]
    BY <1>5, Zenon DEF CAS
  <2>6. op' \in [Clients -> Ops'] /\ op'[c] = o /\ \A d \in Clients \ {c} : op'[d] = op[d]
    BY <1>0, <2>4, <2>5, Tick DEF ClientTypes
  <2> HIDE DEF o
  <2>7. \A d \in Clients : op'[d].kind \in {"CAS", "won"} => op'[d].ts # 0
    BY <1>0, <2>4, <2>6 DEF ClientTypes
  <2>8. calls' \subseteq Calls(now')
    BY <1>0, <1>5, <2>2, Tick, Zenon DEF CAS, ClientTypes
  <2> QED
    BY <1>1, <1>2, <1>3, <2>6, <2>7, <2>8 DEF ClientTypes
<1>6. ASSUME NEW c \in Clients, Get(c)
      PROVE  Types'
  <2> DEFINE o == [op[c] EXCEPT !.kind = "Get", !.asked = holders[c], !.wait = holders[c]]
  <2>1. op[c] \in Ops' /\ holders[c] \subseteq Servers
    BY <1>0, Tick DEF ClientTypes, ServerTypes, Nodes
  <2>2. o \in Ops' /\ o.kind = "Get"
    BY <2>1, Zenon DEF Ops
  <2>3. op' = [op EXCEPT ![c] = o] /\ calls' = calls
    BY <1>6, Zenon DEF Get
  <2> HIDE DEF o
  <2>4. op' \in [Clients -> Ops'] /\ op'[c] = o /\ \A d \in Clients \ {c} : op'[d] = op[d]
    BY <1>0, <2>2, <2>3, Tick DEF ClientTypes
  <2>5. \A d \in Clients : op'[d].kind \in {"CAS", "won"} => op'[d].ts # 0
    BY <2>2, <2>4 DEF ClientTypes
  <2>6. calls' \subseteq Calls(now')
    BY <1>0, <2>3, Tick DEF ClientTypes
  <2> QED
    BY <1>1, <1>2, <1>3, <2>4, <2>5, <2>6 DEF ClientTypes
<1> QED
  BY <1>4, <1>5, <1>6

(* Steps of a client that change its call, and may send Sets. *)
LEMMA ClientStepType ==
    ASSUME Types, NEW c \in Clients, NEW o \in Ops, o.kind \in {"CAS", "won"} => o.ts # 0,
           op' = [op EXCEPT ![c] = o],
           calls' \subseteq Calls(now), UNCHANGED <<servers, holders, won, now>>, Counters'
    PROVE  Types'
<1>1. ServerTypes'
  BY DEF Types, ServerTypes, servers
<1>2. Ops' = Ops
  BY DEF Ops
<1>3. op' \in [Clients -> Ops] /\ op'[c] = o /\ \A d \in Clients \ {c} : op'[d] = op[d]
  BY DEF Types, ClientTypes
<1>4. \A d \in Clients : op'[d].kind \in {"CAS", "won"} => op'[d].ts # 0
  BY <1>3 DEF Types, ClientTypes
<1> QED
  BY <1>1, <1>2, <1>3, <1>4 DEF Types, ClientTypes

(* A Get and the end of a CAS keep the types: read-repair sends no empty pair. *)
LEMMA ClientsKeepTypes ==
    ASSUME Types, NEW c \in Clients,
           \/ EndGet(c) \/ CASTimeout(c) \/ EndCAS(c)
           \/ \E s \in Servers : GetAnswer(c, s) \/ GetTimeout(c, s)
    PROVE  Types'
<1> USE DEF Types
<1>0. op[c] \in Ops /\ now \in Nat /\ calls \subseteq Calls(now) /\ holders[c] \subseteq Servers
  BY ReplicationAssumption DEF ClientTypes, Counters, ServerTypes, Nodes
<1>a. /\ op[c].asked \subseteq Servers /\ op[c].times \in [Servers -> 0 .. now]
      /\ op[c].wait \subseteq Servers /\ op[c].ts \in 0 .. now
      /\ op[c].kind \in {"CAS", "won"} => op[c].ts # 0
  BY <1>0 DEF Ops, ClientTypes
<1>2. CASE EndGet(c)
  <2> DEFINE asked == op[c].asked
             times == op[c].times
             latest == {s \in asked : \A t \in asked : times[t] <= times[s]}
  <2>1. ASSUME NEW s \in asked \ latest, NEW t \in latest
        PROVE  SetCall(s, times[t]) \in Calls(now)
    <3>1. PICK q \in asked : ~(times[q] <= times[s])
      OBVIOUS
    <3>2. times[q] <= times[t] /\ {times[q], times[t], times[s]} \subseteq 0 .. now
      BY <1>a
    <3>3. times[t] \in 1 .. now
      BY <1>0, <3>1, <3>2
    <3> QED
      BY <1>0, <1>a, <3>3, CallType DEF SetCall
  <2>2. calls' = calls \cup {SetCall(s, times[t]) : s \in asked \ latest, t \in latest}
    BY <1>2 DEF EndGet
  <2>3. calls' \subseteq Calls(now)
    BY <1>0, <2>1, <2>2
  <2>4. op' = [op EXCEPT ![c] = Idle] /\ Counters'
    BY <1>2 DEF EndGet, Counters, count
  <2> QED
    BY <1>0, <1>2, <2>3, <2>4, IdleType, ClientStepType, Zenon DEF EndGet
<1>3. CASE CASTimeout(c)
  <2>1. op' = [op EXCEPT ![c] = Idle] /\ Counters'
    BY <1>3, ReplicationAssumption DEF CASTimeout, Counters, LoseAt, Fault
  <2> QED
    BY <1>0, <1>3, <2>1, IdleType, ClientStepType, Zenon DEF CASTimeout
<1>4. CASE EndCAS(c)
  <2>1. op[c].ts \in 1 .. now
    BY <1>0, <1>4, <1>a DEF EndCAS
  <2>2. \A s \in op[c].asked \ op[c].wait : SetCall(s, op[c].ts) \in Calls(now)
    <3>1. PICK t : t = op[c].ts
      OBVIOUS
    <3>2. t \in 1 .. now /\ 0 \in 0 .. now /\ \A s \in op[c].asked : s \in Servers
      BY <1>0, <1>a, <2>1, <3>1
    <3> QED
      BY <1>0, <3>1, <3>2, CallType, Zenon DEF SetCall
  <2>3. calls' \subseteq Calls(now)
    BY <1>0, <1>4, <2>2 DEF EndCAS
  <2>4. op' = [op EXCEPT ![c] = Idle] /\ Counters'
    BY <1>4 DEF EndCAS, Counters, count
  <2> QED
    BY <1>0, <1>4, <2>3, <2>4, IdleType, ClientStepType, Zenon DEF EndCAS
<1>5. ASSUME NEW s \in Servers, GetAnswer(c, s)
      PROVE  Types'
  <2> DEFINE o == [op[c] EXCEPT !.wait = @ \ {s}, !.times[s] = pair[s]]
  <2>1. pair[s] \in 0 .. now
    BY DEF ServerTypes
  <2>2. o \in Ops /\ o.kind = "Get"
    BY <1>0, <1>5, <2>1, Zenon DEF Ops, GetAnswer
  <2>3. op' = [op EXCEPT ![c] = o] /\ Counters'
    BY <1>5, Zenon DEF GetAnswer, Counters, count, ClientTypes
  <2> HIDE DEF o
  <2> QED
    BY <1>0, <1>5, <2>2, <2>3, ClientStepType, Zenon DEF GetAnswer
<1>6. ASSUME NEW s \in Servers, GetTimeout(c, s)
      PROVE  Types'
  <2> DEFINE o == [op[c] EXCEPT !.wait = @ \ {s}]
  <2>1. o \in Ops /\ o.kind = "Get"
    BY <1>0, <1>6 DEF Ops, GetTimeout
  <2>2. op' = [op EXCEPT ![c] = o] /\ Counters'
    BY <1>6, ReplicationAssumption DEF GetTimeout, Counters, LoseAt, Fault, ClientTypes
  <2> HIDE DEF o
  <2> QED
    BY <1>0, <1>6, <2>1, <2>2, ClientStepType, Zenon DEF GetTimeout
<1> QED
  BY <1>2, <1>3, <1>4, <1>5, <1>6

(* Steps that leave the clients alone. *)
LEMMA ServerStepType ==
    ASSUME Types, ServerTypes', Counters', calls' \subseteq Calls(now), UNCHANGED <<op, won, now>>
    PROVE  Types'
<1>1. Ops' = Ops
  BY DEF Ops
<1> QED
  BY <1>1 DEF Types, ClientTypes

(* The handlers of calls keep the types. *)
LEMMA HandlersKeepTypes ==
    ASSUME Types, NEW m \in calls, HandleWrite(m) \/ HandleCAS(m) \/ LoseCall(m)
    PROVE  Types'
<1> USE DEF Types
<1>0. /\ m.to \in Servers /\ m.ts \in 1 .. now /\ m.expected \in 0 .. now /\ now \in Nat
      /\ calls \subseteq Calls(now)
  BY ReplicationAssumption DEF ClientTypes, Calls, Counters
<1>1. CASE HandleWrite(m)
  <2>1. pair' \in [Servers -> 0 .. now]
    BY <1>0, <1>1 DEF HandleWrite, ServerTypes
  <2>2. ServerTypes' /\ Counters' /\ calls' \subseteq Calls(now)
    BY <1>0, <1>1, <2>1 DEF HandleWrite, ServerTypes, Counters, count
  <2> QED
    BY <1>1, <2>2, ServerStepType DEF HandleWrite
<1>2. CASE HandleCAS(m)
  <2> DEFINE ok == IsSynched(m.to) /\ Matches(pair[m.to], m.expected)
             result(o) == IF o.kind # "CAS" \/ o.ts # m.ts THEN o
                          ELSE IF ok THEN [o EXCEPT !.kind = "won"] ELSE Idle
  <2>1. /\ pair' = IF ok THEN [pair EXCEPT ![m.to] = m.ts] ELSE pair
        /\ won' = IF ok THEN won \cup {<<m.to, m.expected, m.ts>>} ELSE won
        /\ op' = [c \in Clients |-> result(op[c])]
        /\ calls' = calls \ {m} /\ UNCHANGED <<up, sums, holders, doubted, now, count>>
    BY <1>2, Zenon DEF HandleCAS
  <2>2. ASSUME NEW c \in Clients
        PROVE  result(op[c]) \in Ops /\ (result(op[c]).kind \in {"CAS", "won"} => result(op[c]).ts # 0)
    <3>1. op[c] \in Ops /\ (op[c].kind \in {"CAS", "won"} => op[c].ts # 0)
      BY DEF ClientTypes
    <3>2. CASE op[c].kind # "CAS" \/ op[c].ts # m.ts
      BY <3>1, <3>2
    <3>3. CASE ~(op[c].kind # "CAS" \/ op[c].ts # m.ts) /\ ok
      <4>1. [op[c] EXCEPT !.kind = "won"] \in Ops /\ [op[c] EXCEPT !.kind = "won"].ts = m.ts
        BY <3>1, <3>3 DEF Ops
      <4> QED
        BY <1>0, <3>3, <4>1
    <3>4. CASE ~(op[c].kind # "CAS" \/ op[c].ts # m.ts) /\ ~ok
      BY <1>0, <3>4, IdleType
    <3> QED
      BY <3>2, <3>3, <3>4
  <2>3. won' \subseteq Servers \X (0 .. now) \X (1 .. now)
    BY <1>0, <2>1 DEF ClientTypes
  <2>4. pair' \in [Servers -> 0 .. now]
    BY <1>0, <2>1 DEF ServerTypes
  <2> HIDE DEF ok, result
  <2>5. ServerTypes' /\ Counters'
    BY <2>1, <2>4 DEF ServerTypes, Counters, count
  <2>6. Ops' = Ops
    BY <2>1 DEF Ops
  <2>7. ClientTypes'
    BY <1>0, <2>1, <2>2, <2>3, <2>6 DEF ClientTypes
  <2> QED
    BY <2>5, <2>7
<1>3. CASE LoseCall(m)
  <2>1. ServerTypes' /\ Counters' /\ calls' \subseteq Calls(now)
    BY <1>0, <1>3, ReplicationAssumption DEF LoseCall, LoseAt, Fault, ServerTypes, Counters, servers
  <2> QED
    BY <1>3, <2>1, ServerStepType DEF LoseCall
<1> QED
  BY <1>1, <1>2, <1>3

(* Heartbeats, repair and crashes keep the types. *)
LEMMA ServersKeepTypes ==
    ASSUME Types, NEW s \in Servers,
           \/ Round(s) \/ repair(s) \/ Crash(s)
           \/ \E n \in Nodes : Heartbeat(n, s) \/ DeadServer(n, s)
    PROVE  Types'
<1> USE DEF Types
<1>0. /\ now \in Nat /\ calls \subseteq Calls(now) /\ pair[s] \in 0 .. now
      /\ \A n \in Servers : sums[n] \in [Servers -> 0 .. now]
      /\ sums \in [Servers -> [Servers -> 0 .. now]] /\ holders \in [Nodes -> SUBSET Servers]
  BY ReplicationAssumption DEF ClientTypes, ServerTypes, Counters
<1>1. ASSUME NEW n \in Servers, sums' = [sums EXCEPT ![n][s] = pair[s]]
      PROVE  sums' \in [Servers -> [Servers -> 0 .. now]]
  BY <1>0, <1>1
<1>2. CASE Round(s)
  <2>1. sums' \in [Servers -> [Servers -> 0 .. now]]
    BY <1>1, <1>2, Zenon DEF Round
  <2>2. ServerTypes' /\ Counters' /\ calls' \subseteq Calls(now) /\ UNCHANGED <<op, won, now>>
    BY <1>0, <1>2, <2>1 DEF Round, ServerTypes, Counters, count
  <2> QED
    BY <2>2, ServerStepType
<1>6. ASSUME NEW n \in Nodes, Heartbeat(n, s) PROVE Types'
  <2>1. sums' \in [Servers -> [Servers -> 0 .. now]]
    BY <1>0, <1>1, <1>6 DEF Heartbeat
  <2>2. holders' \in [Nodes -> SUBSET Servers]
    BY <1>0, <1>6, Zenon DEF Heartbeat
  <2>3. ServerTypes' /\ Counters' /\ calls' \subseteq Calls(now) /\ UNCHANGED <<op, won, now>>
    BY <1>0, <1>6, <2>1, <2>2 DEF Heartbeat, ServerTypes, Counters, count
  <2> QED
    BY <2>3, ServerStepType
<1>3. CASE repair(s)
  <2>1. sums' \in [Servers -> [Servers -> 0 .. now]]
    BY <1>1, <1>3, Zenon DEF repair
  <2>2. \A h \in holders[s] : SetCall(h, pair[s]) \in Calls(now)
    <3>1. pair[s] \in 1 .. now /\ holders[s] \subseteq Servers
      BY <1>0, <1>3 DEF repair, Nodes
    <3> QED
      BY <1>0, <3>1, CallType DEF SetCall
  <2>3. ServerTypes' /\ Counters' /\ calls' \subseteq Calls(now)
    BY <1>0, <1>3, <2>1, <2>2 DEF repair, ServerTypes, Counters, count
  <2> QED
    BY <1>3, <2>3, ServerStepType DEF repair
<1>4. CASE Crash(s)
  <2>1. /\ pair' \in [Servers -> 0 .. now] /\ sums' \in [Servers -> [Servers -> 0 .. now]]
        /\ holders' \in [Nodes -> SUBSET Servers]
    <3>1. 0 \in 0 .. now /\ [t \in Servers |-> 0] \in [Servers -> 0 .. now] /\ {} \in SUBSET Servers
      BY <1>0
    <3>2. pair' = [pair EXCEPT ![s] = 0] /\ sums' = [sums EXCEPT ![s] = [t \in Servers |-> 0]]
          /\ holders' = [holders EXCEPT ![s] = {}]
      BY <1>4 DEF Crash
    <3> QED
      BY <1>0, <3>1, <3>2, Zenon DEF ServerTypes
  <2>2. ServerTypes' /\ Counters' /\ calls' \subseteq Calls(now)
    BY <1>0, <1>4, <2>1, ReplicationAssumption DEF Crash, Fault, ServerTypes, Counters
  <2> QED
    BY <1>4, <2>2, ServerStepType DEF Crash
<1>5. ASSUME NEW n \in Nodes, DeadServer(n, s) PROVE Types'
  <2>1. sums' \in [Servers -> [Servers -> 0 .. now]]
    BY <1>0, <1>5 DEF DeadServer
  <2>2. holders' \in [Nodes -> SUBSET Servers]
    BY <1>0, <1>5 DEF DeadServer
  <2>3. Counters'
    BY <1>5, ReplicationAssumption DEF DeadServer, Counters, LoseAt, Fault
  <2>4. ServerTypes' /\ calls' \subseteq Calls(now) /\ UNCHANGED <<op, won, now>>
    BY <1>0, <1>5, <2>1, <2>2 DEF DeadServer, ServerTypes
  <2> QED
    BY <2>3, <2>4, ServerStepType
<1> QED
  BY <1>2, <1>3, <1>4, <1>5, <1>6

(* The state of servers, clients and calls keeps its types. *)
THEOREM ReplicationTypeCorrect == Spec => []TypeOK
<1>1. Init => TypeOK
  <2> SUFFICES ASSUME Init PROVE TypeOK
    OBVIOUS
  <2>0. PICK t \in {0, Before} : /\ pair = [s \in Servers |-> t]
                                /\ sums = [n \in Servers |-> [s \in Servers |-> t]]
    BY Zenon DEF Init
  <2>1. now \in Nat /\ Counters /\ t \in 0 .. now
    BY ReplicationAssumption DEF Init, Counters
  <2>2. ServerTypes
    BY <2>0, <2>1 DEF Init, ServerTypes
  <2>3. ClientTypes
    BY <2>1, IdleType DEF Init, ClientTypes
  <2>4. Histories
    BY Zenon DEF Init, Histories
  <2> QED
    BY <2>1, <2>2, <2>3, <2>4 DEF TypeOK
<1>2. TypeOK /\ [Next]_vars => TypeOK'
  <2> SUFFICES ASSUME TypeOK, [Next]_vars PROVE TypeOK'
    OBVIOUS
  <2>0. Types /\ Histories
    BY DEF TypeOK, Types
  <2>1. CASE UNCHANGED vars
    <3>1. Ops' = Ops
      BY <2>1 DEF vars, Ops
    <3> QED
      BY <2>1, <3>1 DEF vars, servers, count, TypeOK, ServerTypes, ClientTypes, Counters, Histories
  <2>2. CASE Next
    <3>1. Types'
      BY <2>0, <2>2, StartsKeepTypes, ClientsKeepTypes, HandlersKeepTypes, ServersKeepTypes, Zenon DEF Next
    <3>2. (doubted' = doubted \/ doubted' = TRUE) /\ (deleted' = deleted \/ deleted' = TRUE)
      <4>1. CASE set \/ Del
        BY <4>1, Zenon DEF set, Del, Send
      <4>2. ASSUME NEW c \in Clients, Get(c) \/ EndGet(c) \/ CASTimeout(c) \/ EndCAS(c) \/ \E t : CAS(c, t)
            PROVE  UNCHANGED <<doubted, deleted>>
        <5>1. CASE Get(c) \/ CASTimeout(c) \/ \E t : CAS(c, t)
          BY <5>1, Zenon DEF Get, CASTimeout, CAS, count
        <5>2. CASE EndGet(c)
          BY <5>2, Zenon DEF EndGet, count
        <5>3. CASE EndCAS(c)
          BY <5>3, Zenon DEF EndCAS, count
        <5> QED
          BY <4>2, <5>1, <5>2, <5>3
      <4>3. ASSUME NEW c \in Clients, NEW s \in Servers, GetAnswer(c, s) \/ GetTimeout(c, s)
            PROVE  UNCHANGED <<doubted, deleted>>
        BY <4>3, Zenon DEF GetAnswer, GetTimeout, count
      <4>4. ASSUME NEW m \in calls, HandleWrite(m) \/ HandleCAS(m) \/ LoseCall(m)
            PROVE  UNCHANGED <<doubted, deleted>>
        BY <4>4, Zenon DEF HandleWrite, HandleCAS, LoseCall, count
      <4>5. ASSUME NEW s \in Servers, \/ Round(s) \/ repair(s) \/ Crash(s)
                                     \/ \E n \in Nodes : Heartbeat(n, s) \/ DeadServer(n, s)
            PROVE  (doubted' = doubted \/ doubted' = TRUE) /\ deleted' = deleted
        BY <4>5, ZenonT(30) DEF Round, repair, Crash, Heartbeat, DeadServer, count
      <4> QED
        BY <2>2, <4>1, <4>2, <4>3, <4>4, <4>5, ZenonT(30) DEF Next
    <3>3. Histories'
      BY <2>0, <3>2, Zenon DEF Histories
    <3> QED
      BY <3>1, <3>3 DEF TypeOK, Types
  <2> QED
    BY <2>1, <2>2
<1> QED
  BY <1>1, <1>2, PTL DEF Spec
--------------------------------------------------------------------------------------
(* The master of everybody who takes no server for dead. *)
M == CHOOSE s \in Servers : \A t \in Servers : Rank[t] <= Rank[s]

(* The parts of the inductive invariant: a CAS call expects an earlier time than its own; as
   long as nobody took a server for dead there is one master; and as long as nobody deleted, a
   running server has a younger pair than any that its successful CAS calls expected. *)
Later == \A m \in calls : m.kind = "CAS" => m.expected < m.ts
OneMaster ==
    /\ \A c \in Clients : holders[c] = Servers
    /\ \A m \in calls : m.kind = "CAS" => m.to = M
    /\ \A x \in won : x[1] = M
ExpectedIsGone ==
    /\ \A m \in calls : m.kind # "Del"
    /\ \A x \in won : x[1] \in up => x[2] < pair[x[1]]
    /\ \A x, y \in won : x[1] = y[1] /\ x[2] = y[2] => x = y
IInv == Later /\ (~doubted => OneMaster) /\ (~deleted => ExpectedIsGone)

(* What a step that does not touch the calls, the pairs and the history keeps. *)
LEMMA OthersKeepMaster ==
    ASSUME IInv, UNCHANGED <<up, doubted, deleted, pair, won>>,
           doubted \/ \A c \in Clients : holders'[c] = holders[c],
           \A m \in calls' : m \in calls \/ m.kind = "Set"
    PROVE  IInv'
BY DEF IInv, Later, OneMaster, ExpectedIsGone

(* Clients ask the one master, and send it the time after all times they may expect. *)
LEMMA ClientsKeepMaster ==
    ASSUME TypeOK, IInv,
           \/ set \/ Del
           \/ \E c \in Clients :
                 \/ Get(c) \/ EndGet(c) \/ CASTimeout(c) \/ EndCAS(c)
                 \/ \E t \in Expected \cap 0 .. now : CAS(c, t)
                 \/ \E s \in Servers : GetAnswer(c, s) \/ GetTimeout(c, s)
    PROVE  IInv'
<1>1. CASE set
  BY <1>1, OthersKeepMaster DEF set, Send, servers, Call
<1>2. CASE Del
  BY <1>2 DEF Del, Send, servers, Call, IInv, Later, OneMaster
<1>3. ASSUME NEW c \in Clients, \/ Get(c) \/ CASTimeout(c)
                                \/ \E s \in Servers : GetAnswer(c, s) \/ GetTimeout(c, s)
      PROVE  IInv'
  <2>1. UNCHANGED <<up, doubted, deleted, pair, won, holders, calls>>
    BY <1>3, ZenonT(60) DEF Get, CASTimeout, GetAnswer, GetTimeout, servers, count
  <2> QED
    BY <2>1, OthersKeepMaster, Zenon
<1>4. ASSUME NEW c \in Clients, EndGet(c) PROVE IInv'
  <2>1. UNCHANGED <<up, doubted, deleted, pair, won, holders>>
    BY <1>4, ZenonT(60) DEF EndGet, servers, count
  <2>2. \A m \in calls' : m \in calls \/ m.kind = "Set"
    <3>a. PICK B : B = {s \in op[c].asked : \A t \in op[c].asked : op[c].times[t] <= op[c].times[s]}
      BY Zenon
    <3>b. PICK A : A = op[c].asked \ B
      BY Zenon
    <3>0. calls' = calls \cup {SetCall(s, op[c].times[t]) : s \in A, t \in B}
      BY ONLY <1>4, <3>a, <3>b DEF EndGet
    <3>1. \A m \in calls' : m \in calls \/ \E s, t : m = SetCall(s, op[c].times[t])
      BY ONLY <3>0
    <3>2. \A s, t : SetCall(s, t).kind = "Set"
      BY DEF SetCall, Call
    <3> QED
      BY ONLY <3>1, <3>2
  <2> QED
    BY <2>1, <2>2, OthersKeepMaster, Zenon
<1>5. ASSUME NEW c \in Clients, EndCAS(c) PROVE IInv'
  <2>1. UNCHANGED <<up, doubted, deleted, pair, won, holders>>
    BY <1>5, Zenon DEF EndCAS, servers, count
  <2>2. \A m \in calls' : m \in calls \/ m.kind = "Set"
    <3>1. \A m \in calls' : m \in calls \/ \E s, t : m = SetCall(s, op[c].ts)
      BY <1>5, Zenon DEF EndCAS
    <3>2. \A s, t : SetCall(s, t).kind = "Set"
      BY DEF SetCall, Call
    <3> QED
      BY ONLY <3>1, <3>2
  <2> QED
    BY <2>1, <2>2, OthersKeepMaster, Zenon
<1>6. ASSUME NEW c \in Clients, NEW t \in 0 .. now, CAS(c, t) PROVE IInv'
  <2>0. now \in Nat
    BY ReplicationAssumption DEF TypeOK, Counters
  <2>1. UNCHANGED <<up, doubted, deleted, pair, won, holders>> /\ now' = now + 1
        /\ calls' = calls \cup {Call("CAS", Master(c), now', t)}
    BY <1>6, Zenon DEF CAS, servers, count
  <2>2. holders[c] = Servers => Master(c) = M
    BY DEF Master, M
  <2>3. OneMaster => OneMaster'
    BY <2>1, <2>2 DEF OneMaster, Call
  <2>4. Later'
    BY <2>0, <2>1 DEF IInv, Later, Call
  <2> QED
    BY <2>1, <2>3, <2>4 DEF IInv, ExpectedIsGone, Call
<1> QED
  BY <1>1, <1>2, <1>3, <1>4, <1>5, <1>6

(* Heartbeats, repair and crashes: a holder is only dropped when somebody takes it for dead, and
   a server that stops handles no call any more. *)
LEMMA ServersKeepMaster ==
    ASSUME TypeOK, IInv, NEW s \in Servers,
           \/ Round(s) \/ repair(s) \/ Crash(s)
           \/ \E n \in Nodes : Heartbeat(n, s) \/ DeadServer(n, s)
    PROVE  IInv'
<1>0. holders \in [Nodes -> SUBSET Servers] /\ pair \in [Servers -> 0 .. now] /\ Clients \subseteq Nodes
  BY DEF TypeOK, ServerTypes, Nodes
<1>1. CASE Round(s)
  BY <1>1, OthersKeepMaster DEF Round, count
<1>2. CASE repair(s)
  <2>1. UNCHANGED <<up, doubted, deleted, pair, won, holders>>
    BY <1>2, Zenon DEF repair, count
  <2>2. \A m \in calls' : m \in calls \/ m.kind = "Set"
    BY <1>2, SMTT(30) DEF repair, SetCall, Call
  <2> QED
    BY <2>1, <2>2, OthersKeepMaster, Zenon
<1>3. CASE Crash(s)
  <2>1. /\ up' = up \ {s} /\ pair' = [pair EXCEPT ![s] = 0] /\ calls' \subseteq calls
        /\ holders' = [holders EXCEPT ![s] = {}] /\ UNCHANGED <<won, doubted, deleted>>
    BY <1>3 DEF Crash
  <2>2. \A c \in Clients : holders'[c] = holders[c]
    BY <1>0, <2>1, ReplicationAssumption
  <2>3. \A t \in up' : t \in up /\ pair'[t] = pair[t]
    BY <1>0, <2>1 DEF TypeOK, ServerTypes
  <2> QED
    BY <2>1, <2>2, <2>3 DEF IInv, Later, OneMaster, ExpectedIsGone
<1>4. ASSUME NEW n \in Nodes, DeadServer(n, s) PROVE IInv'
  <2>1. doubted' = TRUE /\ UNCHANGED <<up, pair, calls, won, deleted>>
    BY <1>4 DEF DeadServer
  <2> QED
    BY <2>1 DEF IInv, Later, ExpectedIsGone
<1>5. ASSUME NEW n \in Nodes, Heartbeat(n, s) PROVE IInv'
  <2>1. holders' = [holders EXCEPT ![n] = @ \cup {s}] /\ UNCHANGED <<up, doubted, deleted, pair, won, calls>>
    BY <1>5, Zenon DEF Heartbeat, count
  <2>2. ASSUME ~doubted, NEW c \in Clients PROVE holders'[c] = holders[c]
    BY <1>0, <2>1, <2>2 DEF IInv, OneMaster
  <2> QED
    BY <2>1, <2>2, OthersKeepMaster
<1> QED
  BY <1>1, <1>2, <1>3, <1>4, <1>5

(* The pair of a server only gets younger, unless it is deleted; a CAS that succeeds makes the
   pair it expected older than that of its server. *)
LEMMA HandlersKeepMaster ==
    ASSUME TypeOK, IInv, NEW m \in calls, HandleWrite(m) \/ HandleCAS(m) \/ LoseCall(m)
    PROVE  IInv'
<1>0. /\ m.to \in Servers /\ m.ts \in Nat /\ m.expected \in Nat
      /\ m.kind \in {"Set", "Del", "CAS"}
      /\ pair \in [Servers -> Nat] /\ \A x \in won : x[1] \in Servers /\ x[2] \in Nat
  BY ReplicationAssumption DEF TypeOK, ClientTypes, ServerTypes, Counters, Calls
<1>1. CASE LoseCall(m)
  BY <1>1, OthersKeepMaster DEF LoseCall, servers
<1>2. CASE HandleWrite(m)
  <2>1. UNCHANGED <<up, doubted, deleted, won, holders>> /\ calls' = calls \ {m}
    BY <1>2 DEF HandleWrite, count
  <2>2. ASSUME m.kind # "Del" PROVE \A s \in Servers : pair[s] <= pair'[s] /\ pair'[s] \in Nat
    BY <1>0, <1>2, <2>2 DEF HandleWrite
  <2>3. ASSUME ExpectedIsGone PROVE ExpectedIsGone'
    BY <1>0, <2>1, <2>2, <2>3 DEF ExpectedIsGone
  <2> QED
    BY <2>1, <2>3 DEF IInv, Later, OneMaster
<1>3. CASE HandleCAS(m)
  <2> DEFINE ok == IsSynched(m.to) /\ Matches(pair[m.to], m.expected)
  <2>1. /\ pair' = IF ok THEN [pair EXCEPT ![m.to] = m.ts] ELSE pair
        /\ won' = IF ok THEN won \cup {<<m.to, m.expected, m.ts>>} ELSE won
        /\ UNCHANGED <<up, doubted, deleted, holders>> /\ calls' = calls \ {m}
        /\ m.kind = "CAS" /\ m.to \in up
    BY <1>3, Zenon DEF HandleCAS, count
  <2>2. CASE ~ok
    BY <2>1, <2>2 DEF IInv, Later, OneMaster, ExpectedIsGone
  <2>3. CASE ok
    <3>1. /\ pair'[m.to] = m.ts /\ m.expected < m.ts
          /\ pair[m.to] = m.expected \/ pair[m.to] = 0
          /\ \A s \in Servers \ {m.to} : pair'[s] = pair[s]
      BY <1>0, <2>1, <2>3 DEF IInv, Later, Matches
    <3>2. PICK new : new = <<m.to, m.expected, m.ts>>
      BY Zenon
    <3>3. won' = won \cup {new} /\ new[1] = m.to /\ new[2] = m.expected
      BY <2>1, <2>3, <3>2
    <3>4. Later' /\ (OneMaster => OneMaster')
      BY <2>1, <3>3 DEF IInv, Later, OneMaster
    <3>5. ASSUME ExpectedIsGone PROVE ExpectedIsGone'
      <4>1. \A x \in won : x[1] = m.to => x[2] < m.expected
        BY <1>0, <2>1, <3>1, <3>5 DEF ExpectedIsGone
      <4>2. \A x \in won' : x[1] \in up' => x[2] < pair'[x[1]]
        BY <1>0, <2>1, <3>1, <3>3, <3>5, <4>1 DEF ExpectedIsGone
      <4>3. \A x, y \in won' : x[1] = y[1] /\ x[2] = y[2] => x = y
        BY <1>0, <3>3, <3>5, <4>1 DEF ExpectedIsGone
      <4> QED
        BY <2>1, <3>5, <4>2, <4>3 DEF ExpectedIsGone
    <3> QED
      BY <2>1, <3>4, <3>5 DEF IInv
  <2> QED
    BY <2>2, <2>3
<1> QED
  BY <1>1, <1>2, <1>3

(* A server never accepts two CAS calls that expect the same pair, nor does the whole system
   while nobody takes a server for dead, as long as nobody deletes (CAS, client.go; OpCAS,
   server.go; DeadServer, heartbeat.go). *)
THEOREM CASIsAtomic == Spec => []CASAtomic
<1>1. Init => IInv
  BY DEF Init, IInv, Later, OneMaster, ExpectedIsGone, Nodes
<1>2. TypeOK /\ IInv /\ [Next]_vars => IInv'
  <2> SUFFICES ASSUME TypeOK, IInv, [Next]_vars PROVE IInv'
    OBVIOUS
  <2>1. CASE UNCHANGED vars
    BY <2>1, OthersKeepMaster DEF vars, servers, count
  <2> QED
    BY <2>1, ClientsKeepMaster, HandlersKeepMaster, ServersKeepMaster, Zenon DEF Next
<1>3. IInv => CASAtomic
  BY DEF IInv, OneMaster, ExpectedIsGone, CASAtomic
<1> QED
  BY <1>1, <1>2, <1>3, ReplicationTypeCorrect, PTL DEF Spec
======================================================================================

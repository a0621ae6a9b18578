------------------------------- MODULE HeartbeatProofs -------------------------------
(***************************************************************************)
(* The heartbeater keeps its node's group right, for any number of servers *)
(* and chunks, any loss of datagrams and any number of crashes.  Each of   *)
(* its steps is a step of ServerGroup or leaves the group alone, hence the *)
(* tables of the group agree.  That the group has the last list of each    *)
(* server needs two more facts: an answer under way is no younger than its *)
(* sender's list, and nothing was set for a server before it was added.    *)
(***************************************************************************)
EXTENDS Heartbeat, TLAPS
--------------------------------------------------------------------------------------
(* The group.  Its invariant Inv is inductive as it stands; neither table is alone, since a
   method updates one by reading the other. *)

In(hs, s) == \E i \in DOMAIN hs : hs[i] = s
Distinct(hs) == \A i, j \in DOMAIN hs : hs[i] = hs[j] => i = j

(* removeHolder drops s and no other server, and makes no duplicate. *)
LEMMA RemoveHolderFacts ==
    ASSUME NEW hs \in Seq(Servers), NEW s \in Servers, Distinct(hs)
    PROVE  /\ removeHolder(hs, s) \in Seq(Servers)
           /\ Distinct(removeHolder(hs, s))
           /\ ~In(removeHolder(hs, s), s)
           /\ \A o \in Servers \ {s} : In(removeHolder(hs, s), o) <=> In(hs, o)
<1> DEFINE r == removeHolder(hs, s)
<1>1. CASE ~In(hs, s)
  <2>1. r = hs
    BY <1>1 DEF removeHolder, In
  <2> QED
    BY <1>1, <2>1
<1>2. CASE In(hs, s)
  <2> DEFINE i == CHOOSE j \in DOMAIN hs : hs[j] = s
             n == Len(hs)
  <2>1. i \in 1 .. n /\ hs[i] = s /\ n \in Nat /\ DOMAIN hs = 1 .. n
    BY <1>2 DEF In
  <2>2. r = [j \in 1 .. n - 1 |-> IF j = i THEN hs[n] ELSE hs[j]]
    BY <1>2 DEF removeHolder, In
  <2> HIDE DEF i, r
  <2>3. \A j \in 1 .. n : hs[j] \in Servers
    BY <2>1
  <2>4. r \in Seq(Servers) /\ DOMAIN r = 1 .. n - 1
    BY <2>1, <2>2, <2>3
  <2>5. Distinct(r)
    <3> SUFFICES ASSUME NEW j \in 1 .. n - 1, NEW k \in 1 .. n - 1, r[j] = r[k]
                 PROVE  j = k
      BY <2>4 DEF Distinct
    <3>1. \A l, m \in 1 .. n : hs[l] = hs[m] => l = m
      BY <2>1 DEF Distinct
    <3>2. n \in 1 .. n /\ j \in 1 .. n /\ k \in 1 .. n /\ j # n /\ k # n
      <4>1. n \in Nat /\ i \in 1 .. n
        BY <2>1
      <4> HIDE DEF n
      <4> QED
        BY <4>1
    <3>3. /\ r[j] = IF j = i THEN hs[n] ELSE hs[j]
          /\ r[k] = IF k = i THEN hs[n] ELSE hs[k]
      BY <2>2
    <3> QED
      BY <3>1, <3>2, <3>3, Zenon
  <2>6. ~In(r, s)
    BY <2>1, <2>2, <2>4 DEF In, Distinct
  <2>7. ASSUME NEW o \in Servers \ {s}
        PROVE  In(r, o) <=> In(hs, o)
    <3>1. ASSUME NEW j \in DOMAIN r, r[j] = o
          PROVE  In(hs, o)
      BY <2>1, <2>2, <2>4, <3>1 DEF In
    <3>2. ASSUME NEW j \in DOMAIN hs, hs[j] = o
          PROVE  In(r, o)
      <4>1. CASE j < n
        BY <2>1, <2>2, <2>4, <3>2, <4>1 DEF In
      <4>2. CASE j = n
        <5>1. i \in DOMAIN r /\ r[i] = o
          BY <2>1, <2>2, <2>4, <3>2, <4>2
        <5> QED
          BY <5>1 DEF In
      <4> QED
        BY <2>1, <4>1, <4>2
    <3> QED
      BY <3>1, <3>2 DEF In
  <2> QED
    BY <2>4, <2>5, <2>6, <2>7 DEF r
<1> QED
  BY <1>1, <1>2

(* addHolder adds s, that was not there, and no other server. *)
LEMMA AddHolderFacts ==
    ASSUME NEW hs \in Seq(Servers), NEW s \in Servers, Distinct(hs), ~In(hs, s)
    PROVE  /\ Append(hs, s) \in Seq(Servers)
           /\ Distinct(Append(hs, s))
           /\ In(Append(hs, s), s)
           /\ \A o \in Servers \ {s} : In(Append(hs, s), o) <=> In(hs, o)
<1> DEFINE r == Append(hs, s)
<1>1. /\ Len(hs) \in Nat /\ DOMAIN hs = 1 .. Len(hs)
      /\ r \in Seq(Servers) /\ DOMAIN r = 1 .. Len(hs) + 1
      /\ r[Len(hs) + 1] = s
      /\ \A j \in 1 .. Len(hs) : r[j] = hs[j]
  OBVIOUS
<1> HIDE DEF r
<1>2. Distinct(r)
  BY <1>1 DEF Distinct, In
<1>3. In(r, s)
  BY <1>1 DEF In
<1>4. \A o \in Servers \ {s} : In(r, o) <=> In(hs, o)
  BY <1>1 DEF In
<1> QED
  BY <1>1, <1>2, <1>3, <1>4 DEF r

(* The shape every action has: the lists of the chunks in C forget s, those in A, where s
   was not, get it, and s reports L afterwards. *)
LEMMA StepKeepsTables ==
    ASSUME Inv, NEW s \in Servers, NEW L \in ChunkLists, NEW h \in [Chunks -> Seq(Servers)],
           heldChunks' = [heldChunks EXCEPT ![s] = L],
           holders' = h,
           \A c \in Chunks :
              \/ c \notin DOMAIN L /\ h[c] = removeHolder(holders[c], s)
              \/ c \notin DOMAIN L /\ ~hasHolder(c, s) /\ h[c] = holders[c]
              \/ c \in DOMAIN L /\ hasHolder(c, s) /\ h[c] = holders[c]
              \/ c \in DOMAIN L /\ ~hasHolder(c, s) /\ h[c] = Append(holders[c], s)
    PROVE  /\ heldChunks' \in [Servers -> ChunkLists]
           /\ TablesAgree' /\ NoDuplicateHolder'
           /\ \A c \in Chunks, o \in Servers \ {s} : hasHolder(c, o)' = hasHolder(c, o)
<1> USE DEF Inv, TypeOK
<1>1. heldChunks' \in [Servers -> ChunkLists]
  OBVIOUS
<1>2. ASSUME NEW c \in Chunks
      PROVE  /\ Distinct(h[c])
             /\ In(h[c], s) <=> c \in DOMAIN L
             /\ \A o \in Servers \ {s} : In(h[c], o) <=> In(holders[c], o)
  <2>1. holders[c] \in Seq(Servers) /\ Distinct(holders[c])
    BY DEF NoDuplicateHolder, Distinct
  <2>2. hasHolder(c, s) <=> In(holders[c], s)
    BY DEF hasHolder, In
  <2>3. CASE c \notin DOMAIN L /\ h[c] = removeHolder(holders[c], s)
    <3> DEFINE r == removeHolder(holders[c], s)
    <3>1. Distinct(r) /\ ~In(r, s) /\ \A o \in Servers \ {s} : In(r, o) <=> In(holders[c], o)
      BY ONLY <2>1, s \in Servers, RemoveHolderFacts
    <3> QED
      BY <2>3, <3>1
  <2>4. CASE c \in DOMAIN L /\ ~hasHolder(c, s) /\ h[c] = Append(holders[c], s)
    BY <2>1, <2>2, <2>4, AddHolderFacts
  <2> QED
    BY <2>1, <2>2, <2>3, <2>4
<1>3. \A c \in Chunks, o \in Servers : hasHolder(c, o)' <=> In(h[c], o)
  BY DEF hasHolder, In
<1>4. \A c \in Chunks, o \in Servers : hasHolder(c, o) <=> In(holders[c], o)
  BY DEF hasHolder, In
<1>5. TablesAgree'
  <2> SUFFICES ASSUME NEW c \in Chunks, NEW o \in Servers
               PROVE  hasHolder(c, o)' <=> c \in DOMAIN heldChunks'[o]
    BY DEF TablesAgree
  <2>1. CASE o = s
    BY <1>2, <1>3, <2>1
  <2>2. CASE o # s
    <3>1. heldChunks'[o] = heldChunks[o]
      BY <2>2
    <3> QED
      BY <1>2, <1>3, <1>4, <2>2, <3>1 DEF TablesAgree
  <2> QED
    BY <2>1, <2>2
<1>6. NoDuplicateHolder'
  BY <1>2 DEF NoDuplicateHolder, Distinct
<1>7. \A c \in Chunks, o \in Servers \ {s} : hasHolder(c, o)' = hasHolder(c, o)
  BY <1>2, <1>3, <1>4 DEF hasHolder
<1> QED
  BY <1>1, <1>5, <1>6, <1>7

(* The list of a server that holds nothing, as AddServerToGroup and DeadServer leave it. *)
LEMMA NoChunksIsList == NoChunks \in ChunkLists /\ DOMAIN NoChunks = {}
<1>1. NoChunks \in [{} -> Sums] /\ DOMAIN NoChunks = {}
  BY DEF NoChunks
<1> QED
  BY <1>1 DEF ChunkLists

(* Every step keeps the invariant, and is about one server. *)
LEMMA NextKeepsInv ==
    ASSUME Inv, [Next]_vars
    PROVE  Inv' /\ (UNCHANGED vars \/ \E s \in Servers : \A o \in Servers \ {s}, c \in Chunks :
                                        hasHolder(c, o)' = hasHolder(c, o))
<1> USE DEF Inv, TypeOK
<1>1. CASE UNCHANGED vars
  BY <1>1 DEF vars, TablesAgree, NoDuplicateHolder, DeadHoldsNothing, hasHolder
<1>2. ASSUME NEW s \in Servers, AddServerToGroup(s)
      PROVE  Inv' /\ \A o \in Servers \ {s}, c \in Chunks : hasHolder(c, o)' = hasHolder(c, o)
  <2>1. \A c \in Chunks : ~hasHolder(c, s)
    BY <1>2 DEF AddServerToGroup, DeadHoldsNothing
  <2>2. /\ heldChunks' \in [Servers -> ChunkLists]
        /\ TablesAgree' /\ NoDuplicateHolder'
        /\ \A c \in Chunks, o \in Servers \ {s} : hasHolder(c, o)' = hasHolder(c, o)
    BY <1>2, <2>1, NoChunksIsList, StepKeepsTables, Zenon DEF AddServerToGroup
  <2>3. \A c \in Chunks, o \in Servers : hasHolder(c, o)' = hasHolder(c, o)
    BY <1>2 DEF AddServerToGroup, hasHolder
  <2>4. DeadHoldsNothing'
    BY <1>2, <2>1, <2>3 DEF AddServerToGroup, DeadHoldsNothing
  <2> QED
    BY <1>2, <2>2, <2>4 DEF AddServerToGroup
<1>3. ASSUME NEW s \in Servers, NEW cids \in ChunkLists, SetServerChunks(s, cids)
      PROVE  Inv' /\ \A o \in Servers \ {s}, c \in Chunks : hasHolder(c, o)' = hasHolder(c, o)
  <2> DEFINE h == [c \in Chunks |->
                     IF c \in DOMAIN heldChunks[s] \ DOMAIN cids THEN removeHolder(holders[c], s)
                     ELSE IF c \in DOMAIN cids /\ ~hasHolder(c, s) THEN Append(holders[c], s)
                     ELSE holders[c]]
  <2>1. h \in [Chunks -> Seq(Servers)]
    <3> SUFFICES ASSUME NEW c \in Chunks PROVE h[c] \in Seq(Servers)
      OBVIOUS
    <3>1. holders[c] \in Seq(Servers) /\ Distinct(holders[c])
      BY DEF NoDuplicateHolder, Distinct
    <3>2. removeHolder(holders[c], s) \in Seq(Servers)
      BY <3>1, RemoveHolderFacts
    <3> QED
      BY <3>1, <3>2
  <2>2. \A c \in Chunks :
              \/ c \notin DOMAIN cids /\ h[c] = removeHolder(holders[c], s)
              \/ c \notin DOMAIN cids /\ ~hasHolder(c, s) /\ h[c] = holders[c]
              \/ c \in DOMAIN cids /\ hasHolder(c, s) /\ h[c] = holders[c]
              \/ c \in DOMAIN cids /\ ~hasHolder(c, s) /\ h[c] = Append(holders[c], s)
    BY DEF TablesAgree
  <2>3. holders' = h /\ heldChunks' = [heldChunks EXCEPT ![s] = cids]
    BY <1>3 DEF SetServerChunks
  <2> HIDE DEF h
  <2>4. /\ heldChunks' \in [Servers -> ChunkLists]
        /\ TablesAgree' /\ NoDuplicateHolder'
        /\ \A c \in Chunks, o \in Servers \ {s} : hasHolder(c, o)' = hasHolder(c, o)
    BY <2>1, <2>2, <2>3, StepKeepsTables, Zenon
  <2>5. DeadHoldsNothing'
    BY <1>3, <2>4 DEF SetServerChunks, DeadHoldsNothing
  <2> QED
    BY <1>3, <2>1, <2>3, <2>4, <2>5 DEF SetServerChunks
<1>4. ASSUME NEW s \in Servers, ServerAlive(s)
      PROVE  Inv' /\ \A o \in Servers \ {s}, c \in Chunks : hasHolder(c, o)' = hasHolder(c, o)
  BY <1>4 DEF ServerAlive, TablesAgree, NoDuplicateHolder, DeadHoldsNothing, hasHolder
<1>5. ASSUME NEW s \in Servers, RemoveServer(s) \/ DeadServer(s)
      PROVE  Inv' /\ \A o \in Servers \ {s}, c \in Chunks : hasHolder(c, o)' = hasHolder(c, o)
  <2>0. PICK L \in ChunkLists : L = NoChunks /\ DOMAIN L = {}
    BY NoChunksIsList
  <2> DEFINE h == Forget(DOMAIN heldChunks[s], s)
  <2>1. h \in [Chunks -> Seq(Servers)]
    <3> SUFFICES ASSUME NEW c \in Chunks
                 PROVE  (IF c \in DOMAIN heldChunks[s] THEN removeHolder(holders[c], s)
                         ELSE holders[c]) \in Seq(Servers)
      BY DEF Forget
    <3>1. holders[c] \in Seq(Servers) /\ Distinct(holders[c])
      BY DEF NoDuplicateHolder, Distinct
    <3>2. removeHolder(holders[c], s) \in Seq(Servers)
      BY <3>1, RemoveHolderFacts
    <3> QED
      BY <3>1, <3>2
  <2>2. \A c \in Chunks :
              \/ c \notin DOMAIN L /\ h[c] = removeHolder(holders[c], s)
              \/ c \notin DOMAIN L /\ ~hasHolder(c, s) /\ h[c] = holders[c]
              \/ c \in DOMAIN L /\ hasHolder(c, s) /\ h[c] = holders[c]
              \/ c \in DOMAIN L /\ ~hasHolder(c, s) /\ h[c] = Append(holders[c], s)
    BY <2>0 DEF TablesAgree, Forget
  <2>3. holders' = h /\ heldChunks' = [heldChunks EXCEPT ![s] = L]
    BY <1>5, <2>0 DEF RemoveServer, DeadServer
  <2> HIDE DEF h
  <2>4. /\ heldChunks' \in [Servers -> ChunkLists]
        /\ TablesAgree' /\ NoDuplicateHolder'
        /\ \A c \in Chunks, o \in Servers \ {s} : hasHolder(c, o)' = hasHolder(c, o)
    BY <2>1, <2>2, <2>3, StepKeepsTables, Zenon
  <2>5. \A c \in Chunks : ~hasHolder(c, s)'
    BY <2>3, <2>4, <2>0 DEF TablesAgree
  <2>6. DeadHoldsNothing'
    BY <1>5, <2>4, <2>5 DEF RemoveServer, DeadServer, DeadHoldsNothing
  <2> QED
    BY <1>5, <2>1, <2>3, <2>4, <2>6, Zenon DEF RemoveServer, DeadServer
<1> QED
  BY <1>1, <1>2, <1>3, <1>4, <1>5 DEF Next

(* An empty group has agreeing tables. *)
LEMMA InitHasInv == Init => Inv
<1> SUFFICES ASSUME Init PROVE Inv
  OBVIOUS
<1>1. TypeOK
  BY NoChunksIsList DEF Init, TypeOK
<1>2. \A c \in Chunks : holders[c] = << >>
  BY DEF Init
<1>3. \A c \in Chunks, s \in Servers : ~hasHolder(c, s)
  BY <1>2 DEF hasHolder
<1>4. TablesAgree
  BY <1>3, NoChunksIsList DEF Init, TablesAgree
<1> QED
  BY <1>1, <1>2, <1>3, <1>4 DEF Inv, NoDuplicateHolder, DeadHoldsNothing

(* ServerGroup's invariants hold in every reachable state: the tables agree, no server is
   a holder twice and a dead server holds nothing. *)
THEOREM TablesInvariant == Spec => []Inv
<1>1. Inv /\ [Next]_vars => Inv'
  BY NextKeepsInv
<1> QED
  BY <1>1, InitHasInv, PTL DEF Spec

(* The holders of a chunk are exactly the servers whose last list has it, so IsSynched never
   follows nil (servergroup.go). *)
THEOREM HoldersAreReporters == Spec => []TablesAgree
<1>1. Inv => TablesAgree
  BY DEF Inv
<1> QED
  BY <1>1, TablesInvariant, PTL

(* NumHolders, that rebalancing compares with the redundancy, counts no server twice. *)
THEOREM HoldersAreDistinct == Spec => []NoDuplicateHolder
<1>1. Inv => NoDuplicateHolder
  BY DEF Inv
<1> QED
  BY <1>1, TablesInvariant, PTL

(* No request for a chunk goes to a server that is dead (DeadServer, servergroup.go). *)
THEOREM TheDeadHoldNothing == Spec => []DeadHoldsNothing
<1>1. Inv => DeadHoldsNothing
  BY DEF Inv
<1> QED
  BY <1>1, TablesInvariant, PTL

(* News of one server leaves the others in their lists. *)
THEOREM OthersTheorem == Spec => OthersKeepTheirPlace
<1>1. Inv /\ [Next]_vars =>
        [\E s \in Servers : \A o \in Servers \ {s}, c \in Chunks :
             hasHolder(c, o)' = hasHolder(c, o)]_vars
  BY NextKeepsInv
<1> QED
  BY <1>1, TablesInvariant, PTL DEF Spec, OthersKeepTheirPlace
--------------------------------------------------------------------------------------
(* The heartbeater *)

AnswerIsOwn ==
    answer # Nil => /\ answer.age <= age[asked]
                    /\ answer.age = age[asked] => answer.list = list[asked]
Unseen == \A s \in Others \ servers : seen[s] = -1
HInv == Inv /\ NodeTypes /\ AnswerIsOwn /\ Unseen /\ OwnLists

(* A step of the node is a step of its group, or none. *)
LEMMA StepsOfGroup ==
    ASSUME HInv, [HNext]_hvars
    PROVE  [Next]_vars
<1> USE DEF HInv, NodeTypes
<1>1. CASE Timeout
  BY <1>1 DEF Timeout, Next, group, Others
<1>2. CASE ReceiveUnknown
  BY <1>2 DEF ReceiveUnknown, Next, Others
<1>3. CASE Receive
  <2>1. answer.list \in ChunkLists /\ asked \in Servers
    BY <1>3 DEF Receive, Answers, Others
  <2> QED
    BY <1>3, <2>1 DEF Receive, Next
<1>4. ASSUME NEW cids \in ChunkLists, SetOwn(cids) PROVE Next
  BY <1>4, NodeAssumption DEF SetOwn, Next
<1>5. ASSUME NEW s \in Others, Join(s) PROVE Next
  BY <1>5 DEF Join, Next, Others
<1>6. ASSUME \/ StartRound \/ Reply \/ UNCHANGED hvars
             \/ \E s \in Servers : Query(s) \/ FollowNews(s)
             \/ \E s \in Others : \/ Crash(s) \/ Restart(s)
                                  \/ \E cids \in ChunkLists : Change(s, cids)
                                  \/ \E t \in Others : GossipAdded(s, t) \/ cleanNews(s, t)
      PROVE  UNCHANGED vars
  BY <1>6, Zenon DEF StartRound, Reply, Query, FollowNews, Crash, Restart, Change, GossipAdded,
             cleanNews, hvars, group
<1> QED
  BY <1>1, <1>2, <1>3, <1>4, <1>5, <1>6, Zenon DEF HNext

(* The variables of the heartbeater and of the other servers keep their types. *)
LEMMA NodeTypesKept ==
    ASSUME HInv, [HNext]_hvars
    PROVE  NodeTypes'
<1> USE DEF HInv, NodeTypes
<1>0. servers \subseteq Servers
  BY DEF Inv, TypeOK
<1>1. CASE Timeout
  BY <1>1, NodeAssumption DEF Timeout, Ask, Others, others
<1>2. CASE ReceiveUnknown \/ UNCHANGED hvars \/ \E s \in Others : Join(s)
  BY <1>2 DEF ReceiveUnknown, Join, hvars, others, request
<1>3. CASE Receive
  <2>1. answer \in Answers /\ asked \in Others
    BY <1>3 DEF Receive
  <2>2. answer.age \in Nat /\ answer.added \subseteq Others
    BY <2>1 DEF Answers
  <2> QED
    BY <1>3, <2>1, <2>2, NodeAssumption DEF Receive, others
<1>4. ASSUME NEW cids \in ChunkLists, SetOwn(cids) PROVE NodeTypes'
  BY <1>4, NodeAssumption DEF SetOwn, request
<1>5. CASE StartRound \/ \E s \in Servers : Query(s) \/ FollowNews(s)
  BY <1>0, <1>5, NodeAssumption DEF StartRound, Query, FollowNews, Ask, Others, others
<1>6. CASE Reply
  <2>1. asked \in Others /\ ListenReply(asked) \in Answers
    BY <1>6 DEF Reply, ListenReply, AmAlive, Answers
  <2> QED
    BY <1>6, <2>1, NodeAssumption DEF Reply, others, Others
<1>7. ASSUME NEW s \in Others, NEW cids \in ChunkLists, Change(s, cids) PROVE NodeTypes'
  BY <1>7, NodeAssumption DEF Change, request
<1>8. ASSUME NEW s \in Others, Crash(s) \/ Restart(s) PROVE NodeTypes'
  BY <1>8, NodeAssumption DEF Crash, Restart, request
<1>9. ASSUME NEW s \in Others, NEW t \in Others, GossipAdded(s, t) \/ cleanNews(s, t)
      PROVE  NodeTypes'
  BY <1>9, NodeAssumption DEF GossipAdded, cleanNews, request
<1> QED
  BY <1>1, <1>2, <1>3, <1>4, <1>5, <1>6, <1>7, <1>8, <1>9, Zenon DEF HNext

(* The group has the last list of each server, and what is under way cannot change that. *)
LEMMA ListsKept ==
    ASSUME HInv, [HNext]_hvars, HTypeOK'
    PROVE  (AnswerIsOwn /\ Unseen /\ OwnLists)'
<1> USE DEF HInv, NodeTypes
<1>0. servers \subseteq Servers /\ dead \in [Servers -> BOOLEAN] /\ heldChunks \in [Servers -> ChunkLists]
  BY DEF Inv, TypeOK
<1>1. CASE Timeout
  <2>1. UNCHANGED <<list, age, seen, servers>> /\ answer' = Nil
    BY <1>1 DEF Timeout, Ask, others, group, vars, DeadServer
  <2>2. \A s \in Others : ~dead'[s] => ~dead[s] /\ heldChunks'[s] = heldChunks[s]
    BY <1>0, <1>1 DEF Timeout, DeadServer, group, vars, Others
  <2> QED
    BY <2>1, <2>2 DEF AnswerIsOwn, Unseen, OwnLists
<1>2. CASE ReceiveUnknown \/ \E s \in Others : Join(s)
  <2>1. PICK n \in Others : AddServerToGroup(n)
    BY <1>2 DEF ReceiveUnknown, Join
  <2>2. UNCHANGED <<list, age, answer, asked, seen>>
    BY <1>2 DEF ReceiveUnknown, Join, others, request
  <2>3. seen[n] = -1 /\ age[n] \in Nat
    BY <2>1 DEF AddServerToGroup, Unseen
  <2>4. servers' = servers \cup {n}
        /\ \A s \in Others \ {n} : dead'[s] = dead[s] /\ heldChunks'[s] = heldChunks[s]
    BY <1>0, <2>1 DEF AddServerToGroup, Others
  <2> QED
    BY <2>2, <2>3, <2>4 DEF AnswerIsOwn, Unseen, OwnLists
<1>3. CASE Receive
  <2>1. asked \in Others /\ answer \in Answers /\ answer # Nil
    BY <1>3 DEF Receive
  <2>2. UNCHANGED <<list, age, servers>> /\ answer' = Nil
        /\ seen' = [seen EXCEPT ![asked] = answer.age]
    BY <1>3 DEF Receive, others, SetServerChunks
  <2>3. heldChunks'[asked] = answer.list
        /\ \A s \in Others \ {asked} : dead'[s] = dead[s] /\ heldChunks'[s] = heldChunks[s]
    BY <1>0, <1>3, <2>1 DEF Receive, SetServerChunks, Others
  <2>4. asked \in servers
    BY <1>3 DEF Receive
  <2> QED
    BY <2>1, <2>2, <2>3, <2>4 DEF AnswerIsOwn, Unseen, OwnLists
<1>4. ASSUME NEW cids \in ChunkLists, SetOwn(cids) PROVE (AnswerIsOwn /\ Unseen /\ OwnLists)'
  <2>1. UNCHANGED <<list, age, answer, asked, seen, servers>>
    BY <1>4 DEF SetOwn, request, SetServerChunks
  <2>2. \A s \in Others : dead'[s] = dead[s] /\ heldChunks'[s] = heldChunks[s]
    BY <1>0, <1>4, NodeAssumption DEF SetOwn, SetServerChunks, Others
  <2> QED
    BY <2>1, <2>2 DEF AnswerIsOwn, Unseen, OwnLists
<1>5. CASE StartRound \/ \E s \in Servers : Query(s) \/ FollowNews(s)
  <2>1. UNCHANGED <<list, age, seen, servers, dead, heldChunks>>
        /\ (answer' = Nil \/ UNCHANGED <<answer, asked>>)
    BY <1>5 DEF StartRound, Query, FollowNews, Ask, others, group, vars
  <2> QED
    BY <2>1 DEF AnswerIsOwn, Unseen, OwnLists
<1>6. CASE Reply
  <2>1. UNCHANGED <<list, age, seen, servers, dead, heldChunks, asked>> /\ asked \in Others
        /\ answer'.age = age[asked] /\ answer'.list = list[asked]
    BY <1>6 DEF Reply, ListenReply, AmAlive, others, group, vars
  <2> QED
    BY <2>1 DEF AnswerIsOwn, Unseen, OwnLists
<1>7. ASSUME NEW s \in Others, NEW cids \in ChunkLists, Change(s, cids)
      PROVE  (AnswerIsOwn /\ Unseen /\ OwnLists)'
  <2>1. UNCHANGED <<seen, servers, dead, heldChunks, asked, answer>>
        /\ age'[s] = age[s] + 1
        /\ \A o \in Others \ {s} : age'[o] = age[o] /\ list'[o] = list[o]
    BY <1>7 DEF Change, group, vars, request
  <2>2. answer # Nil => answer.age \in Nat /\ asked \in Others
    BY DEF Answers
  <2>3. age \in [Others -> Nat] /\ seen \in [Others -> Int]
    OBVIOUS
  <2> QED
    BY <2>1, <2>2, <2>3 DEF AnswerIsOwn, Unseen, OwnLists
<1>8. CASE \/ UNCHANGED hvars
           \/ \E s \in Others : \/ Crash(s) \/ Restart(s)
                                \/ \E t \in Others : GossipAdded(s, t) \/ cleanNews(s, t)
  <2>1. UNCHANGED <<list, age, seen, servers, dead, heldChunks, asked, answer>>
    BY <1>8, Zenon DEF Crash, Restart, GossipAdded, cleanNews, hvars, group, vars, request, others
  <2> QED
    BY <2>1 DEF AnswerIsOwn, Unseen, OwnLists
<1> QED
  BY <1>1, <1>2, <1>3, <1>4, <1>5, <1>6, <1>7, <1>8, Zenon DEF HNext

(* The inductive invariant of the heartbeater. *)
LEMMA HeartbeatInvariant == HSpec => []HInv
<1>1. HInit => HInv
  <2> SUFFICES ASSUME HInit PROVE HInv
    OBVIOUS
  <2>1. Inv
    BY InitHasInv DEF HInit
  <2>2. (CHOOSE x \in Sums : TRUE) \in Sums
    BY NodeAssumption
  <2>3. [c \in Chunks |-> CHOOSE x \in Sums : TRUE] \in ChunkLists
    BY <2>2 DEF ChunkLists
  <2>4. NodeTypes
    <3>1. list \in [Others -> ChunkLists]
      BY <2>3, Zenon DEF HInit
    <3>2. age \in [Others -> Nat] /\ seen \in [Others -> Int] /\ added \in [Others -> SUBSET Others]
      BY DEF HInit
    <3> QED
      BY <3>1, <3>2, NodeAssumption DEF HInit, NodeTypes
  <2>5. AnswerIsOwn /\ Unseen /\ OwnLists
    BY DEF HInit, AnswerIsOwn, Unseen, OwnLists
  <2> QED
    BY <2>1, <2>4, <2>5 DEF HInv
<1>2. HInv /\ [HNext]_hvars => HInv'
  <2> SUFFICES ASSUME HInv, [HNext]_hvars PROVE HInv'
    OBVIOUS
  <2>1. Inv'
    BY StepsOfGroup, NextKeepsInv DEF HInv
  <2>2. NodeTypes'
    BY NodeTypesKept
  <2>3. HTypeOK'
    BY <2>1, <2>2 DEF HTypeOK, Inv
  <2> QED
    BY <2>1, <2>2, <2>3, ListsKept DEF HInv
<1> QED
  BY <1>1, <1>2, PTL DEF HSpec

(* The heartbeater implements the specification of the group it works on. *)
THEOREM HeartbeatImplementsGroup == HSpec => Spec
<1>1. HInit => Init
  BY DEF HInit
<1>2. HInv /\ [HNext]_hvars => [Next]_vars
  BY StepsOfGroup
<1> QED
  BY <1>1, <1>2, HeartbeatInvariant, PTL DEF HSpec, Spec

(* What the node believes of a server is what that server said last, through all losses,
   crashes, restarts and news (request, heartbeat.go). *)
THEOREM HeartbeatOwnLists == HSpec => []OwnLists
<1>1. HInv => OwnLists
  BY DEF HInv
<1> QED
  BY <1>1, HeartbeatInvariant, PTL

(* The types of the node's state, and that an answer has a question. *)
THEOREM HeartbeatTypeCorrect == HSpec => []HTypeOK
<1>1. HInv => HTypeOK
  BY DEF HInv, HTypeOK, Inv
<1> QED
  BY <1>1, HeartbeatInvariant, PTL
======================================================================================

---------------------------------- MODULE Heartbeat ----------------------------------
(***************************************************************************)
(* dist/heartbeat/heartbeat.go: how one node, me, keeps its ServerGroup up *)
(* to date.  Its heartbeater asks every server it knows, one after the     *)
(* other, over UDP (com.UDPRequest, com.listenUDP), and follows the news   *)
(* of the answers; its repair and release goroutines put its own list in   *)
(* the group.                                                              *)
(*                                                                         *)
(* Abstractions: the other servers run the same code, so their lists,      *)
(* crashes and news may change at any time.  A request has a socket of its *)
(* own, hence datagrams of an earlier one reach nobody.  The news of one   *)
(* answer are followed in any order.  The node's own news concern only     *)
(* others.                                                                 *)
(***************************************************************************)
EXTENDS ServerGroup

CONSTANTS
    me, Nil,
    timeoutRetries, \* 3, a literal in request
    MaxChanges,     \* bound: changes of some server's list
    MaxCrashes,     \* bound: crashes of other servers
    MaxNews         \* bound: news spread by other servers

Others == Servers \ {me}
Answers == [list : ChunkLists, age : Nat, added : SUBSET Others]

ASSUME NodeAssumption ==
    /\ me \in Servers /\ Nil \notin Servers
    /\ Sums # {}
    /\ {timeoutRetries, MaxChanges, MaxCrashes, MaxNews} \subseteq Nat

VARIABLES
    running,    \* the other servers whose process runs
    list, age,  \* PresentChunksList of each of them, and history: how often it changed
    added,      \* recentlyAddedServers of the others
    round,      \* the servers of queryList not asked yet
    asked,      \* the server request waits for, or Nil
    timeouts,   \* of asked
    answer,     \* the answer that reached its socket, or Nil
    todo,       \* the news request still has to look at
    seen,       \* history: the age of the list last set for each server, -1 if none was
    changes, crashes, spread    \* bounded counters

group == vars
others == <<running, list, age, added, changes, crashes, spread>>
request == <<round, asked, timeouts, answer, todo>>
hvars == <<group, others, request, seen>>

(* What is left of an answer after Marshal and AmAliveUnMarshal: the list and the news of added
   servers.  The mark that ends these is read again as the end of the dead ones, so of the dead
   servers none is ever returned, and they are left out of the model. *)
AmAlive(cids, n, news) == [list |-> cids, age |-> n, added |-> news]

ListenReply(s) == AmAlive(list[s], age[s], added[s])
--------------------------------------------------------------------------------------
(* The heartbeater of me *)

StartRound ==
    /\ asked = Nil /\ todo = {} /\ round = {}
    /\ round' = servers
    /\ UNCHANGED <<group, others, asked, timeouts, answer, todo, seen>>

Ask(s) == /\ asked' = IF s = me THEN Nil ELSE s
          /\ answer' = Nil

Query(s) ==
    /\ asked = Nil /\ todo = {} /\ s \in round
    /\ round' = round \ {s}
    /\ Ask(s)
    /\ UNCHANGED <<group, others, timeouts, todo, seen>>

FollowNewsOfKnown(s) ==
    /\ asked = Nil /\ s \in todo
    /\ todo' = todo \ {s}
    /\ IF s \notin servers THEN UNCHANGED <<asked, answer>> ELSE Ask(s)
    /\ UNCHANGED <<group, others, round, timeouts, seen>>

(* Gossip (add): a server that is not known is asked, too. *)
FollowNews(s) ==
    /\ asked = Nil /\ s \in todo
    /\ todo' = todo \ {s}
    /\ IF s \in servers THEN UNCHANGED <<asked, answer>> ELSE Ask(s)
    /\ UNCHANGED <<group, others, round, timeouts, seen>>

TimeoutUncounted ==
    /\ asked # Nil /\ answer = Nil
    /\ IF asked \in servers /\ timeouts + 1 < timeoutRetries
       THEN Ask(asked) /\ UNCHANGED <<group, timeouts>>
       ELSE /\ timeouts' = 0 /\ asked' = Nil /\ answer' = Nil
            /\ IF asked \in servers THEN DeadServer(asked) ELSE UNCHANGED group
    /\ UNCHANGED <<others, round, todo, seen>>

(* UDPRequest returns an error: a datagram was lost, or is late. *)
Timeout ==
    /\ asked # Nil /\ answer = Nil
    /\ IF asked \in servers /\ timeouts + 1 < timeoutRetries
       THEN /\ timeouts' = timeouts + 1
            /\ Ask(asked)
            /\ UNCHANGED group
       ELSE /\ timeouts' = 0 /\ asked' = Nil /\ answer' = Nil
            /\ IF asked \in servers THEN DeadServer(asked) ELSE UNCHANGED group
    /\ UNCHANGED <<others, round, todo, seen>>

ReceiveUnknown ==
    /\ asked # Nil /\ answer # Nil /\ asked \notin servers
    /\ AddServerToGroup(asked)
    /\ UNCHANGED <<others, request, seen>>

Receive ==
    /\ asked # Nil /\ answer # Nil /\ asked \in servers
    /\ SetServerChunks(asked, answer.list)
    /\ seen' = [seen EXCEPT ![asked] = answer.age]
    /\ todo' = todo \cup answer.added
    /\ asked' = Nil /\ timeouts' = 0 /\ answer' = Nil
    /\ UNCHANGED <<others, round>>
--------------------------------------------------------------------------------------
(* Other goroutines of me *)

(* StartRepairSystem and releaser: whatever list of the local core they read, see Rebalance. *)
SetOwn(cids) ==
    /\ SetServerChunks(me, cids)
    /\ changes < MaxChanges /\ changes' = changes + 1
    /\ UNCHANGED <<running, list, age, added, crashes, spread, request, seen>>

(* processMessage of OpAddServerToGroup, sent by a server that joins (Assoc). *)
Join(s) ==
    /\ s \in running
    /\ AddServerToGroup(s)
    /\ UNCHANGED <<others, request, seen>>
--------------------------------------------------------------------------------------
(* The others, the cores and the network *)

Reply ==
    /\ asked \in running /\ answer = Nil
    /\ answer' = ListenReply(asked)
    /\ UNCHANGED <<group, others, round, asked, timeouts, todo, seen>>

(* Pairs are written, chunks duplicated or released. *)
Change(s, cids) ==
    /\ changes < MaxChanges /\ cids # list[s]
    /\ changes' = changes + 1
    /\ list' = [list EXCEPT ![s] = cids]
    /\ age' = [age EXCEPT ![s] = @ + 1]
    /\ UNCHANGED <<group, running, added, crashes, spread, request, seen>>

Crash(s) ==
    /\ s \in running /\ crashes < MaxCrashes
    /\ crashes' = crashes + 1
    /\ running' = running \ {s}
    /\ added' = [added EXCEPT ![s] = {}]
    /\ UNCHANGED <<group, list, age, changes, spread, request, seen>>

Restart(s) ==
    /\ s \notin running
    /\ running' = running \cup {s}
    /\ UNCHANGED <<group, list, age, added, changes, crashes, spread, request, seen>>

GossipAdded(s, new) ==
    /\ s \in running \ {new} /\ new \notin added[s] /\ spread < MaxNews
    /\ spread' = spread + 1
    /\ added' = [added EXCEPT ![s] = @ \cup {new}]
    /\ UNCHANGED <<group, running, list, age, changes, crashes, request, seen>>

cleanNews(s, old) ==
    /\ old \in added[s]
    /\ added' = [added EXCEPT ![s] = @ \ {old}]
    /\ UNCHANGED <<group, running, list, age, changes, crashes, spread, request, seen>>
--------------------------------------------------------------------------------------
HInit ==
    /\ Init /\ me \in servers
    /\ running = Others
    /\ list = [s \in Others |-> [c \in Chunks |-> CHOOSE x \in Sums : TRUE]]
    /\ age = [s \in Others |-> 0]
    /\ added = [s \in Others |-> {}]
    /\ round = {} /\ asked = Nil /\ timeouts = 0 /\ answer = Nil /\ todo = {}
    /\ seen = [s \in Others |-> -1]
    /\ changes = 0 /\ crashes = 0 /\ spread = 0

HNext ==
    \/ StartRound \/ Timeout \/ ReceiveUnknown \/ Receive \/ Reply
    \/ \E cids \in ChunkLists : SetOwn(cids)
    \/ \E s \in Servers : Query(s) \/ FollowNews(s)
    \/ \E s \in Others :  \/ Join(s) \/ Crash(s) \/ Restart(s)
                          \/ \E cids \in ChunkLists : Change(s, cids)
                          \/ \E t \in Others : GossipAdded(s, t) \/ cleanNews(s, t)

HSpec == HInit /\ [][HNext]_hvars

(* The goroutines of me run; a server that runs answers, and not every datagram to or from it
   is lost or too late.  Nobody has to join, crash, restart, change or spread anything. *)
HFairness ==
    /\ WF_hvars(StartRound) /\ WF_hvars(\E s \in Servers : Query(s) \/ FollowNews(s))
    /\ WF_hvars(Timeout)
    /\ \A s \in Others : /\ SF_hvars(Reply /\ asked = s)
                          /\ SF_hvars(asked = s /\ (Receive \/ ReceiveUnknown))
HFairSpec == HSpec /\ HFairness
--------------------------------------------------------------------------------------
NodeTypes ==
    /\ running \subseteq Others /\ list \in [Others -> ChunkLists] /\ age \in [Others -> Nat]
    /\ added \in [Others -> SUBSET Others]
    /\ round \subseteq Servers /\ todo \subseteq Others
    /\ asked \in Others \cup {Nil} /\ timeouts \in 0 .. timeoutRetries
    /\ answer \in Answers \cup {Nil} /\ (answer # Nil => asked # Nil)
    /\ seen \in [Others -> Int]
    /\ changes \in 0 .. MaxChanges /\ crashes \in 0 .. MaxCrashes /\ spread \in 0 .. MaxNews

(* Types; request has an answer only while it waits for one. *)
HTypeOK == TypeOK /\ NodeTypes

(* What the group says of a server is what that server said last, and never what another one
   said or what an earlier answer to another question did: a list as young as the server's
   own is its list. *)
OwnLists ==
    \A s \in Others :
        /\ seen[s] <= age[s]
        /\ s \in servers /\ ~dead[s] /\ seen[s] = age[s] => heldChunks[s] = list[s]

(* A server that stays down is declared dead for good, hence holder of nothing, whatever
   answers were under way and whatever news come of it. *)
DownIsFound ==
    \A s \in Others : <>[](s \in servers \ running) => <>[]dead[s]

(* A server that stays up is believed alive and to hold what it holds again and again, however
   often it was declared dead by mistake. *)
UpIsFound ==
    \A s \in Others :
        <>[](s \in servers \cap running) => []<>(~dead[s] /\ heldChunks[s] = list[s])

(* A running server that a known one keeps announcing becomes known. *)
NewsAreFollowed ==
    \A s, t \in Others :
        <>[](t \in running \cap servers /\ s \in running /\ s \in added[t]) => <>(s \in servers)
======================================================================================

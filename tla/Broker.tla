----------------------------------- MODULE Broker -----------------------------------
(***************************************************************************)
(* com/comclient.go: one client connection shared by many callers.  A call *)
(* hands its message and a result channel to the broker, whose goroutines  *)
(* write requests to the server (to world), match answers with callers     *)
(* (from world) and fail the calls whose time is over (ticker).  They      *)
(* share the table waits and the list pq of timeouts, under one mutex.     *)
(*                                                                         *)
(* Abstractions: a request stands for its tid, unique among the first 2^32 *)
(* requests of a connection, and for its timeoutMsg; the server answers in *)
(* order, or not at all; a section under the mutex takes no time, and one  *)
(* that loops over pq takes one step per message.  The connection is not   *)
(* reopened: needConnection makes another broker.                          *)
(***************************************************************************)
EXTENDS Naturals, Sequences

CONSTANTS
    Requests,
    Chans,      \* result channels
    Timeout,    \* of each request; 0 for one that is only sent
    BufferSize, \* brokerChannelBufferSize
    MaxTime,    \* bound on the clock, that runs further only while a call has time left
    Nil

Result == [req : Requests, how : {"answer", "timeout", "closed"}]
Answer == [req : Requests, ch : Chans]

ASSUME BrokerAssumption == /\ Timeout \in [Requests -> Nat]
                           /\ BufferSize \in Nat \ {0}
                           /\ MaxTime \in Nat
                           /\ Nil \notin Requests \cup Chans \cup Result \cup Answer

VARIABLES
    call,       \* "idle", "sending", "waiting" or "done"
    holds,      \* the calls that hold VirtualServer.m for reading
    rch,        \* the channel the call took from brokerReceiveChannelPool
    pool,       \* the channels nobody uses
    buf,        \* what each channel holds, the request it answers and how
    got,        \* what the call returned
    sendCh,     \* brokerSendChannel
    closed,     \* it was closed
    mutex,      \* "free", its owner "ticker" or "world"; "panicked" or "hung" for good
    waits,
    len, head, tail, next, prev, deadline,     \* pq
    misfiled,   \* history: push has put a message before the first to expire
    world,      \* where the to-world goroutine is ...
    msg,        \* ... and with which message
    ticker,     \* "off", "idle" (receiving from tickerActivation) or "on"
    reader,     \* "read", "deliver" or "gone"
    answer,     \* the request the reader found an answer for, and its channel
    wire,       \* requests written and not answered yet
    up,         \* the TCP connection
    now

caller == <<call, holds, rch, pool, got>>
pq == <<len, head, tail, next, prev, deadline, misfiled>>
net == <<wire, up>>
vars == <<caller, buf, sendCh, closed, mutex, waits, pq, world, msg, ticker, reader, answer,
          net, now>>

--------------------------------------------------------------------------------------
(* The list of timeouts: head is the first to expire, prev leads to later ones. *)

StopsAt(x, d) == x \in Requests /\ (next[x] = Nil \/ deadline[x] <= d)

(* push walks from the tail to the first message that does not expire after d, or to the
   head: where it stands after as many steps as the list has messages. *)
Walk(d) == LET w[i \in 0 .. len] == IF i = 0 THEN tail
                                    ELSE IF StopsAt(w[i - 1], d) THEN w[i - 1]
                                    ELSE next[w[i - 1]]
           IN  w[len]

(* A message that expires before all others is linked as the head and then, for want of a
   return, also as the predecessor of the old head. *)
push(r, d) ==
    LET x == Walk(d)
        toHead == next[x] = Nil /\ deadline[x] > d
        p == prev[x]
        linked == [next EXCEPT ![x] = IF toHead THEN r ELSE @, ![r] = x]
    IN  /\ deadline' = [deadline EXCEPT ![r] = d]
        /\ len' = len + 1
        /\ misfiled' = (misfiled \/ (len > 0 /\ StopsAt(x, d) /\ toHead))
        /\ IF len = 0
           THEN head' = r /\ tail' = r /\ UNCHANGED <<next, prev, mutex>>
           ELSE IF ~StopsAt(x, d)
           THEN mutex' = "hung" /\ UNCHANGED <<head, tail, next, prev>>
           ELSE /\ head' = IF toHead THEN r ELSE head
                /\ tail' = IF p = Nil THEN r ELSE tail
                /\ next' = IF p = Nil THEN linked ELSE [linked EXCEPT ![p] = r]
                /\ prev' = [prev EXCEPT ![x] = r, ![r] = p]
                /\ UNCHANGED mutex

FailKeepingWait(r, how) ==
    IF waits[r] # Nil
    THEN /\ buf' = [buf EXCEPT ![waits[r]] = Append(@, [req |-> r, how |-> how])]
         /\ UNCHANGED waits
    ELSE UNCHANGED <<buf, waits>>

(* Both loops over pq give the caller of the head, if it still waits, a result. *)
Fail(r, how) ==
    IF waits[r] # Nil
    THEN /\ buf' = [buf EXCEPT ![waits[r]] = Append(@, [req |-> r, how |-> how])]
         /\ waits' = [waits EXCEPT ![r] = Nil]
    ELSE UNCHANGED <<buf, waits>>
--------------------------------------------------------------------------------------
(* Callers.  A call holds VirtualServer.m from needConnection until its message is sent (Get,
   Set, Del, CAS), or until it has its result (sendAndReceive). *)

Init ==
    /\ call = [r \in Requests |-> "idle"] /\ holds = {}
    /\ rch = [r \in Requests |-> Nil]
    /\ pool = Chans
    /\ buf = [ch \in Chans |-> << >>]
    /\ got = [r \in Requests |-> Nil]
    /\ sendCh = << >> /\ closed = FALSE
    /\ mutex = "free"
    /\ waits = [r \in Requests |-> Nil]
    /\ len = 0 /\ head = Nil /\ tail = Nil
    /\ next = [r \in Requests |-> Nil]
    /\ prev = [r \in Requests |-> Nil]
    /\ deadline = [r \in Requests |-> 0] /\ misfiled = FALSE
    /\ world = "receive" /\ msg = Nil
    /\ ticker = "off"
    /\ reader = "read" /\ answer = Nil
    /\ wire = << >> /\ up = TRUE
    /\ now = 0

send(r) ==
    /\ call[r] = "idle" /\ ~closed
    /\ call' = [call EXCEPT ![r] = "sending"] /\ holds' = holds \cup {r}
    /\ IF Timeout[r] = 0
       THEN UNCHANGED <<rch, pool>>
       ELSE \E ch \in pool : rch' = [rch EXCEPT ![r] = ch] /\ pool' = pool \ {ch}
    /\ UNCHANGED <<got, buf, sendCh, closed, mutex, waits, pq, world, msg, ticker, reader,
                   answer, net, now>>

Enqueue(r) ==
    /\ call[r] = "sending" /\ Len(sendCh) < BufferSize
    /\ sendCh' = Append(sendCh, r)
    /\ call' = [call EXCEPT ![r] = IF Timeout[r] = 0 THEN "done" ELSE "waiting"]
    /\ holds' = holds \ {r} \/ (Timeout[r] > 0 /\ holds' = holds)
    /\ UNCHANGED <<rch, pool, got, buf, closed, mutex, waits, pq, world, msg, ticker, reader,
                   answer, net, now>>

(* Wait returns the channel to the pool, sendAndReceive leaves it to the collector. *)
Wait(r) ==
    /\ call[r] = "waiting" /\ buf[rch[r]] # << >>
    /\ got' = [got EXCEPT ![r] = Head(buf[rch[r]])]
    /\ buf' = [buf EXCEPT ![rch[r]] = Tail(@)]
    /\ call' = [call EXCEPT ![r] = "done"]
    /\ pool' = IF r \in holds THEN pool ELSE pool \cup {rch[r]}
    /\ holds' = holds \ {r}
    /\ rch' = [rch EXCEPT ![r] = Nil]
    /\ UNCHANGED <<sendCh, closed, mutex, waits, pq, world, msg, ticker, reader, answer, net,
                   now>>

Unused == holds = {}

(* freeConn, called when the server leaves the group, locks VirtualServer.m for writing. *)
Close ==
    /\ ~closed /\ Unused
    /\ closed' = TRUE
    /\ UNCHANGED <<caller, buf, sendCh, mutex, waits, pq, world, msg, ticker, reader, answer,
                   net, now>>
--------------------------------------------------------------------------------------
(* To world *)

TakeMessage ==
    /\ world = "receive" /\ sendCh # << >> /\ mutex = "free"
    /\ sendCh' = Tail(sendCh)
    /\ msg' = Head(sendCh)
    /\ IF Timeout[msg'] > 0
       THEN push(msg', now + Timeout[msg']) /\ waits' = [waits EXCEPT ![msg'] = rch[msg']]
       ELSE UNCHANGED <<mutex, pq, waits>>
    /\ world' = IF mutex' = "hung" THEN "hung" ELSE "write"
    /\ UNCHANGED <<caller, buf, closed, ticker, reader, answer, net, now>>

WriteMessage ==
    /\ world = "write"
    /\ wire' = IF up THEN Append(wire, msg) ELSE wire
    /\ world' = IF Timeout[msg] > 0 THEN "activate" ELSE "receive"
    /\ msg' = Nil
    /\ UNCHANGED <<caller, buf, sendCh, closed, mutex, waits, pq, ticker, reader, answer, up, now>>

(* A send that does not wait for a receiver. *)
Activate ==
    /\ world = "activate"
    /\ ticker' = IF ticker = "idle" THEN "on" ELSE ticker
    /\ world' = "receive"
    /\ UNCHANGED <<caller, buf, sendCh, closed, mutex, waits, pq, msg, reader, answer, net, now>>

StartClosingUndrained ==
    /\ world = "receive" /\ closed /\ mutex = "free"
    /\ mutex' = "world" /\ world' = "closing"
    /\ UNCHANGED <<caller, buf, sendCh, closed, waits, pq, msg, ticker, reader, answer, net, now>>

(* The channel is closed and drained: every call that still waits fails, pq.forall. *)
StartClosing ==
    /\ world = "receive" /\ sendCh = << >> /\ closed /\ mutex = "free"
    /\ mutex' = "world" /\ world' = "closing"
    /\ UNCHANGED <<caller, buf, sendCh, closed, waits, pq, msg, ticker, reader, answer, net, now>>

forall ==
    /\ world = "closing" /\ mutex = "world" /\ len > 0
    /\ IF head = Nil
       THEN mutex' = "panicked" /\ UNCHANGED <<buf, waits, len, head, next, prev>>
       ELSE /\ Fail(head, "closed")
            /\ head' = prev[head]
            /\ next' = [next EXCEPT ![head] = Nil]
            /\ prev' = [prev EXCEPT ![head] = Nil]
            /\ len' = len - 1
            /\ UNCHANGED mutex
    /\ UNCHANGED <<caller, sendCh, closed, tail, deadline, misfiled, world, msg, ticker, reader,
                   answer, net, now>>

EndClosing ==
    /\ world = "closing" /\ mutex = "world" /\ len = 0
    /\ head' = Nil /\ tail' = Nil
    /\ up' = FALSE
    /\ mutex' = "free" /\ world' = "done"
    /\ UNCHANGED <<caller, buf, sendCh, closed, waits, len, next, prev, deadline, misfiled, msg,
                   ticker, reader, answer, wire, now>>
--------------------------------------------------------------------------------------
(* Ticker *)

Tick ==
    /\ ticker = "on" /\ mutex = "free"
    /\ mutex' = "ticker"
    /\ UNCHANGED <<caller, buf, sendCh, closed, waits, pq, world, msg, ticker, reader, answer,
                   net, now>>

cleanKeepingTail ==
    /\ mutex = "ticker" /\ len > 0
    /\ head # Nil /\ now > deadline[head]
    /\ Fail(head, "timeout")
    /\ head' = IF len = 1 THEN Nil ELSE prev[head]
    /\ next' = [next EXCEPT ![head] = Nil]
    /\ prev' = [prev EXCEPT ![head] = Nil]
    /\ tail' = IF len = 1 THEN Nil ELSE tail
    /\ len' = len - 1
    /\ UNCHANGED <<caller, sendCh, closed, mutex, deadline, misfiled, world, msg, ticker, reader,
                   answer, net, now>>

clean ==
    /\ mutex = "ticker" /\ len > 0
    /\ IF head = Nil \/ (now > deadline[head] /\ len > 1 /\ prev[head] = Nil)
       THEN mutex' = "panicked" /\ UNCHANGED <<buf, waits, len, head, tail, next, prev>>
       ELSE /\ now > deadline[head]
            /\ Fail(head, "timeout")
            /\ LET f == head
                   h == prev[f]
                   cleared == [next EXCEPT ![f] = Nil]
               IN  /\ head' = IF len = 1 THEN Nil ELSE h
                   /\ tail' = IF len = 1 THEN Nil ELSE IF len = 2 THEN h ELSE tail
                   /\ next' = IF len = 1 THEN cleared ELSE [cleared EXCEPT ![h] = Nil]
                   /\ prev' = [prev EXCEPT ![f] = Nil]
            /\ len' = len - 1
            /\ UNCHANGED mutex
    /\ UNCHANGED <<caller, sendCh, closed, deadline, misfiled, world, msg, ticker, reader, answer,
                   net, now>>

EndTick ==
    /\ mutex = "ticker" /\ (len > 0 => head # Nil /\ now <= deadline[head])
    /\ mutex' = "free"
    /\ ticker' = IF len = 0 THEN "off" ELSE "on"
    /\ UNCHANGED <<caller, buf, sendCh, closed, waits, pq, world, msg, reader, answer, net, now>>

AwaitActivation ==
    /\ ticker = "off" /\ mutex # "ticker"
    /\ ticker' = "idle"
    /\ UNCHANGED <<caller, buf, sendCh, closed, mutex, waits, pq, world, msg, reader, answer, net,
                   now>>
--------------------------------------------------------------------------------------
(* From world *)

ReadAnswerUnchecked ==
    /\ reader = "read" /\ wire # << >> /\ up /\ mutex = "free"
    /\ wire' = Tail(wire)
    /\ waits' = [waits EXCEPT ![Head(wire)] = Nil]
    /\ reader' = "deliver"
    /\ answer' = [req |-> Head(wire), ch |-> waits[Head(wire)]]
    /\ UNCHANGED <<caller, buf, sendCh, closed, mutex, pq, world, msg, ticker, up, now>>

(* An answer is matched under the mutex and handed over after it. *)
ReadAnswer ==
    /\ reader = "read" /\ wire # << >> /\ up /\ mutex = "free"
    /\ wire' = Tail(wire)
    /\ LET r == Head(wire)
       IN  IF waits[r] = Nil
           THEN UNCHANGED <<waits, reader, answer>>
           ELSE /\ waits' = [waits EXCEPT ![r] = Nil]
                /\ reader' = "deliver"
                /\ answer' = [req |-> r, ch |-> waits[r]]
    /\ UNCHANGED <<caller, buf, sendCh, closed, mutex, pq, world, msg, ticker, up, now>>

Deliver ==
    /\ reader = "deliver"
    /\ buf' = [buf EXCEPT ![answer.ch] = Append(@, [req |-> answer.req, how |-> "answer"])]
    /\ reader' = "read" /\ answer' = Nil
    /\ UNCHANGED <<caller, sendCh, closed, mutex, waits, pq, world, msg, ticker, net, now>>

(* The read fails: onClose is freeConn, that closes the channel unless it is closed. *)
ReadError ==
    /\ reader = "read" /\ ~up /\ mutex = "free"
    /\ Unused
    /\ reader' = "gone"
    /\ closed' = TRUE
    /\ UNCHANGED <<caller, buf, sendCh, mutex, waits, pq, world, msg, ticker, answer, net, now>>
--------------------------------------------------------------------------------------
(* The server and the network: an operation without answer, a lost connection. *)

NoAnswer ==
    /\ wire # << >>
    /\ wire' = Tail(wire)
    /\ UNCHANGED <<caller, buf, sendCh, closed, mutex, waits, pq, world, msg, ticker, reader,
                   answer, up, now>>

Disconnect ==
    /\ up
    /\ up' = FALSE
    /\ UNCHANGED <<caller, buf, sendCh, closed, mutex, waits, pq, world, msg, ticker, reader,
                   answer, wire, now>>

TimePasses ==
    /\ mutex = "free"
    /\ now < MaxTime \/ \E r \in Requests : waits[r] # Nil /\ now <= deadline[r]
    /\ now' = now + 1
    /\ UNCHANGED <<caller, buf, sendCh, closed, mutex, waits, pq, world, msg, ticker, reader,
                   answer, net>>

ToWorld == TakeMessage \/ WriteMessage \/ Activate \/ StartClosing \/ forall \/ EndClosing
Ticker == Tick \/ clean \/ EndTick \/ AwaitActivation
FromWorld == ReadAnswer \/ Deliver \/ ReadError

Next ==
    \/ \E r \in Requests : send(r) \/ Enqueue(r) \/ Wait(r)
    \/ Close
    \/ ToWorld \/ Ticker \/ FromWorld
    \/ NoAnswer \/ Disconnect \/ TimePasses

Spec == Init /\ [][Next]_vars

(* Goroutines that can run do, a waiting goroutine gets the mutex in the end (sync.Mutex
   does not starve), and time passes.  The server owes no answer and nobody has to call. *)
Fairness ==
    /\ \A r \in Requests : WF_vars(Enqueue(r)) /\ WF_vars(Wait(r))
    /\ SF_vars(ToWorld) /\ SF_vars(Ticker)
    /\ WF_vars(Deliver) /\ SF_vars(ReadError)
    /\ SF_vars(TimePasses)

FairSpec == Spec /\ Fairness
--------------------------------------------------------------------------------------
CallTypes ==
    /\ call \in [Requests -> {"idle", "sending", "waiting", "done"}] /\ holds \subseteq Requests
    /\ rch \in [Requests -> Chans \cup {Nil}]
    /\ pool \subseteq Chans
    /\ buf \in [Chans -> Seq(Result)]
    /\ got \in [Requests -> Result \cup {Nil}]
    /\ sendCh \in Seq(Requests)
    /\ waits \in [Requests -> Chans \cup {Nil}]

ListTypes ==
    /\ len \in Nat
    /\ head \in Requests \cup {Nil} /\ tail \in Requests \cup {Nil}
    /\ next \in [Requests -> Requests \cup {Nil}]
    /\ prev \in [Requests -> Requests \cup {Nil}]
    /\ deadline \in [Requests -> Nat]
    /\ now \in Nat

GoroutineTypes ==
    /\ mutex \in {"free", "ticker", "world", "panicked", "hung"}
    /\ world \in {"receive", "write", "activate", "closing", "done", "hung"}
    /\ msg \in Requests \cup {Nil} /\ (world = "write" => msg # Nil)
    /\ ticker \in {"off", "idle", "on"}
    /\ reader \in {"read", "deliver", "gone"}
    /\ answer \in Answer \cup {Nil}
    /\ (answer = Nil <=> reader # "deliver")
    /\ wire \in Seq(Requests)

FlagTypes == closed \in BOOLEAN /\ up \in BOOLEAN /\ misfiled \in BOOLEAN

(* Types; the reader has an answer and a channel to deliver it to, or neither. *)
TypeOK == CallTypes /\ ListTypes /\ GoroutineTypes /\ FlagTypes

(* A caller never gets the result of another request: not from an answer that comes after
   its timeout, nor through a channel that was used, returned to the pool and taken again
   (waits, brokerReceiveChannelPool). *)
OwnAnswer == \A r \in Requests : got[r] # Nil => got[r].req = r

(* No goroutine of the broker ever waits to deliver a result, two of them doing so with the
   mutex locked: a channel of capacity one never gets a second result, whether the answer,
   the timeout and the closing of the connection race for it or not. *)
NeverBlocks == \A ch \in Chans : Len(buf[ch]) <= 1

(* No call is forgotten: until it has its result the request of a call that waits is in the
   channel, in waits or in the reader's hands, and the goroutine that writes, which fails the
   calls left when the connection closes, does not end before the first two are empty, unless
   push has misfiled a message (see EveryWaitIsTimed). *)
NobodyForgotten ==
    \A r \in Requests : call[r] = "waiting" =>
        \/ buf[rch[r]] # << >>
        \/ answer # Nil /\ answer.req = r
        \/ /\ waits[r] # Nil \/ \E i \in DOMAIN sendCh : sendCh[i] = r
           /\ world = "done" => misfiled

(* No walk over pq reaches a nil message that len promises (a panic that ends the client) or
   goes round for ever, with the mutex locked. *)
NeverStuck == mutex \notin {"panicked", "hung"}

(* The messages of pq, from the first to expire. *)
Chain == LET c[i \in 1 .. len] == IF i = 1 THEN head
                                  ELSE IF c[i - 1] = Nil THEN Nil ELSE prev[c[i - 1]]
         IN  c

(* No walk over pq gets lost, and when none is under way pq is a list in order of expiry that
   has every request somebody waits for: only what is on it is ever timed out or failed when
   the connection closes.  Whatever the timeouts of the calls, one thing alone may break the
   list: a message that expires before all others on it (the branch "To head" of push, that
   no call takes when all have the same timeout). *)
EveryWaitIsTimed ==
    ~misfiled =>
        /\ NeverStuck
        /\ mutex = "free" =>
            /\ \A i \in 1 .. len : Chain[i] # Nil
            /\ \A i \in 1 .. len - 1 : /\ next[Chain[i + 1]] = Chain[i]
                                      /\ deadline[Chain[i]] <= deadline[Chain[i + 1]]
            /\ len > 0 => next[head] = Nil /\ tail = Chain[len] /\ prev[tail] = Nil
            /\ \A r \in Requests : waits[r] # Nil => \E i \in 1 .. len : Chain[i] = r

(* Once the connection is closed every call that was accepted returns: messages still in the
   channel are handled first, then forall fails all that wait, and an answer being delivered
   arrives; unless push has misfiled a message, for then forall may panic. *)
CloseAnswersEveryone == closed ~> (misfiled \/ \A r \in Requests : call[r] # "waiting")

(* A call returns, at the latest after its timeout, if the server never answers. *)
CallsReturn == \A r \in Requests : (call[r] = "waiting") ~> (call[r] = "done")
======================================================================================

-------------------------------- MODULE BrokerProofs --------------------------------
(***************************************************************************)
(* Every call of a connection gets its own result and no channel ever gets *)
(* two, for any number of calls and channels.  Neither is inductive: what  *)
(* makes them true is that the right to answer a request is in one place   *)
(* at a time (the send channel, waits, the reader's hands or the result    *)
(* channel) and that a call keeps its channel until it has its result.     *)
(* The shape of pq does not matter: a message that is on the list twice or *)
(* never is answered at most once.  The second half is about that shape:   *)
(* whatever the timeouts, until push puts a message before the first of    *)
(* the list, pq is a list with every call that waits, no loop over it gets *)
(* lost, and the goroutine that closes the connection ends with nobody     *)
(* left who waits for a result.                                            *)
(***************************************************************************)
EXTENDS Broker, TLAPS
--------------------------------------------------------------------------------------
(* Types.  They need one fact of the invariant: a call that waits has a channel. *)

(* A channel belongs to one call, from send to the end of Wait. *)
ChannelsOwned ==
    /\ \A r, s \in Requests : rch[r] # Nil /\ rch[r] = rch[s] => r = s
    /\ \A r \in Requests : rch[r] \notin pool
    /\ \A r \in Requests : call[r] = "waiting" => rch[r] # Nil
    /\ \A r \in Requests : call[r] = "sending" => (Timeout[r] > 0 <=> rch[r] # Nil)
    /\ \A r \in Requests : call[r] \in {"idle", "done"} => rch[r] = Nil
--------------------------------------------------------------------------------------
(* What BrokerAssumption says of single constants. *)
LEMMA NilFacts == /\ Nil \notin Requests /\ Nil \notin Chans
                  /\ \A r \in Requests : Timeout[r] \in Nat
BY BrokerAssumption, Zenon

(* What push does to the types: it may hang, and then the mutex stays locked. *)
LEMMA PushTypes ==
    ASSUME TypeOK, mutex = "free", NEW r \in Requests, NEW d \in Nat, push(r, d), UNCHANGED now
    PROVE  ListTypes' /\ mutex' \in {"free", "hung"}
<1> DEFINE x == Walk(d)
<1> USE DEF TypeOK, ListTypes
<1>1. CASE len = 0
  BY <1>1 DEF push
<1>2. CASE len # 0 /\ ~StopsAt(x, d)
  BY <1>2 DEF push
<1>3. CASE len # 0 /\ StopsAt(x, d)
  <2>2. x \in Requests
    BY <1>3, Zenon DEF StopsAt
  <2> DEFINE toHead == next[x] = Nil /\ deadline[x] > d
             p == prev[x]
             linked == [next EXCEPT ![x] = IF toHead THEN r ELSE @, ![r] = x]
  <2>3. /\ deadline' = [deadline EXCEPT ![r] = d]
        /\ len' = len + 1
        /\ head' = IF toHead THEN r ELSE head
        /\ tail' = IF p = Nil THEN r ELSE tail
        /\ next' = IF p = Nil THEN linked ELSE [linked EXCEPT ![p] = r]
        /\ prev' = [prev EXCEPT ![x] = r, ![r] = p]
        /\ UNCHANGED mutex
    BY <1>3, Zenon DEF push
  <2> HIDE DEF x
  <2> QED
    BY <2>2, <2>3
<1> QED
  BY <1>1, <1>2, <1>3, Zenon

(* A failed call gets a well-typed result. *)
LEMMA FailTypes ==
    ASSUME TypeOK, NEW r \in Requests, NEW how \in {"timeout", "closed"}, Fail(r, how)
    PROVE  buf' \in [Chans -> Seq(Result)] /\ waits' \in [Requests -> Chans \cup {Nil}]
<1> DEFINE m == [req |-> r, how |-> how]
<1>1. m \in Result
  BY Zenon DEF Result
<1> HIDE DEF m
<1>2. CASE waits[r] # Nil
  <2>1. waits[r] \in Chans
    BY <1>2, Zenon DEF TypeOK, CallTypes
  <2>2. /\ buf' = [buf EXCEPT ![waits[r]] = Append(@, m)]
        /\ waits' = [waits EXCEPT ![r] = Nil]
    BY <1>2, Zenon DEF Fail, m
  <2> QED
    BY <1>1, <2>1, <2>2 DEF TypeOK, CallTypes
<1>3. CASE waits[r] = Nil
  BY <1>3, Zenon DEF Fail, TypeOK, CallTypes
<1> QED
  BY <1>2, <1>3, Zenon

(* Types are kept by what a caller does, *)
LEMMA CallerTypes ==
    ASSUME TypeOK, ChannelsOwned, NEW r \in Requests, send(r) \/ Enqueue(r) \/ Wait(r)
    PROVE  TypeOK'
<1> USE DEF TypeOK
<1>1. CASE send(r)
  <2>1. CallTypes'
    <3>1. rch' \in [Requests -> Chans \cup {Nil}] /\ pool' \subseteq Chans
      BY <1>1, Zenon DEF send, CallTypes
    <3>2. UNCHANGED <<buf, got, sendCh, waits>> /\ holds' \subseteq Requests /\ call' = [call EXCEPT ![r] = "sending"]
      BY <1>1, Zenon DEF send, CallTypes
    <3> QED
      BY <3>1, <3>2, Zenon DEF CallTypes
  <2>2. ListTypes' /\ GoroutineTypes'
    BY <1>1 DEF send, ListTypes, GoroutineTypes, pq, net
  <2> QED
    BY <1>1, <2>1, <2>2, Zenon DEF send, FlagTypes, pq, net
<1>2. CASE Enqueue(r)
  <2>1. CallTypes'
    <3>1. /\ sendCh' \in Seq(Requests) /\ UNCHANGED <<rch, pool, buf, got, waits>>
          /\ call' \in [Requests -> {"idle", "sending", "waiting", "done"}]
      BY <1>2 DEF Enqueue, CallTypes
    <3>2. holds' \subseteq Requests
      BY <1>2, Zenon DEF Enqueue, CallTypes
    <3> QED
      BY <3>1, <3>2, Zenon DEF CallTypes
  <2>2. ListTypes' /\ GoroutineTypes'
    BY <1>2 DEF Enqueue, ListTypes, GoroutineTypes, pq, net
  <2> QED
    BY <1>2, <2>1, <2>2, Zenon DEF Enqueue, FlagTypes, pq, net
<1>3. CASE Wait(r)
  <2>1. rch[r] \in Chans /\ buf[rch[r]] \in Seq(Result) /\ buf[rch[r]] # << >>
    BY <1>3, Zenon DEF Wait, ChannelsOwned, CallTypes
  <2>2. Head(buf[rch[r]]) \in Result /\ Tail(buf[rch[r]]) \in Seq(Result)
    BY <2>1
  <2>3. CallTypes'
    <3>1. pool' \subseteq Chans /\ holds' \subseteq Requests
      BY <1>3, <2>1, Zenon DEF Wait, CallTypes
    <3>2. /\ UNCHANGED <<sendCh, waits>>
          /\ got' \in [Requests -> Result \cup {Nil}] /\ buf' \in [Chans -> Seq(Result)]
          /\ call' \in [Requests -> {"idle", "sending", "waiting", "done"}]
          /\ rch' \in [Requests -> Chans \cup {Nil}]
      BY <1>3, <2>1, <2>2, Zenon DEF Wait, CallTypes
    <3> QED
      BY <3>1, <3>2, Zenon DEF CallTypes
  <2>4. ListTypes' /\ GoroutineTypes'
    BY <1>3 DEF Wait, ListTypes, GoroutineTypes, pq, net
  <2> QED
    BY <1>3, <2>3, <2>4, Zenon DEF Wait, FlagTypes, pq, net
<1> QED
  BY <1>1, <1>2, <1>3, Zenon

(* by the goroutine that writes, *)
LEMMA ToWorldTypes ==
    ASSUME TypeOK, ToWorld
    PROVE  TypeOK'
<1> USE DEF TypeOK
<1>1. CASE TakeMessage
  <2>1. sendCh \in Seq(Requests) /\ sendCh # << >>
    BY <1>1, Zenon DEF TakeMessage, CallTypes
  <2>2. msg' \in Requests /\ sendCh' \in Seq(Requests)
    BY <1>1, <2>1 DEF TakeMessage
  <2>3. ListTypes' /\ mutex' \in {"free", "hung"}
    <3>1. mutex = "free" /\ UNCHANGED now
      BY <1>1, Zenon DEF TakeMessage
    <3>2. CASE Timeout[msg'] > 0
      <4>1. now + Timeout[msg'] \in Nat
        BY <2>2, NilFacts DEF ListTypes
      <4>2. push(msg', now + Timeout[msg'])
        BY <1>1, <3>2, Zenon DEF TakeMessage
      <4> QED
        BY <2>2, <3>1, <4>1, <4>2, PushTypes, Zenon
    <3>3. CASE ~(Timeout[msg'] > 0)
      BY <1>1, <3>1, <3>3, Zenon DEF TakeMessage, ListTypes, pq
    <3> QED
      BY <3>2, <3>3, Zenon
  <2>4. CallTypes'
    <3>1. UNCHANGED <<call, holds, rch, pool, got, buf>>
      BY <1>1, Zenon DEF TakeMessage, caller
    <3>2. waits' \in [Requests -> Chans \cup {Nil}]
      <4>1. waits' = waits \/ waits' = [waits EXCEPT ![msg'] = rch[msg']]
        BY <1>1, Zenon DEF TakeMessage
      <4> QED
        BY <2>2, <4>1, Zenon DEF CallTypes
    <3> QED
      BY <2>2, <3>1, <3>2, Zenon DEF CallTypes
  <2>5. GoroutineTypes'
    <3>1. UNCHANGED <<ticker, reader, answer, wire>> /\ world' \in {"hung", "write"}
      BY <1>1, Zenon DEF TakeMessage, net
    <3> QED
      BY <2>2, <2>3, <3>1, NilFacts, Zenon DEF GoroutineTypes
  <2>6. misfiled' \in BOOLEAN /\ UNCHANGED <<closed, up>>
    <3>1. UNCHANGED <<closed, up>>
      BY <1>1, Zenon DEF TakeMessage, net
    <3>2. misfiled' = misfiled \/ push(msg', now + Timeout[msg'])
      BY <1>1, Zenon DEF TakeMessage, pq
    <3>3. misfiled' \in BOOLEAN
      BY <3>2, Zenon DEF push, FlagTypes
    <3> QED
      BY <3>1, <3>3
  <2> QED
    BY <2>3, <2>4, <2>5, <2>6, Zenon DEF FlagTypes
<1>2. CASE WriteMessage
  <2>1. CallTypes' /\ ListTypes'
    BY <1>2, Zenon DEF WriteMessage, CallTypes, ListTypes, caller, pq
  <2>2. GoroutineTypes'
    BY <1>2 DEF WriteMessage, GoroutineTypes
  <2> QED
    BY <1>2, <2>1, <2>2, Zenon DEF WriteMessage, FlagTypes, pq
<1>3. CASE Activate
  <2>1. CallTypes' /\ ListTypes'
    BY <1>3, Zenon DEF Activate, CallTypes, ListTypes, caller, pq
  <2>2. GoroutineTypes'
    BY <1>3, Zenon DEF Activate, GoroutineTypes, net
  <2> QED
    BY <1>3, <2>1, <2>2, Zenon DEF Activate, FlagTypes, pq, net
<1>4. CASE StartClosing
  <2>1. CallTypes' /\ ListTypes'
    BY <1>4, Zenon DEF StartClosing, CallTypes, ListTypes, caller, pq
  <2>2. GoroutineTypes'
    BY <1>4, Zenon DEF StartClosing, GoroutineTypes, net
  <2> QED
    BY <1>4, <2>1, <2>2, Zenon DEF StartClosing, FlagTypes, pq, net
<1>5. CASE forall
  <2>1. UNCHANGED <<call, holds, rch, pool, got, sendCh, tail, deadline, now>>
    BY <1>5, Zenon DEF forall, caller
  <2>2. GoroutineTypes'
    BY <1>5, Zenon DEF forall, GoroutineTypes, net
  <2>3. CASE head = Nil
    BY <1>5, <2>1, <2>2, <2>3, Zenon DEF forall, CallTypes, ListTypes, FlagTypes, net
  <2>4. CASE head # Nil
    <3>1. head \in Requests
      BY <2>4, Zenon DEF ListTypes
    <3>2. Fail(head, "closed")
      BY <1>5, <2>4, Zenon DEF forall
    <3>3. CallTypes'
      BY <2>1, <3>1, <3>2, FailTypes, Zenon DEF CallTypes
    <3>4. ListTypes'
      BY <1>5, <2>1, <2>4, <3>1 DEF forall, ListTypes
    <3> QED
      BY <1>5, <2>2, <3>3, <3>4, Zenon DEF forall, FlagTypes, net
  <2> QED
    BY <2>3, <2>4, Zenon
<1>6. CASE EndClosing
  <2>1. CallTypes' /\ ListTypes'
    BY <1>6, Zenon DEF EndClosing, CallTypes, ListTypes, caller
  <2>2. GoroutineTypes'
    BY <1>6, Zenon DEF EndClosing, GoroutineTypes
  <2> QED
    BY <1>6, <2>1, <2>2, Zenon DEF EndClosing, FlagTypes
<1> QED
  BY <1>1, <1>2, <1>3, <1>4, <1>5, <1>6, Zenon DEF ToWorld

(* by the ticker, *)
LEMMA TickerTypes ==
    ASSUME TypeOK, Ticker
    PROVE  TypeOK'
<1> USE DEF TypeOK
<1>1. CASE Tick
  <2>1. CallTypes' /\ ListTypes'
    BY <1>1, Zenon DEF Tick, CallTypes, ListTypes, caller, pq
  <2>2. GoroutineTypes'
    BY <1>1, Zenon DEF Tick, GoroutineTypes, net
  <2> QED
    BY <1>1, <2>1, <2>2, Zenon DEF Tick, FlagTypes, pq, net
<1>2. CASE clean
  <2>1. UNCHANGED <<call, holds, rch, pool, got, sendCh, deadline, now>>
    BY <1>2, Zenon DEF clean, caller
  <2>2. GoroutineTypes'
    BY <1>2, Zenon DEF clean, GoroutineTypes, net
  <2> DEFINE panics == head = Nil \/ (now > deadline[head] /\ len > 1 /\ prev[head] = Nil)
  <2>3. CASE panics
    BY <1>2, <2>1, <2>2, <2>3, Zenon DEF clean, CallTypes, ListTypes, FlagTypes, net
  <2>4. CASE ~panics
    <3>1. head \in Requests
      BY <2>4, Zenon DEF ListTypes
    <3>2. Fail(head, "timeout")
      BY <1>2, <2>4, Zenon DEF clean
    <3>3. CallTypes'
      BY <2>1, <3>1, <3>2, FailTypes, Zenon DEF CallTypes
    <3>4. len - 1 \in Nat /\ (len # 1 => prev[head] \in Requests)
      BY <1>2, <2>4, <3>1 DEF clean, ListTypes
    <3>5. ListTypes'
      BY <1>2, <2>1, <2>4, <3>1, <3>4, Zenon DEF clean, ListTypes
    <3> QED
      BY <1>2, <2>2, <3>3, <3>5, Zenon DEF clean, FlagTypes, net
  <2> QED
    BY <2>3, <2>4, Zenon
<1>3. CASE EndTick
  <2>1. CallTypes' /\ ListTypes'
    BY <1>3, Zenon DEF EndTick, CallTypes, ListTypes, caller, pq
  <2>2. GoroutineTypes'
    BY <1>3, Zenon DEF EndTick, GoroutineTypes, net
  <2> QED
    BY <1>3, <2>1, <2>2, Zenon DEF EndTick, FlagTypes, pq, net
<1>4. CASE AwaitActivation
  <2>1. CallTypes' /\ ListTypes'
    BY <1>4, Zenon DEF AwaitActivation, CallTypes, ListTypes, caller, pq
  <2>2. GoroutineTypes'
    BY <1>4, Zenon DEF AwaitActivation, GoroutineTypes, net
  <2> QED
    BY <1>4, <2>1, <2>2, Zenon DEF AwaitActivation, FlagTypes, pq, net
<1> QED
  BY <1>1, <1>2, <1>3, <1>4, Zenon DEF Ticker

(* by the goroutine that reads *)
LEMMA FromWorldTypes ==
    ASSUME TypeOK, FromWorld
    PROVE  TypeOK'
<1> USE DEF TypeOK
<1>1. CASE ReadAnswer
  <2> DEFINE r == Head(wire)
  <2>1. r \in Requests /\ Tail(wire) \in Seq(Requests)
    BY <1>1 DEF ReadAnswer, GoroutineTypes
  <2> HIDE DEF r
  <2>2. ListTypes'
    BY <1>1, Zenon DEF ReadAnswer, ListTypes, pq
  <2>3. UNCHANGED <<call, holds, rch, pool, got, buf, sendCh, mutex, world, msg, ticker>>
    BY <1>1, Zenon DEF ReadAnswer, caller
  <2>4. wire' = Tail(wire) /\ reader = "read"
    BY <1>1, Zenon DEF ReadAnswer
  <2>5. CASE waits[r] = Nil
    <3>1. UNCHANGED <<waits, reader, answer>>
      BY <1>1, <2>5, Zenon DEF ReadAnswer, r
    <3> QED
      BY <1>1, <2>1, <2>2, <2>3, <2>4, <3>1, Zenon DEF ReadAnswer, CallTypes, GoroutineTypes, FlagTypes, pq
  <2>6. CASE waits[r] # Nil
    <3>1. /\ waits' = [waits EXCEPT ![r] = Nil]
          /\ reader' = "deliver"
          /\ answer' = [req |-> r, ch |-> waits[r]]
      BY <1>1, <2>6, Zenon DEF ReadAnswer, r
    <3>2. waits[r] \in Chans
      BY <2>1, <2>6, Zenon DEF CallTypes
    <3>3. CallTypes'
      BY <2>1, <2>3, <3>1, Zenon DEF CallTypes
    <3>4. answer' \in Answer /\ answer' # Nil
      BY <2>1, <3>1, <3>2, BrokerAssumption DEF Answer
    <3>5. GoroutineTypes'
      BY <2>1, <2>3, <2>4, <3>1, <3>4, Zenon DEF GoroutineTypes
    <3> QED
      BY <1>1, <2>2, <3>3, <3>5, Zenon DEF ReadAnswer, FlagTypes, pq
  <2> QED
    BY <2>5, <2>6, Zenon
<1>2. CASE Deliver
  <2>1. answer.req \in Requests /\ answer.ch \in Chans
    BY <1>2, Zenon DEF Deliver, GoroutineTypes, Answer
  <2>2. [req |-> answer.req, how |-> "answer"] \in Result
    BY <2>1, Zenon DEF Result
  <2>3. UNCHANGED <<call, holds, rch, pool, got, sendCh, waits>>
    BY <1>2, Zenon DEF Deliver, caller
  <2>4. CallTypes'
    BY <1>2, <2>1, <2>2, <2>3 DEF Deliver, CallTypes
  <2>5. ListTypes' /\ GoroutineTypes'
    BY <1>2, ZenonT(60) DEF Deliver, ListTypes, GoroutineTypes, pq, net
  <2> QED
    BY <1>2, <2>4, <2>5, Zenon DEF Deliver, FlagTypes, pq, net
<1>3. CASE ReadError
  <2>1. CallTypes' /\ ListTypes'
    BY <1>3, Zenon DEF ReadError, CallTypes, ListTypes, caller, pq
  <2>2. GoroutineTypes'
    BY <1>3, Zenon DEF ReadError, GoroutineTypes, net
  <2> QED
    BY <1>3, <2>1, <2>2, Zenon DEF ReadError, FlagTypes, pq, net
<1> QED
  BY <1>1, <1>2, <1>3, Zenon DEF FromWorld

(* and by the rest of the world. *)
LEMMA TypeStep == TypeOK /\ ChannelsOwned /\ [Next]_vars => TypeOK'
<1> SUFFICES ASSUME TypeOK, ChannelsOwned, [Next]_vars PROVE TypeOK'
  OBVIOUS
<1> USE DEF TypeOK
<1>1. CASE UNCHANGED vars
  <2>1. CallTypes' /\ ListTypes' /\ GoroutineTypes'
    BY <1>1 DEF vars, caller, pq, net, CallTypes, ListTypes, GoroutineTypes
  <2> QED
    BY <1>1, <2>1, Zenon DEF vars, FlagTypes, pq, net
<1>2. CASE Close
  <2>1. CallTypes' /\ ListTypes' /\ GoroutineTypes'
    BY <1>2 DEF Close, CallTypes, ListTypes, GoroutineTypes, caller, pq, net
  <2> QED
    BY <1>2, <2>1, Zenon DEF Close, FlagTypes, pq, net
<1>3. CASE NoAnswer
  <2>1. CallTypes' /\ ListTypes' /\ GoroutineTypes'
    BY <1>3 DEF NoAnswer, caller, pq, CallTypes, ListTypes, GoroutineTypes
  <2> QED
    BY <1>3, <2>1, Zenon DEF NoAnswer, FlagTypes, pq
<1>4. CASE Disconnect
  <2>1. CallTypes' /\ ListTypes' /\ GoroutineTypes'
    BY <1>4 DEF Disconnect, CallTypes, ListTypes, GoroutineTypes, caller, pq
  <2> QED
    BY <1>4, <2>1, Zenon DEF Disconnect, FlagTypes, pq
<1>5. CASE TimePasses
  <2>1. CallTypes' /\ ListTypes' /\ GoroutineTypes'
    BY <1>5 DEF TimePasses, caller, pq, net, CallTypes, ListTypes, GoroutineTypes
  <2> QED
    BY <1>5, <2>1, Zenon DEF TimePasses, FlagTypes, pq, net
<1> QED
  BY <1>1, <1>2, <1>3, <1>4, <1>5, CallerTypes, ToWorldTypes, TickerTypes, FromWorldTypes, Zenon
     DEF Next
--------------------------------------------------------------------------------------
(* Where the right to answer a request is: the invariant behind OwnAnswer and NeverBlocks,
   and the callers' steps (Send, Wait and the timeouts that leave every answer alone). *)

Asked(r) == \E i \in DOMAIN sendCh : sendCh[i] = r
Held(r) == answer # Nil /\ answer.req = r

(* The right to answer r is in the send channel ... *)
InChannel ==
    /\ \A i, j \in DOMAIN sendCh : sendCh[i] = sendCh[j] => i = j
    /\ \A r \in Requests : Asked(r) =>
          /\ call[r] \in {"waiting", "done"}
          /\ Timeout[r] > 0 => call[r] = "waiting" /\ buf[rch[r]] = << >>
          /\ waits[r] = Nil
          /\ ~Held(r)

(* ... or in waits ... *)
InWaits ==
    \A r \in Requests : waits[r] # Nil =>
        /\ call[r] = "waiting" /\ waits[r] = rch[r]
        /\ buf[rch[r]] = << >>
        /\ ~Held(r)

(* ... or with the reader ... *)
InHands ==
    answer # Nil =>
        /\ call[answer.req] = "waiting" /\ answer.ch = rch[answer.req]
        /\ buf[answer.ch] = << >>

(* ... or used. *)
InBuffer ==
    \A ch \in Chans : buf[ch] # << >> =>
        /\ Len(buf[ch]) = 1
        /\ call[buf[ch][1].req] = "waiting" /\ rch[buf[ch][1].req] = ch

OneAnswer == ChannelsOwned /\ InChannel /\ InWaits /\ InHands /\ InBuffer /\ OwnAnswer
IInv == TypeOK /\ OneAnswer
--------------------------------------------------------------------------------------
(* A channel that has got one result holds it. *)
LEMMA OneResult ==
    ASSUME NEW m
    PROVE  Append(<< >>, m) = <<m>> /\ Len(<<m>>) = 1 /\ <<m>>[1] = m
OBVIOUS

(* ... and is empty once it is taken. *)
LEMMA TakeOne ==
    ASSUME NEW S, NEW q \in Seq(S), Len(q) = 1
    PROVE  Head(q) = q[1] /\ Tail(q) = << >>
<1>1. Head(q) = q[1] /\ Tail(q) \in Seq(S) /\ Len(Tail(q)) = 0
  OBVIOUS
<1>2. \A e \in Seq(S) : Len(e) = 0 => e = << >>
  OBVIOUS
<1> QED
  BY <1>1, <1>2, Zenon

(* A new connection has no call under way. *)
LEMMA InitHolds == Init => IInv
<1> SUFFICES ASSUME Init PROVE IInv
  OBVIOUS
<1>0. CallTypes
  BY DEF Init, CallTypes
<1>6. ListTypes
  BY Zenon DEF Init, ListTypes
<1>7. GoroutineTypes
  BY DEF Init, GoroutineTypes
<1>8. FlagTypes
  BY Zenon DEF Init, FlagTypes
<1>1. TypeOK
  BY <1>0, <1>6, <1>7, <1>8, Zenon DEF TypeOK
<1>2. ChannelsOwned /\ InWaits /\ InHands
  BY NilFacts, Zenon DEF Init, ChannelsOwned, InWaits, InHands
<1>3. DOMAIN sendCh = {}
  BY DEF Init
<1>4. InChannel
  BY <1>3, Zenon DEF InChannel, Asked
<1>5. InBuffer /\ OwnAnswer
  BY Zenon DEF Init, InBuffer, OwnAnswer
<1> QED
  BY <1>1, <1>2, <1>4, <1>5, Zenon DEF IInv, OneAnswer
--------------------------------------------------------------------------------------
(* Steps of the timeouts, the connection and the clock leave every answer where it is. *)
LEMMA ElsewhereKeeps ==
    ASSUME OneAnswer, UNCHANGED <<call, rch, pool, got, buf, sendCh, waits, answer>>
    PROVE  OneAnswer'
<1> USE DEF OneAnswer
<1>1. ChannelsOwned' /\ InBuffer' /\ OwnAnswer' /\ InHands'
  BY Zenon DEF ChannelsOwned, InBuffer, OwnAnswer, InHands
<1>2. \A r \in Requests : (Asked(r)' <=> Asked(r)) /\ (Held(r)' <=> Held(r))
  BY Zenon DEF Asked, Held
<1>3. InChannel'
  BY <1>2, Zenon DEF InChannel
<1>4. InWaits'
  BY <1>2, Zenon DEF InWaits
<1> QED
  BY <1>1, <1>3, <1>4, Zenon

(* What a channel holds is the result of a request. *)
LEMMA FirstResult ==
    ASSUME TypeOK, NEW ch \in Chans, buf[ch] # << >>
    PROVE  buf[ch] \in Seq(Result) /\ buf[ch][1] \in Result /\ buf[ch][1].req \in Requests
<1>1. buf[ch] \in Seq(Result)
  BY Zenon DEF TypeOK, CallTypes
<1>2. buf[ch][1] \in Result
  BY <1>1
<1> QED
  BY <1>1, <1>2, Zenon DEF Result

(* A call takes a channel nobody has, and that is empty. *)
LEMMA SendKeeps ==
    ASSUME IInv, NEW r \in Requests, send(r)
    PROVE  OneAnswer'
<1> USE DEF IInv, OneAnswer
<1>1. /\ call[r] = "idle" /\ call' = [call EXCEPT ![r] = "sending"]
      /\ UNCHANGED <<got, buf, sendCh, waits, answer>>
  BY Zenon DEF send
<1>2. rch[r] = Nil
  BY <1>1, Zenon DEF ChannelsOwned
<1>3. \A s \in Requests : s # r => call'[s] = call[s] /\ rch'[s] = rch[s]
  BY <1>1, Zenon DEF send, TypeOK, CallTypes
<1>4. call'[r] = "sending"
  BY <1>1, Zenon DEF TypeOK, CallTypes
<1>5. ChannelsOwned'
  <2>1. CASE Timeout[r] = 0
    <3>1. UNCHANGED <<rch, pool>>
      BY <2>1, Zenon DEF send
    <3> QED
      BY <1>2, <1>3, <1>4, <2>1, <3>1 DEF ChannelsOwned
  <2>2. CASE Timeout[r] # 0
    <3>1. PICK ch \in pool : rch' = [rch EXCEPT ![r] = ch] /\ pool' = pool \ {ch}
      BY <2>2, Zenon DEF send
    <3>2. rch'[r] = ch /\ ch \in Chans /\ ch # Nil
      BY <3>1, NilFacts, Zenon DEF TypeOK, CallTypes
    <3>3. Timeout[r] > 0
      BY <2>2, NilFacts
    <3> QED
      BY <1>3, <1>4, <3>1, <3>2, <3>3 DEF ChannelsOwned
  <2> QED
    BY <2>1, <2>2, Zenon
<1>6. \A s \in Requests : (Asked(s)' <=> Asked(s)) /\ (Held(s)' <=> Held(s))
  BY <1>1, Zenon DEF Asked, Held
<1>7. InChannel'
  BY <1>1, <1>3, <1>6, Zenon DEF InChannel
<1>8. InWaits'
  BY <1>1, <1>3, <1>6, Zenon DEF InWaits
<1>9. InHands'
  BY <1>1, <1>3, Zenon DEF InHands, TypeOK, GoroutineTypes, Answer
<1>10. InBuffer'
  <2>1. \A ch \in Chans : buf[ch] # << >> => buf[ch][1].req \in Requests
    BY FirstResult, Zenon
  <2> QED
    BY <1>1, <1>3, <2>1 DEF InBuffer
<1>11. OwnAnswer'
  BY <1>1, Zenon DEF OwnAnswer
<1> QED
  BY <1>5, <1>7, <1>8, <1>9, <1>10, <1>11, Zenon

(* The message goes into the send channel once. *)
LEMMA EnqueueKeeps ==
    ASSUME IInv, NEW r \in Requests, Enqueue(r)
    PROVE  OneAnswer'
<1> USE DEF IInv, OneAnswer
<1>1. /\ call[r] = "sending" /\ sendCh' = Append(sendCh, r)
      /\ UNCHANGED <<rch, pool, got, buf, waits, answer>>
  BY Zenon DEF Enqueue
<1>2. /\ \A s \in Requests : s # r => call'[s] = call[s]
      /\ call'[r] = IF Timeout[r] = 0 THEN "done" ELSE "waiting"
  BY Zenon DEF Enqueue, TypeOK, CallTypes
<1>3. /\ sendCh \in Seq(Requests) /\ Len(sendCh) \in Nat
      /\ DOMAIN sendCh = 1 .. Len(sendCh) /\ DOMAIN sendCh' = 1 .. Len(sendCh) + 1
      /\ \A i \in 1 .. Len(sendCh) : sendCh'[i] = sendCh[i]
      /\ sendCh'[Len(sendCh) + 1] = r
  BY <1>1 DEF TypeOK, CallTypes
<1>4. /\ ~Asked(r) /\ waits[r] = Nil /\ ~Held(r)
      /\ \A ch \in Chans : buf[ch] # << >> => buf[ch][1].req # r
  BY <1>1, Zenon DEF InChannel, InWaits, InHands, InBuffer, Held
<1>5. Timeout[r] = 0 \/ (rch[r] \in Chans /\ rch[r] # Nil)
  BY <1>1, NilFacts DEF ChannelsOwned, TypeOK, CallTypes
<1>6. Timeout[r] # 0 => buf[rch[r]] = << >>
  <2> SUFFICES ASSUME Timeout[r] # 0, buf[rch[r]] # << >> PROVE FALSE
    OBVIOUS
  <2>1. rch[r] \in Chans /\ rch[r] # Nil
    BY <1>5, Zenon
  <2>2. PICK q \in Requests : q = buf[rch[r]][1].req
    BY <2>1, FirstResult, Zenon
  <2>3. call[q] = "waiting" /\ rch[q] = rch[r]
    BY <2>1, <2>2, Zenon DEF InBuffer
  <2>4. q = r
    BY <2>1, <2>3, Zenon DEF ChannelsOwned
  <2> QED
    BY <1>1, <2>3, <2>4, Zenon
<1>7. ChannelsOwned'
  <2>1. Timeout[r] = 0 => rch[r] = Nil
    BY <1>1 DEF ChannelsOwned
  <2> QED
    BY <1>1, <1>2, <1>5, <2>1, Zenon DEF ChannelsOwned
<1>8. \A s \in Requests : (Asked(s)' <=> Asked(s) \/ s = r) /\ (Held(s)' <=> Held(s))
  BY <1>1, <1>3 DEF Asked, Held
<1>9. InChannel'
  <2>1. \A i, j \in DOMAIN sendCh' : sendCh'[i] = sendCh'[j] => i = j
    BY <1>3, <1>4 DEF InChannel, Asked
  <2>2. ASSUME NEW s \in Requests, Asked(s)'
        PROVE  /\ call'[s] \in {"waiting", "done"}
               /\ Timeout[s] > 0 => call'[s] = "waiting" /\ buf'[rch'[s]] = << >>
               /\ waits'[s] = Nil
               /\ ~Held(s)'
    <3>1. CASE s = r
      BY <1>1, <1>2, <1>4, <1>6, <1>8, <3>1
    <3>2. CASE s # r
      BY <1>1, <1>2, <1>8, <2>2, <3>2, Zenon DEF InChannel
    <3> QED
      BY <3>1, <3>2, Zenon
  <2> QED
    BY <2>1, <2>2, Zenon DEF InChannel
<1>10. InWaits'
  BY <1>1, <1>2, <1>4, <1>8, Zenon DEF InWaits
<1>11. InHands'
  BY <1>1, <1>2, <1>4, Zenon DEF InHands, Held, TypeOK, GoroutineTypes, Answer
<1>12. InBuffer'
  <2>1. \A ch \in Chans : buf[ch] # << >> => buf[ch][1].req \in Requests
    BY FirstResult, Zenon
  <2> QED
    BY <1>1, <1>2, <1>4, <2>1 DEF InBuffer
<1>13. OwnAnswer'
  BY <1>1, Zenon DEF OwnAnswer
<1> QED
  BY <1>7, <1>9, <1>10, <1>11, <1>12, <1>13, Zenon

(* The result in a channel is that of the call that has it, and the last one. *)
LEMMA WaitKeeps ==
    ASSUME IInv, NEW r \in Requests, Wait(r)
    PROVE  OneAnswer'
<1> USE DEF IInv, OneAnswer
<1> DEFINE c == rch[r]
           m == buf[c][1]
<1>1. /\ call[r] = "waiting" /\ buf[c] # << >>
      /\ got' = [got EXCEPT ![r] = Head(buf[c])]
      /\ buf' = [buf EXCEPT ![c] = Tail(@)]
      /\ call' = [call EXCEPT ![r] = "done"]
      /\ pool' = pool \cup {c} \/ pool' = pool
      /\ rch' = [rch EXCEPT ![r] = Nil]
      /\ UNCHANGED <<sendCh, waits, answer>>
  BY Zenon DEF Wait
<1>2. c \in Chans /\ c # Nil
  BY <1>1, Zenon DEF ChannelsOwned, TypeOK, CallTypes
<1>3. buf[c] \in Seq(Result) /\ m \in Result /\ m.req \in Requests
  BY <1>1, <1>2, FirstResult, Zenon
<1>4. Len(buf[c]) = 1 /\ rch[m.req] = c
  BY <1>1, <1>2, Zenon DEF InBuffer
<1>5. m.req = r
  BY <1>2, <1>3, <1>4, Zenon DEF ChannelsOwned
<1>6. Head(buf[c]) = m /\ Tail(buf[c]) = << >>
  BY ONLY <1>3, <1>4, TakeOne, Zenon
<1>7. /\ \A s \in Requests : s # r => call'[s] = call[s] /\ rch'[s] = rch[s] /\ got'[s] = got[s]
      /\ call'[r] = "done" /\ rch'[r] = Nil /\ got'[r] = m
      /\ \A ch \in Chans : ch # c => buf'[ch] = buf[ch]
      /\ buf'[c] = << >>
  BY <1>1, <1>2, <1>6, Zenon DEF TypeOK, CallTypes
<1>8. /\ Asked(r) => ~(Timeout[r] > 0)
      /\ waits[r] = Nil /\ ~Held(r)
  BY <1>1, Zenon DEF InChannel, InWaits, InHands, Held
<1>9. \A s \in Requests : s # r => rch[s] # c
  BY <1>2, Zenon DEF ChannelsOwned
<1> HIDE DEF c, m
<1>10. ChannelsOwned'
  <2>1. \A s \in Requests : s # r => rch[s] # c /\ rch[s] \notin pool
    BY <1>9, Zenon DEF ChannelsOwned
  <2>2. \A s \in Requests : rch'[s] \notin pool'
    BY <1>1, <1>2, <1>7, <2>1, NilFacts, Zenon DEF TypeOK, CallTypes
  <2>3. ChannelsOwned
    BY Zenon DEF OneAnswer
  <2>4. \A s, u \in Requests : rch'[s] # Nil /\ rch'[s] = rch'[u] => s = u
    BY ONLY <1>7, <2>3 DEF ChannelsOwned
  <2>5. \A s \in Requests : call'[s] = "waiting" => rch'[s] # Nil
    BY ONLY <1>7, <2>3, ZenonT(60) DEF ChannelsOwned
  <2>6. \A s \in Requests : call'[s] = "sending" => (Timeout[s] > 0 <=> rch'[s] # Nil)
    BY ONLY <1>7, <2>3, ZenonT(60) DEF ChannelsOwned
  <2>7. \A s \in Requests : call'[s] \in {"idle", "done"} => rch'[s] = Nil
    BY ONLY <1>7, <2>3, Zenon DEF ChannelsOwned
  <2> QED
    BY ONLY <2>2, <2>4, <2>5, <2>6, <2>7, Zenon DEF ChannelsOwned
<1>11. \A s \in Requests : (Asked(s)' <=> Asked(s)) /\ (Held(s)' <=> Held(s))
  BY <1>1, Zenon DEF Asked, Held
<1>12. \A s \in Requests : s # r /\ call[s] = "waiting" => buf'[rch'[s]] = buf[rch[s]]
  <2> SUFFICES ASSUME NEW s \in Requests, s # r, call[s] = "waiting"
               PROVE  buf'[rch'[s]] = buf[rch[s]]
    OBVIOUS
  <2>1. rch[s] \in Chans /\ rch[s] # c
    BY <1>9, Zenon DEF ChannelsOwned, TypeOK, CallTypes
  <2> QED
    BY <1>7, <2>1, Zenon
<1>13. InChannel'
  <2> SUFFICES ASSUME NEW s \in Requests, Asked(s)
               PROVE  /\ call'[s] \in {"waiting", "done"}
                      /\ Timeout[s] > 0 => call'[s] = "waiting" /\ buf'[rch'[s]] = << >>
                      /\ waits[s] = Nil
                      /\ ~Held(s)
    BY <1>1, <1>11, Zenon DEF InChannel
  <2>1. /\ call[s] \in {"waiting", "done"}
        /\ Timeout[s] > 0 => call[s] = "waiting" /\ buf[rch[s]] = << >>
        /\ waits[s] = Nil
        /\ ~Held(s)
    BY Zenon DEF InChannel
  <2>2. CASE s = r
    BY <1>7, <1>8, <2>1, <2>2, Zenon
  <2>3. CASE s # r
    BY <1>7, <1>12, <2>1, <2>3, Zenon
  <2> QED
    BY <2>2, <2>3, Zenon
<1>14. InWaits'
  <2> SUFFICES ASSUME NEW s \in Requests, waits[s] # Nil
               PROVE  /\ call'[s] = "waiting" /\ waits[s] = rch'[s]
                      /\ buf'[rch'[s]] = << >> /\ ~Held(s)
    BY <1>1, <1>11, Zenon DEF InWaits
  <2>1. call[s] = "waiting" /\ waits[s] = rch[s] /\ buf[rch[s]] = << >> /\ ~Held(s)
    BY Zenon DEF InWaits
  <2>2. s # r
    BY <1>8, Zenon
  <2> QED
    BY <1>7, <1>12, <2>1, <2>2, Zenon
<1>15. InHands'
  <2> SUFFICES ASSUME answer # Nil PROVE InHands'
    BY <1>1, Zenon DEF InHands
  <2>1. answer.req \in Requests /\ answer.req # r
    BY <1>8, Zenon DEF Held, TypeOK, GoroutineTypes, Answer
  <2>2. call[answer.req] = "waiting" /\ answer.ch = rch[answer.req] /\ buf[answer.ch] = << >>
    BY Zenon DEF InHands
  <2>3. call'[answer.req] = "waiting" /\ rch'[answer.req] = rch[answer.req]
    BY <1>7, <2>1, <2>2, Zenon
  <2>4. buf'[rch'[answer.req]] = << >>
    BY <1>12, <2>1, <2>2, Zenon
  <2> QED
    BY <1>1, <2>2, <2>3, <2>4, Zenon DEF InHands
<1>16. InBuffer'
  <2> SUFFICES ASSUME NEW ch \in Chans, buf'[ch] # << >>
               PROVE  /\ Len(buf'[ch]) = 1
                      /\ call'[buf'[ch][1].req] = "waiting" /\ rch'[buf'[ch][1].req] = ch
    BY Zenon DEF InBuffer
  <2>1. ch # c /\ buf'[ch] = buf[ch]
    BY <1>7, Zenon
  <2>2. PICK q \in Requests : q = buf[ch][1].req
    BY <2>1, FirstResult, Zenon
  <2>3. Len(buf[ch]) = 1 /\ call[q] = "waiting" /\ rch[q] = ch
    BY <2>1, <2>2, Zenon DEF InBuffer
  <2>4. q # r
    BY <2>1, <2>3, Zenon DEF c
  <2> QED
    BY <1>7, <2>1, <2>2, <2>3, <2>4, Zenon
<1>17. OwnAnswer'
  BY <1>5, <1>7 DEF OwnAnswer
<1> QED
  BY <1>10, <1>13, <1>14, <1>15, <1>16, <1>17, Zenon
--------------------------------------------------------------------------------------
(* The goroutines of the connection *)

(* A call that still waits is failed once, and its channel is empty then. *)
LEMMA FailKeeps ==
    ASSUME IInv, NEW r \in Requests, NEW how \in {"timeout", "closed"}, Fail(r, how),
           UNCHANGED <<call, rch, pool, got, sendCh, answer>>
    PROVE  OneAnswer'
<1> USE DEF IInv, OneAnswer
<1>1. CASE waits[r] = Nil
  <2>1. UNCHANGED <<buf, waits>>
    BY <1>1, Zenon DEF Fail
  <2> QED
    BY <2>1, ElsewhereKeeps, Zenon
<1>2. CASE waits[r] # Nil
  <2> DEFINE c == rch[r]
             m == [req |-> r, how |-> how]
  <2>1. call[r] = "waiting" /\ waits[r] = c /\ buf[c] = << >> /\ ~Held(r) /\ ~Asked(r)
    BY <1>2, Zenon DEF InWaits, InChannel
  <2>2. c \in Chans /\ m.req = r
    BY <1>2, <2>1, Zenon DEF TypeOK, CallTypes
  <2>3. buf' = [buf EXCEPT ![c] = Append(@, m)] /\ waits' = [waits EXCEPT ![r] = Nil]
    BY <1>2, <2>1, Zenon DEF Fail
  <2> HIDE DEF m
  <2>4. Append(<< >>, m) = <<m>> /\ Len(<<m>>) = 1 /\ <<m>>[1] = m
    BY ONLY OneResult, Zenon
  <2>5. /\ \A ch \in Chans : ch # c => buf'[ch] = buf[ch]
        /\ buf'[c] = <<m>>
        /\ \A s \in Requests : s # r => waits'[s] = waits[s]
        /\ waits'[r] = Nil
    BY <2>1, <2>2, <2>3, <2>4, Zenon DEF TypeOK, CallTypes
  <2>6. \A s \in Requests : (Asked(s)' <=> Asked(s)) /\ (Held(s)' <=> Held(s))
    BY Zenon DEF Asked, Held
  <2>7. \A s \in Requests : s # r /\ call[s] = "waiting" => buf'[rch[s]] = buf[rch[s]]
    <3> SUFFICES ASSUME NEW s \in Requests, s # r, call[s] = "waiting"
                 PROVE  buf'[rch[s]] = buf[rch[s]]
      BY Zenon
    <3>1. rch[s] \in Chans /\ rch[s] # c
      BY Zenon DEF ChannelsOwned, TypeOK, CallTypes
    <3> QED
      BY ONLY <2>5, <3>1, Zenon
  <2> HIDE DEF c
  <2>8. ChannelsOwned' /\ OwnAnswer'
    BY Zenon DEF ChannelsOwned, OwnAnswer
  <2>9. InChannel'
    BY <2>1, <2>5, <2>6, <2>7, Zenon DEF InChannel
  <2>10. InWaits'
    BY <2>1, <2>5, <2>6, <2>7, Zenon DEF InWaits
  <2>11. InHands'
    <3> SUFFICES ASSUME answer # Nil PROVE InHands'
      BY Zenon DEF InHands
    <3>1. answer.req \in Requests /\ answer.req # r
      BY <2>1, Zenon DEF Held, TypeOK, GoroutineTypes, Answer
    <3> QED
      BY <2>7, <3>1, Zenon DEF InHands
  <2>12. InBuffer'
    <3> SUFFICES ASSUME NEW ch \in Chans, buf'[ch] # << >>
                 PROVE  /\ Len(buf'[ch]) = 1
                        /\ call[buf'[ch][1].req] = "waiting" /\ rch[buf'[ch][1].req] = ch
      BY Zenon DEF InBuffer
    <3>1. CASE ch = c
      BY <2>1, <2>2, <2>4, <2>5, <3>1, Zenon DEF c
    <3>2. CASE ch # c
      BY <2>5, <3>2, ZenonT(60) DEF InBuffer
    <3> QED
      BY <3>1, <3>2, Zenon
  <2> QED
    BY <2>8, <2>9, <2>10, <2>11, <2>12, Zenon
<1> QED
  BY <1>1, <1>2, Zenon

(* The reader delivers to the call that waits, whose channel is still empty. *)
LEMMA DeliverKeeps ==
    ASSUME IInv, Deliver
    PROVE  OneAnswer'
<1> USE DEF IInv, OneAnswer
<1> DEFINE r == answer.req
           c == answer.ch
           m == [req |-> r, how |-> "answer"]
<1>1. answer # Nil /\ r \in Requests /\ c \in Chans /\ Held(r)
  BY Zenon DEF Deliver, TypeOK, GoroutineTypes, Answer, Held
<1>2. /\ buf' = [buf EXCEPT ![c] = Append(@, m)] /\ answer' = Nil
      /\ UNCHANGED <<call, rch, pool, got, sendCh, waits>>
  BY Zenon DEF Deliver, caller
<1>3. call[r] = "waiting" /\ c = rch[r] /\ buf[c] = << >>
  BY <1>1, Zenon DEF InHands
<1>4. waits[r] = Nil /\ ~Asked(r)
  BY <1>1, Zenon DEF InWaits, InChannel
<1>5. m.req = r
  OBVIOUS
<1> HIDE DEF m, c, r
<1>6. Append(<< >>, m) = <<m>> /\ Len(<<m>>) = 1 /\ <<m>>[1] = m
  BY ONLY OneResult, Zenon
<1>7. /\ \A ch \in Chans : ch # c => buf'[ch] = buf[ch]
      /\ buf'[c] = <<m>>
  BY <1>1, <1>2, <1>3, <1>6, Zenon DEF TypeOK, CallTypes
<1>8. \A s \in Requests : (Asked(s)' <=> Asked(s)) /\ ~Held(s)'
  BY <1>2, Zenon DEF Asked, Held
<1>9. \A s \in Requests : s # r /\ call[s] = "waiting" => buf'[rch[s]] = buf[rch[s]]
  <2> SUFFICES ASSUME NEW s \in Requests, s # r, call[s] = "waiting"
               PROVE  buf'[rch[s]] = buf[rch[s]]
    OBVIOUS
  <2>1. rch[s] \in Chans /\ rch[s] # c
    BY <1>1, <1>3, Zenon DEF ChannelsOwned, TypeOK, CallTypes
  <2> QED
    BY <1>7, <2>1, Zenon
<1>10. ChannelsOwned' /\ OwnAnswer' /\ InHands'
  BY <1>2, Zenon DEF ChannelsOwned, OwnAnswer, InHands
<1>11. InChannel'
  BY <1>2, <1>4, <1>8, <1>9, Zenon DEF InChannel
<1>12. InWaits'
  BY <1>2, <1>4, <1>8, <1>9, Zenon DEF InWaits
<1>13. InBuffer'
  <2> SUFFICES ASSUME NEW ch \in Chans, buf'[ch] # << >>
               PROVE  /\ Len(buf'[ch]) = 1
                      /\ call[buf'[ch][1].req] = "waiting" /\ rch[buf'[ch][1].req] = ch
    BY <1>2, Zenon DEF InBuffer
  <2>1. CASE ch = c
    BY <1>3, <1>5, <1>6, <1>7, <2>1, Zenon
  <2>2. CASE ch # c
    BY <1>7, <2>2, Zenon DEF InBuffer
  <2> QED
    BY <2>1, <2>2, Zenon
<1> QED
  BY <1>10, <1>11, <1>12, <1>13, Zenon

(* The right to answer goes from the send channel to waits. *)
LEMMA TakeMessageKeeps ==
    ASSUME IInv, TakeMessage
    PROVE  OneAnswer'
<1> USE DEF IInv, OneAnswer
<1> DEFINE r == Head(sendCh)
<1>1. sendCh \in Seq(Requests) /\ sendCh # << >> /\ sendCh' = Tail(sendCh) /\ msg' = r
  BY Zenon DEF TakeMessage, TypeOK, CallTypes
<1>2. /\ r \in Requests /\ r = sendCh[1]
      /\ Len(sendCh) \in Nat /\ DOMAIN sendCh = 1 .. Len(sendCh) /\ Len(sendCh) > 0
      /\ DOMAIN sendCh' = 1 .. Len(sendCh) - 1
      /\ \A i \in 1 .. Len(sendCh) - 1 : sendCh'[i] = sendCh[i + 1]
  BY <1>1
<1>3. /\ UNCHANGED <<call, rch, pool, got, buf, answer>>
      /\ waits' = IF Timeout[r] > 0 THEN [waits EXCEPT ![r] = rch[r]] ELSE waits
  BY <1>1, Zenon DEF TakeMessage, caller
<1> HIDE DEF r
<1>4. \A i, j \in DOMAIN sendCh : sendCh[i] = sendCh[j] => i = j
  BY Zenon DEF InChannel
<1>5. Asked(r)
  BY <1>2 DEF Asked
<1>6. /\ Timeout[r] > 0 => call[r] = "waiting" /\ buf[rch[r]] = << >>
      /\ waits[r] = Nil
      /\ ~Held(r)
  BY <1>2, <1>5, Zenon DEF InChannel
<1>7. \A s \in Requests : (Asked(s)' => Asked(s) /\ s # r) /\ (Held(s)' <=> Held(s))
  <2>1. \A s \in Requests : Held(s)' <=> Held(s)
    BY <1>3, Zenon DEF Held
  <2>2. ASSUME NEW s \in Requests, Asked(s)' PROVE Asked(s) /\ s # r
    <3>1. PICK i \in 1 .. Len(sendCh) - 1 : sendCh[i + 1] = s
      BY ONLY <1>2, <2>2, Zenon DEF Asked
    <3>2. i + 1 \in DOMAIN sendCh /\ 1 \in DOMAIN sendCh /\ i + 1 # 1
      BY ONLY <1>2, i \in 1 .. Len(sendCh) - 1
    <3> QED
      BY <1>2, <1>4, <3>1, <3>2, Zenon DEF Asked
  <2> QED
    BY <2>1, <2>2, Zenon
<1>8. \A s \in Requests : s # r => waits'[s] = waits[s]
  BY <1>2, <1>3, Zenon DEF TypeOK, CallTypes
<1>9. waits'[r] = IF Timeout[r] > 0 THEN rch[r] ELSE Nil
  BY <1>2, <1>3, <1>6, Zenon DEF TypeOK, CallTypes
<1>10. ChannelsOwned' /\ InHands' /\ InBuffer' /\ OwnAnswer'
  BY <1>3, Zenon DEF ChannelsOwned, InHands, InBuffer, OwnAnswer
<1>11. InChannel'
  <2>1. \A i, j \in DOMAIN sendCh' : sendCh'[i] = sendCh'[j] => i = j
    BY <1>2, <1>4, SMTT(20)
  <2> QED
    BY <1>3, <1>7, <1>8, <2>1, Zenon DEF InChannel
<1>12. InWaits'
  BY <1>3, <1>6, <1>7, <1>8, <1>9, Zenon DEF InWaits
<1> QED
  BY <1>10, <1>11, <1>12, Zenon

(* ... and from there into the reader's hands, for an answer that somebody waits for. *)
LEMMA ReadAnswerKeeps ==
    ASSUME IInv, ReadAnswer
    PROVE  OneAnswer'
<1> USE DEF IInv, OneAnswer
<1> DEFINE r == Head(wire)
<1>1. /\ r \in Requests /\ answer = Nil
      /\ UNCHANGED <<call, rch, pool, got, buf, sendCh>>
  <2>1. wire \in Seq(Requests) /\ wire # << >> /\ answer = Nil
    BY Zenon DEF ReadAnswer, TypeOK, GoroutineTypes
  <2>2. r \in Requests
    BY ONLY <2>1 DEF r
  <2>3. UNCHANGED <<call, rch, pool, got, buf, sendCh>>
    BY Zenon DEF ReadAnswer, caller
  <2> QED
    BY <2>1, <2>2, <2>3, Zenon
<1> HIDE DEF r
<1>2. CASE waits[r] = Nil
  <2>1. UNCHANGED <<waits, answer>>
    BY <1>2, Zenon DEF ReadAnswer, r
  <2> QED
    BY <1>1, <2>1, ElsewhereKeeps, Zenon
<1>3. CASE waits[r] # Nil
  <2>1. waits' = [waits EXCEPT ![r] = Nil] /\ answer' = [req |-> r, ch |-> waits[r]]
    BY <1>3, Zenon DEF ReadAnswer, r
  <2>2. call[r] = "waiting" /\ waits[r] = rch[r] /\ buf[rch[r]] = << >> /\ ~Asked(r)
    BY <1>1, <1>3, Zenon DEF InWaits, InChannel
  <2>3. answer'.req = r /\ answer'.ch = rch[r]
    BY <2>1, <2>2, Zenon
  <2>4. waits'[r] = Nil /\ \A s \in Requests : s # r => waits'[s] = waits[s]
    BY <1>1, <2>1, Zenon DEF TypeOK, CallTypes
  <2>5. \A s \in Requests : (Asked(s)' <=> Asked(s)) /\ (Held(s)' => s = r)
    BY ONLY <1>1, <2>3, Zenon DEF Asked, Held
  <2>6. ChannelsOwned' /\ InBuffer' /\ OwnAnswer'
    BY <1>1, Zenon DEF ChannelsOwned, InBuffer, OwnAnswer
  <2>7. InChannel'
    BY <1>1, <2>2, <2>4, <2>5, ZenonT(30) DEF InChannel
  <2>8. InWaits'
    BY <1>1, <2>4, <2>5, ZenonT(30) DEF InWaits
  <2>9. InHands'
    BY <1>1, <2>2, <2>3, ZenonT(30) DEF InHands
  <2> QED
    BY <2>6, <2>7, <2>8, <2>9, Zenon
<1> QED
  BY <1>2, <1>3, Zenon
--------------------------------------------------------------------------------------
(* Every step keeps the right to answer a request in one place. *)
LEMMA StepKeeps == IInv /\ [Next]_vars => IInv'
<1> SUFFICES ASSUME IInv, [Next]_vars PROVE OneAnswer'
  BY TypeStep, Zenon DEF IInv, OneAnswer
<1>1. ASSUME NEW r \in Requests, send(r) \/ Enqueue(r) \/ Wait(r)
      PROVE  OneAnswer'
  BY <1>1, SendKeeps, EnqueueKeeps, WaitKeeps, Zenon
<1>2. CASE UNCHANGED vars \/ Close \/ NoAnswer \/ Disconnect \/ TimePasses
  BY <1>2, ElsewhereKeeps, Zenon DEF IInv, vars, Close, NoAnswer, Disconnect, TimePasses, caller
<1>3. CASE ToWorld
  <2>1. CASE WriteMessage \/ Activate \/ StartClosing \/ EndClosing
    BY <2>1, ElsewhereKeeps, Zenon DEF IInv, WriteMessage, Activate, StartClosing, EndClosing, caller
  <2>2. CASE forall
    <3>1. UNCHANGED <<call, rch, pool, got, sendCh, answer>>
      BY <2>2, Zenon DEF forall, caller
    <3>2. CASE head = Nil
      BY <2>2, <3>1, <3>2, ElsewhereKeeps, Zenon DEF forall, IInv
    <3>3. CASE head # Nil
      <4>1. head \in Requests /\ Fail(head, "closed")
        BY <2>2, <3>3, Zenon DEF forall, IInv, TypeOK, ListTypes
      <4> QED
        BY <3>1, <4>1, FailKeeps, Zenon
    <3> QED
      BY <3>2, <3>3, Zenon
  <2> QED
    BY <1>3, <2>1, <2>2, TakeMessageKeeps, Zenon DEF ToWorld
<1>4. CASE Ticker
  <2>1. CASE Tick \/ EndTick \/ AwaitActivation
    BY <2>1, ElsewhereKeeps, Zenon DEF IInv, Tick, EndTick, AwaitActivation, caller
  <2>2. CASE clean
    <3>1. UNCHANGED <<call, rch, pool, got, sendCh, answer>>
      BY <2>2, Zenon DEF clean, caller
    <3>2. CASE mutex' = "panicked"
      BY <2>2, <3>1, <3>2, ElsewhereKeeps, Zenon DEF clean, IInv
    <3>3. CASE mutex' # "panicked"
      <4>1. head \in Requests /\ Fail(head, "timeout")
        BY <2>2, <3>3, Zenon DEF clean, IInv, TypeOK, ListTypes
      <4> QED
        BY <3>1, <4>1, FailKeeps, Zenon
    <3> QED
      BY <3>2, <3>3, Zenon
  <2> QED
    BY <1>4, <2>1, <2>2, Zenon DEF Ticker
<1>5. CASE FromWorld
  <2>1. CASE ReadError
    BY <2>1, ElsewhereKeeps, Zenon DEF IInv, ReadError, caller
  <2> QED
    BY <1>5, <2>1, ReadAnswerKeeps, DeliverKeeps, Zenon DEF FromWorld
<1> QED
  BY <1>1, <1>2, <1>3, <1>4, <1>5, Zenon DEF Next

(* At most one result: the room of a result channel is never exceeded. *)
LEMMA OneAnswerNeverBlocks == IInv => NeverBlocks
<1> SUFFICES ASSUME IInv, NEW ch \in Chans PROVE Len(buf[ch]) <= 1
  BY Zenon DEF NeverBlocks
<1>1. CASE buf[ch] = << >>
  BY <1>1
<1>2. CASE buf[ch] # << >>
  <2>1. Len(buf[ch]) = 1
    BY <1>2, Zenon DEF IInv, OneAnswer, InBuffer
  <2> QED
    BY <2>1
<1> QED
  BY <1>1, <1>2, Zenon

(* IInv holds in every state of a connection (com/comclient.go, all of its goroutines). *)
LEMMA Invariance == Spec => []IInv
<1> QED
  BY InitHolds, StepKeeps, PTL DEF Spec

(* The broker's state keeps its types, whatever the timeouts and the order of the steps. *)
THEOREM BrokerTypeCorrect == Spec => []TypeOK
<1>1. IInv => TypeOK
  BY Zenon DEF IInv
<1> QED
  BY <1>1, Invariance, PTL

(* Every call returns the result of its own request, for any number of callers, channels and
   timeouts: late answers, timeouts and channels used again never mix two calls. *)
THEOREM CallsGetOwnAnswer == Spec => []OwnAnswer
<1>1. IInv => OwnAnswer
  BY Zenon DEF IInv, OneAnswer
<1> QED
  BY <1>1, Invariance, PTL

(* No goroutine ever blocks on a result channel: answer, timeout and closing race for the
   entry of waits, and only the one that removes it sends. *)
THEOREM BrokerNeverBlocks == Spec => []NeverBlocks
<1> QED
  BY OneAnswerNeverBlocks, Invariance, PTL
--------------------------------------------------------------------------------------
(* The list pq, as long as push has not put a message before the first to expire. *)

Listed(q, r) == \E i \in 1 .. len : q[i] = r

(* q is the list that head, tail, next and prev make.  forall leaves the next of a new head
   as it was. *)
Linked(q) ==
    /\ len > 0 => head = q[1] /\ tail = q[len] /\ prev[q[len]] = Nil
    /\ len > 0 /\ mutex # "world" => next[q[1]] = Nil
    /\ \A i \in 1 .. len - 1 : prev[q[i]] = q[i + 1] /\ next[q[i + 1]] = q[i]
    /\ \A r \in Requests : ~Listed(q, r) => next[r] = Nil /\ prev[r] = Nil

(* Its messages are in order of expiry. *)
InOrder(q) == \A i \in 1 .. len - 1 : deadline[q[i]] <= deadline[q[i + 1]]

(* It has every request somebody waits for, once, and none that is still to be pushed. *)
OnList(q) ==
    /\ \A i, j \in 1 .. len : q[i] = q[j] => i = j
    /\ \A r \in Requests : waits[r] # Nil => Listed(q, r)
    /\ \A r \in Requests : Listed(q, r) => call[r] \in {"waiting", "done"} /\ ~Asked(r)

IsList(q) == q \in [1 .. len -> Requests] /\ Linked(q) /\ InOrder(q) /\ OnList(q)

Sound == NeverStuck /\ \E q : IsList(q)
ListInv == ~misfiled => Sound
--------------------------------------------------------------------------------------
(* Every nonempty set of naturals has a least member: the induction that the loops over the
   list need, proved below (NaturalsHaveLeast). *)
LeastMembers == \A S \in SUBSET Nat : S # {} => \E m \in S : \A x \in S : m <= x

(* Following prev from head len times visits the list. *)
LEMMA ChainIsList ==
    ASSUME LeastMembers, TypeOK, NEW q, IsList(q)
    PROVE  Chain = q
<1> DEFINE F(c) == [i \in 1 .. len |-> IF i = 1 THEN head
                                       ELSE IF c[i - 1] = Nil THEN Nil ELSE prev[c[i - 1]]]
<1>1. /\ len \in Nat /\ q \in [1 .. len -> Requests]
      /\ len > 0 => head = q[1]
      /\ \A i \in 1 .. len - 1 : prev[q[i]] = q[i + 1]
  BY Zenon DEF TypeOK, ListTypes, IsList, Linked
<1>2. q = F(q)
  <2>1. ASSUME NEW i \in 1 .. len
        PROVE  q[i] = IF i = 1 THEN head ELSE IF q[i - 1] = Nil THEN Nil ELSE prev[q[i - 1]]
    <3>1. CASE i = 1
      BY <1>1, <3>1
    <3>2. CASE i # 1
      <4>1. i - 1 \in 1 .. len - 1 /\ (i - 1) + 1 = i /\ i - 1 \in 1 .. len
        BY <1>1, <3>2
      <4>2. q[i - 1] # Nil /\ prev[q[i - 1]] = q[i]
        BY <1>1, <4>1, NilFacts, Zenon
      <4> QED
        BY <3>2, <4>2, Zenon
    <3> QED
      BY <3>1, <3>2, Zenon
  <2> QED
    BY <1>1, <2>1, Zenon
<1>3. Chain = CHOOSE c : c = F(c)
  BY Zenon DEF Chain
<1> HIDE DEF F
<1>4. Chain = F(Chain)
  BY <1>2, <1>3, Zenon
<1>5. PICK c : c = Chain
  OBVIOUS
<1>6. \A i \in 1 .. len : c[i] = IF i = 1 THEN head ELSE IF c[i - 1] = Nil THEN Nil ELSE prev[c[i - 1]]
  BY <1>4, <1>5, Zenon DEF F
<1>7. \A i \in 1 .. len : q[i] = IF i = 1 THEN head ELSE IF q[i - 1] = Nil THEN Nil ELSE prev[q[i - 1]]
  BY <1>2, Zenon DEF F
<1>8. c = [i \in 1 .. len |-> c[i]] /\ q = [i \in 1 .. len |-> q[i]]
  BY <1>1, <1>4, <1>5, Zenon DEF F
<1> DEFINE Wrong == {i \in 1 .. len : c[i] # q[i]}
<1>9. Wrong = {}
  <2>1. SUFFICES ASSUME Wrong # {} PROVE FALSE
    BY Zenon
  <2>2. Wrong \in SUBSET Nat
    BY <1>1
  <2>3. PICK m \in Wrong : \A x \in Wrong : m <= x
    BY <2>1, <2>2, Zenon DEF LeastMembers
  <2>4. m \in 1 .. len /\ c[m] # q[m]
    BY <2>3, Zenon
  <2>5. m # 1
    BY <1>6, <1>7, <2>4, Zenon
  <2>6. m - 1 \in 1 .. len /\ ~(m <= m - 1)
    BY <1>1, <2>4, <2>5
  <2>7. c[m - 1] = q[m - 1]
    BY <2>3, <2>6, Zenon
  <2> QED
    BY <1>6, <1>7, <2>4, <2>5, <2>7
<1> QED
  BY <1>5, <1>8, <1>9, Zenon

(* push stops at the last message that does not expire after the new one, or at the head. *)
LEMMA WalkStops ==
    ASSUME LeastMembers, TypeOK, NEW q, IsList(q), mutex = "free", len > 0, NEW d \in Nat
    PROVE  \E k \in 1 .. len : /\ Walk(d) = q[k] /\ StopsAt(q[k], d)
                               /\ next[q[k]] = Nil \/ deadline[q[k]] <= d
                               /\ \A j \in 1 .. len : k < j => deadline[q[j]] > d
<1>1. /\ len \in Nat /\ q \in [1 .. len -> Requests] /\ deadline \in [Requests -> Nat]
      /\ tail = q[len] /\ next[q[1]] = Nil
      /\ \A i \in 1 .. len - 1 : next[q[i + 1]] = q[i]
  BY DEF TypeOK, ListTypes, IsList, Linked
<1>2. \A j \in 1 .. len : j # 1 => next[q[j]] = q[j - 1] /\ q[j - 1] \in Requests /\ next[q[j]] # Nil
  <2> SUFFICES ASSUME NEW j \in 1 .. len, j # 1
               PROVE  next[q[j]] = q[j - 1] /\ q[j - 1] \in Requests /\ next[q[j]] # Nil
    BY Zenon
  <2>1. j - 1 \in 1 .. len - 1 /\ (j - 1) + 1 = j /\ j - 1 \in 1 .. len
    BY <1>1
  <2> QED
    BY <1>1, <2>1, NilFacts
<1>3. \A j \in 1 .. len : StopsAt(q[j], d) <=> j = 1 \/ deadline[q[j]] <= d
  BY <1>1, <1>2, Zenon DEF StopsAt
<1> DEFINE Stops == {i \in 0 .. len - 1 : StopsAt(q[len - i], d)}
<1>4. Stops \in SUBSET Nat /\ len - 1 \in Stops
  BY <1>1, <1>3
<1>5. PICK m \in Stops : \A x \in Stops : m <= x
  BY <1>4, Zenon DEF LeastMembers
<1>6. PICK k : k = len - m
  OBVIOUS
<1>7. m \in 0 .. len - 1 /\ m \in Nat /\ k \in 1 .. len /\ StopsAt(q[k], d) /\ len - k = m
  BY <1>1, <1>5, <1>6
<1>7a. len \in Nat /\ m \in Nat /\ k \in Nat /\ k > 0 /\ m + k = len
  BY <1>1, <1>7
<1>8. ASSUME NEW j \in 1 .. len, k < j
      PROVE  ~StopsAt(q[j], d) /\ j # 1 /\ deadline[q[j]] > d
  <2>1. len - j \in 0 .. len - 1 /\ len - (len - j) = j /\ ~(m <= len - j) /\ j # 1
    BY <1>1, <1>7, <1>8
  <2>2. len - j \notin Stops
    BY <1>5, <2>1, Zenon
  <2>3. ~StopsAt(q[j], d)
    BY <2>1, <2>2
  <2> QED
    BY <1>1, <1>3, <2>1, <2>3
<1> HIDE DEF Stops
<1> DEFINE F(w) == [i \in 0 .. len |-> IF i = 0 THEN tail
                                       ELSE IF StopsAt(w[i - 1], d) THEN w[i - 1]
                                       ELSE next[w[i - 1]]]
           t == [i \in 0 .. len |-> IF i <= m THEN q[len - i] ELSE q[k]]
           w == CHOOSE f : f = F(f)
<1>9. t = F(t)
  <2>1. ASSUME NEW i \in 0 .. len
        PROVE  t[i] = IF i = 0 THEN tail ELSE IF StopsAt(t[i - 1], d) THEN t[i - 1] ELSE next[t[i - 1]]
    <3>1. CASE i = 0
      <4>1. i <= m /\ len - i = len
        BY <1>1, <1>7, <3>1
      <4> QED
        BY <1>1, <3>1, <4>1
    <3>2. CASE i # 0 /\ i <= m
      <4>1. /\ i - 1 \in 0 .. len /\ i - 1 <= m /\ len - (i - 1) \in 1 .. len
            /\ k < len - (i - 1) /\ (len - (i - 1)) - 1 = len - i /\ len - (i - 1) # 1
        BY ONLY <1>7a, <3>2, i \in 0 .. len
      <4>2. t[i - 1] = q[len - (i - 1)] /\ t[i] = q[len - i]
        BY <3>2, <4>1, Zenon
      <4>3. ~StopsAt(q[len - (i - 1)], d) /\ next[q[len - (i - 1)]] = q[len - i]
        BY <1>2, <1>8, <4>1
      <4> QED
        BY <3>2, <4>2, <4>3
    <3>3. CASE i # 0 /\ ~(i <= m)
      <4>1. i - 1 \in 0 .. len /\ (i - 1 <= m => i - 1 = m)
        BY <1>1, <1>7, <3>3
      <4>2. t[i] = q[k] /\ t[i - 1] = q[k]
        BY <1>6, <3>3, <4>1
      <4> QED
        BY <1>7, <3>3, <4>2, Zenon
    <3> QED
      BY <3>1, <3>2, <3>3
  <2>2. t = [i \in 0 .. len |-> t[i]]
    BY Zenon
  <2> HIDE DEF t
  <2> QED
    BY <2>1, <2>2, Zenon
<1>10. Walk(d) = w[len]
  BY Zenon DEF Walk
<1>11. t[len] = q[k]
  BY <1>1, <1>7
<1>12. \A i \in 0 .. len : t[i] = IF i = 0 THEN tail
                                  ELSE IF StopsAt(t[i - 1], d) THEN t[i - 1] ELSE next[t[i - 1]]
  <2> HIDE DEF t
  <2> QED
    BY <1>9, Zenon
<1> HIDE DEF F, t
<1>13. w = F(w)
  BY <1>9, Zenon
<1> HIDE DEF w
<1>14. \A i \in 0 .. len : w[i] = IF i = 0 THEN tail
                                  ELSE IF StopsAt(w[i - 1], d) THEN w[i - 1] ELSE next[w[i - 1]]
  BY <1>13, Zenon DEF F
<1> DEFINE Wrong == {i \in 0 .. len : w[i] # t[i]}
<1>15. Wrong = {}
  <2>1. SUFFICES ASSUME Wrong # {} PROVE FALSE
    OBVIOUS
  <2>2. Wrong \in SUBSET Nat
    BY <1>1
  <2>3. PICK n \in Wrong : \A x \in Wrong : n <= x
    BY <2>1, <2>2, Zenon DEF LeastMembers
  <2>4. n \in 0 .. len /\ w[n] # t[n]
    BY <2>3, Zenon
  <2>5. n # 0
    BY <1>12, <1>14, <2>4, Zenon
  <2>6. n - 1 \in 0 .. len /\ ~(n <= n - 1)
    BY <1>1, <2>4, <2>5
  <2>7. w[n - 1] = t[n - 1]
    BY <2>3, <2>6, Zenon
  <2> QED
    BY <1>12, <1>14, <2>4, <2>5, <2>7, Zenon
<1>16. Walk(d) = q[k]
  <2>1. len \in 0 .. len
    BY <1>1
  <2>2. w[len] = t[len]
    BY <1>15, <2>1, Zenon
  <2> QED
    BY <1>10, <1>11, <2>2, Zenon
<1> QED
  BY <1>7, <1>8, <1>16, Zenon DEF StopsAt
--------------------------------------------------------------------------------------
(* What push and the two loops that empty the list do to it. *)

Inserted(q, k, r) ==
    [i \in 1 .. len + 1 |-> IF i <= k THEN q[i] ELSE IF i = k + 1 THEN r ELSE q[i - 1]]
Shorter(q) == [i \in 1 .. len - 1 |-> q[i + 1]]

(* push links a message behind the last that does not expire after it, and does not hang. *)
LEMMA PushInserts ==
    ASSUME LeastMembers, TypeOK, NEW q, IsList(q), mutex = "free",
           NEW r \in Requests, ~Listed(q, r), NEW d \in Nat,
           push(r, d), ~misfiled'
    PROVE  /\ mutex' = "free" /\ len' = len + 1 /\ deadline' = [deadline EXCEPT ![r] = d]
           /\ \E k \in 0 .. len : /\ k > 0 => deadline[q[k]] <= d
                                  /\ k < len => d <= deadline[q[k + 1]]
                                  /\ \E n : n = Inserted(q, k, r) /\ Linked(n)'
<1>1. /\ len \in Nat /\ q \in [1 .. len -> Requests]
      /\ next \in [Requests -> Requests \cup {Nil}] /\ prev \in [Requests -> Requests \cup {Nil}]
      /\ deadline \in [Requests -> Nat]
  BY Zenon DEF TypeOK, ListTypes, IsList
<1>2. /\ \A i \in 1 .. len : q[i] # r
      /\ \A i, j \in 1 .. len : q[i] = q[j] => i = j
  BY Zenon DEF Listed, IsList, OnList
<1>3. /\ len > 0 => head = q[1] /\ tail = q[len] /\ prev[q[len]] = Nil /\ next[q[1]] = Nil
      /\ \A i \in 1 .. len - 1 : prev[q[i]] = q[i + 1] /\ next[q[i + 1]] = q[i]
      /\ \A s \in Requests : ~Listed(q, s) => next[s] = Nil /\ prev[s] = Nil
  BY Zenon DEF IsList, Linked
<1>4. len' = len + 1 /\ deadline' = [deadline EXCEPT ![r] = d]
  BY Zenon DEF push
<1>5. CASE len = 0
  <2>1. head' = r /\ tail' = r /\ UNCHANGED <<next, prev, mutex>> /\ len' = 1
    BY <1>5 DEF push
  <2>2. next[r] = Nil /\ prev[r] = Nil
    BY <1>3, Zenon
  <2>3. PICK n : n = Inserted(q, 0, r)
    OBVIOUS
  <2>4. n[1] = r
    BY <1>5, <2>3 DEF Inserted
  <2>5. \A s \in Requests : s = r => Listed(n, s)'
    BY <2>1, <2>4 DEF Listed
  <2>6. \A s \in Requests : ~Listed(q, s)
    BY <1>5 DEF Listed
  <2>7. Linked(n)'
    BY <1>3, <2>1, <2>2, <2>4, <2>5, <2>6 DEF Linked
  <2> QED
    BY <1>4, <1>5, <2>1, <2>3, <2>7
<1>6. CASE len # 0
  <2>0. len > 0 /\ 1 \in 1 .. len /\ len \in 1 .. len
    BY <1>1, <1>6
  <2>1. PICK k \in 1 .. len : /\ Walk(d) = q[k] /\ StopsAt(q[k], d)
                              /\ next[q[k]] = Nil \/ deadline[q[k]] <= d
                              /\ \A j \in 1 .. len : k < j => deadline[q[j]] > d
    BY <2>0, WalkStops, Zenon
  <2>2. PICK x, p, n : x = q[k] /\ p = prev[x] /\ n = Inserted(q, k, r)
    BY Zenon
  <2>3. ~(next[x] = Nil /\ deadline[x] > d)
    BY <2>0, <2>1, <2>2, Zenon DEF push
  <2>4. /\ UNCHANGED <<head, mutex>>
        /\ tail' = IF p = Nil THEN r ELSE tail
        /\ next' = IF p = Nil THEN [next EXCEPT ![x] = @, ![r] = x]
                   ELSE [next EXCEPT ![x] = @, ![r] = x, ![p] = r]
        /\ prev' = [prev EXCEPT ![x] = r, ![r] = p]
    BY <1>6, <2>1, <2>2, <2>3, Zenon DEF push
  <2>5. deadline[x] <= d /\ x \in Requests /\ x # r /\ k \in Nat /\ k > 0
    BY <1>1, <1>2, <2>1, <2>2, <2>3
  <2>6. /\ k = len => p = Nil
        /\ k # len => k + 1 \in 1 .. len /\ p = q[k + 1] /\ p # Nil /\ p \in Requests /\ p # r /\ p # x
    <3>1. ASSUME k # len
          PROVE  k + 1 \in 1 .. len /\ p = q[k + 1] /\ p # Nil /\ p \in Requests /\ p # r /\ p # x
      <4>1. k \in 1 .. len - 1 /\ k + 1 \in 1 .. len /\ k + 1 # k
        BY <1>1, <2>1, <3>1
      <4>2. p = q[k + 1]
        BY <1>3, <2>2, <4>1, Zenon
      <4>3. q[k + 1] \in Requests /\ q[k + 1] # r /\ q[k + 1] # q[k]
        BY <1>1, <1>2, <4>1, Zenon
      <4> QED
        BY <2>2, <4>1, <4>2, <4>3, NilFacts, Zenon
    <3>2. k = len => p = Nil
      BY <1>3, <2>0, <2>2
    <3> QED
      BY <3>1, <3>2
  <2>7. /\ \A s \in Requests : s # r /\ s # p => next'[s] = next[s]
        /\ \A s \in Requests : s # r /\ s # x => prev'[s] = prev[s]
        /\ next'[r] = x /\ prev'[r] = p /\ prev'[x] = r
        /\ k # len => next'[p] = r
    <3>1. \A s \in Requests : s # r /\ s # p => next'[s] = next[s]
      BY <1>1, <2>4, Zenon
    <3>2. \A s \in Requests : s # r /\ s # x => prev'[s] = prev[s]
      BY <1>1, <2>4, Zenon
    <3>3. prev'[r] = p /\ prev'[x] = r
      BY <1>1, <2>4, <2>5, Zenon
    <3>4. next'[r] = x
      <4>1. p # r
        BY <2>6, NilFacts, Zenon
      <4> QED
        BY <1>1, <2>4, <4>1, Zenon
    <3>5. k # len => next'[p] = r
      BY <1>1, <2>4, <2>6, Zenon
    <3> QED
      BY <3>1, <3>2, <3>3, <3>4, <3>5
  <2>8. /\ \A i \in 1 .. k : n[i] = q[i] /\ i \in 1 .. len
        /\ n[k + 1] = r
        /\ \A i \in k + 1 .. len : n[i + 1] = q[i] /\ i \in 1 .. len
    BY <1>1, <2>1, <2>2 DEF Inserted
  <2>9. head' = n[1] /\ tail' = n[len'] /\ prev'[n[len']] = Nil /\ next'[n[1]] = Nil
    <3>1. n[1] = q[1] /\ q[1] \in Requests /\ q[1] # r
      BY <1>1, <1>2, <2>0, <2>5, <2>8
    <3>2. q[1] # p
      <4>1. CASE k = len
        BY <2>6, <3>1, <4>1, NilFacts, Zenon
      <4>2. CASE k # len
        <5>1. k + 1 # 1
          BY <2>5
        <5>2. k + 1 \in 1 .. len /\ p = q[k + 1]
          BY <2>6, <4>2, Zenon
        <5> QED
          BY <1>2, <2>0, <5>1, <5>2, Zenon
      <4> QED
        BY <4>1, <4>2, Zenon
    <3>3. head' = n[1] /\ next'[n[1]] = Nil
      <4>1. head' = q[1] /\ next[q[1]] = Nil
        BY <1>3, <2>0, <2>4, Zenon
      <4>2. next'[q[1]] = next[q[1]]
        BY <2>7, <3>1, <3>2, Zenon
      <4> QED
        BY <3>1, <4>1, <4>2, Zenon
    <3>4. CASE k = len
      BY <1>4, <2>4, <2>6, <2>7, <2>8, <3>3, <3>4, Zenon
    <3>5. CASE k # len
      <4>1. len \in k + 1 .. len
        BY <1>1, <2>1, <3>5
      <4>2. n[len + 1] = q[len] /\ q[len] # x /\ q[len] # r /\ q[len] \in Requests
        BY <1>1, <1>2, <2>0, <2>1, <2>2, <2>8, <3>5, <4>1, Zenon
      <4>3. tail' = q[len] /\ prev'[q[len]] = Nil
        BY <1>3, <2>0, <2>4, <2>6, <2>7, <3>5, <4>2, Zenon
      <4> QED
        BY <1>4, <3>3, <4>2, <4>3, Zenon
    <3> QED
      BY <3>4, <3>5
  <2>10. \A i \in 1 .. len : prev'[n[i]] = n[i + 1] /\ next'[n[i + 1]] = n[i]
    <3> SUFFICES ASSUME NEW i \in 1 .. len PROVE prev'[n[i]] = n[i + 1] /\ next'[n[i + 1]] = n[i]
      BY Zenon
    <3>0. q[i] \in Requests /\ q[i] # r
      BY <1>1, <1>2, Zenon
    <3>1. CASE i < k
      <4>1. /\ i \in 1 .. k /\ i + 1 \in 1 .. k /\ i \in 1 .. len - 1 /\ i + 1 \in 1 .. len
            /\ i # k /\ i + 1 # k + 1
        BY <1>1, <2>1, <3>1
      <4>2. /\ n[i] = q[i] /\ n[i + 1] = q[i + 1] /\ q[i] # x /\ q[i + 1] \in Requests
            /\ q[i + 1] # r /\ prev[q[i]] = q[i + 1] /\ next[q[i + 1]] = q[i]
        BY <1>1, <1>2, <1>3, <2>2, <2>8, <4>1, Zenon
      <4>3. q[i + 1] # p
        BY <1>2, <2>6, <4>1, <4>2, NilFacts, Zenon
      <4> QED
        BY <2>7, <3>0, <4>2, <4>3, Zenon
    <3>2. CASE i = k
      <4>1. k \in 1 .. k
        BY <2>5
      <4> QED
        BY <2>2, <2>7, <2>8, <3>2, <4>1, Zenon
    <3>3. CASE i = k + 1
      <4>1. i \in k + 1 .. len /\ k # len
        BY <1>1, <2>1, <3>3
      <4>2. n[i] = r /\ n[i + 1] = p
        BY <2>6, <2>8, <3>3, <4>1, Zenon
      <4> QED
        BY <2>7, <4>1, <4>2, Zenon
    <3>4. CASE i > k + 1
      <4>1. /\ i \in k + 1 .. len /\ i - 1 \in k + 1 .. len /\ (i - 1) + 1 = i
            /\ i - 1 \in 1 .. len - 1 /\ i - 1 \in 1 .. len /\ i - 1 # k /\ i # k + 1
        BY <1>1, <2>1, <3>4
      <4>2. /\ n[i] = q[i - 1] /\ n[i + 1] = q[i] /\ q[i - 1] # x /\ q[i - 1] # r
            /\ q[i - 1] \in Requests /\ prev[q[i - 1]] = q[i] /\ next[q[i]] = q[i - 1]
        <5>1. n[i] = q[i - 1] /\ n[i + 1] = q[i]
          BY <2>8, <4>1, Zenon
        <5>2. q[i - 1] \in Requests /\ q[i - 1] # x /\ q[i - 1] # r
          BY <1>1, <1>2, <2>1, <2>2, <4>1, Zenon
        <5>3. prev[q[i - 1]] = q[i] /\ next[q[i]] = q[i - 1]
          BY <1>3, <4>1, Zenon
        <5> QED
          BY <5>1, <5>2, <5>3
      <4>3. q[i] # p
        BY <1>2, <2>6, <3>0, <4>1, NilFacts, Zenon
      <4> QED
        BY <2>7, <3>0, <4>2, <4>3, Zenon
    <3> QED
      BY <1>1, <2>1, <3>1, <3>2, <3>3, <3>4
  <2>11. \A s \in Requests : Listed(q, s) \/ s = r => Listed(n, s)'
    <3> SUFFICES ASSUME NEW s \in Requests, Listed(q, s) \/ s = r
                 PROVE  \E i \in 1 .. len + 1 : n[i] = s
      BY <1>4, Zenon DEF Listed
    <3>1. CASE s = r
      BY <1>1, <2>1, <2>8, <3>1
    <3>2. CASE Listed(q, s)
      <4>1. PICK i \in 1 .. len : q[i] = s
        BY <3>2, Zenon DEF Listed
      <4>2. i \in 1 .. k \/ i \in k + 1 .. len
        BY <1>1, <2>1
      <4>3. i \in 1 .. len + 1 /\ i + 1 \in 1 .. len + 1
        BY <1>1
      <4> QED
        BY <2>8, <4>1, <4>2, <4>3, Zenon
    <3> QED
      BY <3>1, <3>2, Zenon
  <2>12. \A s \in Requests : ~Listed(n, s)' => next'[s] = Nil /\ prev'[s] = Nil
    <3>1. Listed(q, x) /\ (p = Nil \/ Listed(q, p))
      BY <2>1, <2>2, <2>6, Zenon DEF Listed
    <3>2. ASSUME NEW s \in Requests, ~Listed(n, s)'
          PROVE  s # r /\ s # x /\ s # p /\ ~Listed(q, s)
      BY <2>11, <3>1, <3>2, NilFacts, Zenon
    <3> QED
      BY <1>3, <2>7, <3>2, Zenon
  <2>13. Linked(n)'
    <3>1. len' - 1 = len
      BY <1>1, <1>4
    <3> QED
      BY <2>9, <2>10, <2>12, <3>1, Zenon DEF Linked
  <2>14. k < len => d <= deadline[q[k + 1]]
    <3>1. ASSUME k < len PROVE d <= deadline[q[k + 1]]
      <4>1. k + 1 \in 1 .. len /\ k < k + 1
        BY <1>1, <2>1, <3>1
      <4>2. deadline[q[k + 1]] > d /\ deadline[q[k + 1]] \in Nat
        BY <1>1, <2>1, <4>1, Zenon
      <4> QED
        BY <4>2
    <3> QED
      BY <3>1
  <2>15. k \in 0 .. len
    BY <1>1, <2>1
  <2> QED
    BY <1>4, <2>2, <2>4, <2>5, <2>13, <2>14, <2>15, Zenon
<1> QED
  BY <1>5, <1>6, Zenon

(* forall and clean take the head off the list; clean also clears the next of the new one. *)
LEMMA PopShifts ==
    ASSUME TypeOK, NEW q, IsList(q), len > 0,
           len' = len - 1,
           len > 1 => head' = prev[head] /\ tail' = tail,
           prev' = [prev EXCEPT ![head] = Nil],
           \/ mutex' = "world" /\ next' = [next EXCEPT ![head] = Nil]
           \/ len > 1 /\ next' = [next EXCEPT ![head] = Nil, ![prev[head]] = Nil]
           \/ len = 1 /\ next' = [next EXCEPT ![head] = Nil]
    PROVE  \E n : n = Shorter(q) /\ Linked(n)'
<1> PICK n : n = Shorter(q)
  OBVIOUS
<1>1. /\ len \in Nat /\ q \in [1 .. len -> Requests]
      /\ next \in [Requests -> Requests \cup {Nil}] /\ prev \in [Requests -> Requests \cup {Nil}]
  BY Zenon DEF TypeOK, ListTypes, IsList
<1>2. \A i, j \in 1 .. len : q[i] = q[j] => i = j
  BY Zenon DEF IsList, OnList
<1>3. \A i \in 1 .. len - 1 : n[i] = q[i + 1] /\ i + 1 \in 1 .. len
  BY <1>1 DEF Shorter
<1>4. /\ head = q[1] /\ tail = q[len] /\ prev[q[len]] = Nil /\ head \in Requests
      /\ \A i \in 1 .. len - 1 : prev[q[i]] = q[i + 1] /\ next[q[i + 1]] = q[i]
      /\ \A s \in Requests : ~Listed(q, s) => next[s] = Nil /\ prev[s] = Nil
  BY <1>1 DEF IsList, Linked
<1>5. ASSUME NEW s \in Requests, Listed(q, s), s # head
      PROVE  Listed(n, s)'
  <2>1. PICK i \in 1 .. len : q[i] = s
    BY <1>5, Zenon DEF Listed
  <2>2. i - 1 \in 1 .. len - 1 /\ (i - 1) + 1 = i
    BY <1>1, <1>4, <1>5, <2>1
  <2>3. n[i - 1] = s
    BY <1>3, <2>1, <2>2, Zenon
  <2> QED
    BY <2>2, <2>3, Zenon DEF Listed
<1>6. /\ prev'[head] = Nil /\ next'[head] = Nil
      /\ \A s \in Requests : s # head => prev'[s] = prev[s] /\ next'[s] \in {next[s], Nil}
      /\ \A s \in Requests : s # head /\ s # prev[head] => next'[s] = next[s]
      /\ mutex' # "world" /\ len > 1 /\ prev[head] \in Requests => next'[prev[head]] = Nil
  BY <1>1, <1>4
<1>7. \A i \in 1 .. len - 1 : n[i] \in Requests /\ n[i] # head
  BY <1>1, <1>2, <1>3, <1>4
<1>8. ASSUME len' > 0
      PROVE  /\ head' = n[1] /\ tail' = n[len'] /\ prev'[n[len']] = Nil
             /\ mutex' # "world" => next'[n[1]] = Nil
  <2>1. len > 1 /\ 1 \in 1 .. len - 1 /\ len - 1 \in 1 .. len - 1 /\ (len - 1) + 1 = len
    BY <1>1, <1>8
  <2>2. prev[head] = q[2] /\ n[1] = q[2] /\ n[len - 1] = q[len]
    BY <1>3, <1>4, <2>1
  <2> QED
    BY <1>4, <1>6, <1>7, <2>1, <2>2
<1>9. ASSUME NEW i \in 1 .. len' - 1
      PROVE  prev'[n[i]] = n[i + 1] /\ next'[n[i + 1]] = n[i]
  <2>1. /\ i \in 1 .. len - 1 /\ i + 1 \in 1 .. len - 1 /\ 1 \in 1 .. len - 1 
        /\ i + 1 # 1 /\ 2 \in 1 .. len /\ (i + 1) + 1 # 2 /\ (i + 1) + 1 \in 1 .. len
    BY <1>1, <1>9
  <2>2. n[i] = q[i + 1] /\ n[i + 1] = q[(i + 1) + 1] /\ prev[head] = q[2]
    BY <1>3, <1>4, <2>1
  <2>3. prev[q[i + 1]] = q[(i + 1) + 1] /\ next[q[(i + 1) + 1]] = q[i + 1]
    BY <1>4, <2>1, Zenon
  <2>4. q[(i + 1) + 1] # q[2]
    BY <1>2, <2>1, Zenon
  <2> QED
    BY <1>6, <1>7, <2>1, <2>2, <2>3, <2>4
<1>10. ASSUME NEW s \in Requests, ~Listed(n, s)'
       PROVE  next'[s] = Nil /\ prev'[s] = Nil
  BY <1>4, <1>5, <1>6, <1>10, ZenonT(60)
<1>11. Linked(n)'
  BY <1>8, <1>9, <1>10, Zenon DEF Linked
<1> QED
  BY <1>11, Zenon
--------------------------------------------------------------------------------------
(* Steps that leave the list alone: nothing new is waited for, what is listed stays taken
   from the send channel, and the mutex does not leave the hands of forall early. *)
LEMMA SameList ==
    ASSUME TypeOK, NEW q, IsList(q),
           UNCHANGED <<len, next, prev, deadline>>, len > 0 => UNCHANGED <<head, tail>>,
           mutex' # "world" => mutex # "world" \/ len = 0,
           \A r \in Requests : waits'[r] # Nil => waits[r] # Nil,
           \A r \in Requests : Listed(q, r) => call'[r] \in {"waiting", "done"} /\ ~Asked(r)'
    PROVE  IsList(q)'
<1>1. \A r : Listed(q, r)' <=> Listed(q, r)
  BY Zenon DEF Listed
<1>2. q \in [1 .. len -> Requests]' /\ Linked(q)'
  BY <1>1 DEF IsList, Linked
<1>3. OnList(q)'
  BY <1>1, Zenon DEF IsList, OnList
<1>4. InOrder(q)'
  BY Zenon DEF IsList, InOrder
<1> QED
  BY <1>2, <1>3, <1>4, Zenon DEF IsList

(* The head leaves the list and is no longer waited for. *)
LEMMA PopKeeps ==
    ASSUME TypeOK, NEW q, IsList(q), len > 0,
           len' = len - 1,
           len > 1 => head' = prev[head] /\ tail' = tail,
           prev' = [prev EXCEPT ![head] = Nil],
           \/ mutex' = "world" /\ next' = [next EXCEPT ![head] = Nil]
           \/ len > 1 /\ next' = [next EXCEPT ![head] = Nil, ![prev[head]] = Nil]
           \/ len = 1 /\ next' = [next EXCEPT ![head] = Nil],
           NEW how, Fail(head, how), UNCHANGED <<call, sendCh, deadline>>
    PROVE  \E n : IsList(n)'
<1>1. PICK n : n = Shorter(q) /\ Linked(n)'
  BY PopShifts, Zenon
<1>2. /\ len \in Nat /\ q \in [1 .. len -> Requests] /\ head = q[1] /\ head \in Requests
      /\ waits \in [Requests -> Chans \cup {Nil}]
  BY DEF TypeOK, ListTypes, CallTypes, IsList, Linked
<1>3. /\ \A i \in 1 .. len - 1 : n[i] = q[i + 1] /\ i + 1 \in 1 .. len
      /\ n \in [1 .. len - 1 -> Requests]
  BY <1>1, <1>2 DEF Shorter
<1>4. /\ \A i, j \in 1 .. len : q[i] = q[j] => i = j
      /\ \A r \in Requests : waits[r] # Nil => Listed(q, r)
      /\ \A r \in Requests : Listed(q, r) => call[r] \in {"waiting", "done"} /\ ~Asked(r)
  BY Zenon DEF IsList, OnList
<1>5. \A r \in Requests : Listed(n, r)' => Listed(q, r)
  BY <1>3, Zenon DEF Listed
<1>6. ASSUME NEW r \in Requests, Listed(q, r), r # head
      PROVE  Listed(n, r)'
  <2>1. PICK i \in 1 .. len : q[i] = r
    BY <1>6, Zenon DEF Listed
  <2>2. i - 1 \in 1 .. len - 1 /\ (i - 1) + 1 = i
    BY <1>2, <1>6, <2>1
  <2>3. n[i - 1] = r
    BY <1>3, <2>1, <2>2, Zenon
  <2> QED
    BY <2>2, <2>3, Zenon DEF Listed
<1>7. \A r \in Requests : waits'[r] # Nil => waits[r] # Nil /\ r # head
  BY <1>2, Zenon DEF Fail
<1>8. OnList(n)'
  <2>1. \A i, j \in 1 .. len' : n[i] = n[j] => i = j
    <3> SUFFICES ASSUME NEW i \in 1 .. len - 1, NEW j \in 1 .. len - 1, n[i] = n[j] PROVE i = j
      OBVIOUS
    <3>1. i + 1 = j + 1
      BY <1>3, <1>4
    <3> QED
      BY <1>2, <3>1
  <2>2. \A r \in Requests : Asked(r)' <=> Asked(r)
    BY Zenon DEF Asked
  <2> QED
    BY <1>4, <1>5, <1>6, <1>7, <2>1, <2>2, Zenon DEF OnList
<1>9. InOrder(n)'
  <2>1. \A i \in 1 .. len - 1 : deadline[q[i]] <= deadline[q[i + 1]]
    BY Zenon DEF IsList, InOrder
  <2>2. ASSUME NEW i \in 1 .. len' - 1
        PROVE  deadline[n[i]] <= deadline[n[i + 1]]
    <3>1. i \in 1 .. len - 1 /\ i + 1 \in 1 .. len - 1
      BY <1>2
    <3> QED
      BY <1>3, <2>1, <3>1, Zenon
  <2> QED
    BY <2>2, Zenon DEF InOrder
<1> QED
  BY <1>1, <1>3, <1>8, <1>9, Zenon DEF IsList

(* A message taken from the send channel takes its place in the list. *)
LEMMA TakeMessageLists ==
    ASSUME LeastMembers, IInv, NEW q, IsList(q), TakeMessage, ~misfiled'
    PROVE  mutex' = "free" /\ \E n : IsList(n)'
<1> USE DEF IInv, OneAnswer
<1> DEFINE m == Head(sendCh)
<1>1. sendCh \in Seq(Requests) /\ sendCh # << >> /\ sendCh' = Tail(sendCh) /\ msg' = m
  BY Zenon DEF TakeMessage, TypeOK, CallTypes
<1>2. /\ m \in Requests /\ m = sendCh[1]
      /\ Len(sendCh) \in Nat /\ DOMAIN sendCh = 1 .. Len(sendCh) /\ Len(sendCh) > 0
      /\ DOMAIN sendCh' = 1 .. Len(sendCh) - 1
      /\ \A i \in 1 .. Len(sendCh) - 1 : sendCh'[i] = sendCh[i + 1]
  BY <1>1
<1>3. /\ mutex = "free" /\ UNCHANGED <<call, now>>
      /\ Timeout[m] > 0 => push(m, now + Timeout[m]) /\ waits' = [waits EXCEPT ![m] = rch[m]]
      /\ ~(Timeout[m] > 0) => UNCHANGED <<mutex, len, head, tail, next, prev, deadline, waits>>
  BY <1>1, Zenon DEF TakeMessage, caller, pq
<1> HIDE DEF m
<1> PICK r : r = m
  OBVIOUS
<1>4. \A i, j \in DOMAIN sendCh : sendCh[i] = sendCh[j] => i = j
  BY Zenon DEF InChannel
<1>5. Asked(r) /\ call[r] \in {"waiting", "done"}
  BY <1>2 DEF Asked, InChannel
<1>6. ASSUME NEW s \in Requests, Asked(s)' PROVE Asked(s) /\ s # r
  <2>1. PICK i \in 1 .. Len(sendCh) - 1 : sendCh[i + 1] = s
    BY ONLY <1>2, <1>6 DEF Asked
  <2>2. i + 1 \in DOMAIN sendCh /\ 1 \in DOMAIN sendCh /\ i + 1 # 1
    BY ONLY <1>2, i \in 1 .. Len(sendCh) - 1
  <2> QED
    BY <1>2, <1>4, <2>1, <2>2, Zenon DEF Asked
<1>7. /\ \A s \in Requests : waits[s] # Nil => Listed(q, s)
      /\ \A s \in Requests : Listed(q, s) => call[s] \in {"waiting", "done"} /\ ~Asked(s)
      /\ \A i, j \in 1 .. len : q[i] = q[j] => i = j
  BY Zenon DEF IsList, OnList
<1>8. now \in Nat /\ len \in Nat /\ q \in [1 .. len -> Requests] /\ deadline \in [Requests -> Nat]
  BY Zenon DEF TypeOK, ListTypes, IsList
<1>9. CASE ~(Timeout[r] > 0)
  <2>1. IsList(q)'
    BY <1>3, <1>6, <1>7, <1>8, <1>9, SameList
  <2> QED
    BY <1>3, <1>9, <2>1, ZenonT(60)
<1>10. CASE Timeout[r] > 0
  <2> PICK d : d = now + Timeout[r]
    BY ONLY Zenon
  <2>1. r \in Requests /\ d \in Nat /\ ~Listed(q, r) /\ push(r, d)
    BY <1>2, <1>3, <1>5, <1>7, <1>8, <1>10, NilFacts
  <2>2. \A i \in 1 .. len - 1 : deadline[q[i]] <= deadline[q[i + 1]]
    BY Zenon DEF IsList, InOrder
  <2>3. TypeOK /\ mutex = "free"
    BY <1>3, Zenon
  <2>5. /\ mutex' = "free" /\ len' = len + 1 /\ deadline' = [deadline EXCEPT ![r] = d]
        /\ \E k \in 0 .. len : /\ k > 0 => deadline[q[k]] <= d
                               /\ k < len => d <= deadline[q[k + 1]]
                               /\ \E n : n = Inserted(q, k, r) /\ Linked(n)'
    BY <2>1, <2>3, PushInserts, Zenon
  <2>6. PICK k \in 0 .. len : /\ k > 0 => deadline[q[k]] <= d
                              /\ k < len => d <= deadline[q[k + 1]]
                              /\ \E n : n = Inserted(q, k, r) /\ Linked(n)'
    BY <2>5, Zenon
  <2>6a. PICK n : n = Inserted(q, k, r) /\ Linked(n)'
    BY <2>6, Zenon
  <2>7. /\ n \in [1 .. len + 1 -> Requests]
        /\ n[k + 1] = r /\ k + 1 \in 1 .. len + 1
        /\ \A i \in 1 .. k : n[i] = q[i] /\ i \in 1 .. len
        /\ \A i \in k + 1 .. len : n[i + 1] = q[i] /\ i \in 1 .. len /\ i + 1 \in 1 .. len + 1
        /\ \A i \in 1 .. len + 1 : \/ i \in 1 .. k \/ i = k + 1
                                   \/ i - 1 \in k + 1 .. len /\ (i - 1) + 1 = i
    <3>1. n \in [1 .. len + 1 -> Requests]
      BY <1>8, <2>1, <2>6a DEF Inserted
    <3> QED
      BY <1>8, <2>1, <2>6a, <3>1 DEF Inserted
  <2>7a. \A i \in 1 .. len : q[i] # r
    BY <2>1, Zenon DEF Listed
  <2>8. \A s \in Requests : Listed(n, s)' <=> Listed(q, s) \/ s = r
    <3>1. Listed(n, r)'
      BY <2>5, <2>7, Zenon DEF Listed
    <3>2. ASSUME NEW s \in Requests, s # r, Listed(n, s)' PROVE Listed(q, s)
      <4>1. PICK i \in 1 .. len + 1 : n[i] = s
        BY <2>5, <3>2, Zenon DEF Listed
      <4> QED
        BY <2>7, <3>2, <4>1, Zenon DEF Listed
    <3>3. ASSUME NEW s \in Requests, Listed(q, s) PROVE Listed(n, s)'
      <4>1. PICK i \in 1 .. len : q[i] = s
        BY <3>3, Zenon DEF Listed
      <4>2. (i \in 1 .. k /\ i \in 1 .. len + 1) \/ i \in k + 1 .. len
        BY <1>8, <2>6
      <4> QED
        BY <2>5, <2>7, <4>1, <4>2, Zenon DEF Listed
    <3> QED
      BY <2>1, <3>1, <3>2, <3>3, Zenon
  <2>9. OnList(n)'
    <3>1. \A i, j \in 1 .. len + 1 : n[i] = n[j] => i = j
      <4> DEFINE Old(i) == IF i \in 1 .. k THEN i ELSE i - 1
      <4>1. ASSUME NEW i \in 1 .. len + 1, i # k + 1
            PROVE  Old(i) \in 1 .. len /\ n[i] = q[Old(i)] /\ n[i] # r
        <5>1. CASE i \in 1 .. k
          BY <2>7, <2>7a, <5>1, Zenon
        <5>2. CASE i \notin 1 .. k
          <6>1. i - 1 \in k + 1 .. len /\ (i - 1) + 1 = i
            BY <2>7, <4>1, <5>2, Zenon
          <6>2. n[(i - 1) + 1] = q[i - 1] /\ i - 1 \in 1 .. len
            BY <2>7, <6>1, Zenon
          <6> QED
            BY <2>7a, <5>2, <6>1, <6>2, Zenon
        <5> QED
          BY <5>1, <5>2, Zenon
      <4>2. \A i, j \in 1 .. len + 1 : i # k + 1 /\ j # k + 1 /\ Old(i) = Old(j) => i = j
        BY <1>8, <2>6
      <4> HIDE DEF Old
      <4>3. ASSUME NEW i \in 1 .. len + 1, NEW j \in 1 .. len + 1, n[i] = n[j] PROVE i = j
        <5>1. i = k + 1 <=> j = k + 1
          BY <2>7, <4>1, <4>3, Zenon
        <5>2. CASE i = k + 1
          BY <5>1, <5>2, Zenon
        <5>3. CASE i # k + 1
          <6>1. Old(i) = Old(j)
            BY <1>7, <4>1, <4>3, <5>1, <5>3, Zenon
          <6> QED
            BY <4>2, <5>1, <5>3, <6>1, Zenon
        <5> QED
          BY <5>2, <5>3, Zenon
      <4> QED
        BY <4>3, Zenon
    <3>2. \A s \in Requests : s # r => waits'[s] = waits[s]
      BY <1>2, <1>3, <1>10, Zenon DEF TypeOK, CallTypes
    <3> QED
      BY <1>3, <1>5, <1>6, <1>7, <2>5, <2>8, <3>1, <3>2, Zenon DEF OnList
  <2>10. InOrder(n)'
    <3>1. deadline'[r] = d /\ \A i \in 1 .. len : deadline'[q[i]] = deadline[q[i]]
      BY <1>8, <2>1, <2>5, <2>7a, Zenon
    <3>2. ASSUME NEW i \in 1 .. len
          PROVE  deadline'[n[i]] <= deadline'[n[i + 1]]
      <4>1. CASE i < k
        <5>1. i \in 1 .. k /\ i + 1 \in 1 .. k /\ i \in 1 .. len - 1
          BY <1>8, <2>6, <4>1
        <5> QED
          BY <2>2, <2>7, <3>1, <5>1, ZenonT(30)
      <4>2. CASE i = k
        <5>1. k \in 1 .. k /\ k > 0
          BY <1>8, <4>2
        <5> QED
          BY <2>6, <2>7, <3>1, <4>2, <5>1, Zenon
      <4>3. CASE i = k + 1
        <5>1. k + 1 \in k + 1 .. len /\ k < len
          BY <1>8, <2>6, <4>3
        <5> QED
          BY <2>6, <2>7, <3>1, <4>3, <5>1, Zenon
      <4>4. CASE i > k + 1
        <5>1. i \in k + 1 .. len /\ i - 1 \in k + 1 .. len /\ (i - 1) + 1 = i /\ i - 1 \in 1 .. len - 1
          BY <1>8, <2>6, <4>4
        <5>2. n[i] = q[i - 1] /\ n[i + 1] = q[i] /\ i - 1 \in 1 .. len /\ i \in 1 .. len
          BY <2>7, <5>1, Zenon
        <5>3. deadline[q[i - 1]] <= deadline[q[i]]
          BY <2>2, <5>1, Zenon
        <5>4. deadline'[n[i]] = deadline[q[i - 1]] /\ deadline'[n[i + 1]] = deadline[q[i]]
          <6>1. PICK j : j = i - 1
            OBVIOUS
          <6>2. deadline'[q[j]] = deadline[q[j]]
            BY <3>1, <5>2, <6>1, Zenon
          <6>3. deadline'[q[i]] = deadline[q[i]]
            BY <3>1, <5>2, Zenon
          <6> QED
            BY <5>2, <6>1, <6>2, <6>3, Zenon
        <5> QED
          BY <5>3, <5>4, Zenon
      <4> QED
        BY <1>8, <2>6, <4>1, <4>2, <4>3, <4>4
    <3>3. len' - 1 = len
      <4>1. len \in Nat /\ len' = len + 1
        BY <1>8, <2>5, Zenon
      <4> QED
        BY ONLY <4>1
    <3> QED
      BY <3>2, <3>3, Zenon DEF InOrder
  <2> QED
    BY <2>5, <2>6a, <2>7, <2>9, <2>10, Zenon DEF IsList
<1> QED
  BY <1>9, <1>10, Zenon

(* The callers' steps: the call of a listed message is past sending. *)
LEMMA CallerLists ==
    ASSUME IInv, NEW q, IsList(q), NEW r \in Requests, send(r) \/ Enqueue(r) \/ Wait(r)
    PROVE  mutex' = mutex /\ IsList(q)'
<1>1. TypeOK /\ call \in [Requests -> {"idle", "sending", "waiting", "done"}] /\ now \in Nat
  BY Zenon DEF IInv, TypeOK, CallTypes, ListTypes
<1>2. UNCHANGED <<mutex, waits, len, head, tail, next, prev, deadline, now>>
  BY Zenon DEF send, Enqueue, Wait, pq
<1>3. \A s \in Requests : Listed(q, s) => call[s] \in {"waiting", "done"} /\ ~Asked(s)
  BY Zenon DEF IsList, OnList
<1>4. \A s \in Requests : Listed(q, s) => call'[s] \in {"waiting", "done"}
  BY <1>1, <1>3, Zenon DEF send, Enqueue, Wait
<1>5. ASSUME NEW s \in Requests, Listed(q, s) PROVE ~Asked(s)'
  <2>1. CASE Enqueue(r)
    <3>1. call[r] = "sending" /\ sendCh' = Append(sendCh, r) /\ sendCh \in Seq(Requests)
      BY <1>1, <2>1, Zenon DEF Enqueue, TypeOK, CallTypes
    <3>2. s # r
      BY <1>3, <1>5, <3>1, Zenon
    <3> QED
      BY <1>3, <1>5, <3>1, <3>2 DEF Asked
  <2>2. CASE send(r) \/ Wait(r)
    BY <1>3, <1>5, <2>2, Zenon DEF send, Wait, Asked
  <2> QED
    BY <2>1, <2>2, Zenon
<1> QED
  BY <1>1, <1>2, <1>4, <1>5, SameList

(* Every step keeps the list, but a push that puts a message before the first. *)
LEMMA SoundStep ==
    ASSUME LeastMembers, IInv, Sound, [Next]_vars, ~misfiled'
    PROVE  Sound'
<1>1. PICK q : IsList(q)
  BY Zenon DEF Sound
<1>2. TypeOK /\ mutex \in {"free", "ticker", "world"} /\ now \in Nat
  BY Zenon DEF Sound, NeverStuck, IInv, TypeOK, GoroutineTypes, ListTypes
<1>3. \A s \in Requests : Listed(q, s) => call[s] \in {"waiting", "done"} /\ ~Asked(s)
  BY <1>1, Zenon DEF IsList, OnList
<1>4. /\ len \in Nat
      /\ len > 0 => head = q[1] /\ head \in Requests
      /\ len > 1 => prev[head] \in Requests
  <2>1. /\ len \in Nat /\ q \in [1 .. len -> Requests]
        /\ len > 0 => head = q[1]
        /\ \A i \in 1 .. len - 1 : prev[q[i]] = q[i + 1]
    BY <1>1, <1>2, Zenon DEF TypeOK, ListTypes, IsList, Linked
  <2>2. ASSUME len > 1 PROVE prev[head] \in Requests
    <3>1. 1 \in 1 .. len - 1 /\ 1 + 1 \in 1 .. len
      BY <2>1, <2>2
    <3> QED
      BY <2>1, <3>1
  <2> QED
    BY <2>1, <2>2
<1>5. ASSUME UNCHANGED <<call, sendCh, pq>>, mutex' \in {"free", "ticker", "world"},
             mutex' # "world" => mutex # "world",
             \A s \in Requests : waits'[s] # Nil => waits[s] # Nil
      PROVE  Sound'
  <2>1. UNCHANGED <<len, head, tail, next, prev, deadline>>
    BY <1>5, Zenon DEF pq
  <2>2. \A s \in Requests : Asked(s)' <=> Asked(s)
    BY <1>5, Zenon DEF Asked
  <2>3. IsList(q)'
    BY <1>1, <1>2, <1>3, <1>5, <2>1, <2>2, SameList, Zenon
  <2> QED
    BY <1>5, <2>3, Zenon DEF Sound, NeverStuck
<1>6. ASSUME NEW r \in Requests, send(r) \/ Enqueue(r) \/ Wait(r)
      PROVE  Sound'
  BY <1>1, <1>2, <1>6, CallerLists, Zenon DEF Sound, NeverStuck
<1>7. CASE UNCHANGED vars \/ Close \/ NoAnswer \/ Disconnect
  BY <1>2, <1>5, <1>7, ZenonT(30) DEF vars, Close, NoAnswer, Disconnect, caller
<1>8. CASE TimePasses
  BY <1>2, <1>5, <1>8, Zenon DEF TimePasses, caller
<1>9. CASE ToWorld
  <2>1. CASE TakeMessage
    BY <1>1, <2>1, TakeMessageLists, ZenonT(60) DEF Sound, NeverStuck
  <2>2. CASE WriteMessage \/ Activate \/ StartClosing
    BY <1>2, <1>5, <2>2, Zenon DEF WriteMessage, Activate, StartClosing, caller
  <2>3. CASE forall
    <3>1. /\ len > 0 /\ mutex' = "world" /\ Fail(head, "closed") /\ head' = prev[head]
          /\ next' = [next EXCEPT ![head] = Nil] /\ prev' = [prev EXCEPT ![head] = Nil]
          /\ len' = len - 1 /\ UNCHANGED <<call, sendCh, tail, deadline, now>>
      BY <1>4, <2>3, NilFacts, Zenon DEF forall, caller
    <3>2. \E n : IsList(n)'
      BY <1>1, <1>2, <3>1, PopKeeps, Zenon
    <3> QED
      BY <3>1, <3>2, Zenon DEF Sound, NeverStuck
  <2>4. CASE EndClosing
    <3>1. /\ len = 0 /\ mutex' = "free"
          /\ UNCHANGED <<call, sendCh, waits, len, next, prev, deadline, now>>
      BY <2>4, Zenon DEF EndClosing, caller
    <3>2. \A s \in Requests : Asked(s)' <=> Asked(s)
      BY <3>1, ZenonT(60) DEF Asked
    <3>3. ~(len > 0) /\ now' \in Nat /\ now <= now'
      BY ONLY <1>2, <3>1
    <3>4. IsList(q)'
      BY <1>1, <1>2, <1>3, <3>1, <3>2, <3>3, SameList, Zenon
    <3> QED
      BY <3>1, <3>4, Zenon DEF Sound, NeverStuck
  <2> QED
    BY <1>9, <2>1, <2>2, <2>3, <2>4, Zenon DEF ToWorld
<1>10. CASE Ticker
  <2>1. CASE Tick \/ EndTick \/ AwaitActivation
    BY <1>2, <1>5, <2>1, Zenon DEF Tick, EndTick, AwaitActivation, caller
  <2>2. CASE clean
    <3>1. /\ len > 0 /\ mutex = "ticker" /\ mutex' = mutex /\ Fail(head, "timeout")
          /\ head' = IF len = 1 THEN Nil ELSE prev[head]
          /\ tail' = IF len = 1 THEN Nil ELSE IF len = 2 THEN prev[head] ELSE tail
          /\ next' = IF len = 1 THEN [next EXCEPT ![head] = Nil]
                     ELSE [next EXCEPT ![head] = Nil, ![prev[head]] = Nil]
          /\ prev' = [prev EXCEPT ![head] = Nil]
          /\ len' = len - 1 /\ UNCHANGED <<call, sendCh, deadline, now>>
      BY <1>4, <2>2, NilFacts, Zenon DEF clean, caller
    <3>2. len = 2 => prev[head] = tail
      <4>1. ASSUME len = 2 PROVE prev[head] = tail
        <5>1. 1 \in 1 .. len - 1 /\ 1 + 1 = len
          BY <4>1
        <5> QED
          BY <1>1, <1>4, <4>1, <5>1 DEF IsList, Linked
      <4> QED
        BY <4>1, Zenon
    <3>3. /\ len > 1 => head' = prev[head] /\ tail' = tail
          /\ \/ len > 1 /\ next' = [next EXCEPT ![head] = Nil, ![prev[head]] = Nil]
             \/ len = 1 /\ next' = [next EXCEPT ![head] = Nil]
      BY <1>4, <3>1, <3>2
    <3>4. \E n : IsList(n)'
      BY <1>1, <1>2, <3>1, <3>3, PopKeeps, Zenon
    <3> QED
      BY <3>1, <3>4, Zenon DEF Sound, NeverStuck
  <2> QED
    BY <1>10, <2>1, <2>2, Zenon DEF Ticker
<1>11. CASE FromWorld
  <2>1. CASE ReadAnswer
    <3>1. \A s \in Requests : waits'[s] # Nil => waits[s] # Nil
      BY <1>2, <2>1, Zenon DEF ReadAnswer, TypeOK, CallTypes
    <3> QED
      BY <1>2, <1>5, <2>1, <3>1, Zenon DEF ReadAnswer, caller
  <2>2. CASE Deliver \/ ReadError
    BY <1>2, <1>5, <2>2, Zenon DEF Deliver, ReadError, caller
  <2> QED
    BY <1>11, <2>1, <2>2, Zenon DEF FromWorld
<1> QED
  BY <1>6, <1>7, <1>8, <1>9, <1>10, <1>11, Zenon DEF Next

(* The history does not forget. *)
LEMMA MisfiledStays == misfiled /\ [Next]_vars => misfiled'
<1> SUFFICES ASSUME misfiled, [Next]_vars PROVE misfiled'
  OBVIOUS
<1>1. ASSUME NEW r \in Requests, send(r) \/ Enqueue(r) \/ Wait(r) PROVE misfiled'
  BY <1>1, Zenon DEF send, Enqueue, Wait, pq
<1>2. CASE UNCHANGED vars \/ Close \/ NoAnswer \/ Disconnect \/ TimePasses
  BY <1>2, Zenon DEF vars, Close, NoAnswer, Disconnect, TimePasses, pq
<1>3. CASE TakeMessage
  BY <1>3, Zenon DEF TakeMessage, push, pq
<1>4. CASE WriteMessage \/ Activate \/ StartClosing \/ forall \/ EndClosing
  BY <1>4, Zenon DEF WriteMessage, Activate, StartClosing, forall, EndClosing, pq
<1>5. CASE Ticker
  BY <1>5, Zenon DEF Ticker, Tick, clean, EndTick, AwaitActivation, pq
<1>6. CASE FromWorld
  BY <1>6, Zenon DEF FromWorld, ReadAnswer, Deliver, ReadError, pq
<1> QED
  BY <1>1, <1>2, <1>3, <1>4, <1>5, <1>6, Zenon DEF Next, ToWorld

LEMMA ListStep ==
    ASSUME LeastMembers, IInv, ListInv, [Next]_vars
    PROVE  ListInv'
BY SoundStep, MisfiledStays, Zenon DEF ListInv

(* The list is what EveryWaitIsTimed says. *)
LEMMA ListTimesWaits ==
    ASSUME LeastMembers, IInv, ListInv
    PROVE  EveryWaitIsTimed
<1>0. SUFFICES ASSUME Sound PROVE EveryWaitIsTimed
  BY Zenon DEF ListInv, EveryWaitIsTimed
<1>1. PICK q : IsList(q)
  BY <1>0, Zenon DEF Sound
<1>2. Chain = q
  BY <1>1, ChainIsList, Zenon DEF IInv
<1>3. /\ len \in Nat /\ q \in [1 .. len -> Requests]
      /\ len > 0 => head = q[1] /\ tail = q[len] /\ prev[q[len]] = Nil
      /\ len > 0 /\ mutex # "world" => next[q[1]] = Nil
      /\ \A i \in 1 .. len - 1 : next[q[i + 1]] = q[i] /\ deadline[q[i]] <= deadline[q[i + 1]]
      /\ \A r \in Requests : waits[r] # Nil => \E i \in 1 .. len : q[i] = r
  BY <1>1, Zenon DEF IInv, TypeOK, ListTypes, IsList, Linked, InOrder, OnList, Listed
<1>4. \A i \in 1 .. len : q[i] # Nil
  BY <1>3, NilFacts, Zenon
<1> HIDE DEF Chain
<1> QED
  BY <1>0, <1>2, <1>3, <1>4, Zenon DEF EveryWaitIsTimed, Sound

(* A new connection has an empty list. *)
LEMMA InitList == Init => ListInv
<1> SUFFICES ASSUME Init PROVE ListInv
  OBVIOUS
<1>1. len = 0 /\ mutex = "free" /\ \A r \in Requests : waits[r] = Nil /\ next[r] = Nil /\ prev[r] = Nil
  BY Zenon DEF Init
<1> DEFINE q == [i \in 1 .. len |-> head]
<1>2. q \in [1 .. len -> Requests] /\ 1 .. len = {} /\ 1 .. len - 1 = {}
  BY <1>1
<1> HIDE DEF q
<1>3. IsList(q)
  BY <1>1, <1>2 DEF IsList, Linked, InOrder, OnList, Listed
<1> QED
  BY <1>1, <1>3, Zenon DEF ListInv, Sound, NeverStuck

--------------------------------------------------------------------------------------
(* Nobody is forgotten *)

(* Where the result of r comes from. *)
Due(r) == buf[rch[r]] # << >> \/ Held(r) \/ waits[r] # Nil \/ Asked(r)

(* Whatever the timeouts, a call that waits has its result coming. *)
Accounted == \A r \in Requests : call[r] = "waiting" => Timeout[r] > 0 /\ Due(r)

(* A closed channel gets no more messages; what is left is taken before the list is failed. *)
Drained ==
    /\ closed => Unused
    /\ \A r \in Requests : call[r] = "sending" => r \in holds
    /\ world \in {"closing", "done"} => closed /\ sendCh = << >>
    /\ world = "done" /\ ~misfiled => \A r \in Requests : waits[r] = Nil

LEMMA SameDue ==
    ASSUME Accounted, UNCHANGED <<call, rch, buf, sendCh, waits, answer>>
    PROVE  Accounted'
BY Zenon DEF Accounted, Due, Held, Asked

(* A result, an answer or an entry in waits of other calls does not touch what is due. *)
LEMMA CallerAccounts ==
    ASSUME IInv, Accounted, NEW r \in Requests, send(r) \/ Enqueue(r) \/ Wait(r)
    PROVE  Accounted'
<1>1. /\ call \in [Requests -> {"idle", "sending", "waiting", "done"}]
      /\ rch \in [Requests -> Chans \cup {Nil}] /\ buf \in [Chans -> Seq(Result)]
      /\ sendCh \in Seq(Requests) /\ ChannelsOwned
  BY Zenon DEF IInv, TypeOK, CallTypes, OneAnswer
<1>2. UNCHANGED <<waits, answer>>
  BY Zenon DEF send, Enqueue, Wait
<1>3. CASE send(r)
  <2>1. call' = [call EXCEPT ![r] = "sending"] /\ UNCHANGED <<buf, sendCh>>
    BY <1>3, Zenon DEF send
  <2>2. rch' = rch \/ \E ch : rch' = [rch EXCEPT ![r] = ch]
    BY <1>3, Zenon DEF send
  <2>3. call'[r] = "sending" /\ \A s \in Requests : s # r => call'[s] = call[s] /\ rch'[s] = rch[s]
    BY ONLY <1>1, <2>1, <2>2, Zenon
  <2>4. \A s \in Requests : s # r => (Due(s) => Due(s)')
    BY <1>2, <2>1, <2>3, Zenon DEF Due, Held, Asked
  <2>5. QED
    BY <2>3, <2>4, Zenon DEF Accounted
<1>4. CASE Enqueue(r)
  <2>1. /\ call' = [call EXCEPT ![r] = IF Timeout[r] = 0 THEN "done" ELSE "waiting"]
        /\ sendCh' = Append(sendCh, r) /\ UNCHANGED <<rch, buf>>
    BY <1>4, Zenon DEF Enqueue
  <2>2. /\ \A s \in Requests : s # r => call'[s] = call[s]
        /\ call'[r] = IF Timeout[r] = 0 THEN "done" ELSE "waiting"
    BY ONLY <1>1, <2>1, Zenon
  <2>3. Timeout[r] = 0 \/ Timeout[r] > 0
    BY NilFacts
  <2>4. Asked(r)' /\ \A s : Asked(s) => Asked(s)'
    <3>1. PICK q : q = sendCh'
      BY Zenon
    <3>2. /\ DOMAIN q = 1 .. Len(sendCh) + 1 /\ DOMAIN sendCh = 1 .. Len(sendCh)
          /\ Len(sendCh) + 1 \in DOMAIN q /\ q[Len(sendCh) + 1] = r
          /\ \A i \in DOMAIN sendCh : i \in DOMAIN q /\ q[i] = sendCh[i]
      BY ONLY <1>1, <2>1, <3>1, r \in Requests
    <3>3. QED
      BY <3>1, <3>2, Zenon DEF Asked
  <2>5. \A s \in Requests : Due(s) => Due(s)'
    BY <1>2, <2>1, <2>4, Zenon DEF Due, Held
  <2>6. Due(r)'
    BY <2>4, Zenon DEF Due
  <2>7. QED
    BY <2>2, <2>3, <2>5, <2>6, Zenon DEF Accounted
<1>5. CASE Wait(r)
  <2>1. /\ call[r] = "waiting" /\ call' = [call EXCEPT ![r] = "done"]
        /\ rch' = [rch EXCEPT ![r] = Nil] /\ sendCh' = sendCh
        /\ \E t : buf' = [buf EXCEPT ![rch[r]] = t]
    BY <1>5, Zenon DEF Wait
  <2>2. /\ call'[r] = "done"
        /\ \A s \in Requests : s # r => call'[s] = call[s] /\ rch'[s] = rch[s]
    BY ONLY <1>1, <2>1, Zenon
  <2>3. ASSUME NEW s \in Requests, s # r, call[s] = "waiting", Due(s) PROVE Due(s)'
    <3>1. rch[s] \in Chans /\ rch[s] # rch[r] /\ rch[r] \in Chans
      BY <1>1, <2>1, <2>3, Zenon DEF ChannelsOwned
    <3>2. buf'[rch[s]] = buf[rch[s]]
      BY ONLY <1>1, <2>1, <3>1, Zenon
    <3>3. rch'[s] = rch[s]
      BY <2>2, <2>3, Zenon
    <3>4. QED
      BY <1>2, <2>1, <2>3, <3>2, <3>3, Zenon DEF Due, Held, Asked
  <2>4. QED
    BY <2>2, <2>3, Zenon DEF Accounted
<1>6. QED
  BY <1>3, <1>4, <1>5, Zenon

LEMMA FailAccounts ==
    ASSUME IInv, Accounted, NEW r \in Requests, NEW how, Fail(r, how),
           UNCHANGED <<call, rch, sendCh, answer>>
    PROVE  Accounted'
<1>1. CASE waits[r] = Nil
  BY <1>1, SameDue, Zenon DEF Fail
<1>2. CASE waits[r] # Nil
  <2>1. PICK c, m : c = waits[r] /\ m = [req |-> r, how |-> how]
    BY Zenon
  <2>2. c = rch[r] /\ c \in Chans /\ buf[c] = << >> /\ buf \in [Chans -> Seq(Result)]
        /\ waits \in [Requests -> Chans \cup {Nil}]
    BY <1>2, <2>1, Zenon DEF IInv, TypeOK, CallTypes, OneAnswer, InWaits
  <2>3. buf' = [buf EXCEPT ![c] = Append(@, m)] /\ waits' = [waits EXCEPT ![r] = Nil]
    BY <1>2, <2>1, Zenon DEF Fail
  <2>4. Append(<< >>, m) # << >>
    BY ONLY OneResult
  <2>5. /\ buf'[c] # << >> /\ \A ch \in Chans : ch # c => buf'[ch] = buf[ch]
        /\ \A s \in Requests : s # r => waits'[s] = waits[s]
    BY ONLY <2>2, <2>3, <2>4, Zenon
  <2>6. ASSUME NEW s \in Requests, call[s] = "waiting", Due(s) PROVE Due(s)'
    <3>1. rch[s] \in Chans
      BY <2>6, Zenon DEF IInv, TypeOK, CallTypes, OneAnswer, ChannelsOwned
    <3>2. buf[rch[s]] # << >> => buf'[rch[s]] # << >>
      BY <2>5, <3>1, Zenon
    <3>3. s = r => buf'[rch[s]] # << >>
      BY <2>2, <2>5, Zenon
    <3>4. QED
      BY <2>5, <2>6, <3>2, <3>3, Zenon DEF Due, Held, Asked
  <2>7. QED
    BY <2>6, Zenon DEF Accounted
<1>3. QED
  BY <1>1, <1>2, Zenon

LEMMA TakeMessageAccounts ==
    ASSUME IInv, Accounted, TakeMessage
    PROVE  Accounted'
<1>1. PICK m : m = Head(sendCh)
  BY Zenon
<1>2. /\ sendCh \in Seq(Requests) /\ sendCh # << >> /\ sendCh' = Tail(sendCh) /\ msg' = m
      /\ waits \in [Requests -> Chans \cup {Nil}]
  BY <1>1, Zenon DEF TakeMessage, IInv, TypeOK, CallTypes
<1>3. /\ UNCHANGED <<call, rch, buf, answer>>
      /\ waits' = IF Timeout[m] > 0 THEN [waits EXCEPT ![m] = rch[m]] ELSE waits
  BY <1>2, Zenon DEF TakeMessage, caller
<1>4. PICK q : q = sendCh'
  BY Zenon
<1>5. m \in Requests /\ \A i \in DOMAIN sendCh : sendCh[i] # m =>
          i - 1 \in DOMAIN q /\ q[i - 1] = sendCh[i]
  BY ONLY <1>1, <1>2, <1>4
<1>6. /\ \A s \in Requests : s # m => waits'[s] = waits[s]
      /\ Timeout[m] > 0 => waits'[m] = rch[m]
  BY ONLY <1>2, <1>3, <1>5, Zenon
<1>7. ASSUME NEW s \in Requests, call[s] = "waiting", Timeout[s] > 0, Due(s) PROVE Due(s)'
  <2>1. rch[s] # Nil
    BY <1>7, Zenon DEF IInv, OneAnswer, ChannelsOwned
  <2>2. CASE s = m
    BY <1>6, <1>7, <2>1, <2>2, Zenon DEF Due
  <2>3. CASE s # m
    <3>1. Asked(s) => Asked(s)'
      BY <1>4, <1>5, <2>3, Zenon DEF Asked
    <3>2. QED
      BY <1>3, <1>6, <1>7, <2>3, <3>1, Zenon DEF Due, Held
  <2>4. QED
    BY <2>2, <2>3, Zenon
<1>8. QED
  BY <1>3, <1>7, Zenon DEF Accounted

LEMMA ReadAnswerAccounts ==
    ASSUME IInv, Accounted, ReadAnswer
    PROVE  Accounted'
<1>1. PICK r : r = Head(wire)
  BY Zenon
<1>2. /\ answer = Nil /\ UNCHANGED <<call, rch, buf, sendCh>>
      /\ waits \in [Requests -> Chans \cup {Nil}] /\ wire \in Seq(Requests) /\ wire # << >>
  BY Zenon DEF ReadAnswer, IInv, TypeOK, CallTypes, GoroutineTypes, caller
<1>3. r \in Requests
  BY ONLY <1>1, <1>2
<1>4. CASE waits[r] = Nil
  BY <1>1, <1>2, <1>4, SameDue, Zenon DEF ReadAnswer
<1>5. CASE waits[r] # Nil
  <2>1. /\ waits' = [waits EXCEPT ![r] = Nil] /\ answer' = [req |-> r, ch |-> waits[r]]
        /\ reader' = "deliver"
    BY <1>1, <1>5, Zenon DEF ReadAnswer
  <2>2. answer'.req = r /\ \A s \in Requests : s # r => waits'[s] = waits[s]
    BY ONLY <1>2, <2>1, <1>3, Zenon
  <2>3. answer' # Nil
    <3>1. GoroutineTypes'
      BY <1>2, TypeStep, Zenon DEF IInv, TypeOK, OneAnswer, Next, FromWorld
    <3>2. QED
      BY <2>1, <3>1, Zenon DEF GoroutineTypes
  <2>4. \A s \in Requests : Due(s) => Due(s)'
    BY <1>2, <2>2, <2>3, Zenon DEF Due, Held, Asked
  <2>5. QED
    BY <1>2, <2>4, Zenon DEF Accounted
<1>6. QED
  BY <1>4, <1>5, Zenon

LEMMA DeliverAccounts ==
    ASSUME IInv, Accounted, Deliver
    PROVE  Accounted'
<1>1. PICK r, c, m : r = answer.req /\ c = answer.ch /\ m = [req |-> r, how |-> "answer"]
  BY Zenon
<1>2. /\ answer # Nil /\ buf' = [buf EXCEPT ![c] = Append(@, m)]
      /\ UNCHANGED <<call, rch, sendCh, waits>>
  BY <1>1, Zenon DEF Deliver, caller, IInv, TypeOK, GoroutineTypes
<1>3. c = rch[r] /\ buf[c] = << >> /\ buf \in [Chans -> Seq(Result)] /\ c \in Chans
  <2>1. answer \in Answer
    BY <1>2, Zenon DEF IInv, TypeOK, GoroutineTypes
  <2>2. c \in Chans
    BY <1>1, <2>1, Zenon DEF Answer
  <2>3. QED
    BY <1>1, <1>2, <2>2, Zenon DEF IInv, TypeOK, CallTypes, OneAnswer, InHands
<1>4. Append(<< >>, m) # << >>
  BY ONLY OneResult
<1>5. buf'[c] # << >> /\ \A ch \in Chans : ch # c => buf'[ch] = buf[ch]
  BY ONLY <1>2, <1>3, <1>4, Zenon
<1>6. ASSUME NEW s \in Requests, call[s] = "waiting", Due(s) PROVE Due(s)'
  <2>1. rch[s] \in Chans
    BY <1>6, Zenon DEF IInv, TypeOK, CallTypes, OneAnswer, ChannelsOwned
  <2>2. buf[rch[s]] # << >> => buf'[rch[s]] # << >>
    BY <1>5, <2>1, Zenon
  <2>3. Held(s) => buf'[rch[s]] # << >>
    BY <1>1, <1>3, <1>5, Zenon DEF Held
  <2>4. QED
    BY <1>2, <1>6, <2>2, <2>3, Zenon DEF Due, Asked
<1>7. QED
  BY <1>2, <1>6, Zenon DEF Accounted

LEMMA AccountedStep ==
    ASSUME IInv, Accounted, [Next]_vars
    PROVE  Accounted'
<1>1. ASSUME NEW r \in Requests, send(r) \/ Enqueue(r) \/ Wait(r)
      PROVE  Accounted'
  BY <1>1, CallerAccounts, Zenon
<1>2. CASE UNCHANGED vars \/ Close \/ NoAnswer \/ Disconnect \/ TimePasses
  BY <1>2, SameDue, Zenon DEF vars, Close, NoAnswer, Disconnect, TimePasses, caller
<1>3. CASE WriteMessage \/ Activate \/ StartClosing \/ EndClosing
  BY <1>3, SameDue, Zenon DEF WriteMessage, Activate, StartClosing, EndClosing, caller
<1>4. CASE Tick \/ EndTick \/ AwaitActivation \/ ReadError
  BY <1>4, SameDue, Zenon DEF Tick, EndTick, AwaitActivation, ReadError, caller
<1>5. CASE forall \/ clean
  <2>1. UNCHANGED <<call, rch, sendCh, answer>>
    BY <1>5, Zenon DEF forall, clean, caller
  <2>2. UNCHANGED <<buf, waits>> \/ (head # Nil /\ \E how : Fail(head, how))
    BY <1>5, Zenon DEF forall, clean
  <2>3. head # Nil => head \in Requests
    BY Zenon DEF IInv, TypeOK, ListTypes
  <2>4. QED
    BY <2>1, <2>2, <2>3, SameDue, FailAccounts, Zenon
<1>6. QED
  BY <1>1, <1>2, <1>3, <1>4, <1>5, TakeMessageAccounts, ReadAnswerAccounts, DeliverAccounts,
     Zenon DEF Next, ToWorld, Ticker, FromWorld

(* The list is empty when the goroutine that writes ends, so nobody is left in waits. *)
LEMMA DrainedStep ==
    ASSUME IInv, ListInv, Drained, [Next]_vars
    PROVE  Drained'
<1>1. ASSUME NEW r \in Requests, send(r) \/ Enqueue(r) \/ Wait(r)
      PROVE  Drained'
  <2>1. /\ UNCHANGED <<closed, world, waits, misfiled>> /\ holds \subseteq Requests
        /\ call \in [Requests -> {"idle", "sending", "waiting", "done"}]
    BY <1>1, Zenon DEF send, Enqueue, Wait, pq, IInv, TypeOK, CallTypes
  <2>2. closed => ~Enqueue(r) /\ ~send(r)
    BY Zenon DEF Drained, Unused, send, Enqueue
  <2>3. closed => sendCh' = sendCh /\ holds' = holds \ {r}
    BY <1>1, <2>2, Zenon DEF Wait
  <2>4. closed => Unused'
    BY <2>1, <2>3, Zenon DEF Drained, Unused
  <2>5. ASSUME NEW s \in Requests, call'[s] = "sending" PROVE s \in holds'
    <3>1. CASE send(r)
      <4>1. s # r => call[s] = "sending"
        BY <2>1, <2>5, <3>1, Zenon DEF send
      <4>2. holds' = holds \cup {r}
        BY <3>1, Zenon DEF send
      <4> QED
        BY <4>1, <4>2, Zenon DEF Drained
    <3>2. CASE Enqueue(r) \/ Wait(r)
      <4>1. call'[r] # "sending" /\ (s # r => call[s] = "sending")
        BY <2>1, <2>5, <3>2, Zenon DEF Enqueue, Wait
      <4>2. holds' = holds \ {r} \/ holds' = holds
        BY <3>2, Zenon DEF Enqueue, Wait
      <4> QED
        BY <2>5, <4>1, <4>2, Zenon DEF Drained
    <3> QED
      BY <1>1, <3>1, <3>2, Zenon
  <2>6. QED
    BY <2>1, <2>3, <2>4, <2>5, Zenon DEF Drained
<1>2. CASE UNCHANGED vars \/ NoAnswer \/ Disconnect \/ TimePasses \/ Tick \/ EndTick \/ AwaitActivation \/ Deliver
  <2>1. UNCHANGED <<closed, call, holds, world, sendCh, waits, misfiled>>
    BY <1>2, Zenon DEF vars, NoAnswer, Disconnect, TimePasses, Tick, EndTick, AwaitActivation,
                       Deliver, caller, pq
  <2>2. QED
    BY <2>1, Zenon DEF Drained, Unused
<1>3. CASE Close \/ ReadError
  <2>1. Unused /\ closed' = TRUE /\ UNCHANGED <<call, holds, world, sendCh, waits, misfiled>>
    BY <1>3, Zenon DEF Close, ReadError, caller, pq
  <2>2. QED
    BY <2>1, Zenon DEF Drained, Unused
<1>4. CASE clean \/ ReadAnswer
  <2>1. UNCHANGED <<closed, call, holds, world, sendCh, misfiled>>
    BY <1>4, Zenon DEF clean, ReadAnswer, caller, pq
  <2>2. waits \in [Requests -> Chans \cup {Nil}]
    BY Zenon DEF IInv, TypeOK, CallTypes
  <2>3. waits' = waits \/ \E r : waits' = [waits EXCEPT ![r] = Nil]
    BY <1>4, Zenon DEF clean, ReadAnswer, Fail
  <2>4. \A r \in Requests : waits[r] = Nil => waits'[r] = Nil
    BY ONLY <2>2, <2>3, Zenon
  <2>5. QED
    BY <2>1, <2>4, Zenon DEF Drained, Unused
<1>5. CASE TakeMessage \/ WriteMessage \/ Activate
  <2>1. UNCHANGED <<closed, call, holds>> /\ world' \in {"receive", "write", "activate", "hung"}
    BY <1>5, Zenon DEF TakeMessage, WriteMessage, Activate, caller
  <2>2. world' \notin {"closing", "done"}
    BY <2>1, Zenon
  <2>3. QED
    BY <2>1, <2>2, Zenon DEF Drained, Unused
<1>6. CASE StartClosing
  <2>1. closed /\ sendCh = << >> /\ world' = "closing" /\ UNCHANGED <<closed, call, holds, sendCh>>
    BY <1>6, Zenon DEF StartClosing, caller
  <2>2. world' # "done"
    BY <2>1, Zenon
  <2>3. QED
    BY <2>1, <2>2, Zenon DEF Drained, Unused
<1>7. CASE forall
  <2>1. world = "closing" /\ UNCHANGED <<closed, call, holds, world, sendCh>>
    BY <1>7, Zenon DEF forall, caller
  <2>2. world' # "done"
    BY <2>1, Zenon
  <2>3. QED
    BY <2>1, <2>2, Zenon DEF Drained, Unused
<1>8. CASE EndClosing
  <2>1. /\ world = "closing" /\ len = 0
        /\ UNCHANGED <<closed, call, holds, sendCh, waits, misfiled>>
    BY <1>8, Zenon DEF EndClosing, caller
  <2>2. ~misfiled => \A r \in Requests : waits[r] = Nil
    <3>1. SUFFICES ASSUME ~misfiled PROVE \A r \in Requests : waits[r] = Nil
      OBVIOUS
    <3>2. PICK q : IsList(q)
      BY <3>1, Zenon DEF ListInv, Sound
    <3>3. 1 .. len = {}
      BY <2>1
    <3>4. QED
      BY <3>2, <3>3, Zenon DEF IsList, OnList, Listed
  <2>3. QED
    BY <2>1, <2>2, Zenon DEF Drained, Unused
<1>9. QED
  BY <1>1, <1>2, <1>3, <1>4, <1>5, <1>6, <1>7, <1>8, Zenon DEF Next, ToWorld, Ticker, FromWorld

LEMMA InitAccounted == Init => Accounted /\ Drained
<1>1. Init => \A r \in Requests : call[r] # "waiting" /\ call[r] # "sending"
  BY Zenon DEF Init
<1>2. Init => world \notin {"closing", "done"} /\ closed = FALSE
  BY Zenon DEF Init
<1>3. QED
  BY <1>1, <1>2, Zenon DEF Accounted, Drained

LEMMA DrainedForgetsNobody == IInv /\ Accounted /\ Drained => NobodyForgotten
<1>1. SUFFICES ASSUME Accounted, Drained, NEW r \in Requests, call[r] = "waiting"
               PROVE  \/ buf[rch[r]] # << >>
                      \/ answer # Nil /\ answer.req = r
                      \/ /\ waits[r] # Nil \/ \E i \in DOMAIN sendCh : sendCh[i] = r
                         /\ world = "done" => misfiled
  BY Zenon DEF NobodyForgotten
<1>2. Due(r)
  BY <1>1, Zenon DEF Accounted
<1>3. world = "done" /\ ~misfiled => waits[r] = Nil /\ ~Asked(r)
  <2>1. DOMAIN << >> = {}
    OBVIOUS
  <2>2. QED
    BY <1>1, <2>1, Zenon DEF Drained, Asked
<1>4. QED
  BY <1>2, <1>3, Zenon DEF Due, Held, Asked
--------------------------------------------------------------------------------------
INSTANCE WellFoundedInduction

LEMMA NaturalsHaveLeast == LeastMembers
<1> SUFFICES ASSUME NEW S \in SUBSET Nat, S # {}
             PROVE  \E m \in S : \A x \in S : m <= x
  BY Zenon DEF LeastMembers
<1> DEFINE R == OpToRel(<, Nat)
<1>1. IsWellFoundedOn(R, Nat)
  BY NatLessThanWellFounded, Zenon
<1>2. \A y, z \in Nat : y < z => <<y, z>> \in R
  BY Zenon DEF OpToRel
<1> HIDE DEF R
<1>3. PICK m \in S : \A y \in S : <<y, m>> \notin R
  BY <1>1, WFMin, Zenon
<1>4. \A y \in S : ~(y < m)
  BY <1>2, <1>3, Zenon
<1>5. QED
  BY <1>4

LEMMA ListInvariance == Spec => []ListInv
<1>1. IInv /\ ListInv /\ [Next]_vars => ListInv'
  BY ListStep, NaturalsHaveLeast, Zenon
<1> QED
  BY <1>1, InitList, Invariance, PTL DEF Spec

(* Whatever the timeouts and whatever races, until push puts a message before the first to
   expire, pq is a list in order of expiry with every request somebody waits for: push links a
   message at its place, anywhere else in the list, and clean and forall take messages from the
   head.  No loop over pq panics or runs for ever with the mutex locked. *)
THEOREM WaitsAreTimed == Spec => []EveryWaitIsTimed
<1>1. IInv /\ ListInv => EveryWaitIsTimed
  BY ListTimesWaits, NaturalsHaveLeast, Zenon
<1> QED
  BY <1>1, Invariance, ListInvariance, PTL

(* Whatever the timeouts, a call that waits has its result coming: its request is in the send
   channel, in waits or in the reader's hands, or its result is in its channel. *)
THEOREM CallsAccounted == Spec => []Accounted
<1>1. Init => Accounted
  BY InitAccounted, Zenon
<1>2. IInv /\ Accounted /\ [Next]_vars => Accounted'
  BY AccountedStep, Zenon
<1> QED
  BY <1>1, <1>2, Invariance, PTL DEF Spec

(* Whatever the timeouts, the goroutine that writes ends only when nobody is left in the send
   channel or in waits, unless push has put a message before the first: NobodyForgotten. *)
THEOREM NoCallForgotten == Spec => []NobodyForgotten
<1>1. Init => Drained
  BY InitAccounted, Zenon
<1>2. IInv /\ ListInv /\ Drained /\ [Next]_vars => Drained'
  BY DrainedStep, Zenon
<1>3. IInv /\ Accounted /\ Drained => NobodyForgotten
  BY DrainedForgetsNobody, Zenon
<1> QED
  BY <1>1, <1>2, <1>3, Invariance, ListInvariance, CallsAccounted, PTL DEF Spec
=====================================================================================

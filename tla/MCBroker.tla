---------------------------------- MODULE MCBroker ----------------------------------
(* Two calls over a pool small enough to be used again. *)
EXTENDS Broker, TLC

CONSTANTS r1, r2, ch1, ch2

MCRequests == {r1, r2}
MCChans == {ch1, ch2}
SameTimeout == [r \in Requests |-> 1]
Timeouts == r1 :> 2 @@ r2 :> 1
======================================================================================

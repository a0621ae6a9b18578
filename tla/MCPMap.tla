---------------------------------- MODULE MCPMap ----------------------------------
(* Small maps: three keys, two of which share a 32-bit hash and all a home bucket. *)
EXTENDS PMap, TLC

CONSTANTS k1, k2, k3, v1

MCKeys2 == {k1, k2}
MCKeys3 == {k1, k2, k3}
MCHash32 == [k \in Keys |-> CASE k = k1 -> 2 [] k = k2 -> 2 [] k = k3 -> 10]
MCKeyLen == [k \in Keys |-> 4]
MCValLen == [v \in Values |-> IF v = Empty THEN 0 ELSE 4]
MCValHash == [v \in Values |-> IF v = Empty THEN 1 ELSE 2]
MCTimes == 1 .. 2
SymK == Permutations({k1, k2})
===================================================================================

------------------------------- MODULE MCReplication -------------------------------
(* Two servers, of which the second is master. *)
EXTENDS Replication, TLC

CONSTANTS s1, s2
MCServers == {s1, s2}
MCRank == s1 :> 1 @@ s2 :> 2
====================================================================================

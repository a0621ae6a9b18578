-------------------------------- MODULE MCHeartbeat --------------------------------
(* A node and two other servers; one chunk, that all of them may hold. *)
EXTENDS Heartbeat, TLC

CONSTANTS s2, s3, c1
MCServers == {me, s2, s3}

(* The group of me has one of the others at first. *)
MCInit == HInit /\ servers = {me, s2}
MCFairSpec == MCInit /\ [][HNext]_hvars /\ HFairness
====================================================================================

---------------------------------- MODULE MCCore ----------------------------------
(* One chunk of two pairs in processes that follow one another. *)
EXTENDS Core, TLC

(* Nothing tells one pair from another. *)
AnyPair == Permutations(Items)

(* The steps of processes that are closed in order and do not panic. *)
OrderlySpec ==
    Init /\ [][Next /\ phase' # "panicked"
                    /\ (phase' = "down" => \A c \in Chunks : ~Locked(c))]_vars
===================================================================================

---------------------------------- MODULE LWWMap ----------------------------------
(***************************************************************************)
(* What a chunk's map promises its caller: a last-writer-wins dictionary.  *)
(* dict is what Get returns now, disk is what Get would return after a     *)
(* restart.  A write either takes effect in both or returns an error and   *)
(* leaves both alone.  The exception is Del: when the tombstone does not   *)
(* fit it returns an error, the pair is gone from dict and still on disk.  *)
(***************************************************************************)
EXTENDS Naturals

CONSTANTS Keys, Values, Empty, Times

VARIABLES dict, disk, up, ret
vars == <<dict, disk, up, ret>>

Absent == [ts |-> 0, val |-> Empty]
Nothing == [k \in Keys |-> Absent]

(* What a call may return: an error, if it is a compare and swap whose caller expects another
   pair than there is. *)
Results == {r \in [op : {"none", "Set", "CAS", "staleCAS", "Del"}, err : BOOLEAN] :
               r.op = "staleCAS" => r.err}

Returns(op, e) == up /\ up' = up /\ ret' = [op |-> op, err |-> e]

Store(k, p) == /\ dict' = [dict EXCEPT ![k] = p]
               /\ disk' = [disk EXCEPT ![k] = p]

(* A call without effect: a refused write, a Set or Del older than the pair, a Del of an
   absent pair; or a call that has only begun ("none"). *)
NoEffect == UNCHANGED <<dict, disk>> /\ up /\ up' = up /\ ret' \in Results

(* The later timestamp wins; a pair keeps its place against one of the same time. *)
Set(k, v, t) == /\ Returns("Set", FALSE)
                /\ dict[k].ts < t
                /\ Store(k, [ts |-> t, val |-> v])

(* A compare and swap whose caller expects the pair there is replaces it, at whatever time. *)
CAS(k, v, t) == /\ Returns("CAS", FALSE)
                /\ Store(k, [ts |-> t, val |-> v])

Del(k, t) == /\ dict[k] # Absent /\ t >= dict[k].ts
             /\ dict' = [dict EXCEPT ![k] = Absent]
             /\ \/ Returns("Del", FALSE) /\ disk' = [disk EXCEPT ![k] = Absent]
                \/ Returns("Del", TRUE) /\ disk' = disk

Stop == /\ dict' = Nothing /\ up' = FALSE /\ disk' = disk
        /\ ret' = [op |-> "none", err |-> FALSE]

Restart == ~up /\ dict' = disk /\ up' = TRUE /\ UNCHANGED <<disk, ret>>

Init == dict = Nothing /\ disk = Nothing /\ up = TRUE /\ ret = [op |-> "none", err |-> FALSE]

Next == \/ NoEffect \/ Stop \/ Restart
        \/ \E k \in Keys, t \in Times :
             \/ Del(k, t)
             \/ \E v \in Values : Set(k, v, t) \/ CAS(k, v, t)

Spec == Init /\ [][Next]_vars
===================================================================================

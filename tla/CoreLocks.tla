---------------------------------- MODULE CoreLocks ----------------------------------
(***************************************************************************)
(* core/core.go and core/defrag.go: the locks of one chunk.  Three locks   *)
(* are taken by the goroutines of a server: Core.mutex, the mutex of the   *)
(* metaChunk and its defragMutex.  A function is the sequence of the locks *)
(* it takes and gives back, and of what it does to the chunk's flags with  *)
(* them; what it does to the pairs is in Core and PMap.                    *)
(*                                                                         *)
(* Abstractions: one goroutine per function; the callback of an iteration  *)
(* is called once.  Read locks of Core.mutex are held by any number.       *)
(***************************************************************************)
EXTENDS Naturals, Sequences

CONSTANT Functions  \* the functions of Program that are called

VARIABLES
    pc,             \* the step each function is at, 0 while nobody calls it
    writer, readers,    \* of each lock
    present, protected,
    asleep          \* the goroutine that ends the protection has not woken up

vars == <<pc, writer, readers, present, protected, asleep>>

Lock(l) == <<"Lock", l>>
Unlock(l) == <<"Unlock", l>>
RLock(l) == <<"RLock", l>>
RUnlock(l) == <<"RUnlock", l>>
Do(what) == <<"Do", what>>

Both(what) == <<Lock("core"), Lock("chunk"), Do(what), Unlock("core"), Unlock("chunk")>>

Set == <<Lock("chunk"), Unlock("chunk")>>
Iterate == <<Lock("chunk"), Do("return if absent"), Unlock("chunk"), Lock("chunk"), Unlock("chunk")>>
BackwardsIterate == <<Lock("chunk"), Do("return if absent"), Lock("defrag"), Unlock("chunk"),
                      Lock("chunk"), Unlock("chunk"), Unlock("defrag")>>
defragmenter == <<Lock("defrag"), Lock("chunk"), Unlock("chunk"), Unlock("defrag")>>
PresentChunksList == <<RLock("core"), Do("skip if absent"), Lock("chunk"), Unlock("chunk"), RUnlock("core")>>
ChunkSetPresent == Both("present")
ChunkSetNoPresent == Both("absent")
ChunkSetProtected == Both("protect")
ProtectionExpires == <<Lock("core"), Lock("chunk"), Do("unprotect"), Unlock("chunk"), Unlock("core")>>

Program == [
    Set |-> Set, Iterate |-> Iterate, BackwardsIterate |-> BackwardsIterate,
    defragmenter |-> defragmenter, PresentChunksList |-> PresentChunksList,
    ChunkSetPresent |-> ChunkSetPresent, ChunkSetNoPresent |-> ChunkSetNoPresent,
    ChunkSetProtected |-> ChunkSetProtected, ProtectionExpires |-> ProtectionExpires]

Locks == {"core", "chunk", "defrag"}

Goto(f, i) == pc' = [pc EXCEPT ![f] = IF i > Len(Program[f]) THEN 0 ELSE i]
--------------------------------------------------------------------------------------
Call(f) ==
    /\ pc[f] = 0 /\ pc' = [pc EXCEPT ![f] = 1]
    /\ f = "ProtectionExpires" => asleep
    /\ asleep' = (asleep /\ f # "ProtectionExpires")
    /\ UNCHANGED <<writer, readers, present, protected>>

At(f, kind, l) == pc[f] # 0 /\ Program[f][pc[f]] = <<kind, l>>

TakeLock(f, l) ==
    /\ At(f, "Lock", l) /\ writer[l] = "nobody" /\ readers[l] = {}
    /\ writer' = [writer EXCEPT ![l] = f]
    /\ Goto(f, pc[f] + 1)
    /\ UNCHANGED <<readers, present, protected, asleep>>

GiveLock(f, l) ==
    /\ At(f, "Unlock", l)
    /\ writer' = [writer EXCEPT ![l] = "nobody"]
    /\ Goto(f, pc[f] + 1)
    /\ UNCHANGED <<readers, present, protected, asleep>>

TakeRLock(f, l) ==
    /\ At(f, "RLock", l) /\ writer[l] = "nobody"
    /\ readers' = [readers EXCEPT ![l] = @ \cup {f}]
    /\ Goto(f, pc[f] + 1)
    /\ UNCHANGED <<writer, present, protected, asleep>>

GiveRLock(f, l) ==
    /\ At(f, "RUnlock", l)
    /\ readers' = [readers EXCEPT ![l] = @ \ {f}]
    /\ Goto(f, pc[f] + 1)
    /\ UNCHANGED <<writer, present, protected, asleep>>

SetFlags(f) ==
    /\ \/ At(f, "Do", "present") /\ present' = TRUE /\ UNCHANGED <<protected, asleep>>
       \/ At(f, "Do", "absent") /\ present' = FALSE /\ protected' = FALSE /\ UNCHANGED asleep
       \/ /\ At(f, "Do", "protect")      \* an error if the chunk is absent
          /\ protected' = present /\ asleep' = (asleep \/ present) /\ UNCHANGED present
       \/ /\ At(f, "Do", "unprotect")    \* unless it was protected again, see Core
          /\ protected' = (protected /\ asleep) /\ UNCHANGED <<present, asleep>>
    /\ Goto(f, pc[f] + 1)
    /\ UNCHANGED <<writer, readers>>

(* The early returns for an absent chunk. *)
TestPresent(f) ==
    /\ \/ /\ At(f, "Do", "return if absent")
          /\ IF present THEN Goto(f, pc[f] + 1) /\ UNCHANGED writer
             ELSE Goto(f, Len(Program[f]) + 1) /\ writer' = [writer EXCEPT !["chunk"] = "nobody"]
       \/ /\ At(f, "Do", "skip if absent")
          /\ Goto(f, IF present THEN pc[f] + 1 ELSE Len(Program[f]))
          /\ UNCHANGED writer
    /\ UNCHANGED <<readers, present, protected, asleep>>

Step(f) ==
    \/ \E l \in Locks : TakeLock(f, l) \/ GiveLock(f, l) \/ TakeRLock(f, l) \/ GiveRLock(f, l)
    \/ SetFlags(f) \/ TestPresent(f)
--------------------------------------------------------------------------------------
Init ==
    /\ pc = [f \in Functions |-> 0]
    /\ writer = [l \in Locks |-> "nobody"] /\ readers = [l \in Locks |-> {}]
    /\ present = TRUE /\ protected = FALSE /\ asleep = FALSE

Next == \E f \in Functions : Call(f) \/ Step(f)

Spec == Init /\ [][Next]_vars

(* Goroutines run and get a lock that is free again and again, time passes; nobody has to
   call anything. *)
Fairness == (\A f \in Functions : SF_vars(Step(f))) /\ WF_vars(Call("ProtectionExpires"))
FairSpec == Spec /\ Fairness

(* "The flag will be disabled automatically after a period of time" (core.go:188), unless the
   chunk is being protected again: every goroutine that has to lock it gets to. *)
ProtectionEnds == []<>(~protected \/ pc["ChunkSetProtected"] # 0)
======================================================================================

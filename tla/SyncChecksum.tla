------------------------------ MODULE SyncChecksum ------------------------------
(***************************************************************************)
(* core/pmap/syncchecksum.go: the checksum of a chunk that replicas        *)
(* compare.  It is three sums of 64-bit terms: newChecksum holds every     *)
(* term, mediumChecksum and oldChecksum lag behind, so that a comparison   *)
(* of oldChecksum ignores the writes still in flight.                      *)
(*                                                                         *)
(* A sum modulo 2^64 is abstracted to a formal sum: a function that gives  *)
(* each term the number of times it was added minus the number of times it *)
(* was subtracted.  Two formal sums are equal exactly when the 64-bit sums *)
(* are, unless distinct terms happen to collide.                           *)
(***************************************************************************)
EXTENDS Integers

CONSTANT
    Second      \* clock ticks in a second (10^9 in the code)

ASSUME SecondAssumption == Second \in Nat \ {0}

(* The zero time.Time of a fresh struct (the year 1) is before the Unix epoch, 0. *)
ZeroTime == -1

NewSyncChecksum(terms) ==
    [newChecksum    |-> [x \in terms |-> 0],
     mediumChecksum |-> [x \in terms |-> 0],
     oldChecksum    |-> [x \in terms |-> 0],
     newTime |-> ZeroTime, mediumTime |-> ZeroTime, oldTime |-> ZeroTime]

(* Definitions named "...<Bug>" that stand right before the definition they vary are
   mutated forms of it, used to show that a property depends on the code it is about. *)

(* time.Unix(t.Unix()+1, 0): the next whole second. *)
NextSecondUntruncated(t) == t + Second
NextSecond(t) == (t \div Second + 1) * Second

MoveForwardAlways(s, t) ==
    [newChecksum    |-> s.newChecksum,
     mediumChecksum |-> s.newChecksum,
     oldChecksum    |-> s.mediumChecksum,
     newTime |-> NextSecond(t), mediumTime |-> s.newTime, oldTime |-> s.mediumTime]

MoveForwardNever(s, t) == s

(* The head of sum(): a time beyond newTime moves the three windows forward. *)
MoveForward(s, t) ==
    IF t > s.newTime
    THEN [newChecksum    |-> s.newChecksum,
          mediumChecksum |-> s.newChecksum,
          oldChecksum    |-> s.mediumChecksum,
          newTime |-> NextSecond(t), mediumTime |-> s.newTime, oldTime |-> s.mediumTime]
    ELSE s

AddTo(c, x, n) == [c EXCEPT ![x] = @ + n]

(* The additions of sum() once the windows stand: n is 1 for sum(el, t), -1 for sub(el, t). *)
AddTermAhead(s, x, n, t) ==
    [newChecksum    |-> AddTo(s.newChecksum, x, n),
     mediumChecksum |-> AddTo(s.mediumChecksum, x, n),
     oldChecksum    |-> IF t < s.oldTime THEN AddTo(s.oldChecksum, x, n) ELSE s.oldChecksum,
     newTime |-> s.newTime, mediumTime |-> s.mediumTime, oldTime |-> s.oldTime]
AddTerm(s, x, n, t) ==
    [newChecksum    |-> AddTo(s.newChecksum, x, n),
     mediumChecksum |-> IF t < s.mediumTime THEN AddTo(s.mediumChecksum, x, n)
                                            ELSE s.mediumChecksum,
     oldChecksum    |-> IF t < s.oldTime THEN AddTo(s.oldChecksum, x, n) ELSE s.oldChecksum,
     newTime |-> s.newTime, mediumTime |-> s.mediumTime, oldTime |-> s.oldTime]

SumTerm(s, x, t) == AddTerm(MoveForward(s, t), x, 1, t)
SubTerm(s, x, t) == AddTerm(MoveForward(s, t), x, -1, t)
=================================================================================

----------------------------- MODULE ChecksumWindows -----------------------------
(***************************************************************************)
(* The syncChecksum of one chunk as a state machine: terms are added and   *)
(* removed at the timestamps their writers chose, in whatever order the    *)
(* writes arrive, and checksum() is called at the server's own time.       *)
(***************************************************************************)
EXTENDS SyncChecksum

CONSTANTS
    Items,      \* the elements summed: hash of the key xor timestamp of the pair
    Clock,      \* timestamps of writes and readings of the server's clock
    MaxCount    \* bound on how often one term is added or removed

ASSUME ClockAssumption == Clock \subseteq Nat
ASSUME MaxCountAssumption == MaxCount \in Nat

VARIABLE sync   \* the syncChecksum struct

(* A summand is an element with the time argument of its sum() or sub() call.  The two are
   independent: the element of a replaced pair is subtracted at the time of the new one. *)
Summands == Items \X Clock
TimeOf(x) == x[2]

WindowsInit == sync = NewSyncChecksum(Summands)

Sum(x) == /\ sync.newChecksum[x] < MaxCount
          /\ sync' = SumTerm(sync, x, TimeOf(x))

Sub(x) == /\ sync.newChecksum[x] > -MaxCount
          /\ sync' = SubTerm(sync, x, TimeOf(x))

(* checksum(): s.sum(0, time.Now()), then oldChecksum is returned. *)
checksumAt(now) == sync' = MoveForward(sync, now)

WindowsNext == \/ \E x \in Summands : Sum(x) \/ Sub(x)
               \/ \E now \in Clock : checksumAt(now)

WindowsSpec == WindowsInit /\ [][WindowsNext]_sync
-----------------------------------------------------------------------------------
WholeSecond(t) == t = ZeroTime \/ \E n \in 0 .. t : t = n * Second

(* Types; every window boundary is a whole second (or the zero
   time.Time), which is what lets replicas with different writes agree on a boundary. *)
WindowsTypeOK ==
    /\ sync \in [newChecksum : [Summands -> Int], mediumChecksum : [Summands -> Int],
                 oldChecksum : [Summands -> Int],
                 newTime : Int, mediumTime : Int, oldTime : Int]
    /\ WholeSecond(sync.newTime)
    /\ WholeSecond(sync.mediumTime)
    /\ WholeSecond(sync.oldTime)

(* Time stability, the point of the struct (pmap.go, Checksum): whatever the order in
   which terms arrive, a lagging checksum holds every term older than its time exactly
   as newChecksum does, and no term younger than its time.  A term that carries exactly
   the window's time is the one case left open: it counts when it arrived before the
   window moved (sum() tests After first) and does not when it arrives later (Before). *)
TimeStable ==
    \A x \in Summands :
        /\ TimeOf(x) < sync.oldTime    => sync.oldChecksum[x] = sync.newChecksum[x]
        /\ TimeOf(x) > sync.oldTime    => sync.oldChecksum[x] = 0
        /\ TimeOf(x) < sync.mediumTime => sync.mediumChecksum[x] = sync.newChecksum[x]
        /\ TimeOf(x) > sync.mediumTime => sync.mediumChecksum[x] = 0

(* The windows stand in order and no term is younger than the newest: sum() moves the
   windows before it adds, so a term is never taken for older than it is. *)
NothingAhead ==
    /\ sync.oldTime <= sync.mediumTime
    /\ sync.mediumTime <= sync.newTime
    /\ \A x \in Summands : TimeOf(x) > sync.newTime => sync.newChecksum[x] = 0

WindowsInv == WindowsTypeOK /\ TimeStable /\ NothingAhead

(* A lagging window never turns back, even when writes arrive with timestamps far out
   of order: once replicas compare the pairs up to oldTime they never compare fewer. *)
WindowsOnlyAdvance ==
    [][/\ sync'.oldTime >= sync.oldTime
       /\ sync'.mediumTime >= sync.mediumTime
       /\ sync'.newTime >= sync.newTime]_sync
==================================================================================

----------------------------- MODULE TimerWheel -----------------------------
(***************************************************************************)
(* The timer wheel: references in buckets by the millisecond they expire   *)
(* in, an index of entries that knows each reference's bucket and slot,    *)
(* and an ordered index of deadlines.  A tick walks the buckets from the   *)
(* last tick to the present one, at most one lap.                          *)
(*                                                                         *)
(* Every operation runs under the wheel's lock and reads the clock there.  *)
(* The walk of a tick is modelled slot by slot; nothing else happens while *)
(* it is under way.  Slots count from 1, as sequences do.                  *)
(***************************************************************************)
EXTENDS Naturals, Sequences, FiniteSetsExt

CONSTANTS
    NumBuckets,  \* buckets of the wheel
    Resolution,  \* instants per millisecond
    MaxSkew,     \* bound: instants by which a first caller's clock read may precede the wheel
    MaxRefs,     \* bound: references handed out
    MaxDelay,    \* bound: the longest delay, in instants
    MaxClock     \* bound: the last instant

ASSUME WheelAssumption == NumBuckets \in Nat \ {0} /\ Resolution \in Nat \ {0}
ASSUME WheelBoundsAssumption == MaxSkew \in Nat /\ MaxRefs \in Nat /\ MaxDelay \in Nat /\ MaxClock \in Nat

Refs == 1 .. MaxRefs
Buckets == 0 .. (NumBuckets - 1)
Idle == NumBuckets                 \* no walk is under way
Never == MaxClock + MaxDelay + 1   \* later than every deadline

VARIABLES
    clock,        \* Instant::now
    start,        \* TimerWheel::start
    currentTick,  \* TimerWheel::current_tick
    buckets,      \* TimerWheel::buckets
    entries,      \* TimerWheel::entries: [at, bucket, slot] of every pending reference
    deadlines,    \* TimerWheel::deadlines
    nextRef,      \* TimerWheel::next_ref
    parked,       \* worker 0 has published a park ...
    parkedUntil,  \* ... until this instant, or Never (TimerWheel::parked_until)
    step, slot,   \* where the walk of tick_at is
    expired,      \* what it has found so far: reference -> deadline
    returned      \* what the last operation returned, if it was tick_at

indexVars == <<buckets, entries, deadlines>>
walkVars == <<step, slot, expired>>
parkVars == <<parked, parkedUntil>>
vars == <<clock, start, currentTick, indexVars, nextRef, parkVars, walkVars, returned>>

Pending == DOMAIN entries

\* tick_for: whole milliseconds since the start, 0 before it.
TickFor(instant) == IF instant < start THEN 0 ELSE (instant - start) \div Resolution

\* swap_remove: the last element takes the place of the removed one.
SwapRemove(s, i) == [j \in 1 .. Len(s) - 1 |-> IF j = i THEN s[Len(s)] ELSE s[j]]

\* Mutant: the entry that moved keeps its old slot.
DetachForgetsSlot(r) ==
    LET e == entries[r]
    IN  /\ entries' = [q \in Pending \ {r} |-> entries[q]]
        /\ deadlines' = deadlines \ {<<e.at, r>>}
        /\ buckets' = [buckets EXCEPT ![e.bucket] = SwapRemove(@, e.slot)]

\* remove_entry: out of the entries, the deadlines and the bucket; the entry
\* that took its place there learns its new slot.
Detach(r) ==
    LET e == entries[r]
        replacement == buckets[e.bucket][Len(buckets[e.bucket])]
    IN  /\ entries' = [q \in Pending \ {r} |->
                          IF q = replacement THEN [entries[q] EXCEPT !.slot = e.slot] ELSE entries[q]]
        /\ deadlines' = deadlines \ {<<e.at, r>>}
        /\ buckets' = [buckets EXCEPT ![e.bucket] = SwapRemove(@, e.slot)]

----------------------------------------------------------------------------
(* Operations *)

\* reserve_reference
ReserveReference ==
    /\ step = Idle
    /\ nextRef <= MaxRefs
    /\ nextRef' = nextRef + 1
    /\ returned' = {}
    /\ UNCHANGED <<clock, start, currentTick, indexVars, parkVars, walkVars>>

\* wake_parked_worker_for: an arming before the published deadline runs the
\* scheduler's edge (IdlePark models it) and takes that deadline's place.
WakeParkedWorker(at) ==
    /\ parkedUntil' = IF parked /\ at < parkedUntil THEN at ELSE parkedUntil
    /\ UNCHANGED parked

\* schedule_reserved_at: a reference that is pending is refused; a clock read
\* that precedes the wheel moves its start back.
ScheduleReserved(r, delay) ==
    LET at == clock + delay
        newStart == IF clock < start THEN clock ELSE start
        bucket == ((at - newStart) \div Resolution) % NumBuckets
    IN  /\ step = Idle
        /\ r < nextRef /\ r \notin Pending
        /\ start' = newStart
        /\ currentTick' = IF clock < start THEN 0 ELSE currentTick
        /\ entries' = [q \in Pending \cup {r} |->
                          IF q = r THEN [at |-> at, bucket |-> bucket, slot |-> Len(buckets[bucket]) + 1]
                          ELSE entries[q]]
        /\ buckets' = [buckets EXCEPT ![bucket] = Append(@, r)]
        /\ deadlines' = deadlines \cup {<<at, r>>}
        /\ WakeParkedWorker(at)
        /\ returned' = {}
        /\ UNCHANGED <<clock, nextRef, walkVars>>

\* cancel_at
Cancel(r) ==
    /\ step = Idle
    /\ r \in Pending
    /\ Detach(r)
    /\ returned' = {}
    /\ UNCHANGED <<clock, start, currentTick, nextRef, parkVars, walkVars>>

\* tick_at: at most one lap.  (A tick before the current one returns at once.)
TickBegins ==
    /\ step = Idle
    /\ TickFor(clock) >= currentTick
    /\ step' = 0 /\ slot' = 1
    /\ expired' = <<>>
    /\ returned' = {}
    /\ UNCHANGED <<clock, start, currentTick, indexVars, nextRef, parkVars>>

Steps ==
    LET ticks == TickFor(clock) - currentTick + 1
    IN  IF ticks < NumBuckets THEN ticks ELSE NumBuckets

WalkedBucket == buckets[(currentTick + step) % NumBuckets]

\* expire_bucket: a due entry is removed, and its slot looked at again ...
ExpireSlot ==
    /\ step # Idle
    /\ slot <= Len(WalkedBucket)
    /\ LET r == WalkedBucket[slot]
       IN  /\ entries[r].at <= clock
           /\ Detach(r)
           /\ expired' = [q \in DOMAIN expired \cup {r} |-> IF q = r THEN entries[r].at ELSE expired[q]]
    /\ UNCHANGED <<clock, start, currentTick, nextRef, parkVars, step, slot, returned>>

\* ... a later one stays.
PassSlot ==
    /\ step # Idle
    /\ slot <= Len(WalkedBucket)
    /\ entries[WalkedBucket[slot]].at > clock
    /\ slot' = slot + 1
    /\ UNCHANGED <<clock, start, currentTick, indexVars, nextRef, parkVars, step, expired, returned>>

NextBucket ==
    /\ step # Idle
    /\ slot > Len(WalkedBucket)
    /\ step + 1 < Steps
    /\ step' = step + 1 /\ slot' = 1
    /\ UNCHANGED <<clock, start, currentTick, indexVars, nextRef, parkVars, expired, returned>>

\* Mutant: the next walk starts after the present tick.
TickEndsBeyond ==
    /\ step # Idle
    /\ slot > Len(WalkedBucket)
    /\ step + 1 >= Steps
    /\ currentTick' = TickFor(clock) + 1
    /\ step' = Idle /\ slot' = 1
    /\ returned' = DOMAIN expired
    /\ expired' = <<>>
    /\ UNCHANGED <<clock, start, indexVars, nextRef, parkVars>>

\* The walk ends on the present tick, so that the next one revisits its bucket.
TickEnds ==
    /\ step # Idle
    /\ slot > Len(WalkedBucket)
    /\ step + 1 >= Steps
    /\ currentTick' = TickFor(clock)
    /\ step' = Idle /\ slot' = 1
    /\ returned' = DOMAIN expired
    /\ expired' = <<>>
    /\ UNCHANGED <<clock, start, indexVars, nextRef, parkVars>>

\* earliest_deadline: the first of the ordered index.
EarliestDeadline == IF deadlines = {} THEN Never ELSE Min({d[1] : d \in deadlines})

\* publish_park and clear_park
PublishPark ==
    /\ step = Idle
    /\ parked' = TRUE /\ parkedUntil' = EarliestDeadline
    /\ returned' = {}
    /\ UNCHANGED <<clock, start, currentTick, indexVars, nextRef, walkVars>>

ClearPark ==
    /\ step = Idle
    /\ parked' = FALSE /\ parkedUntil' = Never
    /\ returned' = {}
    /\ UNCHANGED <<clock, start, currentTick, indexVars, nextRef, walkVars>>

\* Time passes between operations; they read the clock under the lock.
ClockAdvances ==
    /\ step = Idle
    /\ clock < MaxClock
    /\ \E now \in clock + 1 .. MaxClock : clock' = now
    /\ returned' = {}
    /\ UNCHANGED <<start, currentTick, indexVars, nextRef, parkVars, walkVars>>

----------------------------------------------------------------------------
Init ==
    /\ clock = 0
    /\ start \in 0 .. MaxSkew
    /\ currentTick = 0
    /\ buckets = [b \in Buckets |-> <<>>]
    /\ entries = <<>> /\ deadlines = {}
    /\ nextRef = 1
    /\ parked = FALSE /\ parkedUntil = Never
    /\ step = Idle /\ slot = 1 /\ expired = <<>> /\ returned = {}

Next ==
    \/ ReserveReference \/ TickBegins \/ ExpireSlot \/ PassSlot \/ NextBucket \/ TickEnds
    \/ PublishPark \/ ClearPark \/ ClockAdvances
    \/ \E r \in Refs : Cancel(r) \/ \E delay \in 0 .. MaxDelay : ScheduleReserved(r, delay)

Spec == Init /\ [][Next]_vars

----------------------------------------------------------------------------
(* Properties *)

\* Entries, buckets and deadlines agree: every pending reference is where its
\* entry says, no bucket holds anything else, and the deadlines are those of
\* the entries.  (cancel_at, tick_at and earliest_deadline each trust another
\* of the three.)
IndexesAgree ==
    /\ \A r \in Pending : /\ entries[r].slot \in 1 .. Len(buckets[entries[r].bucket])
                          /\ buckets[entries[r].bucket][entries[r].slot] = r
    /\ \A b \in Buckets : \A i \in 1 .. Len(buckets[b]) :
          /\ buckets[b][i] \in Pending
          /\ entries[buckets[b][i]].bucket = b /\ entries[buckets[b][i]].slot = i
    /\ deadlines = {<<entries[r].at, r>> : r \in Pending}

\* A parked worker 0 sleeps past no armed timer: what it published, and what
\* armings since have put in its place, is no later than any pending deadline.
ParkedUntilCoversAll == parked => \A r \in Pending : parkedUntil <= entries[r].at

\* During a walk the timers found so far still count as armed.
Deadlines ==
    [r \in Pending \cup DOMAIN expired |-> IF r \in Pending THEN entries[r].at ELSE expired[r]]

Timers == INSTANCE TimerSet WITH pending <- Deadlines, fired <- returned

\* The wheel implements the set of timers: every tick returns exactly the
\* timers that are due (tick_at: "never fires early", "never left behind for a
\* lap"), whatever the number of buckets it had to catch up on.
WheelIsATimerSet == Timers!SetSpec

=============================================================================

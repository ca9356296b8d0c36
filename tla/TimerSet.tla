------------------------------ MODULE TimerSet ------------------------------
(***************************************************************************)
(* What the timer wheel promises: a set of one-shot timers, each with its  *)
(* deadline.  A tick gives up exactly the timers that are due, never one   *)
(* early, and leaves none behind.                                          *)
(***************************************************************************)
EXTENDS Naturals

CONSTANTS Refs, MaxDelay

VARIABLES
    clock,    \* the instant
    pending,  \* the armed timers: reference -> deadline
    fired     \* the timers the last operation returned

tvars == <<clock, pending, fired>>

Armed == DOMAIN pending
Due == {r \in Armed : pending[r] <= clock}

SetInit == clock \in Nat /\ pending = <<>> /\ fired = {}

Arm(r, delay) ==
    /\ r \notin Armed
    /\ pending' = [q \in Armed \cup {r} |-> IF q = r THEN clock + delay ELSE pending[q]]
    /\ fired' = {} /\ UNCHANGED clock

Disarm(r) ==
    /\ r \in Armed
    /\ pending' = [q \in Armed \ {r} |-> pending[q]]
    /\ fired' = {} /\ UNCHANGED clock

Fire ==
    /\ fired' = Due
    /\ pending' = [r \in Armed \ Due |-> pending[r]]
    /\ UNCHANGED clock

\* Time passes, or an operation that concerns no timer is done.
Pass == clock' \in Nat /\ clock' >= clock /\ fired' = {} /\ UNCHANGED pending

SetNext ==
    \/ Pass \/ Fire
    \/ \E r \in Refs : Disarm(r) \/ \E delay \in 0 .. MaxDelay : Arm(r, delay)

SetSpec == SetInit /\ [][SetNext]_tvars

=============================================================================

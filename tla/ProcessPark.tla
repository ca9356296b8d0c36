---------------------------- MODULE ProcessPark -----------------------------
(***************************************************************************)
(* The life of one process between its slices: how it parks, which of the  *)
(* many threads that know its pid may get it scheduled again, how a        *)
(* result-gated suspension (host await, dirty call, hook suspend) is       *)
(* consumed by its own event only, and what a kill leaves behind.          *)
(*                                                                         *)
(* The process is run by whichever worker pops its pid; a worker that has  *)
(* stored the process back may still be in the arm of run_process that     *)
(* parks it while another worker already runs it.  One step below is one   *)
(* access to shared state: a slot lock, the wait_set lock, a concurrent    *)
(* map, the process table.  File-ring results and replay are left out.     *)
(***************************************************************************)
EXTENDS Naturals, FiniteSets

CONSTANTS
    NumWorkers,   \* workers that may pop the pid
    NumKillers,   \* threads that may kill the process, once each
    Parks,        \* how its slices may park: subset of the five kinds below
    Kills,        \* how it may be killed: subset of {"exit", "cascade", "terminate"}
    MaxCalls,     \* bound: suspension call ids allocated
    MaxMessages,  \* bound: messages delivered
    MaxTimers,    \* bound: receive timers armed
    MaxResumes    \* bound: resume_process calls

ASSUME ParksAssumption == Parks \subseteq {"receive", "await", "select", "dirty", "hook"}
ASSUME KillsAssumption == Kills \subseteq {"exit", "cascade", "terminate"}
ASSUME CountsAssumption ==
    /\ NumWorkers \in Nat \ {0}
    /\ NumKillers \in Nat
    /\ MaxCalls \in Nat
    /\ MaxMessages \in Nat
    /\ MaxTimers \in Nat
    /\ MaxResumes \in Nat

Workers == {"worker"} \X (1 .. NumWorkers)
Killers == {"killer"} \X (1 .. NumKillers)
Calls == {"call"} \X (1 .. MaxCalls)       \* who completes a host await or a dirty call
Sender == <<"sender", 0>>
TimerThread == <<"timer", 0>>
Resumer == <<"resumer", 0>>
Actors == Workers \cup Killers \cup Calls \cup {Sender, TimerThread, Resumer}

NoWorker == <<"nobody", 0>>
NoCall == [id |-> 0, kind |-> "none"]
ResumeAny == 0                    \* RESUME_ANY_HOOK
NoResume == MaxCalls + 1

VARIABLES
    pc,        \* where each actor is
    outcome,   \* each worker's SliceOutcome
    inTable,   \* is the pid in the process table?
    tomb,      \* is there an exit tombstone?
    slot,      \* "Present", "Executing", or "Gone" (no process_bodies entry)
    status,    \* Process::status
    record,    \* Process::suspension
    timed,     \* Process::receive_timeout is set
    tref,      \* Process::receive_timer_ref, 0 when none
    mail,      \* are there messages in the mailbox?
    pending,   \* messages queued in the Executing slot's metadata
    mirror,    \* SharedState::suspensions
    result,    \* SharedState::suspension_results: the call id, 0 when none
    resume,    \* SharedState::pending_resumes
    resumeId,  \* the id resume_process resolved
    wheel,     \* timers in the wheel
    marks,     \* SharedState::expired_receive_timers
    waiting,   \* WaitSet::waiting
    woken,     \* entries for the pid in WaitSet::woken
    queued,    \* entries for the pid in run queues
    released,  \* how often the body was disposed of
    callKind,  \* the kind of each suspension call allocated
    endedBy,   \* how each call ended
    calls, timers, messages, resumes   \* counters behind the bounds

bodyVars == <<slot, status, record, timed, tref, mail, pending>>
suspVars == <<mirror, result, resume, resumeId, callKind, endedBy>>
waitVars == <<waiting, woken, queued>>
timerVars == <<wheel, marks>>
deathVars == <<inTable, tomb, released>>
counters == <<calls, timers, messages, resumes>>
vars == <<pc, outcome, bodyVars, suspVars, waitVars, timerVars, deathVars, counters>>

Goto(a, label) == pc' = [pc EXCEPT ![a] = label]

\* Where an actor goes when its routine returns.
Finish(a) == Goto(a, IF a \in Calls \cup Killers THEN "done" ELSE "idle")

----------------------------------------------------------------------------
(* What the shared maps say of the pid *)

\* has_consumable_suspension_event
HasConsumable ==
    /\ mirror # NoCall
    /\ \/ result = mirror.id
       \/ mirror.kind \in {"await", "select"} /\ marks # {}
       \/ mirror.kind = "hook" /\ resume \in {ResumeAny, mirror.id}

Gated == mirror # NoCall /\ mirror.kind # "select"

\* Mutant: the wake gate does not look for the event.
BlocksWakeAlways == Gated

\* suspension_blocks_wake
BlocksWake == Gated /\ ~HasConsumable

\* Mutant: the woken list is filled whether or not the pid was waiting.
MoveToWokenAlways ==
    /\ woken' = woken + 1
    /\ waiting' = NoWorker
    /\ UNCHANGED queued

\* waiting -> woken, under the wait_set lock.
MoveToWoken ==
    /\ woken' = woken + (IF waiting = NoWorker THEN 0 ELSE 1)
    /\ waiting' = NoWorker
    /\ UNCHANGED queued

----------------------------------------------------------------------------
(* wake_process, called by senders and by host completions *)

WakeCheck(a) ==
    /\ pc[a] = "wakeCheck"
    /\ IF BlocksWake THEN Finish(a) ELSE Goto(a, "wakeMove")
    /\ UNCHANGED <<outcome, bodyVars, suspVars, waitVars, timerVars, deathVars, counters>>

WakeMove(a) ==
    /\ pc[a] = "wakeMove"
    /\ MoveToWoken
    /\ Finish(a)
    /\ UNCHANGED <<outcome, bodyVars, suspVars, timerVars, deathVars, counters>>

(* resume_suspended, called by dirty completions, resume_process and the     *)
(* Suspended arm: the check, the status flip under the slot lock, the move.  *)

\* It answers false.  The Suspended arm then falls back to an unpark of its own.
Refused(a) == IF a \in Workers THEN Goto(a, "fallback") ELSE Finish(a)

ResumeCheck(a) ==
    /\ pc[a] = "resumeCheck"
    /\ IF mirror # NoCall /\ ~HasConsumable THEN Refused(a) ELSE Goto(a, "resumeFlip")
    /\ UNCHANGED <<outcome, bodyVars, suspVars, waitVars, timerVars, deathVars, counters>>

ResumeFlip(a) ==
    /\ pc[a] = "resumeFlip"
    /\ IF slot = "Present" /\ status = "Suspended"
       THEN status' = "Yielded" /\ Goto(a, "resumeMove")
       ELSE Refused(a) /\ UNCHANGED status
    /\ UNCHANGED <<outcome, slot, record, timed, tref, mail, pending,
                   suspVars, waitVars, timerVars, deathVars, counters>>

ResumeMove(a) ==
    /\ pc[a] = "resumeMove"
    /\ MoveToWoken
    /\ IF waiting = NoWorker THEN Refused(a) ELSE Finish(a)
    /\ UNCHANGED <<outcome, bodyVars, suspVars, timerVars, deathVars, counters>>

----------------------------------------------------------------------------
(* cleanup_exited_process, run by a worker or by a killer *)

\* insert_exit_tombstone.  Table transfers and exit propagation follow; they
\* concern other processes.
Tombstone(a) ==
    /\ pc[a] = "tombstone"
    /\ tomb' = TRUE
    /\ Goto(a, "finalize")
    /\ UNCHANGED <<outcome, bodyVars, suspVars, waitVars, timerVars, inTable, released, counters>>

\* The table token: one finalizer goes on, the others return.
TakeTableToken(a) ==
    /\ pc[a] = "finalize"
    /\ inTable' = FALSE
    /\ IF inTable THEN Goto(a, "finalizeBody") ELSE Finish(a)
    /\ UNCHANGED <<outcome, bodyVars, suspVars, waitVars, timerVars, tomb, released, counters>>

\* Mutant: an Executing body is disposed of in place.
TakeBodyInPlace(a) ==
    /\ pc[a] = "finalizeBody"
    /\ released' = released + (IF slot = "Gone" THEN 0 ELSE 1)
    /\ slot' = "Gone"
    /\ pending' = FALSE
    /\ Goto(a, "sweep")
    /\ UNCHANGED <<outcome, status, record, timed, tref, mail,
                   suspVars, waitVars, timerVars, inTable, tomb, counters>>

\* The body token: a Present body is disposed of here, an Executing one by
\* the worker that holds it.
TakeBody(a) ==
    /\ pc[a] = "finalizeBody"
    /\ released' = released + (IF slot = "Present" THEN 1 ELSE 0)
    /\ slot' = "Gone"
    /\ pending' = FALSE
    /\ Goto(a, "sweep")
    /\ UNCHANGED <<outcome, status, record, timed, tref, mail,
                   suspVars, waitVars, timerVars, inTable, tomb, counters>>

SweepWaitSet(a) ==
    /\ pc[a] = "sweep"
    /\ waiting' = NoWorker
    /\ woken' = 0
    /\ Goto(a, "dropMarks")
    /\ UNCHANGED <<outcome, bodyVars, suspVars, queued, timerVars, deathVars, counters>>

DropMarks(a) ==
    /\ pc[a] = "dropMarks"
    /\ marks' = {}
    /\ Goto(a, "purge")
    /\ UNCHANGED <<outcome, bodyVars, suspVars, waitVars, wheel, deathVars, counters>>

\* purge_suspension_state
Purge(a) ==
    /\ pc[a] = "purge"
    /\ mirror' = NoCall
    /\ result' = 0
    /\ resume' = NoResume
    /\ Finish(a)
    /\ UNCHANGED <<outcome, bodyVars, resumeId, callKind, endedBy, waitVars, timerVars, deathVars, counters>>

----------------------------------------------------------------------------
(* run_process: taking the process and the slice-start gate *)

\* drain_woken, by whichever worker the entry was filed under.
DrainWoken ==
    /\ woken > 0
    /\ queued' = queued + woken
    /\ woken' = 0
    /\ UNCHANGED <<pc, outcome, bodyVars, suspVars, waiting, timerVars, deathVars, counters>>

\* A worker pops the pid and looks it up in the process table.
PopPid(w) ==
    /\ pc[w] = "idle"
    /\ queued > 0
    /\ queued' = queued - 1
    /\ Goto(w, IF inTable THEN "take" ELSE "idle")
    /\ UNCHANGED <<outcome, bodyVars, suspVars, waiting, woken, timerVars, deathVars, counters>>

\* take_runnable_process: only a Present body can be checked out.
TakeRunnable(w) ==
    /\ pc[w] = "take"
    /\ IF slot = "Present"
       THEN slot' = "Executing" /\ Goto(w, "gate")
       ELSE Goto(w, "idle") /\ UNCHANGED slot
    /\ UNCHANGED <<outcome, status, record, timed, tref, mail, pending,
                   suspVars, waitVars, timerVars, deathVars, counters>>

\* apply_expired_receive_timer: the marks are consumed; the timeout jump is
\* taken when one of them is the armed timer.
TimerJumps == timed /\ tref # 0 /\ tref \in marks

ApplyTimer ==
    /\ marks' = {}
    /\ tref' = IF TimerJumps THEN 0 ELSE tref
    /\ UNCHANGED timed

\* The call the process was parked on is over.
EndCall(how) ==
    /\ endedBy' = [endedBy EXCEPT ![record.id] = how]
    /\ record' = NoCall
    /\ mirror' = NoCall

\* The gate refuses a body another thread terminated.
GateExited(w) ==
    /\ pc[w] = "gate"
    /\ status = "Exited"
    /\ outcome' = [outcome EXCEPT ![w] = "exited"]
    /\ Goto(w, "ended")
    /\ UNCHANGED <<bodyVars, suspVars, waitVars, timerVars, deathVars, counters>>

\* No live suspension: orphans are dropped and a plain timer fire is applied.
GateFree(w) ==
    /\ pc[w] = "gate"
    /\ status # "Exited"
    /\ record = NoCall
    /\ mirror' = NoCall
    /\ result' = 0
    /\ ApplyTimer
    /\ status' = "Running"
    /\ Goto(w, "running")
    /\ UNCHANGED <<outcome, slot, record, mail, pending, resume, resumeId, callKind, endedBy,
                   waitVars, wheel, deathVars, counters>>

\* The completion published under the suspension's own id is applied.
GateResult(w) ==
    /\ pc[w] = "gate"
    /\ status # "Exited"
    /\ record # NoCall /\ result = record.id
    /\ result' = 0
    /\ EndCall("result")
    /\ timed' = FALSE /\ tref' = 0
    /\ marks' = {}
    /\ status' = "Running"
    /\ Goto(w, "running")
    /\ UNCHANGED <<outcome, slot, mail, pending, resume, resumeId, callKind,
                   waitVars, wheel, deathVars, counters>>

NewCall(kind) == [id |-> calls + 1, kind |-> kind]

\* allocate_suspension_call_id, the record and its mirror; the completion is
\* in somebody's hands from here on (a hook suspension waits for a resume).
OpenCall(kind) ==
    /\ calls < MaxCalls
    /\ calls' = calls + 1
    /\ record' = NewCall(kind)
    /\ mirror' = NewCall(kind)
    /\ callKind' = [callKind EXCEPT ![calls + 1] = kind]
    /\ endedBy' = [endedBy EXCEPT ![calls + 1] = "open"]

\* apply_dirty_suspend: the dirty native asked for a host await, and the
\* process parks again under a new call id without running.
GateDirtySuspend(w, kind, after) ==
    /\ pc[w] = "gate"
    /\ status # "Exited"
    /\ record.kind = "dirty" /\ result = record.id
    /\ kind \in Parks \cap {"await", "select"}
    /\ after => timers < MaxTimers
    /\ calls < MaxCalls
    /\ calls' = calls + 1
    /\ record' = NewCall(kind)
    /\ mirror' = NewCall(kind)
    /\ callKind' = [callKind EXCEPT ![calls + 1] = kind]
    /\ endedBy' = [endedBy EXCEPT ![record.id] = "result", ![calls + 1] = "open"]
    /\ result' = 0
    /\ timed' = after /\ tref' = 0
    /\ marks' = {}
    /\ status' = "Waiting"
    /\ outcome' = [outcome EXCEPT ![w] = "wait"]
    /\ pc' = [pc EXCEPT ![w] = "ended", ![<<"call", calls + 1>>] = "flying"]
    /\ UNCHANGED <<slot, mail, pending, resume, resumeId,
                   waitVars, wheel, deathVars, timers, messages, resumes>>

GateNoResult(w) ==
    /\ pc[w] = "gate"
    /\ status # "Exited"
    /\ record # NoCall /\ result # record.id
    /\ Goto(w, "gateStale")
    /\ UNCHANGED <<outcome, bodyVars, suspVars, waitVars, timerVars, deathVars, counters>>

\* Mutant: whatever completion is there is dropped.
GateStaleAll(w) ==
    /\ pc[w] = "gateStale"
    /\ result' = 0
    /\ Goto(w, "gateKind")
    /\ UNCHANGED <<outcome, bodyVars, mirror, resume, resumeId, callKind, endedBy,
                   waitVars, timerVars, deathVars, counters>>

\* A completion for another call is dropped; one that matches by now is kept.
GateStale(w) ==
    /\ pc[w] = "gateStale"
    /\ result' = IF result = record.id THEN result ELSE 0
    /\ Goto(w, "gateKind")
    /\ UNCHANGED <<outcome, bodyVars, mirror, resume, resumeId, callKind, endedBy,
                   waitVars, timerVars, deathVars, counters>>

\* The suspension's other events: the timeout and, for a select, any wake.
GateHostAwait(w) ==
    /\ pc[w] = "gateKind"
    /\ record.kind \in {"await", "select"}
    /\ ApplyTimer
    /\ IF TimerJumps \/ record.kind = "select"
       THEN /\ EndCall(IF TimerJumps THEN "timeout" ELSE "message")
            /\ status' = "Running"
            /\ Goto(w, "running")
            /\ UNCHANGED outcome
       ELSE /\ status' = "Waiting"
            /\ outcome' = [outcome EXCEPT ![w] = "wait"]
            /\ Goto(w, "ended")
            /\ UNCHANGED <<record, mirror, endedBy>>
    /\ UNCHANGED <<slot, mail, pending, result, resume, resumeId, callKind,
                   waitVars, wheel, deathVars, counters>>

\* Mutant: a slice start is itself taken for the resume.
GateSuspendedAny(w) ==
    /\ pc[w] = "gateKind"
    /\ record.kind \in {"dirty", "hook"}
    /\ EndCall("message")
    /\ ApplyTimer
    /\ status' = "Running"
    /\ Goto(w, "running")
    /\ UNCHANGED <<outcome, slot, mail, pending, result, resume, resumeId, callKind,
                   waitVars, wheel, deathVars, counters>>

\* A dirty call parks again; a hook suspend too unless its resume is there.
GateSuspended(w) ==
    LET resumed == record.kind = "hook" /\ resume \in {ResumeAny, record.id}
    IN  /\ pc[w] = "gateKind"
        /\ record.kind \in {"dirty", "hook"}
        /\ resume' = IF record.kind = "hook" THEN NoResume ELSE resume
        /\ IF resumed
           THEN /\ EndCall("resume")
                /\ ApplyTimer
                /\ status' = "Running"
                /\ Goto(w, "running")
                /\ UNCHANGED outcome
           ELSE /\ status' = "Suspended"
                /\ outcome' = [outcome EXCEPT ![w] = "suspended"]
                /\ Goto(w, "ended")
                /\ UNCHANGED <<record, mirror, endedBy, marks, tref, timed>>
        /\ UNCHANGED <<slot, mail, pending, result, resumeId, callKind,
                       waitVars, wheel, deathVars, counters>>

----------------------------------------------------------------------------
(* The slice itself: what the process's code may do *)

\* A receive that matches: the messages are taken and the timer let go.
TakeMessages(w) ==
    /\ pc[w] = "running"
    /\ mail
    /\ mail' = FALSE
    /\ timed' = FALSE /\ tref' = 0
    /\ UNCHANGED <<pc, outcome, slot, status, record, pending,
                   suspVars, waitVars, timerVars, deathVars, counters>>

\* The timeout instruction, or a native that saw receive_timeout_expired,
\* forgets the timeout.
ForgetTimeout(w) ==
    /\ pc[w] = "running"
    /\ timed
    /\ timed' = FALSE /\ tref' = 0
    /\ UNCHANGED <<pc, outcome, slot, status, record, mail, pending,
                   suspVars, waitVars, timerVars, deathVars, counters>>

\* Parking with this timeout needs a new timer: within the bound.
TimerAllowed(after) == (timed \/ after) /\ tref = 0 => timers < MaxTimers

EndSlice(w, how, newStatus) ==
    /\ outcome' = [outcome EXCEPT ![w] = how]
    /\ status' = newStatus

\* The reduction budget ran out.
Yield(w) ==
    /\ pc[w] = "running"
    /\ EndSlice(w, "requeue", "Yielded")
    /\ Goto(w, "ended")
    /\ UNCHANGED <<slot, record, timed, tref, mail, pending,
                   suspVars, waitVars, timerVars, deathVars, counters>>

Exit(w) ==
    /\ pc[w] = "running"
    /\ EndSlice(w, "exited", "Exited")
    /\ timed' = FALSE /\ tref' = 0 /\ mail' = FALSE
    /\ Goto(w, "ended")
    /\ UNCHANGED <<slot, record, pending, suspVars, waitVars, timerVars, deathVars, counters>>

\* A receive that matched nothing, with or without an after clause.
ReceiveWaits(w, after) ==
    /\ pc[w] = "running"
    /\ "receive" \in Parks
    /\ TimerAllowed(after)
    /\ EndSlice(w, "wait", "Waiting")
    /\ timed' = (timed \/ after)
    /\ Goto(w, "ended")
    /\ UNCHANGED <<slot, record, tref, mail, pending, suspVars, waitVars, timerVars, deathVars, counters>>

\* request_await_suspend ("await") or request_suspend ("select").
SuspendsOnHost(w, kind, after) ==
    /\ pc[w] = "running"
    /\ kind \in Parks \cap {"await", "select"}
    /\ TimerAllowed(after)
    /\ OpenCall(kind)
    /\ EndSlice(w, "wait", "Waiting")
    /\ timed' = (timed \/ after)
    /\ pc' = [pc EXCEPT ![w] = "ended", ![<<"call", calls + 1>>] = "flying"]
    /\ UNCHANGED <<slot, tref, mail, pending, result, resume, resumeId,
                   waitVars, timerVars, deathVars, timers, messages, resumes>>

DirtyCall(w) ==
    /\ pc[w] = "running"
    /\ "dirty" \in Parks
    /\ OpenCall("dirty")
    /\ EndSlice(w, "suspended", "Suspended")
    /\ pc' = [pc EXCEPT ![w] = "ended", ![<<"call", calls + 1>>] = "flying"]
    /\ UNCHANGED <<slot, timed, tref, mail, pending, result, resume, resumeId,
                   waitVars, timerVars, deathVars, timers, messages, resumes>>

\* The slice hook answers Suspend to a slice that yields or waits.
HookSuspends(w) ==
    /\ pc[w] = "running"
    /\ "hook" \in Parks
    /\ OpenCall("hook")
    /\ EndSlice(w, "suspended", "Suspended")
    /\ Goto(w, "ended")
    /\ UNCHANGED <<slot, timed, tref, mail, pending, result, resume, resumeId,
                   waitVars, timerVars, deathVars, timers, messages, resumes>>

----------------------------------------------------------------------------
(* run_process: after the slice *)

\* The tombstone is looked up; a process that waits has its receive timer
\* armed unless it is already (register_receive_timer).
SliceEnded(w) ==
    LET arms == ~tomb /\ outcome[w] = "wait" /\ timed /\ tref = 0
    IN  /\ pc[w] = "ended"
        /\ timers' = IF arms THEN timers + 1 ELSE timers
        /\ wheel' = IF arms THEN wheel \cup {timers + 1} ELSE wheel
        /\ tref' = IF arms THEN timers + 1 ELSE tref
        /\ Goto(w, "store")
        /\ UNCHANGED <<outcome, slot, status, record, timed, mail, pending, suspVars, waitVars,
                       marks, deathVars, calls, messages, resumes>>

\* store_runnable_process: queued messages are merged and the body is Present
\* again; when the entry is gone the pid is dead and the worker disposes of
\* the body it holds.
StoreRunnable(w) ==
    /\ pc[w] = "store"
    /\ IF slot = "Gone"
       THEN released' = released + 1 /\ UNCHANGED <<slot, mail>>
       ELSE slot' = "Present" /\ mail' = (mail \/ pending) /\ UNCHANGED released
    /\ pending' = FALSE
    /\ Goto(w, "stored")
    /\ UNCHANGED <<outcome, status, record, timed, tref, suspVars, waitVars, timerVars,
                   inTable, tomb, counters>>

\* cleanup_if_tombstoned_after_store, then the arm of the slice's outcome.
AfterStore(w) ==
    /\ pc[w] = "stored"
    /\ Goto(w, IF tomb \/ outcome[w] = "exited" THEN "tombstone" ELSE outcome[w])
    /\ outcome' = [outcome EXCEPT ![w] = "none"]
    /\ UNCHANGED <<bodyVars, suspVars, waitVars, timerVars, deathVars, counters>>

RequeueArm(w) ==
    /\ pc[w] = "requeue"
    /\ queued' = queued + 1
    /\ Goto(w, "idle")
    /\ UNCHANGED <<outcome, bodyVars, suspVars, waiting, woken, timerVars, deathVars, counters>>

\* Both parking arms register in the wait set.
RegisterArm(w) ==
    /\ pc[w] \in {"wait", "suspended"}
    /\ waiting' = w
    /\ Goto(w, IF pc[w] = "wait" THEN "deathRecheck" ELSE "eventCheck")
    /\ UNCHANGED <<outcome, bodyVars, suspVars, woken, queued, timerVars, deathVars, counters>>

\* The Wait arm: has a kill finalized the process since it was stored?
DeathRecheck(w) ==
    /\ pc[w] = "deathRecheck"
    /\ Goto(w, IF inTable THEN "recheck" ELSE "withdraw")
    /\ UNCHANGED <<outcome, bodyVars, suspVars, waitVars, timerVars, deathVars, counters>>

Withdraw(w) ==
    /\ pc[w] = "withdraw"
    /\ waiting' = NoWorker
    /\ Goto(w, "idle")
    /\ UNCHANGED <<outcome, bodyVars, suspVars, woken, queued, timerVars, deathVars, counters>>

\* process_has_queued_messages reads a Present body; a message that a receive
\* has passed over counts.
HasQueuedMessages == slot = "Present" /\ mail

WakeWorthy == HasConsumable \/ (~Gated /\ (HasQueuedMessages \/ marks # {}))

\* Mutant: the recheck looks for messages only.
RecheckMessages(w) ==
    /\ pc[w] = "recheck"
    /\ Goto(w, IF HasQueuedMessages THEN "selfWake" ELSE "idle")
    /\ UNCHANGED <<outcome, bodyVars, suspVars, waitVars, timerVars, deathVars, counters>>

\* The Wait arm's recheck of every wake source ...
Recheck(w) ==
    /\ pc[w] = "recheck"
    /\ Goto(w, IF WakeWorthy THEN "selfWake" ELSE "idle")
    /\ UNCHANGED <<outcome, bodyVars, suspVars, waitVars, timerVars, deathVars, counters>>

\* Mutant: the self-wake does not ask whether the registration was still there.
SelfWakeAlways(w) ==
    /\ pc[w] = "selfWake"
    /\ queued' = queued + 1
    /\ waiting' = NoWorker
    /\ Goto(w, "idle")
    /\ UNCHANGED <<outcome, bodyVars, suspVars, woken, timerVars, deathVars, counters>>

\* ... and the self-wake, if the registration is still there.
SelfWake(w) ==
    /\ pc[w] = "selfWake"
    /\ queued' = queued + (IF waiting = NoWorker THEN 0 ELSE 1)
    /\ waiting' = NoWorker
    /\ Goto(w, "idle")
    /\ UNCHANGED <<outcome, bodyVars, suspVars, woken, timerVars, deathVars, counters>>

\* The Suspended arm: an event that came before the registration ...
EventCheck(w) ==
    /\ pc[w] = "eventCheck"
    /\ Goto(w, IF HasConsumable THEN "resumeCheck" ELSE "idle")
    /\ UNCHANGED <<outcome, bodyVars, suspVars, waitVars, timerVars, deathVars, counters>>

\* ... and its fallback, which checks the event again under the wait_set lock.
Fallback(w) ==
    /\ pc[w] = "fallback"
    /\ IF HasConsumable THEN MoveToWoken ELSE UNCHANGED waitVars
    /\ Goto(w, "idle")
    /\ UNCHANGED <<outcome, bodyVars, suspVars, timerVars, deathVars, counters>>

----------------------------------------------------------------------------
(* The other threads *)

\* A sender pushes under the slot lock, then calls wake_process.
Deliver ==
    /\ pc[Sender] = "idle"
    /\ messages < MaxMessages
    /\ messages' = messages + 1
    /\ slot # "Gone"
    /\ IF slot = "Present" THEN mail' = TRUE /\ UNCHANGED pending
       ELSE pending' = TRUE /\ UNCHANGED mail
    /\ Goto(Sender, "wakeCheck")
    /\ UNCHANGED <<outcome, slot, status, record, timed, tref, suspVars, waitVars, timerVars,
                   deathVars, calls, timers, resumes>>

\* publish_suspension_result: the mirror is checked, ...
PublishCheck(c) ==
    /\ pc[c] = "flying"
    /\ IF mirror.id = c[2] THEN Goto(c, "insert") ELSE Goto(c, "refused")
    /\ UNCHANGED <<outcome, bodyVars, suspVars, waitVars, timerVars, deathVars, counters>>

\* ... the result stored unless a newer one is there, ...
PublishInsert(c) ==
    /\ pc[c] = "insert"
    /\ IF result > c[2] THEN Goto(c, "refused") /\ UNCHANGED result
       ELSE Goto(c, "liveCheck") /\ result' = c[2]
    /\ UNCHANGED <<outcome, bodyVars, mirror, resume, resumeId, callKind, endedBy,
                   waitVars, timerVars, deathVars, counters>>

\* Mutant: no look at the process table after the insert.
PublishLiveCheckSkipped(c) ==
    /\ pc[c] = "liveCheck"
    /\ Goto(c, "published")
    /\ UNCHANGED <<outcome, bodyVars, suspVars, waitVars, timerVars, deathVars, counters>>

\* ... and taken out again when the process has died meanwhile.
PublishLiveCheck(c) ==
    /\ pc[c] = "liveCheck"
    /\ IF inTable THEN Goto(c, "published") ELSE Goto(c, "withdrawResult")
    /\ UNCHANGED <<outcome, bodyVars, suspVars, waitVars, timerVars, deathVars, counters>>

WithdrawResult(c) ==
    /\ pc[c] = "withdrawResult"
    /\ result' = 0
    /\ Goto(c, "refused")
    /\ UNCHANGED <<outcome, bodyVars, mirror, resume, resumeId, callKind, endedBy,
                   waitVars, timerVars, deathVars, counters>>

\* A host wakes the process when its result was published, the I/O bridge
\* either way; the bridge of a dirty call calls resume_suspended either way.
PublisherWakes(c) ==
    /\ pc[c] \in {"published", "refused"}
    /\ \/ callKind[c[2]] = "dirty" /\ Goto(c, "resumeCheck")
       \/ callKind[c[2]] # "dirty" /\ Goto(c, "wakeCheck")
       \/ callKind[c[2]] # "dirty" /\ pc[c] = "refused" /\ Finish(c)
    /\ UNCHANGED <<outcome, bodyVars, suspVars, waitVars, timerVars, deathVars, counters>>

\* expire_timers: the wheel gives a timer up; a dead pid's fire is dropped.
TimerExpires(t) ==
    /\ pc[TimerThread] = "idle"
    /\ t \in wheel
    /\ wheel' = wheel \ {t}
    /\ IF inTable THEN marks' = marks \cup {t} /\ Goto(TimerThread, "markCheck")
       ELSE UNCHANGED <<marks, pc>>
    /\ UNCHANGED <<outcome, bodyVars, suspVars, waitVars, deathVars, counters>>

\* mark_fired_receive_timer's liveness check after the mark ...
MarkCheck ==
    /\ pc[TimerThread] = "markCheck"
    /\ Goto(TimerThread, IF inTable THEN "wakeMove" ELSE "withdrawMark")
    /\ UNCHANGED <<outcome, bodyVars, suspVars, waitVars, timerVars, deathVars, counters>>

WithdrawMark ==
    /\ pc[TimerThread] = "withdrawMark"
    /\ marks' = {}
    /\ Finish(TimerThread)
    /\ UNCHANGED <<outcome, bodyVars, suspVars, waitVars, wheel, deathVars, counters>>

\* Scheduler::resume_process: resolve the id, ...
ResumeProcess ==
    /\ pc[Resumer] = "idle"
    /\ resumes < MaxResumes
    /\ mirror.kind \in {"none", "hook"}
    /\ resumes' = resumes + 1
    /\ resumeId' = IF mirror = NoCall THEN ResumeAny ELSE mirror.id
    /\ Goto(Resumer, "insertResume")
    /\ UNCHANGED <<outcome, bodyVars, mirror, result, resume, callKind, endedBy, waitVars, timerVars,
                   deathVars, calls, timers, messages>>

\* ... record the sticky resume, ...
InsertResume ==
    /\ pc[Resumer] = "insertResume"
    /\ resume' = resumeId
    /\ resumeId' = NoResume
    /\ Goto(Resumer, "resumeLive")
    /\ UNCHANGED <<outcome, bodyVars, mirror, result, callKind, endedBy, waitVars, timerVars,
                   deathVars, counters>>

\* ... and take it back from a dead process, or go on to resume_suspended.
ResumeLive ==
    /\ pc[Resumer] = "resumeLive"
    /\ Goto(Resumer, IF inTable THEN "resumeCheck" ELSE "withdrawResume")
    /\ UNCHANGED <<outcome, bodyVars, suspVars, waitVars, timerVars, deathVars, counters>>

WithdrawResume ==
    /\ pc[Resumer] = "withdrawResume"
    /\ resume' = NoResume
    /\ Finish(Resumer)
    /\ UNCHANGED <<outcome, bodyVars, mirror, result, resumeId, callKind, endedBy, waitVars, timerVars,
                   deathVars, counters>>

\* Process::terminate on a Present body, under the slot lock.
TerminateBody ==
    /\ status' = "Exited"
    /\ record' = NoCall
    /\ timed' = FALSE /\ tref' = 0 /\ mail' = FALSE
    /\ UNCHANGED <<slot, pending>>

\* exit_signal: a Present body is terminated and cleaned up, an Executing one
\* only gets a tombstone for its worker to find.
ExitSignal(k) ==
    /\ pc[k] = "idle"
    /\ "exit" \in Kills
    /\ \/ /\ slot = "Present" /\ status # "Exited"
          /\ TerminateBody
          /\ Goto(k, "tombstone")
          /\ UNCHANGED tomb
       \/ /\ slot = "Executing"
          /\ tomb' = TRUE
          /\ Goto(k, "done")
          /\ UNCHANGED bodyVars
    /\ UNCHANGED <<outcome, suspVars, waitVars, timerVars, inTable, released, counters>>

\* process_exit_signal, the link cascade: the tombstone is written under the
\* slot lock, and the finalization skips the propagation.
CascadeKill(k) ==
    /\ pc[k] = "idle"
    /\ "cascade" \in Kills
    /\ tomb' = TRUE
    /\ \/ /\ slot = "Present" /\ status # "Exited"
          /\ TerminateBody
          /\ Goto(k, "finalize")
       \/ /\ slot = "Executing"
          /\ Goto(k, "done")
          /\ UNCHANGED bodyVars
    /\ UNCHANGED <<outcome, suspVars, waitVars, timerVars, inTable, released, counters>>

\* Scheduler::terminate_process: cleanup at once, whatever the slot holds.
TerminateProcess(k) ==
    /\ pc[k] = "idle"
    /\ "terminate" \in Kills
    /\ ~tomb
    /\ Goto(k, "tombstone")
    /\ UNCHANGED <<outcome, bodyVars, suspVars, waitVars, timerVars, deathVars, counters>>

----------------------------------------------------------------------------
\* The process has just been spawned and sits in a run queue.
Init ==
    /\ pc = [a \in Actors |-> IF a \in Calls THEN "done" ELSE "idle"]
    /\ outcome = [w \in Workers |-> "none"]
    /\ inTable = TRUE /\ tomb = FALSE /\ released = 0
    /\ slot = "Present" /\ status = "New" /\ record = NoCall
    /\ timed = FALSE /\ tref = 0 /\ mail = FALSE /\ pending = FALSE
    /\ mirror = NoCall /\ result = 0 /\ resume = NoResume /\ resumeId = NoResume
    /\ callKind = [c \in 1 .. MaxCalls |-> "none"]
    /\ endedBy = [c \in 1 .. MaxCalls |-> "none"]
    /\ wheel = {} /\ marks = {}
    /\ waiting = NoWorker /\ woken = 0 /\ queued = 1
    /\ calls = 0 /\ timers = 0 /\ messages = 0 /\ resumes = 0

Slice(w) ==
    \/ Yield(w) \/ Exit(w) \/ DirtyCall(w) \/ HookSuspends(w)
    \/ \E after \in BOOLEAN :
          ReceiveWaits(w, after) \/ \E kind \in {"await", "select"} : SuspendsOnHost(w, kind, after)

Gate(w) ==
    \/ GateExited(w) \/ GateFree(w) \/ GateResult(w) \/ GateNoResult(w) \/ GateStale(w)
    \/ GateHostAwait(w) \/ GateSuspended(w)
    \/ \E kind \in {"await", "select"}, after \in BOOLEAN : GateDirtySuspend(w, kind, after)

RunProcess(w) ==
    \/ PopPid(w) \/ TakeRunnable(w) \/ Gate(w) \/ Slice(w)
    \/ SliceEnded(w) \/ StoreRunnable(w) \/ AfterStore(w) \/ RequeueArm(w) \/ RegisterArm(w)
    \/ DeathRecheck(w) \/ Withdraw(w) \/ Recheck(w) \/ SelfWake(w) \/ EventCheck(w) \/ Fallback(w)

\* The routines several actors share.
Routine(a) ==
    \/ WakeCheck(a) \/ WakeMove(a) \/ ResumeCheck(a) \/ ResumeFlip(a) \/ ResumeMove(a)
    \/ Tombstone(a) \/ TakeTableToken(a) \/ TakeBody(a) \/ SweepWaitSet(a) \/ DropMarks(a) \/ Purge(a)

Publish(c) ==
    PublishCheck(c) \/ PublishInsert(c) \/ PublishLiveCheck(c) \/ WithdrawResult(c) \/ PublisherWakes(c)

Resume == InsertResume \/ ResumeLive \/ WithdrawResume

Kill(k) == ExitSignal(k) \/ CascadeKill(k) \/ TerminateProcess(k)

TimerStep == (\E t \in wheel : TimerExpires(t)) \/ MarkCheck \/ WithdrawMark

Next ==
    \/ \E w \in Workers : RunProcess(w) \/ TakeMessages(w) \/ ForgetTimeout(w)
    \/ \E a \in Actors : Routine(a)
    \/ \E c \in Calls : Publish(c)
    \/ \E k \in Killers : Kill(k)
    \/ DrainWoken \/ Deliver \/ TimerStep \/ ResumeProcess \/ Resume

Spec == Init /\ [][Next]_vars

\* Threads that have begun something go on with it, worker loops and the timer
\* tick included.  Nobody is obliged to send, complete, resume or kill.
Fairness ==
    /\ \A w \in Workers : WF_vars(RunProcess(w))
    /\ \A a \in Actors : WF_vars(Routine(a))
    /\ \A c \in Calls : WF_vars(Publish(c) /\ pc[c] # "flying")
    /\ WF_vars(DrainWoken) /\ WF_vars(TimerStep) /\ WF_vars(Resume)

FairSpec == Spec /\ Fairness

----------------------------------------------------------------------------
(* Properties *)

\* Nothing is under way: no worker holds or parks the process, no other
\* thread is between two steps of a call.
Quiet == \A a \in Actors : pc[a] \in {"idle", "done", "flying"}

Labels == {"idle", "take", "gate", "gateStale", "gateKind", "running", "ended", "store", "stored",
           "requeue", "wait", "suspended", "deathRecheck", "withdraw", "recheck", "selfWake",
           "eventCheck", "fallback", "resumeCheck", "resumeFlip", "resumeMove", "wakeCheck", "wakeMove",
           "tombstone", "finalize", "finalizeBody", "sweep", "dropMarks", "purge",
           "flying", "insert", "liveCheck", "withdrawResult", "published", "refused",
           "markCheck", "withdrawMark", "insertResume", "resumeLive", "withdrawResume", "done"}

CallKinds == {"none", "await", "select", "dirty", "hook"}

CallRecords == [id : 0 .. MaxCalls, kind : CallKinds]

\* Every variable keeps its type, and every timer reference that is held, in
\* the wheel or marked as fired has been handed out.
TypeOK ==
    /\ pc \in [Actors -> Labels]
    /\ outcome \in [Workers -> {"none", "requeue", "wait", "suspended", "exited"}]
    /\ inTable \in BOOLEAN /\ tomb \in BOOLEAN /\ timed \in BOOLEAN
    /\ mail \in BOOLEAN /\ pending \in BOOLEAN
    /\ slot \in {"Present", "Executing", "Gone"}
    /\ status \in {"New", "Running", "Yielded", "Waiting", "Suspended", "Exited"}
    /\ record \in CallRecords /\ mirror \in CallRecords
    /\ callKind \in [1 .. MaxCalls -> CallKinds]
    /\ endedBy \in [1 .. MaxCalls -> {"none", "open", "result", "timeout", "message", "resume"}]
    /\ calls \in 0 .. MaxCalls /\ timers \in Nat
    /\ messages \in 0 .. MaxMessages /\ resumes \in 0 .. MaxResumes
    /\ tref \in 0 .. timers /\ wheel \subseteq 1 .. timers /\ marks \subseteq 1 .. timers
    /\ result \in 0 .. MaxCalls /\ resume \in 0 .. NoResume /\ resumeId \in 0 .. NoResume
    /\ waiting \in Workers \cup {NoWorker}
    /\ woken \in Nat /\ queued \in Nat /\ released \in Nat

\* From popping the pid to parking or requeueing it.
Holds(w) == pc[w] \in {"take", "gate", "gateStale", "gateKind", "running", "ended", "store", "stored",
                       "requeue", "wait", "suspended"}

\* The entries that will make some worker run the process.
Entries == woken + queued + (IF waiting = NoWorker THEN 0 ELSE 1)

\* The process is scheduled at one place at most, whatever raced: one entry of
\* the woken list, of a run queue or of the wait set, or one worker that holds
\* the pid (run_process: "the process is scheduled exactly once").
ScheduledOnce ==
    /\ Entries <= 1
    /\ \A w \in Workers : Holds(w) => Entries = 0 /\ \A v \in Workers : Holds(v) => v = w

\* No wake is lost: once everyone has finished what they were doing, a live
\* process is queued, or it waits and nothing it waits for has happened.
NeverParkedOnAnEvent ==
    Quiet /\ inTable => \/ woken + queued > 0
                        \/ waiting # NoWorker /\ ~WakeWorthy

\* A gated call ends by its own event alone: a dirty call by its result, an
\* await by its result or its timeout, a hook suspend by a resume; so no
\* stray wake re-executes the call, and its side effect happens once.
GatedCallEndsByItsOwnEvent ==
    \A c \in 1 .. MaxCalls :
        /\ callKind[c] = "dirty" => endedBy[c] \in {"open", "result"}
        /\ callKind[c] = "await" => endedBy[c] \in {"open", "result", "timeout"}
        /\ callKind[c] = "hook" => endedBy[c] \in {"open", "resume"}

\* A completion that was published for the call the process is parked on is
\* not overwritten or dropped before the process consumes it.
PublishedResultSurvives ==
    \A c \in Calls : pc[c] = "done" /\ record.id = c[2] /\ callKind[c[2]] # "hook" /\ slot # "Gone"
                        => result = c[2] \/ ~inTable

\* The body is disposed of once, by whoever really holds it.
BodyDisposedOnce ==
    /\ released <= 1
    /\ Quiet /\ ~inTable => released = 1

\* A dead pid leaves no entry in the wait set (a woken one is drained and
\* dropped by PopPid), no mirror, completion, resume or timer mark.
DeadPidLeavesNothing ==
    Quiet /\ ~inTable =>
        /\ waiting = NoWorker
        /\ mirror = NoCall /\ result = 0 /\ resume = NoResume /\ marks = {}

\* A completion that was published ends its call: the process gets its slice
\* and consumes it, unless the call times out first or the process dies.
PublishedCallEnds ==
    \A c \in Calls : pc[c] = "published" ~> endedBy[c[2]] # "open" \/ ~inTable

=============================================================================

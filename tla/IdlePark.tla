------------------------------ MODULE IdlePark ------------------------------
(***************************************************************************)
(* The worker side of the threaded scheduler: what a worker does between   *)
(* two slices, how it falls asleep when it finds nothing to run, and how   *)
(* everything that creates work gets it up again.  One worker step below   *)
(* is one access to state that other threads share; the wait_set mutex and *)
(* the timers mutex are modelled by making each critical section one step. *)
(*                                                                         *)
(* Live mode only: the replay park follows a log and is not modelled here. *)
(* The four priority lanes of a run queue are one lane here.               *)
(***************************************************************************)
EXTENDS Naturals, Sequences, FiniteSets, SequencesExt

CONSTANTS
    NumWorkers,    \* worker threads, 0 .. NumWorkers - 1 (SharedState::thread_count)
    Pids,          \* processes that may be spawned
    NoPid,         \* stands for "no process"
    MessagePids,   \* those that may park for a message alone
    TimerPids,     \* those that may park with a receive timeout
    IoPids,        \* those that may park on a file-ring operation
    MaxDelay,      \* bound: a timeout is 1 .. MaxDelay clock ticks away
    CanShutDown    \* whether the embedder may call Scheduler::shutdown

ASSUME NumWorkersAssumption == NumWorkers \in Nat \ {0}
ASSUME PidsAssumption == NoPid \notin Pids /\ MessagePids \subseteq Pids /\ TimerPids \subseteq Pids /\ IoPids \subseteq Pids
ASSUME BoundsAssumption == MaxDelay \in Nat \ {0} /\ CanShutDown \in BOOLEAN

Workers == 0 .. (NumWorkers - 1)

NoWorker == NumWorkers
None == MaxDelay + 1             \* no timer armed / no deadline
NotParked == MaxDelay + 2        \* ParkedUntil::NotParked

VARIABLES
    pc,          \* where each worker is in scheduler_loop
    ret,         \* where its surplus_edge call returns to
    moved,       \* has the wake sequence moved past the ticket the worker holds?
    idle,        \* IdleWake::idle_workers
    queue,       \* each worker's run queue
    inSlice,     \* RunQueue::in_slice
    cur,         \* the process a worker popped
    pushed,      \* did this round of the loop push onto the own queue?
    thief,       \* what a worker knows of the victim it is stealing from
    lastVictim,  \* the victim of its last try_steal
    fired,       \* worker 0: expired timers and completions still to wake
    deadline,    \* worker 0: the deadline its park waits for
    inject,      \* each worker's SegQueue of spawn requests
    waiting,     \* WaitSet::waiting
    woken,       \* WaitSet::woken, by the worker an entry is filed under
    born,        \* processes spawned so far
    exited,      \* processes that have exited (gone from the process table)
    spawnCounter,\* SharedState::spawn_counter
    mail,        \* processes whose mailbox (or pending list) is not empty
    marks,       \* processes with a fired-timer mark or a file result to consume
    wakeOwed,    \* processes whose sender pushed and has not yet called wake_process
    edgeOwed,    \* edges whose source has acted and has not yet run edge E
    timers,      \* the receive timers the wheel holds for each process: ticks left
    parkedUntil, \* TimerWheel::parked_until
    submitted,   \* processes with a file operation in the ring
    completions, \* operations the ring has completed, not yet drained
    shutdown     \* SharedState::shutdown

workerVars == <<pc, ret, pushed, cur, thief, lastVictim, fired, deadline>>
wakeVars == <<moved, idle>>
queueVars == <<queue, inSlice, inject, born, exited, spawnCounter>>
waitVars == <<waiting, woken, mail, marks, wakeOwed>>
timerVars == <<timers, parkedUntil>>
ioVars == <<submitted, completions>>
stopVars == <<edgeOwed, shutdown>>
vars == <<workerVars, wakeVars, queueVars, waitVars, timerVars, ioVars, stopVars>>

\* What steal_half_from has read so far: the victim, how many victims are
\* left to try, the victim's length, the size of the batch, and whether
\* another thread took from the victim's queue since the front was read.
NoThief == [victim |-> NoWorker, left |-> 0, len |-> 0, batch |-> 0, raced |-> FALSE]

(***************************************************************************)
(* Edge E.  The wake sequence is only ever compared for equality with a    *)
(* ticket, so the model keeps, for each worker that holds a ticket,        *)
(* whether it moved since the worker read it.  Advancing it and notify_all *)
(* are one critical section.                                               *)
(***************************************************************************)
HoldsTicket(w) ==
    \/ pc[w] \in {"inject", "tick", "tickWake", "io", "ioWake", "drain", "pop", "popStolen",
                  "stealLen", "stealFlag", "take", "publish", "wait", "parked"}
    \/ pc[w] \in {"surplus", "surplusEdge"} /\ ret[w] # "endSlice"

WakeEdge == moved' = [w \in Workers |-> HoldsTicket(w)]

Goto(w, label) == pc' = [pc EXCEPT ![w] = label]

----------------------------------------------------------------------------
(* The loop's checks *)

Stop(w) ==
    /\ pc[w] = "top"
    /\ shutdown
    /\ Goto(w, "stopped")
    /\ UNCHANGED <<ret, pushed, cur, thief, lastVictim, fired, deadline,
                   wakeVars, queueVars, waitVars, timerVars, ioVars, stopVars>>

\* enter_idle_window: the count is raised before the sequence is read.
RaiseIdle(w) ==
    /\ pc[w] = "top"
    /\ ~shutdown
    /\ idle' = idle + 1
    /\ Goto(w, "ticket")
    /\ UNCHANGED <<ret, pushed, cur, thief, lastVictim, fired, deadline,
                   moved, queueVars, waitVars, timerVars, ioVars, stopVars>>

ReadTicket(w) ==
    /\ pc[w] = "ticket"
    /\ moved' = [moved EXCEPT ![w] = FALSE]
    /\ Goto(w, "inject")
    /\ UNCHANGED <<ret, pushed, cur, thief, lastVictim, fired, deadline,
                   idle, queueVars, waitVars, timerVars, ioVars, stopVars>>

\* drain_injected: every spawn request filed for this worker.
DrainInjected(w) ==
    /\ pc[w] = "inject"
    /\ queue' = [queue EXCEPT ![w] = @ \o inject[w]]
    /\ inject' = [inject EXCEPT ![w] = <<>>]
    /\ pushed' = [pushed EXCEPT ![w] = inject[w] # <<>>]
    /\ Goto(w, IF w = 0 THEN "tick" ELSE "drain")
    /\ UNCHANGED <<ret, cur, thief, lastVictim, fired, deadline,
                   wakeVars, inSlice, born, exited, spawnCounter, waitVars, timerVars, ioVars, stopVars>>

\* tick_timers: the wheel gives up what is due, and each fire is marked
\* before its process is woken.
TickTimers(w) ==
    LET due == {p \in Pids : 0 \in timers[p]}
    IN  /\ pc[w] = "tick"
        /\ timers' = [p \in Pids |-> timers[p] \ {0}]
        /\ marks' = marks \cup (due \ exited)
        /\ fired' = due \ exited
        /\ Goto(w, IF due \subseteq exited THEN "io" ELSE "tickWake")
        /\ UNCHANGED <<ret, pushed, cur, thief, lastVictim, deadline, wakeVars, queueVars,
                       waiting, woken, mail, wakeOwed, parkedUntil, ioVars, stopVars>>

\* drain_file_io_completions: polls the ring and records each result.
DrainFileIo(w) ==
    /\ pc[w] = "io"
    /\ completions' = {}
    /\ submitted' = submitted \ completions
    /\ marks' = marks \cup (completions \ exited)
    /\ fired' = completions \ exited
    /\ Goto(w, IF completions \subseteq exited THEN "drain" ELSE "ioWake")
    /\ UNCHANGED <<ret, pushed, cur, thief, lastVictim, deadline, wakeVars, queueVars,
                   waiting, woken, mail, wakeOwed, timerVars, stopVars>>

\* Mutant: the move to the woken list without the edge.
MoveToWokenSilently(p) ==
    IF waiting[p] # NoWorker
    THEN /\ woken' = [woken EXCEPT ![waiting[p]] = Append(@, p)]
         /\ waiting' = [waiting EXCEPT ![p] = NoWorker]
         /\ UNCHANGED moved
    ELSE UNCHANGED <<waiting, woken, moved>>

\* The critical section shared by wake_process and mark_fired_receive_timer:
\* a waiting process moves to the woken list, and the edge runs under the
\* same lock; a process that is not waiting is left alone.
MoveToWoken(p) ==
    IF waiting[p] # NoWorker
    THEN /\ woken' = [woken EXCEPT ![waiting[p]] = Append(@, p)]
         /\ waiting' = [waiting EXCEPT ![p] = NoWorker]
         /\ WakeEdge
    ELSE UNCHANGED <<waiting, woken, moved>>

WakeFired(w, p) ==
    /\ pc[w] \in {"tickWake", "ioWake"}
    /\ p \in fired
    /\ fired' = fired \ {p}
    /\ MoveToWoken(p)
    /\ IF fired # {p} THEN UNCHANGED pc
       ELSE Goto(w, IF pc[w] = "tickWake" THEN "io" ELSE "drain")
    /\ UNCHANGED <<ret, pushed, cur, thief, lastVictim, deadline, idle, queueVars,
                   mail, marks, wakeOwed, timerVars, ioVars, stopVars>>

\* drain_woken: takes the entries filed under this worker, in order.
DrainWoken(w) ==
    /\ pc[w] = "drain"
    /\ woken' = [woken EXCEPT ![w] = <<>>]
    /\ queue' = [queue EXCEPT ![w] = @ \o woken[w]]
    /\ pushed' = [pushed EXCEPT ![w] = FALSE]
    /\ IF pushed[w] \/ woken[w] # <<>>
       THEN Goto(w, "surplus") /\ ret' = [ret EXCEPT ![w] = "pop"]
       ELSE Goto(w, "pop") /\ UNCHANGED ret
    /\ UNCHANGED <<cur, thief, lastVictim, fired, deadline, wakeVars, inSlice, inject,
                   born, exited, spawnCounter, waiting, mail, marks, wakeOwed, timerVars, ioVars, stopVars>>

----------------------------------------------------------------------------
(* surplus_edge, called from three places; ret says which *)

Return(w) == Goto(w, ret[w]) /\ ret' = [ret EXCEPT ![w] = "pop"]
Proceed(w, label) == Goto(w, label) /\ UNCHANGED ret

OthersIdle(w) == idle - (IF ret[w] = "endSlice" THEN 0 ELSE 1)

\* The idle count and the own queue are read in one step: only a thief can
\* change the queue's length in between, and it then runs what it took.
SurplusRead(w) ==
    /\ pc[w] = "surplus"
    /\ IF OthersIdle(w) > 0 /\ Len(queue[w]) >= 2 THEN Proceed(w, "surplusEdge") ELSE Return(w)
    /\ UNCHANGED <<pushed, cur, thief, lastVictim, fired, deadline,
                   wakeVars, queueVars, waitVars, timerVars, ioVars, stopVars>>

SurplusEdge(w) ==
    /\ pc[w] = "surplusEdge"
    /\ WakeEdge
    /\ Return(w)
    /\ UNCHANGED <<pushed, cur, thief, lastVictim, fired, deadline,
                   idle, queueVars, waitVars, timerVars, ioVars, stopVars>>

----------------------------------------------------------------------------
(* Finding a process: the own queue, then the others' *)

\* Every thief between reading the front of queue v and its compare-and-swap
\* loses the race when somebody else takes from v.
FrontMoves(v) ==
    thief' = [t \in Workers |->
                IF pc[t] = "take" /\ thief[t].victim = v
                THEN [thief[t] EXCEPT !.raced = TRUE] ELSE thief[t]]

\* RunQueue::pop.  An empty queue sends the worker stealing the first time
\* and, after a steal, to its park.
Pop(w) ==
    /\ pc[w] \in {"pop", "popStolen"}
    /\ queue[w] # <<>>
    /\ cur' = [cur EXCEPT ![w] = Head(queue[w])]
    /\ queue' = [queue EXCEPT ![w] = Tail(@)]
    /\ FrontMoves(w)
    /\ moved' = [moved EXCEPT ![w] = FALSE]
    /\ Goto(w, "leaveWork")
    /\ UNCHANGED <<ret, pushed, lastVictim, fired, deadline, idle, inSlice, inject,
                   born, exited, spawnCounter, waitVars, timerVars, ioVars, stopVars>>

\* steal::next_victim: round robin, skipping the thief itself.
NextVictim(v, w) ==
    LET n == (v + 1) % NumWorkers
    IN  IF n = w THEN (n + 1) % NumWorkers ELSE n

\* Where park_thread begins and where it ends: only worker 0 publishes a
\* deadline and clears it.
ParkLabel(w) == IF w = 0 THEN "publish" ELSE "wait"
UnparkLabel(w) == IF w = 0 THEN "clear" ELSE "leavePark"

\* try_steal starts, or gives up at once when there is nobody to steal from.
PopEmpty(w) ==
    /\ pc[w] \in {"pop", "popStolen"}
    /\ queue[w] = <<>>
    /\ IF pc[w] = "pop" /\ NumWorkers > 1
       THEN /\ thief' = [thief EXCEPT ![w] = [NoThief EXCEPT
                            !.victim = NextVictim(lastVictim[w], w), !.left = NumWorkers - 1]]
            /\ Goto(w, "stealLen")
       ELSE /\ Goto(w, ParkLabel(w))
            /\ UNCHANGED thief
    /\ UNCHANGED <<ret, pushed, cur, lastVictim, fired, deadline,
                   wakeVars, queueVars, waitVars, timerVars, ioVars, stopVars>>

\* The next victim, or StealResult::Empty after the last one.
StealNothing(w) ==
    LET v == thief[w].victim
    IN  IF thief[w].left > 1
        THEN /\ thief' = [thief EXCEPT ![w] = [NoThief EXCEPT
                             !.victim = NextVictim(v, w), !.left = thief[w].left - 1]]
             /\ Goto(w, "stealLen")
             /\ UNCHANGED lastVictim
        ELSE /\ thief' = [thief EXCEPT ![w] = NoThief]
             /\ lastVictim' = [lastVictim EXCEPT ![w] = v]
             /\ Goto(w, ParkLabel(w))

StealLen(w) ==
    LET len == Len(queue[thief[w].victim])
    IN  /\ pc[w] = "stealLen"
        /\ IF len = 0
           THEN StealNothing(w)
           ELSE /\ thief' = [thief EXCEPT ![w].len = len]
                /\ Goto(w, "stealFlag")
                /\ UNCHANGED lastVictim
        /\ UNCHANGED <<ret, pushed, cur, fired, deadline,
                       wakeVars, queueVars, waitVars, timerVars, ioVars, stopVars>>

\* How many steal_half_from is willing to take, given the length it read.
StealLimit(len, ownerInSlice) ==
    IF ownerInSlice /\ len < 2 THEN 1 ELSE len \div 2

\* crossbeam's batch: at most the limit, at most half of what is there
\* (rounded up), nothing from an empty queue.
BatchSize(limit, len) ==
    IF limit < (len + 1) \div 2 THEN limit ELSE (len + 1) \div 2

\* The owner's flag is read after the length, and the steal then reads the
\* front of the queue.
StealFlag(w) ==
    LET v == thief[w].victim
        limit == StealLimit(thief[w].len, inSlice[v])
        batch == BatchSize(limit, Len(queue[v]))
    IN  /\ pc[w] = "stealFlag"
        /\ IF batch = 0
           THEN StealNothing(w)
           ELSE /\ thief' = [thief EXCEPT ![w].batch = batch, ![w].len = 0]
                /\ Goto(w, "take")
                /\ UNCHANGED lastVictim
        /\ UNCHANGED <<ret, pushed, cur, fired, deadline,
                       wakeVars, queueVars, waitVars, timerVars, ioVars, stopVars>>

\* The compare-and-swap.  When the front moved meanwhile crossbeam answers
\* Steal::Retry, which steal_from_priority counts as nothing stolen.  The
\* first process of the batch is popped and pushed behind the others.
StealTake(w) ==
    LET v == thief[w].victim
        n == thief[w].batch
    IN  /\ pc[w] = "take"
        /\ IF thief[w].raced
           THEN StealNothing(w) /\ UNCHANGED <<queue, ret>>
           ELSE /\ queue' = [queue EXCEPT
                      ![v] = SubSeq(@, n + 1, Len(@)),
                      ![w] = @ \o SubSeq(queue[v], 2, n) \o <<queue[v][1]>>]
                /\ thief' = [t \in Workers |->
                      IF t = w THEN NoThief
                      ELSE IF pc[t] = "take" /\ thief[t].victim = v
                           THEN [thief[t] EXCEPT !.raced = TRUE] ELSE thief[t]]
                /\ lastVictim' = [lastVictim EXCEPT ![w] = v]
                /\ ret' = [ret EXCEPT ![w] = "popStolen"]
                /\ Goto(w, "surplus")
        /\ UNCHANGED <<pushed, cur, fired, deadline, wakeVars, inSlice, inject, born,
                       exited, spawnCounter, waitVars, timerVars, ioVars, stopVars>>

----------------------------------------------------------------------------
(* A slice *)

LeaveWithWork(w) ==
    /\ pc[w] = "leaveWork"
    /\ idle' = idle - 1
    /\ Goto(w, "enterSlice")
    /\ UNCHANGED <<ret, pushed, cur, thief, lastVictim, fired, deadline,
                   moved, queueVars, waitVars, timerVars, ioVars, stopVars>>

EnterSlice(w) ==
    /\ pc[w] = "enterSlice"
    /\ inSlice' = [inSlice EXCEPT ![w] = TRUE]
    /\ Goto(w, "busy")
    /\ UNCHANGED <<ret, pushed, cur, thief, lastVictim, fired, deadline, wakeVars,
                   queue, inject, born, exited, spawnCounter, waitVars, timerVars, ioVars, stopVars>>

\* The slice starts by consuming what the timers and the ring recorded.
\* Anything recorded from here on is for the recheck after the slice.
StartSlice(w) ==
    /\ marks' = marks \ {cur[w]}
    /\ Goto(w, "running")

\* Mutant: as before B-185, a slice starts without the owner's edge.
BusyReadSilently(w) ==
    /\ pc[w] = "busy"
    /\ StartSlice(w)
    /\ UNCHANGED <<ret, pushed, cur, thief, lastVictim, fired, deadline, wakeVars, queueVars,
                   waiting, woken, mail, wakeOwed, timerVars, ioVars, stopVars>>

\* busy_owner_edge reads the idle count, then the own queue ...
BusyRead(w) ==
    /\ pc[w] = "busy"
    /\ IF idle > 0 /\ queue[w] # <<>>
       THEN Goto(w, "busyEdge") /\ UNCHANGED marks
       ELSE StartSlice(w)
    /\ UNCHANGED <<ret, pushed, cur, thief, lastVictim, fired, deadline, wakeVars, queueVars,
                   waiting, woken, mail, wakeOwed, timerVars, ioVars, stopVars>>

\* ... and runs edge E before the slice.
BusyEdge(w) ==
    /\ pc[w] = "busyEdge"
    /\ WakeEdge
    /\ StartSlice(w)
    /\ UNCHANGED <<ret, pushed, cur, thief, lastVictim, fired, deadline, idle, queueVars,
                   waiting, woken, mail, wakeOwed, timerVars, ioVars, stopVars>>

\* The code of the process takes the mailbox's messages; it may as well leave
\* them there (a selective receive that matches none).
Receive(w) ==
    /\ pc[w] = "running"
    /\ cur[w] \in mail
    /\ mail' = mail \ {cur[w]}
    /\ UNCHANGED <<workerVars, wakeVars, queueVars, waiting, woken, marks, wakeOwed,
                   timerVars, ioVars, stopVars>>

\* SliceOutcome::Requeue
Requeue(w) ==
    /\ pc[w] = "running"
    /\ queue' = [queue EXCEPT ![w] = Append(@, cur[w])]
    /\ cur' = [cur EXCEPT ![w] = NoPid]
    /\ ret' = [ret EXCEPT ![w] = "endSlice"]
    /\ Goto(w, "surplus")
    /\ UNCHANGED <<pushed, thief, lastVictim, fired, deadline, wakeVars, inSlice, inject, born,
                   exited, spawnCounter, waitVars, timerVars, ioVars, stopVars>>

\* SliceOutcome::Exited; cleanup drops what is recorded for the process.
ExitSlice(w) ==
    /\ pc[w] = "running"
    /\ exited' = exited \cup {cur[w]}
    /\ mail' = mail \ {cur[w]}
    /\ marks' = marks \ {cur[w]}
    /\ cur' = [cur EXCEPT ![w] = NoPid]
    /\ Goto(w, "endSlice")
    /\ UNCHANGED <<ret, pushed, thief, lastVictim, fired, deadline, wakeVars, queue, inSlice,
                   inject, born, spawnCounter, waiting, woken, wakeOwed, timerVars, ioVars, stopVars>>

\* SliceOutcome::Wait with no timeout.
WaitPlain(w) ==
    /\ pc[w] = "running"
    /\ cur[w] \in MessagePids
    /\ Goto(w, "register")
    /\ UNCHANGED <<ret, pushed, cur, thief, lastVictim, fired, deadline,
                   wakeVars, queueVars, waitVars, timerVars, ioVars, stopVars>>

\* Mutant: a park without a deadline does not count as later.
IsLaterThanDeadline(until, d) == until \notin {NotParked, None} /\ d < until

\* Whether worker 0 is parked past a timer that has d ticks left.
IsLaterThan(until, d) == until # NotParked /\ d < until

\* SliceOutcome::Wait with a timeout: register_receive_timer arms a timer and
\* runs the arm edge under the timers lock, unless the timer of this receive
\* is armed already.  The timer of a receive that ended stays in the wheel
\* until it fires, so the wheel may hold several for one process.
WaitTimeout(w, d) ==
    LET p == cur[w]
    IN  /\ pc[w] = "running"
        /\ p \in TimerPids
        /\ \/ /\ timers[p] # {} \/ p \in marks
              /\ UNCHANGED <<timers, parkedUntil, moved>>
           \/ /\ timers' = [timers EXCEPT ![p] = @ \cup {d}]
              /\ IF IsLaterThan(parkedUntil, d)
                 THEN WakeEdge /\ parkedUntil' = d
                 ELSE UNCHANGED <<moved, parkedUntil>>
        /\ Goto(w, "register")
        /\ UNCHANGED <<ret, pushed, cur, thief, lastVictim, fired, deadline, idle,
                       queueVars, waitVars, ioVars, stopVars>>

\* SliceOutcome::Wait on a file operation the slice submitted to the ring.
WaitFileIo(w) ==
    LET p == cur[w]
    IN  /\ pc[w] = "running"
        /\ p \in IoPids \ submitted
        /\ submitted' = submitted \cup {p}
        /\ Goto(w, "register")
        /\ UNCHANGED <<ret, pushed, cur, thief, lastVictim, fired, deadline, wakeVars,
                       queueVars, waitVars, timerVars, completions, stopVars>>

\* The Wait arm registers before it rechecks ...
Register(w) ==
    /\ pc[w] = "register"
    /\ waiting' = [waiting EXCEPT ![cur[w]] = w]
    /\ Goto(w, "recheck")
    /\ UNCHANGED <<ret, pushed, cur, thief, lastVictim, fired, deadline, wakeVars, queueVars,
                   woken, mail, marks, wakeOwed, timerVars, ioVars, stopVars>>

\* ... and a message or mark it finds recorded takes the registration back, unless a
\* waker already did.
Recheck(w) ==
    /\ pc[w] = "recheck"
    /\ Goto(w, IF cur[w] \in mail \cup marks THEN "selfWake" ELSE "endSlice")
    /\ cur' = [cur EXCEPT ![w] = IF cur[w] \in mail \cup marks THEN @ ELSE NoPid]
    /\ UNCHANGED <<ret, pushed, thief, lastVictim, fired, deadline,
                   wakeVars, queueVars, waitVars, timerVars, ioVars, stopVars>>

\* Mutant: the self-wake does not look whether a waker took the registration.
SelfWakeAlways(w) ==
    /\ pc[w] = "selfWake"
    /\ cur' = [cur EXCEPT ![w] = NoPid]
    /\ waiting' = [waiting EXCEPT ![cur[w]] = NoWorker]
    /\ queue' = [queue EXCEPT ![w] = Append(@, cur[w])]
    /\ ret' = [ret EXCEPT ![w] = "endSlice"]
    /\ Goto(w, "surplus")
    /\ UNCHANGED <<pushed, thief, lastVictim, fired, deadline, wakeVars, inSlice, inject,
                   born, exited, spawnCounter, woken, mail, marks, wakeOwed, timerVars, ioVars, stopVars>>

SelfWake(w) ==
    LET p == cur[w]
    IN  /\ pc[w] = "selfWake"
        /\ cur' = [cur EXCEPT ![w] = NoPid]
        /\ IF waiting[p] # NoWorker
           THEN /\ waiting' = [waiting EXCEPT ![p] = NoWorker]
                /\ queue' = [queue EXCEPT ![w] = Append(@, p)]
                /\ ret' = [ret EXCEPT ![w] = "endSlice"]
                /\ Goto(w, "surplus")
           ELSE /\ Goto(w, "endSlice")
                /\ UNCHANGED <<waiting, queue, ret>>
        /\ UNCHANGED <<pushed, thief, lastVictim, fired, deadline, wakeVars, inSlice, inject,
                       born, exited, spawnCounter, woken, mail, marks, wakeOwed, timerVars, ioVars, stopVars>>

\* The InSlice guard drops.
EndSlice(w) ==
    /\ pc[w] = "endSlice"
    /\ inSlice' = [inSlice EXCEPT ![w] = FALSE]
    /\ Goto(w, "top")
    /\ UNCHANGED <<ret, pushed, cur, thief, lastVictim, fired, deadline, wakeVars,
                   queue, inject, born, exited, spawnCounter, waitVars, timerVars, ioVars, stopVars>>

----------------------------------------------------------------------------
(* The park *)

Armed == UNION {timers[p] : p \in Pids}

Earliest == CHOOSE d \in Armed \cup {None} : \A e \in Armed : d <= e

\* Mutant: worker 0 parks with no deadline and publishes none.
PublishParkForever(w) ==
    /\ pc[w] = "publish"
    /\ deadline' = None
    /\ Goto(w, "wait")
    /\ UNCHANGED <<ret, pushed, cur, thief, lastVictim, fired, wakeVars, queueVars, waitVars,
                   timerVars, ioVars, stopVars>>

\* park_deadline: worker 0 reads the earliest deadline and publishes it, both
\* under the timers lock; every other worker waits for an edge only.
PublishPark(w) ==
    /\ pc[w] = "publish"
    /\ deadline' = Earliest
    /\ parkedUntil' = Earliest
    /\ Goto(w, "wait")
    /\ UNCHANGED <<ret, pushed, cur, thief, lastVictim, fired, wakeVars, queueVars, waitVars,
                   timers, ioVars, stopVars>>

\* Mutant: the park waits without comparing its ticket.
StartWaitBlindly(w) ==
    /\ pc[w] = "wait"
    /\ Goto(w, IF shutdown THEN UnparkLabel(w) ELSE "parked")
    /\ moved' = [moved EXCEPT ![w] = FALSE]
    /\ UNCHANGED <<ret, pushed, cur, thief, lastVictim, fired, deadline,
                   idle, queueVars, waitVars, timerVars, ioVars, stopVars>>

\* wait_for_edge takes wait_set and compares the ticket before it waits.
StartWait(w) ==
    /\ pc[w] = "wait"
    /\ Goto(w, IF shutdown \/ moved[w] THEN UnparkLabel(w) ELSE "parked")
    /\ moved' = [moved EXCEPT ![w] = FALSE]
    /\ UNCHANGED <<ret, pushed, cur, thief, lastVictim, fired, deadline,
                   idle, queueVars, waitVars, timerVars, ioVars, stopVars>>

\* A notified worker finds the sequence moved.
WokenByEdge(w) ==
    /\ pc[w] = "parked"
    /\ moved[w]
    /\ moved' = [moved EXCEPT ![w] = FALSE]
    /\ Goto(w, UnparkLabel(w))
    /\ UNCHANGED <<ret, pushed, cur, thief, lastVictim, fired, deadline,
                   idle, queueVars, waitVars, timerVars, ioVars, stopVars>>

\* A condvar may return for no reason; the loop then sees the shutdown flag.
WokenSpuriously(w) ==
    /\ pc[w] = "parked"
    /\ shutdown
    /\ moved' = [moved EXCEPT ![w] = FALSE]
    /\ Goto(w, UnparkLabel(w))
    /\ UNCHANGED <<ret, pushed, cur, thief, lastVictim, fired, deadline,
                   idle, queueVars, waitVars, timerVars, ioVars, stopVars>>

\* ParkOutcome::TimedOut; only worker 0 has a deadline.
TimedOut(w) ==
    /\ pc[w] = "parked"
    /\ w = 0 /\ deadline = 0
    /\ moved' = [moved EXCEPT ![w] = FALSE]
    /\ Goto(w, UnparkLabel(w))
    /\ UNCHANGED <<ret, pushed, cur, thief, lastVictim, fired, deadline,
                   idle, queueVars, waitVars, timerVars, ioVars, stopVars>>

ClearPark(w) ==
    /\ pc[w] = "clear"
    /\ deadline' = None
    /\ parkedUntil' = NotParked
    /\ Goto(w, "leavePark")
    /\ UNCHANGED <<ret, pushed, cur, thief, lastVictim, fired, wakeVars, queueVars, waitVars,
                   timers, ioVars, stopVars>>

LeavePark(w) ==
    /\ pc[w] = "leavePark"
    /\ idle' = idle - 1
    /\ Goto(w, "top")
    /\ UNCHANGED <<ret, pushed, cur, thief, lastVictim, fired, deadline,
                   moved, queueVars, waitVars, timerVars, ioVars, stopVars>>

----------------------------------------------------------------------------
(* Everything that creates work, on any thread *)

NextIndex == (spawnCounter + 1) % NumWorkers

\* enqueue_spawn_with_trap_exit, plain spawn: push the request ...
Spawn(p) ==
    /\ p \in Pids \ born
    /\ ~shutdown
    /\ born' = born \cup {p}
    /\ spawnCounter' = NextIndex
    /\ inject' = [inject EXCEPT ![spawnCounter] = Append(@, p)]
    /\ edgeOwed' = edgeOwed \cup {<<"spawn", p>>}
    /\ UNCHANGED <<workerVars, wakeVars, queue, inSlice, exited, waitVars, timerVars, ioVars, shutdown>>

\* ... or, with trap_exit set, file the built process as woken, edge included.
SpawnTrapExit(p) ==
    /\ p \in Pids \ born
    /\ ~shutdown
    /\ born' = born \cup {p}
    /\ spawnCounter' = NextIndex
    /\ woken' = [woken EXCEPT ![spawnCounter] = Append(@, p)]
    /\ WakeEdge
    /\ UNCHANGED <<workerVars, idle, queue, inSlice, inject, exited, waiting, mail, marks, wakeOwed,
                   timerVars, ioVars, stopVars>>

\* A sender pushes a message first (only those to MessagePids are of interest
\* here: the others run or wait for something else) ...
Deliver(p) ==
    /\ p \in (born \cap MessagePids) \ (exited \cup wakeOwed)
    /\ mail' = mail \cup {p}
    /\ wakeOwed' = wakeOwed \cup {p}
    /\ UNCHANGED <<workerVars, wakeVars, queueVars, waiting, woken, marks, timerVars, ioVars, stopVars>>

\* ... then wake_process.
WakeProcess(p) ==
    /\ p \in wakeOwed
    /\ wakeOwed' = wakeOwed \ {p}
    /\ MoveToWoken(p)
    /\ UNCHANGED <<workerVars, idle, queueVars, mail, marks, timerVars, ioVars, stopVars>>

\* The ring's thread publishes a completion, then calls its notifier.
CompleteFileIo(p) ==
    /\ p \in submitted \ completions
    /\ <<"io", p>> \notin edgeOwed
    /\ completions' = completions \cup {p}
    /\ edgeOwed' = edgeOwed \cup {<<"io", p>>}
    /\ UNCHANGED <<workerVars, wakeVars, queueVars, waitVars, timerVars, submitted, shutdown>>

\* Mutant: the flag without the edge.
ShutdownSilently ==
    /\ CanShutDown
    /\ ~shutdown
    /\ shutdown' = TRUE
    /\ UNCHANGED <<workerVars, wakeVars, queueVars, waitVars, timerVars, ioVars, edgeOwed>>

\* Scheduler::shutdown raises the flag, then runs edge E.
Shutdown ==
    /\ CanShutDown
    /\ ~shutdown
    /\ shutdown' = TRUE
    /\ edgeOwed' = edgeOwed \cup {<<"shutdown", NoPid>>}
    /\ UNCHANGED <<workerVars, wakeVars, queueVars, waitVars, timerVars, ioVars>>

RunOwedEdge(e) ==
    /\ e \in edgeOwed
    /\ edgeOwed' = edgeOwed \ {e}
    /\ WakeEdge
    /\ UNCHANGED <<workerVars, idle, queueVars, waitVars, timerVars, ioVars, shutdown>>

\* Time passes: every armed timer, and the deadline a park waits for, is one
\* tick nearer.
Nearer(d) == IF d \in 1 .. MaxDelay THEN d - 1 ELSE d

ClockTick ==
    /\ Armed \ {0} # {}
    /\ timers' = [p \in Pids |-> {Nearer(d) : d \in timers[p]}]
    /\ deadline' = Nearer(deadline)
    /\ parkedUntil' = Nearer(parkedUntil)
    /\ UNCHANGED <<pc, ret, pushed, cur, thief, lastVictim, fired, wakeVars, queueVars,
                   waitVars, ioVars, stopVars>>

----------------------------------------------------------------------------
Init ==
    /\ pc = [w \in Workers |-> "top"]
    /\ ret = [w \in Workers |-> "pop"]
    /\ moved = [w \in Workers |-> FALSE]
    /\ idle = 0
    /\ queue = [w \in Workers |-> <<>>]
    /\ inSlice = [w \in Workers |-> FALSE]
    /\ cur = [w \in Workers |-> NoPid]
    /\ pushed = [w \in Workers |-> FALSE]
    /\ thief = [w \in Workers |-> NoThief]
    /\ lastVictim = [w \in Workers |-> w]
    /\ fired = {}
    /\ deadline = None
    /\ inject = [w \in Workers |-> <<>>]
    /\ waiting = [p \in Pids |-> NoWorker]
    /\ woken = [w \in Workers |-> <<>>]
    /\ born = {} /\ exited = {}
    /\ spawnCounter = 0
    /\ mail = {}
    /\ marks = {}
    /\ wakeOwed = {}
    /\ edgeOwed = {}
    /\ timers = [p \in Pids |-> {}]
    /\ parkedUntil = NotParked
    /\ submitted = {}
    /\ completions = {}
    /\ shutdown = FALSE

Checks(w) ==
    \/ Stop(w) \/ RaiseIdle(w) \/ ReadTicket(w) \/ DrainInjected(w)
    \/ TickTimers(w) \/ DrainFileIo(w) \/ DrainWoken(w)
    \/ \E p \in Pids : WakeFired(w, p)

Edges(w) == SurplusRead(w) \/ SurplusEdge(w)

Finds(w) == Pop(w) \/ PopEmpty(w) \/ StealLen(w) \/ StealFlag(w) \/ StealTake(w)

Slice(w) ==
    \/ LeaveWithWork(w) \/ EnterSlice(w) \/ BusyRead(w) \/ BusyEdge(w)
    \/ Requeue(w) \/ ExitSlice(w) \/ WaitPlain(w) \/ WaitFileIo(w)
    \/ \E d \in 1 .. MaxDelay : WaitTimeout(w, d)
    \/ Register(w) \/ Recheck(w) \/ SelfWake(w) \/ EndSlice(w)

Parks(w) ==
    PublishPark(w) \/ StartWait(w) \/ WokenByEdge(w) \/ TimedOut(w) \/ ClearPark(w) \/ LeavePark(w)

WorkerStep(w) == Checks(w) \/ Edges(w) \/ Finds(w) \/ Slice(w) \/ Parks(w)

Environment ==
    \/ \E p \in Pids : Spawn(p) \/ SpawnTrapExit(p) \/ Deliver(p) \/ WakeProcess(p) \/ CompleteFileIo(p)
    \/ Shutdown
    \/ \E e \in edgeOwed : RunOwedEdge(e)
    \/ ClockTick

Next ==
    \/ \E w \in Workers : WorkerStep(w) \/ Receive(w) \/ WokenSpuriously(w)
    \/ Environment

Spec == Init /\ [][Next]_vars

\* Threads keep running: every worker takes its next step (a slice ends however
\* many messages it takes, its reduction budget sees to that), and whoever recorded an event or pushed
\* work goes on to the wake or edge that follows it.  Time passes.  Nobody is
\* obliged to spawn, send, complete an operation or shut down.
Fairness ==
    /\ \A w \in Workers : WF_vars(WorkerStep(w))
    /\ \A p \in Pids : WF_vars(WakeProcess(p))
    /\ \A e \in ({"spawn", "io"} \X Pids) \cup {<<"shutdown", NoPid>>} : WF_vars(RunOwedEdge(e))
    /\ WF_vars(ClockTick)

FairSpec == Spec /\ Fairness

----------------------------------------------------------------------------
(* Properties *)

Labels == {"top", "stopped", "ticket", "inject", "tick", "tickWake", "io", "ioWake",
           "drain", "surplus", "surplusEdge", "pop", "popStolen", "stealLen",
           "stealFlag", "take", "publish", "wait", "parked", "clear", "leavePark", "leaveWork",
           "enterSlice", "busy", "busyEdge", "running",
           "register", "recheck", "selfWake", "endSlice"}

\* Every variable keeps its type.
TypeOK ==
    /\ pc \in [Workers -> Labels]
    /\ ret \in [Workers -> {"pop", "popStolen", "endSlice"}]
    /\ moved \in [Workers -> BOOLEAN]
    /\ idle \in Nat
    /\ queue \in [Workers -> Seq(Pids)]
    /\ inSlice \in [Workers -> BOOLEAN]
    /\ cur \in [Workers -> Pids \cup {NoPid}]
    /\ pushed \in [Workers -> BOOLEAN]
    /\ thief \in [Workers -> [victim : Workers \cup {NoWorker}, left : Nat, len : Nat,
                              batch : Nat, raced : BOOLEAN]]
    /\ lastVictim \in [Workers -> Workers]
    /\ fired \subseteq Pids
    /\ deadline \in 0 .. None
    /\ inject \in [Workers -> Seq(Pids)]
    /\ waiting \in [Pids -> Workers \cup {NoWorker}]
    /\ woken \in [Workers -> Seq(Pids)]
    /\ born \subseteq Pids
    /\ exited \subseteq Pids
    /\ spawnCounter \in Workers
    /\ mail \subseteq Pids
    /\ marks \subseteq Pids
    /\ wakeOwed \subseteq Pids
    /\ edgeOwed \subseteq ({"spawn", "io"} \X Pids) \cup {<<"shutdown", NoPid>>}
    /\ timers \in [Pids -> SUBSET (0 .. MaxDelay)]
    /\ parkedUntil \in 0 .. NotParked
    /\ submitted \subseteq Pids
    /\ completions \subseteq Pids
    /\ shutdown \in BOOLEAN

\* A worker that waits on the condvar and that no edge has reached.
Asleep(w) == pc[w] = "parked" /\ ~moved[w]

\* No wake is lost (B-181 R2): what is there for a sleeping worker to do has
\* an edge still to come.  Its queue is empty, nothing is filed under it as
\* woken, an injected spawn's edge is still owed, and the shutdown flag's is.
NoLostWake ==
    \A w \in Workers : Asleep(w) =>
        /\ queue[w] = <<>> /\ woken[w] = <<>>
        /\ \A p \in ToSet(inject[w]) : <<"spawn", p>> \in edgeOwed
        /\ shutdown => <<"shutdown", NoPid>> \in edgeOwed

\* Worker 0 alone ticks timers and drains the file ring: asleep, it has set
\* its alarm no later than every armed timer, and a completion it has not
\* drained still owes its edge (§3.8.2 C2, W13).
WorkerZeroNeverOversleeps ==
    Asleep(0) =>
        /\ \A d \in Armed : deadline <= d
        /\ \A p \in completions : <<"io", p>> \in edgeOwed

\* The number of places that will run a process: queued, injected, woken,
\* waiting, or in a worker's hands.
PlacesIn(name, w, list, p) == {<<name, w, i>> : i \in {j \in 1 .. Len(list) : list[j] = p}}

PlacesAt(w, p) ==
    PlacesIn("queue", w, queue[w], p) \cup PlacesIn("inject", w, inject[w], p) \cup PlacesIn("woken", w, woken[w], p)

HeldBy(p) == {v \in Workers : cur[v] = p /\ pc[v] \notin {"recheck", "selfWake"}}

Places(p) ==
    (UNION {PlacesAt(w, p) : w \in Workers})
    \cup {<<"waiting", w, 0>> : w \in {waiting[p]} \ {NoWorker}}
    \cup {<<"cur", w, 0>> : w \in HeldBy(p)}

\* Steals, wakes and the recheck hand a process on without duplicating or
\* losing it: a spawned process that has not exited is scheduled at exactly
\* one place (run_process: "the process is scheduled exactly once").
ScheduledExactlyOnce ==
    \A p \in Pids : Cardinality(Places(p)) = IF p \in born \ exited THEN 1 ELSE 0

\* B-185: while a worker runs a slice, no process is queued behind it beside
\* a sleeping worker (scheduler_loop: "a process queued behind it is never
\* stranded beside an idle worker").
NeverStrandedBehindSlice ==
    \A w, v \in Workers : pc[w] = "running" /\ Asleep(v) => queue[w] = <<>>

Running(p) == \E w \in Workers : cur[w] = p /\ pc[w] = "running"

\* A message, a fired timer or a file result gets its process a slice,
\* whatever the workers were doing when it came, unless the scheduler shuts
\* down.
EventsGetASlice ==
    \A p \in Pids : p \in mail \cup marks ~> Running(p) \/ p \in exited \/ shutdown

\* A receive timer that is due fires, even when every worker sleeps: worker
\* 0's park ends in time.
TimersFire == \A p \in Pids : 0 \in timers[p] ~> 0 \notin timers[p] \/ shutdown

\* Shutdown stops every worker.
ShutdownStopsAll == shutdown ~> \A w \in Workers : pc[w] = "stopped"

=============================================================================

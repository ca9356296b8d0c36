------------------------------- MODULE Teardown -------------------------------
(* The end of a scheduler (scheduler/failure.rs, the shutdown of            *)
(* scheduler/execution.rs, the teardown admissions of scheduler/mod.rs):    *)
(* workers that die are restarted, with or without killing the process they *)
(* ran, or latch a permanent failure; a shutdown closes admission, waits    *)
(* for what was admitted, joins the workers it can and finalizes what is    *)
(* left; spawns, dirty calls, kills and the registration of the failure     *)
(* callback go on meanwhile.                                                *)
(* A body that is Present may be run by any worker at any time: which queue *)
(* holds it is the business of IdlePark and ProcessPark.                    *)
EXTENDS Naturals, FiniteSets

CONSTANTS
  Crew,       \* workers
  Residents,  \* processes that exist at the start
  Newcomers,  \* processes the embedder spawns meanwhile
  Scripts,    \* bounds on what happens: [cast, deaths], the threads of the
              \* embedder that act and the processes that make one dirty call,
              \* and how many times a worker dies
  NoOne       \* no process

Everyone == Residents \cup Newcomers
Hands == Crew \cup Newcomers \cup {"shutdown", "host", "registrar"}

ASSUME TeardownAssumption ==
  /\ Crew # {} /\ \A s \in Scripts : s.deaths \in Nat
  /\ Residents \cap Newcomers = {} /\ NoOne \notin Everyone
  /\ Crew \cap {"shutdown", "host", "registrar"} = {}
  /\ \A p \in Everyone : p \notin Crew \cup {"shutdown", "host", "registrar"}

VARIABLES
  thread,    \* each thread: where it is, its process, what it has yet to do
  fresh,     \* workers restarted that have run no slice since
  roll,      \* process table
  graves,    \* exit tombstones
  seat,      \* process bodies: "none", "present", "executing"
  injects,   \* requests in the inject queue of each worker
  shut,      \* admission is closed
  admitted,  \* threads that hold a teardown admission
  hungUp,    \* the channel the bridges select on is closed
  bridge,    \* the dirty call of each process: "none" yet, its bridge, "done"
  retained,  \* bridges whose handle is retained
  latched,   \* the failure value is set
  deadMark,  \* workers the latch recorded dead
  stopping,  \* the shutdown flag
  poisoned,  \* poisoned mutexes: "wait_set" and process slots
  callback,  \* the failure callback: "empty", "waiting", "spent"
  joined,    \* workers shutdown is through with
  deaths,    \* deaths to come
  told,      \* times the failure callback ran
  lost       \* processes no one will finalize any more (history)

books == <<roll, graves, seat, injects>>
admission == <<shut, admitted, hungUp, bridge, retained>>
latchVars == <<latched, deadMark, stopping, callback, told>>
tdGhosts == <<deaths, lost>>
tdVars == <<thread, fresh, books, admission, latchVars, poisoned, joined, tdGhosts>>

HandAt(t, l) == thread[t].at = l
Move(t, l) == thread' = [thread EXCEPT ![t].at = l]

(* Call cleanup_exited_process and go on at a label; and come back. *)
Calls(t, p, l) == thread' = [thread EXCEPT ![t].at = "tomb", ![t].pid = p, ![t].back = l]
Returns(t) ==
  thread' = [thread EXCEPT ![t].at = thread[t].back, ![t].back = "loop",
                       ![t].pid = IF thread[t].back = "sliceDone" THEN @ ELSE NoOne]

TdInit ==
  /\ \E script \in Scripts :
       /\ thread = [t \in Hands |->
            [at |-> CASE t \in Crew -> "loop" [] t \in script.cast -> "off" [] OTHER -> "done",
             pid |-> NoOne, todo |-> {}, back |-> "loop"]]
       /\ bridge = [p \in Everyone |-> IF p \in Residents \cap script.cast THEN "none" ELSE "done"]
       /\ deaths = script.deaths
  /\ fresh = {} /\ roll = Residents /\ graves = {}
  /\ seat = [p \in Everyone |-> IF p \in Residents THEN "present" ELSE "none"]
  /\ injects = [w \in Crew |-> {}]
  /\ shut = FALSE /\ admitted = {} /\ hungUp = FALSE
  /\ retained = {}
  /\ latched = FALSE /\ deadMark = {} /\ stopping = FALSE
  /\ poisoned = {} /\ callback = "empty" /\ joined = {}
  /\ told = 0 /\ lost = {}
-----------------------------------------------------------------------------
(* cleanup_exited_process: the tombstone, then (after the links are told)   *)
(* the token of the table, then the body.                                   *)

Tombstone(t) ==
  /\ HandAt(t, "tomb")
  /\ graves' = graves \cup {thread[t].pid}
  /\ Move(t, "token")
  /\ UNCHANGED <<fresh, roll, seat, injects, admission, latchVars, poisoned, joined, tdGhosts>>

TableToken(t) ==
  /\ HandAt(t, "token")
  /\ roll' = roll \ {thread[t].pid}
  /\ IF thread[t].pid \in roll THEN Move(t, "body") ELSE Returns(t)
  /\ UNCHANGED <<fresh, graves, seat, injects, admission, latchVars, poisoned, joined, tdGhosts>>

RemoveBody(t) ==
  /\ HandAt(t, "body")
  /\ seat' = [seat EXCEPT ![thread[t].pid] = "none"]
  /\ poisoned' = poisoned \ {thread[t].pid}
  /\ Returns(t)
  /\ UNCHANGED <<fresh, roll, graves, injects, admission, latchVars, joined, tdGhosts>>
-----------------------------------------------------------------------------
(* The embedder: spawns, kills, and the registration of its callback *)

(* Mutant: a latched failure refuses, a closed registry does not. *)
MayReserveUnlessLatched == ~latched

(* try_reserve_teardown_admission *)
MayReserve == ~shut /\ ~latched

Admit(p) ==
  /\ HandAt(p, "off")
  /\ IF MayReserve
     THEN Move(p, "admitted") /\ admitted' = admitted \cup {p}
     ELSE Move(p, "done") /\ UNCHANGED admitted
  /\ UNCHANGED <<fresh, books, shut, hungUp, bridge, retained, latchVars, poisoned,
                 joined, tdGhosts>>

EnterTable(p) ==
  /\ HandAt(p, "admitted")
  /\ roll' = roll \cup {p}
  /\ Move(p, "entered")
  /\ UNCHANGED <<fresh, graves, seat, injects, admission, latchVars, poisoned, joined, tdGhosts>>

(* The body of a new process is inserted without a look at the table: one   *)
(* that was terminated before has spent its token, and nobody removes it.   *)
InsertBody(p) ==
  /\ seat' = [seat EXCEPT ![p] = "present"]
  /\ lost' = IF p \in roll THEN lost ELSE lost \cup {p}

(* A plain spawn leaves a request in an inject queue; one that traps exits  *)
(* makes the body at once.                                                  *)
EnterQueue(p) ==
  /\ HandAt(p, "entered")
  /\ \/ /\ \E w \in Crew : injects' = [injects EXCEPT ![w] = @ \cup {p}]
        /\ UNCHANGED <<seat, lost>>
     \/ InsertBody(p) /\ UNCHANGED injects
  /\ Move(p, "enqueued")
  /\ UNCHANGED <<fresh, roll, graves, admission, latchVars, poisoned, joined, deaths>>

ReleaseAdmission(p) ==
  /\ HandAt(p, "enqueued")
  /\ admitted' = admitted \ {p}
  /\ Move(p, "done")
  /\ UNCHANGED <<fresh, books, shut, hungUp, bridge, retained, latchVars, poisoned,
                 joined, tdGhosts>>

TerminateProcess ==
  /\ HandAt("host", "off")
  /\ \E p \in roll \ graves : Calls("host", p, "done")
  /\ UNCHANGED <<fresh, books, admission, latchVars, poisoned, joined, tdGhosts>>

(* An exit signal that finds the body checked out leaves a tombstone to the *)
(* worker that has it.                                                      *)
SignalExecuting ==
  /\ HandAt("host", "off")
  /\ \E p \in roll : seat[p] = "executing" /\ graves' = graves \cup {p}
  /\ Move("host", "done")
  /\ UNCHANGED <<fresh, roll, seat, injects, admission, latchVars, poisoned, joined, tdGhosts>>

(* on_failure: the value is read under the lock of the slot. *)
RegisterCallback ==
  /\ HandAt("registrar", "off") /\ callback = "empty"
  /\ IF latched
     THEN callback' = "spent" /\ Move("registrar", "call")
     ELSE callback' = "waiting" /\ Move("registrar", "done")
  /\ UNCHANGED <<fresh, books, admission, latched, deadMark, stopping, told, poisoned,
                 joined, tdGhosts>>

RegisteredCall ==
  /\ HandAt("registrar", "call")
  /\ told' = told + 1
  /\ Move("registrar", "done")
  /\ UNCHANGED <<fresh, books, admission, latched, deadMark, stopping, callback, poisoned,
                 joined, tdGhosts>>
-----------------------------------------------------------------------------
(* A worker: its loop, its park, its slices *)

LeaveLoop(w) ==
  /\ HandAt(w, "loop") /\ stopping
  /\ Move(w, "leave")
  /\ UNCHANGED <<fresh, books, admission, latchVars, poisoned, joined, tdGhosts>>

PopRequest(w) ==
  /\ HandAt(w, "loop")
  /\ \E p \in injects[w] :
       /\ injects' = [injects EXCEPT ![w] = @ \ {p}]
       /\ thread' = [thread EXCEPT ![w].at = "building", ![w].pid = p]
  /\ UNCHANGED <<fresh, roll, graves, seat, admission, latchVars, poisoned, joined, tdGhosts>>

Materialize(w) ==
  /\ HandAt(w, "building")
  /\ InsertBody(thread[w].pid)
  /\ thread' = [thread EXCEPT ![w].at = "loop", ![w].pid = NoOne]
  /\ UNCHANGED <<fresh, roll, graves, injects, admission, latchVars, poisoned, joined, deaths>>

(* run_process looks at the table and then takes the body: in between a     *)
(* finalizer may spend the token, and the body is still there until it      *)
(* removes it.                                                              *)
CheckOut(w) ==
  /\ HandAt(w, "loop")
  /\ \E p \in Everyone :
       /\ seat[p] = "present"
       /\ p \in roll \/ \E t \in Hands : HandAt(t, "body") /\ thread[t].pid = p
       /\ seat' = [seat EXCEPT ![p] = "executing"]
       /\ thread' = [thread EXCEPT ![w].at = "slice", ![w].pid = p]
  /\ UNCHANGED <<fresh, roll, graves, injects, admission, latchVars, poisoned, joined, tdGhosts>>

(* A dirty call reserves before any side effect; refused, it exits. *)
ReserveDirty(w) ==
  /\ HandAt(w, "slice")
  /\ bridge[thread[w].pid] = "none"
  /\ IF MayReserve
     THEN Move(w, "submit") /\ admitted' = admitted \cup {w}
     ELSE Move(w, "exiting") /\ UNCHANGED admitted
  /\ UNCHANGED <<fresh, books, shut, hungUp, bridge, retained, latchVars, poisoned,
                 joined, tdGhosts>>

(* publish: the reservation becomes a retained handle, finished ones are    *)
(* reaped.                                                                  *)
PublishBridge(w) ==
  /\ bridge' = [bridge EXCEPT ![thread[w].pid] = "waiting"]
  /\ retained' = {p \in retained : bridge[p] # "done"} \cup {thread[w].pid}

(* The pool takes the job and a bridge is spawned for its result, or the    *)
(* call fails, gives its admission back and exits.                          *)
SubmitDirty(w) ==
  /\ HandAt(w, "submit")
  /\ admitted' = admitted \ {w}
  /\ \/ PublishBridge(w) /\ Move(w, "store")
     \/ Move(w, "exiting") /\ UNCHANGED <<bridge, retained>>
  /\ UNCHANGED <<fresh, books, shut, hungUp, latchVars, poisoned, joined, tdGhosts>>

(* store_runnable_process *)
StoredBack(p) ==
  seat' = [seat EXCEPT ![p] = IF @ = "none" /\ p \notin roll THEN "none" ELSE "present"]

StoreExited(w) ==
  /\ thread[w].at \in {"slice", "exiting"}
  /\ StoredBack(thread[w].pid)
  /\ Calls(w, thread[w].pid, "sliceDone")
  /\ UNCHANGED <<fresh, roll, graves, injects, admission, latchVars, poisoned, joined, tdGhosts>>

(* Stored, the process is finalized if it has a tombstone. *)
StoreRunnableBack(w) ==
  /\ thread[w].at \in {"slice", "store"}
  /\ StoredBack(thread[w].pid)
  /\ IF thread[w].pid \in graves THEN Calls(w, thread[w].pid, "sliceDone") ELSE Move(w, "sliceDone")
  /\ UNCHANGED <<fresh, roll, graves, injects, admission, latchVars, poisoned, joined, tdGhosts>>

SliceReturns(w) ==
  /\ HandAt(w, "sliceDone")
  /\ fresh' = fresh \ {w}
  /\ thread' = [thread EXCEPT ![w].at = "loop", ![w].pid = NoOne]
  /\ UNCHANGED <<books, admission, latchVars, poisoned, joined, tdGhosts>>

(* The completion bridge of a dirty call: the result or the hang-up,        *)
(* whichever the select sees.                                               *)
BridgeHears(p) ==
  /\ bridge[p] = "waiting"
  /\ \/ bridge' = [bridge EXCEPT ![p] = "delivering"]
     \/ hungUp /\ bridge' = [bridge EXCEPT ![p] = "done"]
  /\ UNCHANGED <<thread, fresh, books, shut, admitted, hungUp, retained, latchVars,
                 poisoned, joined, tdGhosts>>

BridgeDelivers(p) ==
  /\ bridge[p] = "delivering"
  /\ bridge' = [bridge EXCEPT ![p] = "done"]
  /\ UNCHANGED <<thread, fresh, books, shut, admitted, hungUp, retained, latchVars,
                 poisoned, joined, tdGhosts>>
-----------------------------------------------------------------------------
(* The death of a worker (run_worker, recover, decide) *)

RunningAt == {"slice", "submit", "exiting", "store", "tomb", "token", "sliceDone"}

(* A panic unwinds: its admission is dropped; what was locked is poisoned.  *)
(* The park is part of the loop here: a worker there dies holding the wait  *)
(* set. Finalization past its token, and the recovery itself, do not panic. *)
WorkerDies(w) ==
  /\ deaths > 0
  /\ LET place == thread[w].at
         running == place \in RunningAt /\ (place \in {"tomb", "token"} => thread[w].back = "sliceDone")
     IN \E site \in IF running THEN {"running"}
                    ELSE CASE place = "loop" -> {"parked", "scheduling"}
                           [] place = "building" -> {"scheduling"}
                           [] OTHER -> {} :
          /\ \E spoilt \in CASE site = "parked" -> {{"wait_set"}}
                             [] running -> {{}, {thread[w].pid}}
                             [] OTHER -> {{}} :
               poisoned' = poisoned \cup {q \in spoilt : q \in Everyone => seat[q] # "none"}
          /\ thread' = [thread EXCEPT ![w].at = "died", ![w].back = site,
                                  ![w].pid = IF running THEN @ ELSE NoOne]
          /\ lost' = IF place = "building" THEN lost \cup {thread[w].pid} ELSE lost
  /\ deaths' = deaths - 1
  /\ admitted' = admitted \ {w}
  /\ UNCHANGED <<fresh, books, shut, hungUp, bridge, retained, latchVars, joined>>

(* The tiers the poison and the history of the worker leave open; the check *)
(* of the wait set may fail while other threads are between two steps of a  *)
(* wake or a finalization.                                                  *)
Tiers(w) ==
  LET site == thread[w].back
      own == IF site = "parked" THEN "wait_set" ELSE thread[w].pid
  IN IF latched \/ w \in fresh \/ site = "scheduling" \/ poisoned \ {own} # {}
     THEN {"latch"}
     ELSE {"latch", IF site = "parked" THEN "restart" ELSE "kill"}

(* recover: tier 1 undoes the park and clears the poison of the wait set,   *)
(* tier 2 kills the process unless it has a tombstone, tier 3 latches.      *)
Recover(w) ==
  /\ HandAt(w, "died")
  /\ \E tier \in Tiers(w) :
       /\ IF tier = "kill" /\ thread[w].pid \notin graves
          THEN Calls(w, thread[w].pid, "restart")
          ELSE Move(w, IF tier = "kill" THEN "restart" ELSE tier)
       /\ poisoned' = IF tier = "restart" THEN poisoned \ {"wait_set"} ELSE poisoned
       /\ lost' = IF tier = "kill" /\ thread[w].pid \in graves /\ seat[thread[w].pid] = "executing"
                  THEN lost \cup {thread[w].pid} ELSE lost
  /\ UNCHANGED <<fresh, books, admission, latchVars, joined, deaths>>

RestartWorker(w) ==
  /\ HandAt(w, "restart")
  /\ fresh' = fresh \cup {w}
  /\ thread' = [thread EXCEPT ![w].at = "loop", ![w].pid = NoOne, ![w].back = "loop"]
  /\ UNCHANGED <<books, admission, latchVars, poisoned, joined, tdGhosts>>

(* The first death sets the value and goes on to tell of it. *)
LatchFailure(w) ==
  /\ HandAt(w, "latch")
  /\ deadMark' = deadMark \cup {w}
  /\ latched' = TRUE
  /\ thread' = [thread EXCEPT ![w].at = IF latched THEN "unwound" ELSE "tell",
                          ![w].back = "loop"]
  /\ UNCHANGED <<fresh, books, admission, stopping, callback, told, poisoned, joined, tdGhosts>>

(* Mutant: an empty slot is spent too. *)
TellCallbackSpends(w) ==
  /\ HandAt(w, "tell")
  /\ callback' = "spent"
  /\ told' = IF callback = "waiting" THEN told + 1 ELSE told
  /\ Move(w, "stop")
  /\ UNCHANGED <<fresh, books, admission, latched, deadMark, stopping, poisoned, joined, tdGhosts>>

TellCallback(w) ==
  /\ HandAt(w, "tell")
  /\ IF callback = "waiting"
     THEN callback' = "spent" /\ told' = told + 1
     ELSE UNCHANGED <<callback, told>>
  /\ Move(w, "stop")
  /\ UNCHANGED <<fresh, books, admission, latched, deadMark, stopping, poisoned, joined, tdGhosts>>

StopAll(w) ==
  /\ HandAt(w, "stop")
  /\ stopping' = TRUE
  /\ Move(w, "unwound")
  /\ UNCHANGED <<fresh, books, admission, latched, deadMark, callback, told, poisoned, joined,
                 tdGhosts>>

(* The body unwound with the slice: its shadow is finalized here. *)
FinalizeUnwound(w) ==
  /\ HandAt(w, "unwound")
  /\ IF thread[w].pid \in Everyone THEN Calls(w, thread[w].pid, "leave") ELSE Move(w, "leave")
  /\ UNCHANGED <<fresh, books, admission, latchVars, poisoned, joined, tdGhosts>>

(* After its loop a worker finalizes its own inject queue and every body    *)
(* that is not mid-slice, if the failure is latched; then it reports.       *)
LeaveWorker(w) ==
  /\ HandAt(w, "leave")
  /\ IF ~latched THEN Move(w, "gone") /\ UNCHANGED injects
     ELSE IF injects[w] # {}
     THEN \E p \in injects[w] :
            injects' = [injects EXCEPT ![w] = @ \ {p}] /\ Calls(w, p, "leave")
     ELSE /\ thread' = [thread EXCEPT ![w].at = "settle",
                                  ![w].todo = {p \in Everyone : seat[p] = "present"}]
          /\ UNCHANGED injects
  /\ UNCHANGED <<fresh, roll, graves, seat, admission, latchVars, poisoned, joined, tdGhosts>>

(* Finalize what a snapshot of the bodies holds, one process after another. *)
Settle(t, end) ==
  /\ HandAt(t, "settle")
  /\ IF thread[t].todo = {} THEN Move(t, end)
     ELSE \E p \in thread[t].todo :
            thread' = [thread EXCEPT ![t].at = "tomb", ![t].pid = p, ![t].back = "settle",
                                 ![t].todo = @ \ {p}]
  /\ UNCHANGED <<fresh, books, admission, latchVars, poisoned, joined, tdGhosts>>
-----------------------------------------------------------------------------
(* shutdown *)

CloseAdmission ==
  /\ HandAt("shutdown", "off")
  /\ shut' = TRUE
  /\ Move("shutdown", "hangUp")
  /\ UNCHANGED <<fresh, books, admitted, hungUp, bridge, retained, latchVars, poisoned,
                 joined, tdGhosts>>

HangUp ==
  /\ HandAt("shutdown", "hangUp")
  /\ hungUp' = TRUE
  /\ Move("shutdown", "waitAdmitted")
  /\ UNCHANGED <<fresh, books, shut, admitted, bridge, retained, latchVars, poisoned,
                 joined, tdGhosts>>

(* Mutant: the handles are taken without waiting for the reservations. *)
TakeBridgesAtOnce ==
  /\ HandAt("shutdown", "waitAdmitted")
  /\ thread' = [thread EXCEPT !["shutdown"].at = "joinBridges", !["shutdown"].todo = retained]
  /\ retained' = {}
  /\ UNCHANGED <<fresh, books, shut, admitted, hungUp, bridge, latchVars, poisoned,
                 joined, tdGhosts>>

(* Wait out the reservations, take the handles. *)
TakeBridges ==
  /\ HandAt("shutdown", "waitAdmitted") /\ admitted = {}
  /\ thread' = [thread EXCEPT !["shutdown"].at = "joinBridges", !["shutdown"].todo = retained]
  /\ retained' = {}
  /\ UNCHANGED <<fresh, books, shut, admitted, hungUp, bridge, latchVars, poisoned,
                 joined, tdGhosts>>

JoinBridges ==
  /\ HandAt("shutdown", "joinBridges")
  /\ \A p \in thread["shutdown"].todo : bridge[p] = "done"
  /\ stopping' = TRUE
  /\ thread' = [thread EXCEPT !["shutdown"].at = "join", !["shutdown"].todo = {}]
  /\ UNCHANGED <<fresh, books, admission, latched, deadMark, callback, told, poisoned, joined,
                 tdGhosts>>

(* After the latch a worker recorded dead, or that has reported its exit,   *)
(* is not joined. (The workers are taken in any order; the code goes by     *)
(* index.)                                                                  *)
SkipReason(w) == latched /\ (w \in deadMark \/ HandAt(w, "gone"))

NextWorker ==
  /\ HandAt("shutdown", "join")
  /\ \E w \in Crew \ joined :
       IF SkipReason(w)
       THEN joined' = joined \cup {w} /\ UNCHANGED thread
       ELSE /\ thread' = [thread EXCEPT !["shutdown"].at = "await", !["shutdown"].pid = w]
            /\ UNCHANGED joined
  /\ UNCHANGED <<fresh, books, admission, latchVars, poisoned, tdGhosts>>

JoinWorker ==
  /\ HandAt("shutdown", "await") /\ HandAt(thread["shutdown"].pid, "gone")
  /\ joined' = joined \cup {thread["shutdown"].pid}
  /\ thread' = [thread EXCEPT !["shutdown"].at = "join", !["shutdown"].pid = NoOne]
  /\ UNCHANGED <<fresh, books, admission, latchVars, poisoned, tdGhosts>>

(* Every inject queue, then every body; after a latch not those mid-slice.  *)
DrainRequests ==
  /\ HandAt("shutdown", "join") /\ joined = Crew
  /\ IF \E w \in Crew : injects[w] # {}
     THEN \E w \in Crew : \E p \in injects[w] :
            injects' = [injects EXCEPT ![w] = @ \ {p}] /\ Calls("shutdown", p, "join")
     ELSE /\ thread' = [thread EXCEPT
               !["shutdown"].at = "settle",
               !["shutdown"].todo = {p \in Everyone :
                  seat[p] = "present" \/ (seat[p] = "executing" /\ ~latched)}]
          /\ UNCHANGED injects
  /\ UNCHANGED <<fresh, roll, graves, seat, admission, latchVars, poisoned, joined, tdGhosts>>
-----------------------------------------------------------------------------
Embedder ==
  \/ \E p \in Newcomers : Admit(p) \/ EnterTable(p) \/ EnterQueue(p) \/ ReleaseAdmission(p)
  \/ TerminateProcess \/ SignalExecuting \/ RegisterCallback \/ RegisteredCall
  \/ CloseAdmission \/ HangUp \/ TakeBridges \/ JoinBridges \/ NextWorker \/ JoinWorker
  \/ DrainRequests \/ Settle("shutdown", "returned")

CrewStep(w) ==
  \/ LeaveLoop(w) \/ PopRequest(w) \/ Materialize(w)
  \/ CheckOut(w) \/ ReserveDirty(w) \/ SubmitDirty(w) \/ StoreExited(w)
  \/ StoreRunnableBack(w) \/ SliceReturns(w)
  \/ WorkerDies(w) \/ Recover(w) \/ RestartWorker(w) \/ LatchFailure(w) \/ TellCallback(w)
  \/ StopAll(w) \/ FinalizeUnwound(w) \/ LeaveWorker(w) \/ Settle(w, "gone")

TdNext ==
  \/ Embedder
  \/ \E w \in Crew : CrewStep(w)
  \/ \E t \in Hands : Tombstone(t) \/ TableToken(t) \/ RemoveBody(t)
  \/ \E p \in Everyone : BridgeHears(p) \/ BridgeDelivers(p)

TdSpec == TdInit /\ [][TdNext]_tdVars
-----------------------------------------------------------------------------
TeardownTypeOK ==
  /\ fresh \subseteq Crew /\ roll \subseteq Everyone /\ graves \subseteq Everyone
  /\ seat \in [Everyone -> {"none", "present", "executing"}]
  /\ admitted \subseteq Crew \cup Newcomers
  /\ poisoned \subseteq Everyone \cup {"wait_set"}
  /\ \A t \in Hands : HandAt(t, "body") => thread[t].pid \in Everyone

Over ==
  /\ HandAt("shutdown", "returned")
  /\ \A w \in Crew : HandAt(w, "gone")
  /\ \A t \in Newcomers \cup {"host", "registrar"} : thread[t].at \in {"off", "done"}

(* When shutdown has returned and every thread has ended, no process is     *)
(* left: not in the table, not as a body, not as a request nobody will take *)
(* up, whether the scheduler failed or not and whoever died with what in    *)
(* hand. Excepted are a request a worker was building when it died, a       *)
(* process that had a tombstone already when the worker that ran it died in *)
(* its slice (the recovery leaves both), and one terminated after its entry *)
(* in the table and before its body was made.                               *)
ShutdownLeavesNobody ==
  Over => \A p \in Everyone \ lost :
            p \notin roll /\ seat[p] = "none" /\ \A w \in Crew : p \notin injects[w]

(* A killed process whose worker dies before it has seen the tombstone is   *)
(* finalized too. Does not hold: recover takes the tombstone for a cleanup  *)
(* under way and leaves the process in the table, with its shadow.          *)
KilledAndCrashedFinalized ==
  Over => \A p \in Everyone : p \in graves => p \notin roll

(* "After this returns, no bridge THREAD of this scheduler exists": once    *)
(* shutdown has joined the bridges, none is waiting or delivering, nor can  *)
(* one be started by a call or a spawn admitted before.                     *)
NoBridgeOutlivesShutdown ==
  thread["shutdown"].at \in {"join", "await", "settle", "returned"} =>
     admitted = {} /\ \A p \in Everyone : bridge[p] \in {"none", "done"}

(* The failure callback is run once if it was registered and a failure was  *)
(* latched, in whichever order, and never otherwise.                        *)
FailureToldOnce ==
  /\ told <= IF latched THEN 1 ELSE 0
  /\ /\ \A w \in Crew : thread[w].at \notin {"tell"}
     /\ callback # "empty" /\ ~HandAt("registrar", "call")
     /\ latched
     => told = 1
=============================================================================

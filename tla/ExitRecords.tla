---------------------------- MODULE ExitRecords ----------------------------
(***************************************************************************)
(* What is left of a process that exited, and who is told:                 *)
(* scheduler/exit_tombstones.rs, scheduler/exit_events.rs and the watch    *)
(* calls of scheduler/execution.rs.                                        *)
(*                                                                         *)
(* An exit leaves a bounded tombstone and a permanent record (the outcome, *)
(* taken once).  The first exit of a pid publishes an event on a bounded   *)
(* channel with one subscriber and fires the watches on the pid; the       *)
(* thread that removes the pid from the process table fires the completion *)
(* watches.  Cleanups of one pid may overlap: every thread that runs       *)
(* cleanup_exited_process is a Cleaner, and its reason is its own.         *)
(***************************************************************************)
EXTENDS Naturals, Sequences, FiniteSets

CONSTANTS Exiting,      \* the pids that run
          Stranger,     \* a pid that never ran
          Cleaners,     \* threads in cleanup_exited_process
          Watchers,     \* threads in watch_exit or watch_exit_completion
          Watchable,    \* bound: the pids they watch
          TombstoneCap, \* TOMBSTONE_CAPACITY
          EventCap,     \* EXIT_EVENT_CAPACITY
          MaxCleanups   \* bound: cleanups in a behaviour

ASSUME ExitRecordsAssumption ==
  /\ Stranger \notin Exiting /\ Watchable \subseteq Exiting \cup {Stranger}
  /\ TombstoneCap \in Nat \ {0} /\ EventCap \in Nat \ {0} /\ MaxCleanups \in Nat
  /\ {"none", "disconnected"} \cap Cleaners = {}  \* what a slot may hold besides

Pids == Exiting \cup {Stranger}
NoReason == "none"

VARIABLES
  table,       \* process_table
  reasons,     \* the tombstones: pid to the cleaner whose reason it is
  order,       \* the pids of the tombstones, oldest first
  record,      \* the permanent reason of each pid
  outcome,     \* the pids whose outcome has not been taken
  channel,     \* the exit events queued for the subscriber
  overflowed,  \* the subscriber's lag flag
  subscriber,  \* "off", "idle", "recv" (blocked on the channel) or "lagged"
  armed,       \* the watch registry: the watchers armed on each pid
  completing,  \* the completion registry
  closed,      \* the completion registry is settled for shutdown
  cleaner,     \* each cleaner: its step, its pid and the slots it answers
  watcher,     \* each watcher: its step, its pid and what is in its slot
  cleanups,
  published,   \* ghost: events published for each pid
  unheard,     \* ghost: the pids published before there was a subscriber
  outcomes     \* ghost: outcomes taken for each pid

records == <<table, reasons, order, record, outcome>>
events == <<channel, overflowed, subscriber>>
watches == <<armed, completing, closed, watcher>>
erGhosts == <<published, unheard, outcomes>>
erVars == <<records, events, watches, cleaner, cleanups, erGhosts>>

ErInit ==
  /\ table = Exiting
  /\ reasons = [p \in Pids |-> NoReason] /\ order = <<>>
  /\ record = [p \in Pids |-> NoReason] /\ outcome = {}
  /\ channel = <<>> /\ overflowed = FALSE /\ subscriber = "off"
  /\ armed = [p \in Pids |-> {}] /\ completing = [p \in Pids |-> {}] /\ closed = FALSE
  /\ cleaner = [c \in Cleaners |-> [at |-> "idle", pid |-> Stranger, slots |-> {}]]
  /\ watcher = [w \in Watchers |->
                  [at |-> "idle", pid |-> Stranger, slot |-> NoReason]]
  /\ cleanups = 0
  /\ published = [p \in Pids |-> 0] /\ unheard = {} /\ outcomes = [p \in Pids |-> 0]

-----------------------------------------------------------------------------
(* cleanup_exited_process, one thread. *)
GoTo(c, step) == cleaner' = [cleaner EXCEPT ![c].at = step]

(* A kill, a return or a store-back met a process that is still there. *)
BeginCleanup(c, p) ==
  /\ cleaner[c].at = "idle" /\ cleanups < MaxCleanups /\ p \in table
  /\ cleaner' = [cleaner EXCEPT ![c].at = "insert", ![c].pid = p]
  /\ cleanups' = cleanups + 1
  /\ UNCHANGED <<records, events, watches, erGhosts>>

(* The pid that leaves when p's tombstone enters. *)
Evicted(p) == IF Len(order) < TombstoneCap THEN {} ELSE {Head(order)}

(* Mutant: whoever installs a tombstone owns the record. *)
OwnsTombstone(p) == reasons[p] = NoReason

(* The first exit of a pid owns its record: the record is never removed. *)
OwnsRecord(p) == record[p] = NoReason

(* insert_inner, under the writer mutex. *)
InsertTombstone(c) ==
  LET p == cleaner[c].pid IN
  /\ cleaner[c].at = "insert"
  /\ IF reasons[p] # NoReason
     THEN /\ reasons' = [reasons EXCEPT ![p] = c]
          /\ GoTo(c, "remove")
          /\ UNCHANGED <<order, record, outcome>>
     ELSE /\ reasons' = [q \in Pids |-> IF q = p THEN c
                                        ELSE IF q \in Evicted(p) THEN NoReason ELSE reasons[q]]
          /\ order' = Append(SelectSeq(order, LAMBDA q: q \notin Evicted(p)), p)
          /\ IF OwnsRecord(p)
             THEN /\ record' = [record EXCEPT ![p] = c]
                  /\ outcome' = outcome \cup {p}
                  /\ GoTo(c, "publish")
             ELSE /\ GoTo(c, "remove")
                  /\ UNCHANGED <<record, outcome>>
  /\ UNCHANGED <<table, events, watches, cleanups, erGhosts>>

(* ExitEventPublisher::publish: try_send, and the flag when it is full. *)
Publish(c) ==
  LET p == cleaner[c].pid IN
  /\ cleaner[c].at = "publish"
  /\ published' = [published EXCEPT ![p] = @ + 1]
  /\ unheard' = IF subscriber = "off" THEN unheard \cup {p} ELSE unheard
  /\ IF subscriber = "off" THEN GoTo(c, "fire") /\ UNCHANGED channel
     ELSE IF Len(channel) < EventCap
          THEN channel' = Append(channel, p) /\ GoTo(c, "fire")
          ELSE GoTo(c, "full") /\ UNCHANGED channel
  /\ UNCHANGED <<records, overflowed, subscriber, watches, cleanups, outcomes>>

MarkOverflow(c) ==
  /\ cleaner[c].at = "full"
  /\ overflowed' = TRUE /\ GoTo(c, "fire")
  /\ UNCHANGED <<records, channel, subscriber, watches, cleanups, erGhosts>>

(* A send into each slot; a slot whose watcher is gone absorbs it. *)
Notify(slots, c) ==
  watcher' = [w \in DOMAIN watcher |->
                IF w \in slots /\ watcher[w].slot = NoReason
                THEN [watcher[w] EXCEPT !.slot = c] ELSE watcher[w]]

(* ExitWatchRegistry::fire. *)
FireWatches(c) ==
  LET p == cleaner[c].pid IN
  /\ cleaner[c].at = "fire"
  /\ armed' = [armed EXCEPT ![p] = {}]
  /\ Notify(armed[p], c)
  /\ GoTo(c, "remove")
  /\ UNCHANGED <<records, events, completing, closed, cleanups, erGhosts>>

(* finalize_exited_process: the table token. *)
RemoveFromTable(c) ==
  LET p == cleaner[c].pid IN
  /\ cleaner[c].at = "remove"
  /\ table' = table \ {p}
  /\ GoTo(c, IF p \in table THEN "complete" ELSE "idle")
  /\ UNCHANGED <<reasons, order, record, outcome, events, watches, cleanups, erGhosts>>

(* ExitCompletionRegistry::fire: the slots are taken under the lock, *)
TakeCompletion(c) ==
  LET p == cleaner[c].pid IN
  /\ cleaner[c].at = "complete"
  /\ completing' = [completing EXCEPT ![p] = {}]
  /\ cleaner' = [cleaner EXCEPT ![c].at = "firing", ![c].slots = completing[p]]
  /\ UNCHANGED <<records, events, armed, closed, watcher, cleanups, erGhosts>>

(* and answered outside it. *)
FireCompletion(c) ==
  /\ cleaner[c].at = "firing"
  /\ cleaner' = [cleaner EXCEPT ![c].at = "idle", ![c].slots = {}]
  /\ Notify(cleaner[c].slots, c)
  /\ UNCHANGED <<records, events, armed, completing, closed, cleanups, erGhosts>>

(* settle_shutdown: no new watch from here on, *)
CloseWatches ==
  /\ ~closed
  /\ closed' = TRUE
  /\ UNCHANGED <<records, events, armed, completing, watcher, cleaner, cleanups, erGhosts>>

(* and once nobody is answering, the watches left are disconnected. *)
SettleShutdown ==
  /\ closed /\ \A c \in Cleaners: cleaner[c].at # "firing"
  /\ \E p \in Pids: completing[p] # {}
  /\ completing' = [p \in Pids |-> {}]
  /\ watcher' = [w \in DOMAIN watcher |->
                   IF \E p \in Pids: w \in completing[p]
                   THEN [watcher[w] EXCEPT !.slot = "disconnected"] ELSE watcher[w]]
  /\ UNCHANGED <<records, events, armed, closed, cleaner, cleanups, erGhosts>>

-----------------------------------------------------------------------------
(* watch_exit: register, read the record, read the table, read it again. *)
WatchGoTo(w, step) == watcher' = [watcher EXCEPT ![w].at = step]

WatchRegister(w, p) ==
  /\ watcher[w].at = "idle"
  /\ armed' = [armed EXCEPT ![p] = @ \cup {w}]
  /\ watcher' = [watcher EXCEPT ![w] = [at |-> "record", pid |-> p, slot |-> NoReason]]
  /\ UNCHANGED <<records, events, completing, closed, cleaner, cleanups, erGhosts>>

(* The answer, which drops (deregisters) the watch unless it is Live. *)
Answer(w, step) ==
  /\ WatchGoTo(w, step)
  /\ armed' = IF step \in {"live", "table", "again"} THEN armed
              ELSE [armed EXCEPT ![watcher[w].pid] = @ \ {w}]

WatchReadRecord(w) ==
  /\ watcher[w].at = "record"
  /\ Answer(w, IF record[watcher[w].pid] # NoReason THEN "exited" ELSE "table")
  /\ UNCHANGED <<records, events, completing, closed, cleaner, cleanups, erGhosts>>

(* Mutant: the record is not read again. *)
WatchReadTableOnce(w) ==
  /\ watcher[w].at = "table"
  /\ Answer(w, IF watcher[w].pid \in table THEN "live" ELSE "norecord")
  /\ UNCHANGED <<records, events, completing, closed, cleaner, cleanups, erGhosts>>

WatchReadTable(w) ==
  /\ watcher[w].at = "table"
  /\ Answer(w, IF watcher[w].pid \in table THEN "live" ELSE "again")
  /\ UNCHANGED <<records, events, completing, closed, cleaner, cleanups, erGhosts>>

WatchReadAgain(w) ==
  /\ watcher[w].at = "again"
  /\ Answer(w, IF record[watcher[w].pid] # NoReason THEN "exited" ELSE "norecord")
  /\ UNCHANGED <<records, events, completing, closed, cleaner, cleanups, erGhosts>>

(* The watch is dropped before it fired. *)
WatchDrop(w) ==
  /\ watcher[w].at = "live"
  /\ Answer(w, "dropped")
  /\ UNCHANGED <<records, events, completing, closed, cleaner, cleanups, erGhosts>>

(* watch_exit_completion: register, read the table, read the record. *)
CompletionRegister(w, p) ==
  /\ watcher[w].at = "idle"
  /\ completing' = [completing EXCEPT ![p] = IF closed THEN @ ELSE @ \cup {w}]
  /\ watcher' = [watcher EXCEPT ![w] =
                   [at |-> "ctable", pid |-> p,
                    slot |-> IF closed THEN "disconnected" ELSE NoReason]]
  /\ UNCHANGED <<records, events, armed, closed, cleaner, cleanups, erGhosts>>

CompletionReadTable(w) ==
  LET p == watcher[w].pid IN
  /\ watcher[w].at = "ctable"
  /\ WatchGoTo(w, IF p \in table THEN "clive" ELSE "crecord")
  /\ completing' = IF p \in table THEN completing ELSE [completing EXCEPT ![p] = @ \ {w}]
  /\ UNCHANGED <<records, events, armed, closed, cleaner, cleanups, erGhosts>>

CompletionReadRecord(w) ==
  /\ watcher[w].at = "crecord"
  /\ WatchGoTo(w, IF record[watcher[w].pid] # NoReason THEN "removed" ELSE "cnorecord")
  /\ UNCHANGED <<records, events, armed, completing, closed, cleaner, cleanups, erGhosts>>

-----------------------------------------------------------------------------
(* The subscriber: it takes the outcome of every event it receives, and of  *)
(* every pid when it is told that it lagged.                                *)
Subscribe ==
  /\ subscriber = "off"
  /\ subscriber' = "idle"
  /\ UNCHANGED <<records, channel, overflowed, watches, cleaner, cleanups, erGhosts>>

TakeOutcomes(ps) ==
  /\ outcome' = outcome \ ps
  /\ outcomes' = [p \in Pids |-> outcomes[p] + (IF p \in ps \cap outcome THEN 1 ELSE 0)]

(* Mutant: the marker waits behind the queued events, and is cleared. *)
RecvBeginQueueFirst ==
  /\ subscriber = "idle"
  /\ overflowed' = FALSE
  /\ subscriber' = IF overflowed /\ channel = <<>> THEN "lagged" ELSE "recv"
  /\ UNCHANGED <<records, channel, watches, cleaner, cleanups, erGhosts>>

(* recv: take_lag_marker reads and clears the flag before the channel. *)
RecvBegin ==
  /\ subscriber = "idle"
  /\ overflowed' = FALSE
  /\ subscriber' = IF overflowed THEN "lagged" ELSE "recv"
  /\ UNCHANGED <<records, channel, watches, cleaner, cleanups, erGhosts>>

(* The events queued belong to the lagged batch: discarded, all recovered. *)
RecvLagged ==
  /\ subscriber = "lagged"
  /\ subscriber' = "idle" /\ channel' = <<>>
  /\ TakeOutcomes(Pids)
  /\ UNCHANGED <<table, reasons, order, record, overflowed, watches, cleaner, cleanups, published,
                 unheard>>

RecvEvent ==
  /\ subscriber = "recv" /\ channel # <<>>
  /\ subscriber' = "idle" /\ channel' = Tail(channel)
  /\ TakeOutcomes({Head(channel)})
  /\ UNCHANGED <<table, reasons, order, record, overflowed, watches, cleaner, cleanups, published,
                 unheard>>

-----------------------------------------------------------------------------
CleanerStep(c) ==
  \/ \E p \in Exiting: BeginCleanup(c, p)
  \/ InsertTombstone(c) \/ Publish(c) \/ MarkOverflow(c) \/ FireWatches(c)
  \/ RemoveFromTable(c) \/ TakeCompletion(c) \/ FireCompletion(c)

WatcherStep(w) ==
  \/ \E p \in Watchable: WatchRegister(w, p) \/ CompletionRegister(w, p)
  \/ WatchReadRecord(w) \/ WatchReadTable(w) \/ WatchReadAgain(w) \/ WatchDrop(w)
  \/ CompletionReadTable(w) \/ CompletionReadRecord(w)

ErNext ==
  \/ \E c \in Cleaners: CleanerStep(c)
  \/ \E w \in Watchers: WatcherStep(w)
  \/ CloseWatches \/ SettleShutdown
  \/ Subscribe \/ RecvBegin \/ RecvLagged \/ RecvEvent

ErSpec == ErInit /\ [][ErNext]_erVars

-----------------------------------------------------------------------------
(* Every variable has its type; the tombstones are the ordered pids, at     *)
(* most TombstoneCap of them, none twice.                                   *)
ExitRecordsTypeOK ==
  /\ table \subseteq Exiting /\ outcome \subseteq Exiting
  /\ Len(order) <= TombstoneCap /\ Len(channel) <= EventCap
  /\ {order[i] : i \in DOMAIN order} = {p \in Pids: reasons[p] # NoReason}
  /\ Len(order) = Cardinality({p \in Pids: reasons[p] # NoReason})
  /\ subscriber \in {"off", "idle", "recv", "lagged"}

(* The exit of a pid is published at most once and its outcome taken at     *)
(* most once, however many cleanups overlap and whatever was evicted.       *)
ExitExactlyOnce ==
  \A p \in Pids: published[p] <= 1 /\ outcomes[p] <= 1

(* Where p's exit has been published in full. *)
FullyPublished(p) ==
  /\ record[p] # NoReason
  /\ \A c \in Cleaners: cleaner[c].pid = p => cleaner[c].at \notin {"publish", "full", "fire"}

(* Watches tell the truth.  A watch that answered Live is told: once the    *)
(* exit has been published in full its slot is filled.  A completion watch  *)
(* is told only after the removal, and a Live one is told once the thread   *)
(* that removed the pid is done with it, or finds its sender gone with the  *)
(* shutdown.  NoRecord is answered only for a pid that never ran.           *)
WatchNeverLost ==
  \A w \in Watchers:
     LET pid == watcher[w].pid
         firing == \E c \in Cleaners: cleaner[c].pid = pid /\ cleaner[c].at \in {"complete", "firing"}
     IN  /\ watcher[w].at = "live" /\ FullyPublished(pid) => watcher[w].slot # NoReason
         /\ watcher[w].at \in {"ctable", "clive"} /\ watcher[w].slot \in Cleaners => pid \notin table
         /\ watcher[w].at = "clive" /\ pid \notin table /\ ~firing => watcher[w].slot # NoReason
         /\ watcher[w].at \in {"norecord", "cnorecord"} => pid = Stranger

(* No exit published to a subscriber is forgotten: its outcome has been     *)
(* taken, or its event is queued, or the lag flag is up or about to be.     *)
NoExitForgotten ==
  \A p \in outcome \ unheard:
     published[p] = 1 =>
       \/ \E i \in DOMAIN channel: channel[i] = p
       \/ overflowed \/ subscriber = "lagged"
       \/ \E c \in Cleaners: cleaner[c].pid = p /\ cleaner[c].at = "full"

(* The receiver observes Lagged instead of a silent drop: a subscriber is   *)
(* not left blocked on an empty channel with the flag up.  Expected to      *)
(* fail: the flag is raised after the send found the channel full, and the  *)
(* receiver reads it only before it blocks.                                 *)
LagIsObserved ==
  ~(subscriber = "recv" /\ channel = <<>> /\ overflowed)
=============================================================================

----------------------------- MODULE Supervision -----------------------------
(***************************************************************************)
(* Links, monitors and the exit cascade of one scheduler:                  *)
(* scheduler/supervision_integration.rs, supervision/{link,monitor}.rs,    *)
(* the store-back of scheduler/execution/core.rs and process_slot.rs.      *)
(*                                                                         *)
(* A process body is either in its slot (Present) or checked out by the    *)
(* worker that runs its slice, with a metadata shadow in the slot          *)
(* (Executing).  Other threads act on whichever they find, one slot lock   *)
(* at a time, and the two are merged when the worker stores the body back. *)
(* Each process has the worker that runs it, called by the process's own   *)
(* name; Host is an embedder thread.  Which process runs when is left      *)
(* open here (IdlePark and ProcessPark are about that).                    *)
(***************************************************************************)
EXTENDS Naturals, Sequences, FiniteSets, SequencesExt

CONSTANTS Pids,          \* the process identifiers
          Host,          \* the embedder thread
          Unborn,        \* the pids that are not spawned yet
          Bonds,         \* the pairs {p, q} that start out linked
          Traps,         \* the processes that start out trapping exits
          Mortal,        \* bound: the processes whose own slices may end in an exit
          Callers,       \* bound: the processes that make calls in their slices
          MaxCalls,      \* bound: facility calls made in a behaviour
          MaxRefs        \* bound: monitor references allocated

None == "none"
Threads == Pids \cup {Host}
Deaths == {"normal", "error", "killed"}
Signals == {"normal", "error", "kill"}

ASSUME SupervisionAssumption ==
  /\ IsFiniteSet(Pids) /\ Host \notin Pids /\ None \notin Pids
  /\ Unborn \subseteq Pids /\ Traps \subseteq Pids /\ Mortal \subseteq Pids
  /\ Callers \subseteq Pids
  /\ \A b \in Bonds : \E p, q \in Pids \ Unborn : p # q /\ b = {p, q}
  /\ MaxCalls \in Nat /\ MaxRefs \in Nat

VARIABLES
  table,      \* process_table: the pids that have not been finalized
  slot,       \* process_bodies: "unborn", "present", "executing" or "gone"
  exited,     \* the bodies whose status is Exited
  traps,      \* trap_exit of each body
  links,      \* Process.links, in insertion order
  shadow,     \* ProcessMetadata.links, while the slot is Executing
  mailbox,    \* EXIT and DOWN messages in the mailbox
  pending,    \* pending_exit_messages and pending_down_messages
  tombs,      \* exit_tombstones
  monitors,   \* MonitorSet
  refs,       \* MonitorSet.next_reference
  thread,     \* what each thread is in the middle of
  calls,      \* facility calls made so far
  told,       \* ghost: monitors taken out and not taken back
  causes,     \* ghost: every reason a process's tombstone was written with
  bonds,      \* ghost: pairs linked from the start or by a live parent's spawn, not unlinked
  unlinked    \* ghost: pairs unlinked while both ends were alive

body == <<table, slot, exited, traps, links, shadow>>
mail == <<mailbox, pending>>
watch == <<monitors, refs, told>>
ghost == <<bonds, unlinked>>
graves == <<tombs, causes>>
vars == <<body, mail, graves, watch, thread, calls, ghost>>

-----------------------------------------------------------------------------
(* What a thread holds between two of its locked steps. *)
Resting == [pc |-> "idle", peer |-> None, reason |-> None, pid |-> None,
            phase |-> None, dying |-> None, downs |-> {}, work |-> <<>>,
            cascade |-> <<>>]

Exit(source, reason) == [kind |-> "EXIT", from |-> source, what |-> reason]
Down(ref, target) == [kind |-> "DOWN", from |-> target, what |-> ref]

(* link::terminal_reason: a kill is seen by others as killed. *)
TerminalReason(reason) == IF reason = "kill" THEN "killed" ELSE reason

(* The should_die test of every exit signal. *)
ShouldDie(p, reason) ==
  reason = "kill" \/ (reason # "normal" /\ p \notin traps)

(* add_link of Process and of ProcessMetadata: no self link, no duplicate. *)
AddLink(seq, p, self) ==
  IF p = self \/ Contains(seq, p) THEN seq ELSE Append(seq, p)

(* The entries of seq at the places I, in their order. *)
AtPlaces(seq, I) ==
  LET place(k) == CHOOSE i \in I : Cardinality({j \in I : j <= i}) = k
  IN  [k \in 1..Cardinality(I) |-> seq[place(k)]]

(* remove_link keeps the order of the remaining links. *)
RemoveLink(seq, p) == AtPlaces(seq, {i \in DOMAIN seq : seq[i] # p})

(* add_link for each of more in turn, which holds no pid twice. *)
AddLinks(seq, more, self) ==
  seq \o AtPlaces(more, {i \in DOMAIN more : more[i] # self /\ ~Contains(seq, more[i])})

At(t, pc) == thread[t].pc = pc
Goto(t, state) == thread' = [thread EXCEPT ![t] = state]
Jump(t, pc) == Goto(t, [thread[t] EXCEPT !.pc = pc])

(* Where a call made inside a slice, or by the host, comes back to. *)
Return(t) == [Resting EXCEPT !.pc = IF t = Host THEN "idle" ELSE "run"]

(* cleanup_exited_process(pid, reason), about to begin on thread t. *)
Cleanup(p, reason) ==
  [Resting EXCEPT !.pc = "tomb", !.pid = p, !.reason = reason,
                  !.phase = "top", !.dying = p]

(* insert_exit_tombstone: a later cleanup overwrites the reason.           *)
Bury(p, reason) ==
  /\ tombs' = [tombs EXCEPT ![p] = reason]
  /\ causes' = [causes EXCEPT ![p] = @ \cup {reason}]

(* A message for p: into the mailbox of a body in its slot, into the       *)
(* shadow of one that is checked out.                                      *)
Deliver(p, m) ==
  IF slot[p] = "present"
  THEN mailbox' = [mailbox EXCEPT ![p] = Append(@, m)] /\ UNCHANGED pending
  ELSE pending' = [pending EXCEPT ![p] = Append(@, m)] /\ UNCHANGED mailbox

Symmetric(p) == SetToSeq({q \in Pids : {p, q} \in Bonds})

Init ==
  /\ table = Pids \ Unborn
  /\ slot = [p \in Pids |-> IF p \in Unborn THEN "unborn" ELSE "present"]
  /\ exited = {}
  /\ traps = Traps
  /\ links = [p \in Pids |-> Symmetric(p)]
  /\ shadow = [p \in Pids |-> <<>>]
  /\ mailbox = [p \in Pids |-> <<>>]
  /\ pending = [p \in Pids |-> <<>>]
  /\ tombs = [p \in Pids |-> None]
  /\ causes = [p \in Pids |-> {}]
  /\ monitors = {}
  /\ refs = 0
  /\ thread = [t \in Threads |-> Resting]
  /\ calls = 0
  /\ told = {}
  /\ bonds = Bonds
  /\ unlinked = {}

-----------------------------------------------------------------------------
(* Slices. *)

(* run_process: the table check and take_runnable_process.  A body that    *)
(* was terminated in its slot is still runnable, and its slice ends at     *)
(* once with the reason it was terminated with.                            *)
TakeRunnable(p) ==
  /\ At(p, "idle") /\ slot[p] = "present" /\ p \in table
  /\ slot' = [slot EXCEPT ![p] = "executing"]
  /\ shadow' = [shadow EXCEPT ![p] = links[p]]
  /\ Goto(p, [Resting EXCEPT !.pc = "run"])
  /\ UNCHANGED <<table, exited, traps, links, mail, graves, watch, calls, ghost>>

(* The slice returns and the first tombstone check is made.                *)
SliceEnds(p, outcome) ==
  /\ At(p, "run")
  /\ p \in exited => outcome # "park"
  /\ outcome # "park" => p \in Mortal \cup exited
  /\ exited' = IF outcome = "park" THEN exited ELSE exited \cup {p}
  /\ Goto(p, [Resting EXCEPT
       !.pc = IF tombs[p] # None \/ outcome # "park" THEN "storeDead" ELSE "store",
       !.reason = IF tombs[p] # None THEN tombs[p] ELSE outcome])
  /\ UNCHANGED <<table, slot, traps, links, shadow, mail, graves, watch, calls, ghost>>

(* Mutant: a body whose entry vanished is put back.                        *)
StoreResurrects(p) ==
  /\ thread[p].pc \in {"store", "storeDead"}
  /\ slot' = [slot EXCEPT ![p] = "present"]
  /\ mailbox' = [mailbox EXCEPT ![p] = @ \o pending[p]]
  /\ pending' = [pending EXCEPT ![p] = <<>>]
  /\ shadow' = [shadow EXCEPT ![p] = <<>>]
  /\ IF At(p, "storeDead")
     THEN Goto(p, Cleanup(p, thread[p].reason))
     ELSE Jump(p, "stored")
  /\ UNCHANGED <<table, exited, traps, links, graves, watch, calls, ghost>>

(* store_runnable_process: what the shadow collected is merged into the    *)
(* body.  Links are only added.  When a finalizer removed the entry in the *)
(* meantime the body is disposed of.                                       *)
StoreRunnable(p) ==
  /\ thread[p].pc \in {"store", "storeDead"}
  /\ IF slot[p] = "executing"
     THEN /\ slot' = [slot EXCEPT ![p] = "present"]
          /\ links' = [links EXCEPT ![p] = AddLinks(@, shadow[p], p)]
          /\ shadow' = [shadow EXCEPT ![p] = <<>>]
          /\ mailbox' = [mailbox EXCEPT ![p] = @ \o pending[p]]
          /\ pending' = [pending EXCEPT ![p] = <<>>]
     ELSE UNCHANGED <<slot, links, shadow, mail>>
  /\ IF At(p, "storeDead")
     THEN Goto(p, Cleanup(p, thread[p].reason))
     ELSE Jump(p, "stored")
  /\ UNCHANGED <<table, exited, traps, graves, watch, calls, ghost>>

(* Mutant: the tombstone is not looked at again once the body is stored.   *)
NoCheckAfterStore(p) ==
  /\ At(p, "stored")
  /\ Goto(p, Resting)
  /\ UNCHANGED <<body, mail, graves, watch, calls, ghost>>

(* cleanup_if_tombstoned_after_store: a kill that found the shadow is seen *)
(* now, or the process goes back to the queues.                            *)
CheckAfterStore(p) ==
  /\ At(p, "stored")
  /\ Goto(p, IF tombs[p] # None THEN Cleanup(p, tombs[p]) ELSE Resting)
  /\ UNCHANGED <<body, mail, graves, watch, calls, ghost>>

-----------------------------------------------------------------------------
(* Calls a process makes in its slice, and the host's own. *)

MayCall(t) ==
  /\ IF t = Host THEN At(t, "idle") ELSE At(t, "run") /\ t \in Callers \ exited
  /\ calls < MaxCalls
  /\ calls' = calls + 1

Calls(t, pc, peer) == MayCall(t) /\ Goto(t, [thread[t] EXCEPT !.pc = pc, !.peer = peer])

(* link/1: the tombstone and the table are read first. *)
LinkChecks(p, q) ==
  /\ p # q /\ slot[q] # "unborn" /\ tombs[q] = None /\ q \in table
  /\ Calls(p, "linkCaller", q)
  /\ UNCHANGED <<body, mail, graves, watch, ghost>>

(* add_link_to_slot on the caller.  The slot of a process killed in the    *)
(* meantime may be gone: NoCaller.                                         *)
AddToSlot(p, q) ==
  CASE slot[p] = "present"   -> /\ links' = [links EXCEPT ![p] = AddLink(@, q, p)]
                                /\ UNCHANGED shadow
    [] slot[p] = "executing" -> /\ shadow' = [shadow EXCEPT ![p] = AddLink(@, q, p)]
                                /\ UNCHANGED links
    [] OTHER                 -> UNCHANGED <<links, shadow>>

LinkCaller(p) ==
  /\ At(p, "linkCaller")
  /\ AddToSlot(p, thread[p].peer)
  /\ IF slot[p] \in {"present", "executing"} THEN Jump(p, "linkTarget") ELSE Goto(p, Return(p))
  /\ UNCHANGED <<table, slot, exited, traps, mail, graves, watch, calls, ghost>>

(* add_link_to_slot on the target; link/1 returns Ok whatever it finds.    *)
LinkTarget(p) ==
  /\ At(p, "linkTarget")
  /\ AddToSlot(thread[p].peer, p)
  /\ unlinked' = unlinked \ {{p, thread[p].peer}}
  /\ Goto(p, Return(p))
  /\ UNCHANGED <<table, slot, exited, traps, mail, graves, watch, calls, bonds>>

(* remove_link_from_slot. *)
RemoveFromSlot(p, q) ==
  CASE slot[p] = "present"   -> /\ links' = [links EXCEPT ![p] = RemoveLink(@, q)]
                                /\ UNCHANGED shadow
    [] slot[p] = "executing" -> /\ shadow' = [shadow EXCEPT ![p] = RemoveLink(@, q)]
                                /\ UNCHANGED links
    [] OTHER                 -> UNCHANGED <<links, shadow>>

(* unlink/1: the caller's side, then the target's. *)
UnlinkCaller(p, q) ==
  /\ p # q /\ slot[q] # "unborn"
  /\ Calls(p, "unlinkTarget", q)
  /\ RemoveFromSlot(p, q)
  /\ bonds' = bonds \ {{p, q}}
  /\ UNCHANGED <<table, slot, exited, traps, mail, graves, watch, unlinked>>

UnlinkTarget(p) ==
  /\ At(p, "unlinkTarget")
  /\ RemoveFromSlot(thread[p].peer, p)
  /\ unlinked' = IF tombs[p] = None /\ tombs[thread[p].peer] = None
                 THEN unlinked \cup {{p, thread[p].peer}} ELSE unlinked
  /\ Goto(p, Return(p))
  /\ UNCHANGED <<table, slot, exited, traps, mail, graves, watch, calls, bonds>>

(* Mutant: monitor/2 looks only at the process table.                      *)
MonitorByTable(p, q) ==
  /\ p # q /\ refs < MaxRefs /\ slot[q] # "unborn" /\ q \in table
  /\ LET m == [ref |-> refs, watcher |-> p, target |-> q]
     IN  /\ told' = told \cup {m}
         /\ refs' = refs + 1
         /\ monitors' = monitors \cup {m}
         /\ Calls(p, "run", None)
  /\ UNCHANGED <<body, mail, graves, ghost>>

(* monitor/2: under the monitor_set lock a tombstone means an immediate    *)
(* DOWN, no entry in the table NoProc, and otherwise the monitor is put in.*)
Monitor(p, q) ==
  /\ p # q /\ refs < MaxRefs /\ slot[q] # "unborn" /\ (tombs[q] # None \/ q \in table)
  /\ LET m == [ref |-> refs, watcher |-> p, target |-> q]
     IN  /\ told' = told \cup {m}
         /\ refs' = refs + 1
         /\ IF tombs[q] # None
            THEN /\ MayCall(p)
                 /\ Goto(p, [Resting EXCEPT !.pc = "downNow", !.downs = {m}])
                 /\ UNCHANGED monitors
            ELSE /\ monitors' = monitors \cup {m}
                 /\ Calls(p, "run", None)
  /\ UNCHANGED <<body, mail, graves, ghost>>

(* demonitor/1, under the monitor_set lock. *)
Demonitor(p, m) ==
  /\ m.watcher = p /\ At(p, "run") /\ p \notin exited
  /\ monitors' = monitors \ {m}
  /\ told' = told \ {m}
  /\ UNCHANGED <<body, mail, graves, refs, thread, calls, ghost>>

(* exit/2 on a body in its slot: it is terminated there and cleaned up by  *)
(* the caller, or it gets the signal as a message.                         *)
ExitSignalPresent(p, q, reason) ==
  /\ slot[q] = "present" /\ q \notin exited
  /\ MayCall(p)
  /\ IF ShouldDie(q, reason)
     THEN /\ exited' = exited \cup {q}
          /\ Goto(p, Cleanup(q, TerminalReason(reason)))
          /\ UNCHANGED mail
     ELSE /\ IF q \in traps THEN Deliver(q, Exit(p, reason)) ELSE UNCHANGED mail
          /\ UNCHANGED <<thread, exited>>
  /\ UNCHANGED <<table, slot, traps, links, shadow, graves, watch, ghost>>

(* exit/2 on a body that is checked out: shared_exit_tombstone, and the    *)
(* worker that runs it does the rest when the slice is over.               *)
ExitSignalExecuting(p, q, reason) ==
  /\ slot[q] = "executing"
  /\ Calls(p, "run", None)
  /\ IF ShouldDie(q, reason)
     THEN Bury(q, TerminalReason(reason)) /\ UNCHANGED mail
     ELSE /\ IF q \in traps THEN Deliver(q, Exit(p, reason)) ELSE UNCHANGED mail
          /\ UNCHANGED graves
  /\ UNCHANGED <<body, watch, ghost>>

(* Scheduler::terminate_process. *)
TerminateProcess(q) ==
  /\ MayCall(Host)
  /\ slot[q] # "unborn" /\ tombs[q] = None
  /\ Goto(Host, Cleanup(q, "error"))
  /\ UNCHANGED <<body, mail, graves, watch, ghost>>

(* Scheduler::set_trap_exit: refused while the body is checked out.        *)
SetTrapExit(q) ==
  /\ slot[q] = "present"
  /\ Calls(Host, "idle", None)
  /\ traps' = IF q \in traps THEN traps \ {q} ELSE traps \cup {q}
  /\ UNCHANGED <<table, slot, exited, links, shadow, mail, graves, watch, ghost>>

(* spawn with link_to, called in the parent's slice: the pid goes into the *)
(* table and the parent's slot gets the link ...                           *)
SpawnLink(p, q) ==
  /\ slot[q] = "unborn" /\ q \notin table
  /\ Calls(p, "spawning", q)
  /\ table' = table \cup {q}
  /\ links' = [links EXCEPT ![q] = <<p>>]
  /\ shadow' = IF slot[p] = "executing" THEN [shadow EXCEPT ![p] = AddLink(@, q, p)] ELSE shadow
  /\ UNCHANGED <<slot, exited, traps, mail, graves, watch, ghost>>

(* ... and then the body is published, and the caller learns the pid.      *)
SpawnPublish(p) ==
  /\ At(p, "spawning")
  /\ slot' = [slot EXCEPT ![thread[p].peer] = "present"]
  /\ bonds' = IF tombs[p] = None THEN bonds \cup {{p, thread[p].peer}} ELSE bonds
  /\ Goto(p, Return(p))
  /\ UNCHANGED <<table, exited, traps, links, shadow, mail, graves, watch, calls, unlinked>>

-----------------------------------------------------------------------------
(* cleanup_exited_process, on whichever thread runs it.  The steps of one  *)
(* thread interleave with everything else between its locks.               *)

(* The tombstone comes first: from here on monitor/2 and link/1 refuse.    *)
InsertTombstone(t) ==
  /\ At(t, "tomb")
  /\ Bury(thread[t].pid, TerminalReason(thread[t].reason))
  /\ Jump(t, "takeLinks")
  /\ UNCHANGED <<body, mail, watch, calls, ghost>>

(* Where the thread stands once its DOWNs are out or its worklist is empty.*)
(* A cascade victim that was in its slot is finalized by this thread, one  *)
(* that was checked out is left to its worker; the process that started it *)
(* all is finalized last.                                                  *)
Extend(st) == [st EXCEPT !.pc = "signal", !.work = @ \o st.cascade, !.cascade = <<>>]
Drained(st) ==
  IF st.pc = "signal" /\ st.work = <<>>
  THEN [st EXCEPT !.pc = "spendToken", !.dying = st.pid, !.phase = "last"]
  ELSE st
Advance(st) ==
  CASE st.pc = "downs" /\ st.downs = {} /\ st.phase = "present" -> [st EXCEPT !.pc = "spendToken"]
    [] st.pc = "downs" /\ st.downs = {} /\ st.phase # "present" -> Drained(Extend(st))
    [] OTHER -> Drained(st)

Signalled(p, targets, reason) ==
  [i \in DOMAIN targets |-> [from |-> p, to |-> targets[i], reason |-> reason]]

(* Mutant: the links of a process that is checked out are not looked at.   *)
TakeLinksOfBody(t) ==
  LET p == thread[t].pid
      found == IF slot[p] = "present" THEN links[p] ELSE <<>>
  IN /\ At(t, "takeLinks")
     /\ links' = IF slot[p] = "present" THEN [links EXCEPT ![p] = <<>>] ELSE links
     /\ Goto(t, [thread[t] EXCEPT !.pc = "collect",
                                  !.work = Signalled(p, found, TerminalReason(thread[t].reason))])
     /\ UNCHANGED <<table, slot, exited, traps, shadow, mail, graves, watch, calls, ghost>>

(* take_links_from: taken out of a body, only copied from a shadow.        *)
TakeLinks(t) ==
  LET p == thread[t].pid
      found == CASE slot[p] = "present"   -> links[p]
                 [] slot[p] = "executing" -> shadow[p]
                 [] OTHER                 -> <<>>
  IN /\ At(t, "takeLinks")
     /\ links' = IF slot[p] = "present" THEN [links EXCEPT ![p] = <<>>] ELSE links
     /\ Goto(t, [thread[t] EXCEPT !.pc = "collect",
                                  !.work = Signalled(p, found, TerminalReason(thread[t].reason))])
     /\ UNCHANGED <<table, slot, exited, traps, shadow, mail, graves, watch, calls, ghost>>

(* collect_watchers_and_remove, under the monitor_set lock. *)
CollectWatchers(t) ==
  LET found == {m \in monitors : m.target = thread[t].dying}
  IN /\ At(t, "collect")
     /\ monitors' = monitors \ found
     /\ Goto(t, Advance([thread[t] EXCEPT !.pc = "downs", !.downs = found]))
     /\ UNCHANGED <<body, mail, graves, refs, told, calls, ghost>>

(* deliver_single_down: the oldest first, and nothing for a watcher that   *)
(* is gone or terminated.                                                  *)
DeliverDown(t) ==
  /\ thread[t].pc \in {"downs", "downNow"}
  /\ \E m \in thread[t].downs :
        /\ \A n \in thread[t].downs : m.ref <= n.ref
        /\ IF slot[m.watcher] = "executing" \/ (slot[m.watcher] = "present" /\ m.watcher \notin exited)
           THEN Deliver(m.watcher, Down(m.ref, m.target))
           ELSE UNCHANGED mail
        /\ Goto(t, IF At(t, "downNow") THEN Return(t)
                   ELSE Advance([thread[t] EXCEPT !.downs = @ \ {m}]))
  /\ UNCHANGED <<body, graves, watch, calls, ghost>>

(* process_exit_signal on the head of the worklist, under the slot lock.   *)
Popped(t) == [thread[t] EXCEPT !.work = Tail(@)]
Victim(t, s, phase, rest) ==
  [Popped(t) EXCEPT !.pc = "collect", !.dying = s.to, !.phase = phase,
     !.cascade = Signalled(s.to, RemoveLink(rest, s.from), TerminalReason(s.reason))]

SignalIgnored(t) ==
  LET s == Head(thread[t].work)
  IN /\ At(t, "signal") /\ thread[t].work # <<>>
     /\ slot[s.to] \in {"unborn", "gone"} \/ (slot[s.to] = "present" /\ s.to \in exited)
     /\ Goto(t, Advance(Popped(t)))
     /\ UNCHANGED <<body, mail, graves, watch, calls, ghost>>

SignalPresent(t) ==
  LET s == Head(thread[t].work)
  IN /\ At(t, "signal") /\ thread[t].work # <<>>
     /\ slot[s.to] = "present" /\ s.to \notin exited
     /\ IF ShouldDie(s.to, s.reason)
        THEN /\ links' = [links EXCEPT ![s.to] = <<>>]
             /\ exited' = exited \cup {s.to}
             /\ Bury(s.to, TerminalReason(s.reason))
             /\ Goto(t, Victim(t, s, "present", links[s.to]))
             /\ UNCHANGED mail
        ELSE /\ links' = [links EXCEPT ![s.to] = RemoveLink(@, s.from)]
             /\ IF s.to \in traps THEN Deliver(s.to, Exit(s.from, s.reason)) ELSE UNCHANGED mail
             /\ Goto(t, Advance(Popped(t)))
             /\ UNCHANGED <<exited, graves>>
     /\ UNCHANGED <<table, slot, traps, shadow, watch, calls, ghost>>

SignalExecuting(t) ==
  LET s == Head(thread[t].work)
  IN /\ At(t, "signal") /\ thread[t].work # <<>>
     /\ slot[s.to] = "executing"
     /\ shadow' = [shadow EXCEPT ![s.to] = RemoveLink(@, s.from)]
     /\ IF ShouldDie(s.to, s.reason)
        THEN /\ Bury(s.to, TerminalReason(s.reason))
             /\ Goto(t, Victim(t, s, "executing", shadow[s.to]))
             /\ UNCHANGED mail
        ELSE /\ IF s.to \in traps THEN Deliver(s.to, Exit(s.from, s.reason)) ELSE UNCHANGED mail
             /\ Goto(t, Advance(Popped(t)))
             /\ UNCHANGED graves
     /\ UNCHANGED <<table, slot, exited, traps, links, watch, calls, ghost>>

(* Where finalize_exited_process comes back to. *)
AfterFinalize(t) ==
  IF thread[t].phase = "present"
  THEN Drained(Extend(thread[t]))
  ELSE IF t \in Pids /\ thread[t].pid # t THEN Return(t) ELSE Resting

(* finalize_exited_process: the table token goes to one finalizer ...      *)
SpendToken(t) ==
  /\ At(t, "spendToken")
  /\ table' = table \ {thread[t].dying}
  /\ IF thread[t].dying \in table THEN Jump(t, "removeBody") ELSE Goto(t, AfterFinalize(t))
  /\ UNCHANGED <<slot, exited, traps, links, shadow, mail, graves, watch, calls, ghost>>

(* ... which then removes the entry of the body, whoever holds the body.   *)
RemoveBody(t) ==
  LET p == thread[t].dying
  IN /\ At(t, "removeBody")
     /\ slot' = [slot EXCEPT ![p] = "gone"]
     /\ links' = [links EXCEPT ![p] = <<>>]
     /\ shadow' = [shadow EXCEPT ![p] = <<>>]
     /\ mailbox' = [mailbox EXCEPT ![p] = <<>>]
     /\ pending' = [pending EXCEPT ![p] = <<>>]
     /\ Goto(t, AfterFinalize(t))
     /\ UNCHANGED <<table, exited, traps, graves, watch, calls, ghost>>

-----------------------------------------------------------------------------
(* Everything a thread does once begun, and the calls that begin something.*)
Continues(t) ==
  \/ InsertTombstone(t) \/ TakeLinks(t) \/ CollectWatchers(t)
  \/ DeliverDown(t)
  \/ SignalIgnored(t) \/ SignalPresent(t) \/ SignalExecuting(t)
  \/ SpendToken(t) \/ RemoveBody(t)

SliceContinues(p) ==
  \/ StoreRunnable(p) \/ CheckAfterStore(p)
  \/ LinkCaller(p) \/ LinkTarget(p) \/ UnlinkTarget(p) \/ SpawnPublish(p)

Slice(p) ==
  \/ TakeRunnable(p)
  \/ \E outcome \in {"park", "normal", "error"} : SliceEnds(p, outcome)
  \/ \E q \in Pids : \/ LinkChecks(p, q) \/ UnlinkCaller(p, q)
                     \/ Monitor(p, q) \/ SpawnLink(p, q)
  \/ \E m \in told : Demonitor(p, m)
  \/ \E q \in Pids, reason \in Signals :
       ExitSignalPresent(p, q, reason) \/ ExitSignalExecuting(p, q, reason)

HostCalls == \E q \in Pids : TerminateProcess(q) \/ SetTrapExit(q)

Next ==
  \/ \E t \in Threads : Continues(t)
  \/ \E p \in Pids : SliceContinues(p) \/ Slice(p)
  \/ HostCalls

Spec == Init /\ [][Next]_vars

(* A thread that has begun something goes on, and a slice comes to an end: *)
(* the reduction budget preempts it.                                       *)
Fairness ==
  /\ \A t \in Threads : WF_vars(Continues(t))
  /\ \A p \in Pids : /\ WF_vars(SliceContinues(p))
                     /\ WF_vars(\E outcome \in {"park", "normal", "error"} : SliceEnds(p, outcome))
FairSpec == Spec /\ Fairness

-----------------------------------------------------------------------------
(* The state is made of what the code's types allow. *)
SupervisionTypeOK ==
  /\ table \subseteq Pids
  /\ slot \in [Pids -> {"unborn", "present", "executing", "gone"}]
  /\ exited \subseteq Pids /\ traps \subseteq Pids
  /\ \A p \in Pids : /\ Range(links[p]) \cup Range(shadow[p]) \subseteq Pids \ {p}
                     /\ slot[p] # "executing" => shadow[p] = <<>> /\ pending[p] = <<>>
  /\ tombs \in [Pids -> Deaths \cup {None}]
  /\ refs \in 0..MaxRefs /\ calls \in 0..MaxCalls
  /\ monitors \subseteq told \cup [ref : 0..MaxRefs, watcher : Pids, target : Pids]

Quiescent == \A t \in Threads : At(t, "idle")

(* Where the DOWN of a monitor is: still to be collected, on its way in    *)
(* some thread, or with the watcher.                                       *)
Copies(m) ==
  LET inFlight == {t \in Threads : m \in thread[t].downs}
      arrived(box) == {i \in DOMAIN box : box[i] = Down(m.ref, m.target)}
  IN  Cardinality(monitors \cap {m}) + Cardinality(inFlight)
      + Cardinality(arrived(mailbox[m.watcher])) + Cardinality(arrived(pending[m.watcher]))

(* monitor/2 promises one DOWN: never two, none lost while the watcher     *)
(* lives, whether the target dies before the monitor is registered, during *)
(* it or after it, and however many threads clean the target up; and the   *)
(* monitor set keeps nothing on a process that has been finalized          *)
(* (deliver_down_messages, the tombstone check under the monitor lock).    *)
DownExactlyOnce ==
  \A m \in told :
    /\ Copies(m) <= 1
    /\ tombs[m.watcher] = None /\ m.watcher \notin exited => Copies(m) = 1
    /\ m.target \notin table => m \notin monitors

(* An abnormal death reaches everybody linked from the start or by a spawn:*)
(* once all threads have come to rest, the other end is dead too or has    *)
(* the EXIT message in its mailbox, whatever the two were doing and        *)
(* whoever cleaned up (propagate_exit, process_exit_signal and the         *)
(* store-back together).                                                   *)
DeathReachesLinked ==
  Quiescent =>
    \A b \in bonds : \A p, q \in b :
      p # q /\ causes[p] # {} /\ "normal" \notin causes[p] =>
        \/ tombs[q] # None
        \/ \E i \in DOMAIN mailbox[q] : mailbox[q][i].kind = "EXIT" /\ mailbox[q][i].from = p

(* With all threads at rest a process is whole or gone: a tombstone means  *)
(* no table entry and no body, and a table entry has its body.  This is    *)
(* the two-token protocol of finalize_exited_process against the store-back*)
(* of a body whose entry vanished.                                         *)
NoZombie ==
  Quiescent =>
    \A p \in Pids : /\ tombs[p] # None => p \notin table /\ slot[p] = "gone"
                    /\ slot[p] = "present" <=> p \in table

(* A killed process is finalized, although a kill that finds the body      *)
(* checked out only leaves a tombstone for the worker (exit_signal and     *)
(* process_exit_signal, Executing arms).                                   *)
KilledIsFinalized ==
  \A p \in Pids : tombs[p] # None ~> slot[p] = "gone" /\ p \notin table

(* B-018: after unlink, the death of one end does not affect the other.    *)
(* No thread sends an exit signal along a pair that was unlinked while     *)
(* both ends were alive.                                                   *)
UnlinkHolds ==
  \A t \in Threads : \A i \in DOMAIN thread[t].work :
    {thread[t].work[i].from, thread[t].work[i].to} \notin unlinked
=============================================================================

------------------------------- MODULE FileIo -------------------------------
(***************************************************************************)
(* File and socket operations of processes on the completion ring:         *)
(* FileIoFacility in scheduler/supervision_integration.rs, worker 0's      *)
(* drain_file_io_completions in scheduler/execution.rs, and the native     *)
(* functions of native/tcp_bifs.rs, udp_bifs.rs and file_bifs.rs that call *)
(* them.                                                                   *)
(*                                                                         *)
(* A native function submits an operation, records it as pending under its *)
(* process and suspends.  Worker 0 drains the ring: a completion that is   *)
(* pending becomes the result of its process, one that was cancelled is    *)
(* dropped, and any other is an orphan, for the submitter that has not     *)
(* recorded its operation yet.  The four maps have no lock in common.      *)
(*                                                                         *)
(* A process that runs on worker 0 cannot run while worker 0 drains.       *)
(***************************************************************************)
EXTENDS Naturals, FiniteSets

CONSTANTS IoProcs,       \* the processes
          OnWorkerZero,  \* those whose slices run on worker 0
          CallKinds,     \* the kinds of call each process makes
          SocketHolder,  \* the first controlling process of the active socket
          Modes,         \* the modes setopts may ask for
          Mortal,        \* bound: the processes another thread may kill
          MaxIoCalls,    \* bound: the calls of each process
          MaxIoOps       \* bound: operations submitted in a behaviour

NoOp == 0
Ops == 1..MaxIoOps
Kinds == {"tcp", "file", "udp", "close"}

ASSUME FileIoAssumption ==
  /\ MaxIoOps \in Nat /\ OnWorkerZero \subseteq IoProcs /\ SocketHolder \in IoProcs
  /\ CallKinds \in [IoProcs -> SUBSET Kinds] /\ MaxIoCalls \in [IoProcs -> Nat]
  /\ Mortal \subseteq IoProcs
  /\ Modes \subseteq {"passive", "active", "once"}

VARIABLES
  ioNext,     \* the ring's next operation
  ioFor,      \* what each operation was submitted for: process, call, kind
  ioFlight,   \* operations the ring executes
  ioDone,     \* completions nobody has polled
  ioPending,  \* file_io_pending
  ioOrphans,  \* file_io_orphans
  ioCanceled, \* file_io_canceled
  ioResults,  \* file_io_results: the operation whose completion a process has
  ioDrain,    \* worker 0's drain: its step, its completion, the mode it read
  ioCall,     \* each process: its step, call, kind, operation, cancelled operations, timeout
  ioTable,    \* process_table
  ioPurged,   \* the dead processes whose suspension state is purged
  sockMode,   \* FdInner.mode of the active socket
  sockPid,    \* FdInner.controlling_process
  sockEnded,  \* the peer has closed it
  ioApplied,  \* ghost: <<operation, process, call>> of each completion consumed
  ioDropped   \* ghost: operations a timeout cancelled

ringState == <<ioNext, ioFor, ioFlight, ioDone>>
ioMaps == <<ioPending, ioOrphans, ioCanceled, ioResults>>
ioLife == <<ioTable, ioPurged>>
socket == <<sockMode, sockPid, sockEnded>>
ioGhosts == <<ioApplied, ioDropped>>
ioVars == <<ringState, ioMaps, ioDrain, ioCall, ioLife, socket, ioGhosts>>

Unused == [pid |-> SocketHolder, call |-> 0, kind |-> "none"]
Drained == [at |-> "idle", op |-> NoOp, mode |-> "passive"]

IoInit ==
  /\ ioNext = 1 /\ ioFor = [o \in Ops |-> Unused] /\ ioFlight = {} /\ ioDone = {}
  /\ ioPending = {} /\ ioOrphans = {} /\ ioCanceled = {}
  /\ ioResults = [p \in IoProcs |-> NoOp]
  /\ ioDrain = Drained
  /\ ioCall = [p \in IoProcs |-> [at |-> "idle", call |-> 0, kind |-> "file",
                                  op |-> NoOp, cut |-> {}, expired |-> FALSE]]
  /\ ioTable = IoProcs /\ ioPurged = {}
  /\ sockMode = "passive" /\ sockPid = SocketHolder /\ sockEnded = FALSE
  /\ ioApplied = {} /\ ioDropped = {}

-----------------------------------------------------------------------------
(* The slices of p are not interleaved with the drain when p runs there. *)
Turn(p) == p \in OnWorkerZero => ioDrain.at = "idle"

IoStep(p, at) == ioCall' = [ioCall EXCEPT ![p].at = at]

(* CompletionRing::submit: the next id, and an operation in flight. *)
Submit(p, call, kind) ==
  /\ ioNext \in Ops
  /\ ioNext' = ioNext + 1
  /\ ioFor' = [ioFor EXCEPT ![ioNext] = [pid |-> p, call |-> call, kind |-> kind]]
  /\ ioFlight' = ioFlight \cup {ioNext}
  /\ UNCHANGED ioDone

(* The ring executes an operation and queues its completion. *)
RingCompletes(o) ==
  /\ o \in ioFlight
  /\ ioFlight' = ioFlight \ {o} /\ ioDone' = ioDone \cup {o}
  /\ UNCHANGED <<ioNext, ioFor, ioMaps, ioDrain, ioCall, ioLife, socket, ioGhosts>>

-----------------------------------------------------------------------------
(* A native function.  It is entered by a call and again by every resume.  *)
BeginCall(p, kind) ==
  /\ ioCall[p].at = "idle" /\ Turn(p) /\ kind \in CallKinds[p]
  /\ ioCall' = [ioCall EXCEPT ![p].at = "enter", ![p].call = @ + 1, ![p].kind = kind]
  /\ ioCall[p].call < MaxIoCalls[p]
  /\ UNCHANGED <<ringState, ioMaps, ioDrain, ioLife, socket, ioGhosts>>

Consume(p) ==
  /\ ioResults' = [ioResults EXCEPT ![p] = NoOp]
  /\ ioApplied' = ioApplied \cup {<<ioResults[p], p, ioCall[p].call>>}

(* take_file_io_completion and the finish function: the call returns, or a *)
(* partial read or write submits the rest.                                 *)
TakeResult(p) ==
  /\ ioCall[p].at = "enter" /\ Turn(p) /\ ioResults[p] # NoOp
  /\ Consume(p)
  /\ \/ /\ ioCall' = [ioCall EXCEPT ![p].at = "idle", ![p].expired = FALSE]
        /\ UNCHANGED ringState
     \/ /\ ioCall[p].kind = "tcp" /\ ioFor[ioResults[p]].kind = "tcp"
        /\ Submit(p, ioCall[p].call, "tcp")
        /\ ioCall' = [ioCall EXCEPT ![p].at = "track", ![p].op = ioNext,
                                    ![p].expired = FALSE]
  /\ UNCHANGED <<ioPending, ioOrphans, ioCanceled, ioDrain, ioLife, socket, ioDropped>>

(* Nothing to take: submit.  udp_recv does so after its timeout too. *)
SubmitOp(p) ==
  /\ ioCall[p].at = "enter" /\ Turn(p) /\ ioResults[p] = NoOp
  /\ ~ioCall[p].expired \/ ioCall[p].kind = "udp"
  /\ Submit(p, ioCall[p].call, ioCall[p].kind)
  /\ ioCall' = [ioCall EXCEPT ![p].at = "track", ![p].op = ioNext, ![p].expired = FALSE]
  /\ UNCHANGED <<ioMaps, ioDrain, ioLife, socket, ioGhosts>>

(* Mutant: a completion that is not there yet is not waited for. *)
TrackOrphanOnly(p) ==
  LET o == ioCall[p].op IN
  /\ ioCall[p].at = "track" /\ Turn(p)
  /\ IoStep(p, "tracked")
  /\ IF o \in ioOrphans
     THEN /\ ioOrphans' = ioOrphans \ {o}
          /\ ioResults' = [ioResults EXCEPT ![p] = o]
     ELSE UNCHANGED <<ioOrphans, ioResults>>
  /\ UNCHANGED <<ringState, ioPending, ioCanceled, ioDrain, ioLife, socket, ioGhosts>>

(* track_submitted_file_io, its first half: the orphan, if there is one. *)
TrackOrphan(p) ==
  LET o == ioCall[p].op IN
  /\ ioCall[p].at = "track" /\ Turn(p)
  /\ IF o \in ioOrphans
     THEN /\ ioOrphans' = ioOrphans \ {o}
          /\ ioResults' = [ioResults EXCEPT ![p] = o]
          /\ IoStep(p, "tracked")
     ELSE IoStep(p, "pend") /\ UNCHANGED <<ioOrphans, ioResults>>
  /\ UNCHANGED <<ringState, ioPending, ioCanceled, ioDrain, ioLife, socket, ioGhosts>>

(* Its second half. *)
TrackPending(p) ==
  /\ ioCall[p].at = "pend" /\ Turn(p)
  /\ ioPending' = ioPending \cup {ioCall[p].op}
  /\ IoStep(p, "tracked")
  /\ UNCHANGED <<ringState, ioOrphans, ioCanceled, ioResults, ioDrain, ioLife, socket, ioGhosts>>

(* The end of the slice.  close looks for a completion once more; the      *)
(* others suspend, and the body of a process killed meanwhile is dropped.   *)
Suspend(p) ==
  /\ ioCall[p].at = "tracked" /\ Turn(p)
  /\ IF ioCall[p].kind = "close" /\ ioResults[p] # NoOp
     THEN Consume(p) /\ IoStep(p, "idle")
     ELSE /\ IoStep(p, IF p \in ioTable THEN "parked" ELSE "dead")
          /\ UNCHANGED <<ioResults, ioApplied>>
  /\ UNCHANGED <<ringState, ioPending, ioOrphans, ioCanceled, ioDrain, ioLife, socket, ioDropped>>

(* The receive timer of a timed await. *)
TimerExpires(p) ==
  /\ ioCall[p].at = "parked" /\ ioCall[p].kind \in {"tcp", "udp"} /\ ~ioCall[p].expired
  /\ p \in ioTable
  /\ ioCall' = [ioCall EXCEPT ![p].expired = TRUE]
  /\ UNCHANGED <<ringState, ioMaps, ioDrain, ioLife, socket, ioGhosts>>

(* The host-await arm of the suspension gate, for a process woken by a     *)
(* result or by its timer.                                                 *)
Resume(p) ==
  /\ ioCall[p].at = "parked" /\ p \in ioTable /\ Turn(p)
  /\ ioResults[p] # NoOp \/ ioCall[p].expired
  /\ ioCall' = [ioCall EXCEPT ![p].at = "enter",
                              ![p].expired = @ /\ ioResults[p] = NoOp]
  /\ UNCHANGED <<ringState, ioMaps, ioDrain, ioLife, socket, ioGhosts>>

(* The pending operations recorded under p. *)
PendingOf(p) == {o \in ioPending : ioFor[o].pid = p}

(* cancel_pending_file_io_for_pid on the timeout path: the ids are         *)
(* collected first.                                                        *)
CancelCollect(p) ==
  /\ ioCall[p].at = "enter" /\ Turn(p) /\ ioResults[p] = NoOp
  /\ ioCall[p].expired /\ ioCall[p].kind # "udp"
  /\ ioCall' = [ioCall EXCEPT ![p].at = "cancel", ![p].cut = PendingOf(p)]
  /\ UNCHANGED <<ringState, ioMaps, ioDrain, ioLife, socket, ioGhosts>>

(* Mutant: a timeout marks an operation and leaves it pending. *)
CancelPendingNever(p, o) ==
  /\ ioCall[p].at = "cancel" /\ Turn(p) /\ o \in ioCall[p].cut
  /\ ioDropped' = ioDropped \cup {o}
  /\ ioCall' = [ioCall EXCEPT ![p].at = "mark", ![p].op = o]
  /\ UNCHANGED <<ringState, ioMaps, ioDrain, ioLife, socket, ioApplied>>

(* Then each is taken out, if it is still pending, *)
CancelPending(p, o) ==
  /\ ioCall[p].at = "cancel" /\ Turn(p) /\ o \in ioCall[p].cut
  /\ IF o \in ioPending
     THEN /\ ioPending' = ioPending \ {o}
          /\ ioDropped' = ioDropped \cup {o}
          /\ ioCall' = [ioCall EXCEPT ![p].at = "mark", ![p].op = o]
     ELSE /\ ioCall' = [ioCall EXCEPT ![p].cut = @ \ {o}]
          /\ UNCHANGED <<ioPending, ioDropped>>
  /\ UNCHANGED <<ringState, ioOrphans, ioCanceled, ioResults, ioDrain, ioLife, socket, ioApplied>>

(* and marked cancelled. *)
CancelMark(p) ==
  /\ ioCall[p].at = "mark" /\ Turn(p)
  /\ ioCanceled' = ioCanceled \cup {ioCall[p].op}
  /\ ioCall' = [ioCall EXCEPT ![p].at = "cancel", ![p].cut = @ \ {ioCall[p].op}]
  /\ UNCHANGED <<ringState, ioPending, ioOrphans, ioResults, ioDrain, ioLife, socket, ioGhosts>>

(* At last the result is dropped and the timeout returned. *)
CancelReturns(p) ==
  /\ ioCall[p].at = "cancel" /\ Turn(p) /\ ioCall[p].cut = {}
  /\ ioResults' = [ioResults EXCEPT ![p] = NoOp]
  /\ ioCall' = [ioCall EXCEPT ![p].at = "idle", ![p].expired = FALSE]
  /\ UNCHANGED <<ringState, ioPending, ioOrphans, ioCanceled, ioDrain, ioLife, socket, ioGhosts>>

-----------------------------------------------------------------------------
(* tcp_setopts, by any process that has the socket: the mode, and a read   *)
(* when it was passive.                                                    *)
SetMode(p, mode) ==
  /\ ioCall[p].at = "idle" /\ Turn(p) /\ mode \in Modes \ {sockMode}
  /\ sockMode' = mode
  /\ IF mode # "passive" /\ sockMode = "passive"
     THEN /\ Submit(p, 0, "active")
          /\ ioCall' = [ioCall EXCEPT ![p].at = "arm", ![p].op = ioNext]
     ELSE UNCHANGED <<ringState, ioCall>>
  /\ UNCHANGED <<ioMaps, ioDrain, ioLife, sockPid, sockEnded, ioGhosts>>

(* submit_active_tcp_read records its read under the controlling process,  *)
(* without looking at the orphans.                                         *)
ArmRead(p) ==
  /\ ioCall[p].at = "arm" /\ Turn(p)
  /\ ioPending' = ioPending \cup {ioCall[p].op}
  /\ ioFor' = [ioFor EXCEPT ![ioCall[p].op].pid = sockPid]
  /\ IoStep(p, "idle")
  /\ UNCHANGED <<ioNext, ioFlight, ioDone, ioOrphans, ioCanceled, ioResults, ioDrain, ioLife,
                 socket, ioGhosts>>

(* tcp_controlling_process. *)
GiveSocket(p, q) ==
  /\ ioCall[p].at = "idle" /\ p = sockPid /\ q # p /\ Turn(p)
  /\ sockPid' = q
  /\ UNCHANGED <<ringState, ioMaps, ioDrain, ioCall, ioLife, sockMode, sockEnded, ioGhosts>>

-----------------------------------------------------------------------------
(* Worker 0 drains.  The step at which it is, and what it holds. *)
DrainTo(at) == ioDrain' = [ioDrain EXCEPT !.at = at]

WorkerZeroFree == \A p \in OnWorkerZero : ioCall[p].at \in {"idle", "parked", "dead"}

(* poll_completions and file_io_pending.remove. *)
DrainPoll(o) ==
  /\ ioDrain.at = "idle" /\ o \in ioDone /\ WorkerZeroFree
  /\ ioDone' = ioDone \ {o}
  /\ ioPending' = ioPending \ {o}
  /\ ioDrain' = [ioDrain EXCEPT !.op = o,
                   !.at = IF o \notin ioPending THEN "miss"
                          ELSE IF ioFor[o].kind = "active" THEN "data" ELSE "insert"]
  /\ UNCHANGED <<ioNext, ioFor, ioFlight, ioOrphans, ioCanceled, ioResults, ioCall, ioLife,
                 socket, ioGhosts>>

(* Not pending: a cancelled completion is dropped. *)
DrainCanceled ==
  /\ ioDrain.at = "miss"
  /\ ioCanceled' = ioCanceled \ {ioDrain.op}
  /\ IF ioDrain.op \in ioCanceled THEN ioDrain' = Drained ELSE DrainTo("orphan")
  /\ UNCHANGED <<ringState, ioPending, ioOrphans, ioResults, ioCall, ioLife, socket, ioGhosts>>

(* Not cancelled either: an orphan. *)
DrainOrphan ==
  /\ ioDrain.at = "orphan"
  /\ ioOrphans' = ioOrphans \cup {ioDrain.op} /\ ioDrain' = Drained
  /\ UNCHANGED <<ringState, ioPending, ioCanceled, ioResults, ioCall, ioLife, socket, ioGhosts>>

(* deliver_file_io_result: the insert. *)
DrainInsert ==
  /\ ioDrain.at = "insert"
  /\ ioResults' = [ioResults EXCEPT ![ioFor[ioDrain.op].pid] = ioDrain.op]
  /\ DrainTo("check")
  /\ UNCHANGED <<ringState, ioPending, ioOrphans, ioCanceled, ioCall, ioLife, socket, ioGhosts>>

(* Mutant: no look at the table after the insert. *)
DrainNoCheck ==
  /\ ioDrain.at = "check" /\ ioDrain' = Drained
  /\ UNCHANGED <<ringState, ioMaps, ioCall, ioLife, socket, ioGhosts>>

(* Then the table: the entry of a process that exited is taken back, one   *)
(* of a live process wakes it.                                             *)
DrainCheck ==
  LET p == ioFor[ioDrain.op].pid IN
  /\ ioDrain.at = "check" /\ ioDrain' = Drained
  /\ ioResults' = IF p \in ioTable THEN ioResults ELSE [ioResults EXCEPT ![p] = NoOp]
  /\ UNCHANGED <<ringState, ioPending, ioOrphans, ioCanceled, ioCall, ioLife, socket, ioGhosts>>

(* handle_tcp_active_completion: a passive socket drops the data, the end  *)
(* of the stream is told and ends the loop, anything else is a message.    *)
DrainData(ended) ==
  /\ ioDrain.at = "data"
  /\ IF sockMode = "passive" THEN ioDrain' = Drained /\ UNCHANGED sockEnded
     ELSE IF ended THEN sockEnded' = TRUE /\ ioDrain' = Drained
     ELSE /\ ~sockEnded
          /\ ioDrain' = [ioDrain EXCEPT !.at = "rearm", !.mode = sockMode]
          /\ UNCHANGED sockEnded
  /\ UNCHANGED <<ringState, ioMaps, ioCall, ioLife, sockMode, sockPid, ioGhosts>>

(* After the message, by the mode read before it: the next read, or passive. *)
DrainRearm ==
  /\ ioDrain.at = "rearm" /\ ioDrain' = Drained
  /\ IF ioDrain.mode = "active"
     THEN /\ Submit(sockPid, 0, "active")
          /\ ioPending' = ioPending \cup {ioNext}
          /\ UNCHANGED sockMode
     ELSE sockMode' = "passive" /\ UNCHANGED <<ringState, ioPending>>
  /\ UNCHANGED <<ioOrphans, ioCanceled, ioResults, ioCall, ioLife, sockPid, sockEnded, ioGhosts>>

-----------------------------------------------------------------------------
(* finalize_exited_process of another thread: the table token. *)
Kill(p) ==
  /\ p \in Mortal \cap ioTable /\ ioTable' = ioTable \ {p}
  /\ UNCHANGED <<ringState, ioMaps, ioDrain, ioCall, ioPurged, socket, ioGhosts>>

(* purge_suspension_state: the result goes.  Pending operations stay. *)
Purge(p) ==
  /\ p \notin ioTable /\ p \notin ioPurged /\ ioPurged' = ioPurged \cup {p}
  /\ ioResults' = [ioResults EXCEPT ![p] = NoOp]
  /\ UNCHANGED <<ringState, ioPending, ioOrphans, ioCanceled, ioDrain, ioCall, ioTable,
                 socket, ioGhosts>>

(* The slice of a dead process ends: its body is dropped. *)
EndOfDead(p) ==
  /\ p \notin ioTable /\ ioCall[p].at = "idle"
  /\ IoStep(p, "dead")
  /\ UNCHANGED <<ringState, ioMaps, ioDrain, ioLife, socket, ioGhosts>>

IoNextStep ==
  \/ \E o \in Ops : RingCompletes(o) \/ DrainPoll(o)
  \/ \E p \in IoProcs :
       \/ \E kind \in Kinds : BeginCall(p, kind)
       \/ TakeResult(p) \/ SubmitOp(p) \/ TrackOrphan(p) \/ TrackPending(p) \/ Suspend(p)
       \/ TimerExpires(p) \/ Resume(p) \/ CancelCollect(p) \/ CancelMark(p)
       \/ CancelReturns(p) \/ \E o \in ioCall[p].cut : CancelPending(p, o)
       \/ \E mode \in Modes : SetMode(p, mode)
       \/ ArmRead(p) \/ \E q \in IoProcs : GiveSocket(p, q)
       \/ Kill(p) \/ Purge(p) \/ EndOfDead(p)
  \/ DrainCanceled \/ DrainOrphan \/ DrainInsert \/ DrainCheck \/ DrainRearm
  \/ \E ended \in BOOLEAN : DrainData(ended)

IoSpec == IoInit /\ [][IoNextStep]_ioVars

-----------------------------------------------------------------------------
(* The maps hold submitted operations only, and no operation is at the     *)
(* same time pending and cancelled, or an orphan and a result.             *)
FileIoTypeOK ==
  /\ ioNext \in 1..MaxIoOps + 1
  /\ ioPending \cup ioOrphans \cup ioCanceled \cup ioFlight \cup ioDone \subseteq 1..ioNext - 1
  /\ ioResults \in [IoProcs -> {NoOp} \cup 1..ioNext - 1]
  /\ \A p \in IoProcs : ioCall[p].op \in {NoOp} \cup 1..ioNext - 1
  /\ ioPending \cap ioCanceled = {}
  /\ \A p \in IoProcs : ioResults[p] \notin ioOrphans \cup ioFlight \cup ioDone

(* A process that runs on worker 0 and is parked without a timeout has its *)
(* operation still to complete and pending, or its completion in the       *)
(* drain's hands or as its result: it is resumed (submit_file_io records   *)
(* before the drain can poll, and a cancel touches only its own process).  *)
ParkedWillBeResumed ==
  \A p \in OnWorkerZero :
    ioCall[p].at = "parked" /\ p \in ioTable /\ ioCall[p].kind \in {"file", "close"} =>
      \/ ioCall[p].op \in ioPending \cap (ioFlight \cup ioDone)
      \/ ioDrain.op = ioCall[p].op /\ ioDrain.at = "insert"
      \/ ioResults[p] # NoOp

(* A completion consumed by a call of a process on worker 0 was submitted  *)
(* by that call, with a timeout of an earlier call or without: the gate's  *)
(* comment says a late completion is dropped, never applied.  And one that *)
(* a timeout found pending is never a result again, on whichever worker    *)
(* the process runs.  The first half fails for a process that receives     *)
(* datagrams: udp_recv leaves its operation pending when it times out.     *)
LateNeverApplied ==
  /\ \A a \in ioApplied : a[2] \in OnWorkerZero =>
       ioFor[a[1]].pid = a[2] /\ ioFor[a[1]].call = a[3]
  /\ \A o \in ioDropped :
       /\ \A p \in IoProcs : ioResults[p] # o
       /\ ~(ioDrain.op = o /\ ioDrain.at \in {"insert", "check", "data", "rearm"})

(* No completion is left under a process that was killed while parked: pids *)
(* are never reused, so nobody would ever take it.                          *)
NoResultForDead ==
  \A p \in ioPurged :
    ioCall[p].at = "parked" /\ ~(ioDrain.at = "check" /\ ioFor[ioDrain.op].pid = p)
      => ioResults[p] = NoOp

(* A socket in an active mode always has a read that will wake the loop.   *)
ActiveKeepsReading ==
  sockMode # "passive" /\ ~sockEnded =>
    \/ \E o \in ioPending : ioFor[o].kind = "active" /\ o \in ioFlight \cup ioDone
    \/ ioDrain.at \in {"data", "rearm"}
    \/ \E p \in IoProcs : ioCall[p].at = "arm"
=============================================================================

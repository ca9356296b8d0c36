------------------------------ MODULE Mailbox ------------------------------
(***************************************************************************)
(* The mailbox of one process and the ways a signal reaches it:            *)
(* mailbox/mod.rs, the receive opcodes (interpreter/opcodes/messaging.rs,  *)
(* recv.rs) and the delivery arms of the scheduler.                        *)
(*                                                                         *)
(* A process body is either Present in its slot or out on a worker         *)
(* (Executing).  A local send to a Present body goes to the arrival queue; *)
(* every other delivery to a Present body is pushed on the owner's scan    *)
(* list; deliveries to an Executing body wait in one list per kind and are *)
(* merged, kind by kind, when the slice is stored back.  The owner scans   *)
(* from its save pointer, which a receive marker may move forward.         *)
(*                                                                         *)
(* A signal is who it is from, its number among that sender's, and the     *)
(* lane (kind of delivery) it takes; the last signal of a linked peer is   *)
(* its exit.  What a message says is abstracted to who it is from.         *)
(***************************************************************************)
EXTENDS Naturals, Sequences, FiniteSets, SequencesExt, TLC

CONSTANTS Owner,       \* the process, which also sends to itself
          Correspondents, \* the senders
          NoMarker,    \* no index
          LaneOf,      \* the lane of each sender's messages
          DeathLane,   \* the lane of each sender's last signal, or None
          Quota,       \* bound: messages of each sender, the owner included
          MaxReceives, \* bound: receives of the owner
          MaxDropped   \* bound: messages dropped for want of heap

(* One list of pending signals per kind of delivery. *)
Lanes == {"exit", "down", "io", "dist", "local", "ets", "udp", "tcp"}
None == "none"

ASSUME MailboxAssumption ==
  /\ Owner \notin Correspondents /\ NoMarker \notin Nat
  /\ LaneOf \in [Correspondents -> Lanes \ {"exit", "down"}]
  /\ DeathLane \in [Correspondents -> {"exit", "down", None}]
  /\ Quota \in [Correspondents \cup {Owner} -> Nat]
  /\ {MaxReceives, MaxDropped} \subseteq Nat

VARIABLES
  body,        \* "present" or "executing"
  arrival,     \* the lock-free arrival queue
  scanList,    \* the owner's scan list
  savePointer, \* messages of the scan list the receive has passed
  recvMarker,  \* the index bound to the marker's reference, or NoMarker
  reserved,    \* the index recv_marker_reserve put in a register, or NoMarker
  pendingOf,   \* the pending list of each lane
  at,          \* the owner: in "code", at loop_"rec", on a "message", or to "wait"
  want,        \* whose messages the receive matches
  marked,      \* whether the receive started from the marker
  sends, gone, receives, dropped,
  accepted,    \* ghost: the signals that were delivered
  taken,       \* ghost: the messages received
  before,      \* ghost: what the mailbox held when the marker was reserved
  staleMarker  \* ghost: a message was removed since

store == <<arrival, scanList, pendingOf>>
scanning == <<savePointer, recvMarker, reserved, at, want, marked, receives>>
mbBudget == <<sends, gone, dropped>>
mbGhosts == <<accepted, taken, before, staleMarker>>
mbVars == <<body, store, scanning, mbBudget, mbGhosts>>

Senders == Correspondents \cup {Owner}
Signal == [from: Senders, n: Nat, lane: Lanes]

MbInit ==
  /\ body = "present"
  /\ arrival = <<>> /\ scanList = <<>> /\ pendingOf = [l \in Lanes |-> <<>>]
  /\ savePointer = 0 /\ recvMarker = NoMarker /\ reserved = NoMarker
  /\ at = "code" /\ want = {} /\ marked = FALSE /\ receives = 0
  /\ sends = [s \in Senders |-> 0] /\ gone = {} /\ dropped = 0
  /\ accepted = {} /\ taken = {} /\ before = {} /\ staleMarker = FALSE

-----------------------------------------------------------------------------
(* Deliveries.  Each is one critical section of the slot lock. *)
Next1(s, l) == [from |-> s, n |-> sends[s] + 1, lane |-> l]

Accept(signal) ==
  /\ accepted' = accepted \cup {signal}
  /\ sends' = [sends EXCEPT ![signal.from] = signal.n]

Defer(signal) ==
  /\ pendingOf' = [pendingOf EXCEPT ![signal.lane] = Append(@, signal)]
  /\ UNCHANGED <<arrival, scanList>>

(* Mailbox::push_owned: behind the scan list, whatever is in arrival. *)
PushOwned(signal) ==
  /\ scanList' = Append(scanList, signal)
  /\ UNCHANGED <<arrival, pendingOf>>

(* send_local: copied into a Present body's arrival queue. *)
DeliverLocal(signal) ==
  IF body = "present"
  THEN /\ arrival' = Append(arrival, signal)
       /\ UNCHANGED <<scanList, pendingOf>>
  ELSE Defer(signal)

(* Timers, host sends, I/O, distribution payloads, transfers, sockets; and  *)
(* the exit and down messages of supervision.                               *)
DeliverOwned(signal) ==
  IF body = "present" THEN PushOwned(signal) ELSE Defer(signal)

Send(s) ==
  /\ s \notin gone /\ sends[s] < Quota[s]
  /\ LET signal == Next1(s, LaneOf[s]) IN
     /\ IF signal.lane = "local" THEN DeliverLocal(signal) ELSE DeliverOwned(signal)
     /\ Accept(signal)
  /\ UNCHANGED <<body, scanning, gone, dropped, taken, before, staleMarker>>

(* A local send whose copy (or encoding) fails: the sender is told nothing. *)
SendDropped(s) ==
  /\ s \notin gone /\ sends[s] < Quota[s] /\ LaneOf[s] = "local"
  /\ dropped < MaxDropped
  /\ dropped' = dropped + 1
  /\ sends' = [sends EXCEPT ![s] = @ + 1]
  /\ UNCHANGED <<body, store, scanning, gone, mbGhosts>>

(* The sender exits: the owner is linked to it and traps exits, or monitors *)
(* it.                                                                      *)
PeerDies(s) ==
  /\ s \notin gone /\ DeathLane[s] # None
  /\ gone' = gone \cup {s}
  /\ LET signal == Next1(s, DeathLane[s]) IN DeliverOwned(signal) /\ Accept(signal)
  /\ UNCHANGED <<body, scanning, dropped, taken, before, staleMarker>>

-----------------------------------------------------------------------------
(* The slice. *)
TakeRunnable ==
  /\ body = "present"
  /\ body' = "executing"
  /\ UNCHANGED <<store, scanning, mbBudget, mbGhosts>>

(* The pending lists in the order in which they are merged. *)
Merged ==
  pendingOf["exit"] \o pendingOf["down"] \o pendingOf["io"] \o pendingOf["dist"]
  \o pendingOf["local"] \o pendingOf["ets"] \o pendingOf["udp"] \o pendingOf["tcp"]

(* Mutant: the down messages are forgotten. *)
StoreBackNoDown ==
  /\ body' = "present"
  /\ scanList' = scanList \o pendingOf["exit"] \o pendingOf["io"] \o pendingOf["dist"]
       \o pendingOf["local"] \o pendingOf["ets"] \o pendingOf["udp"] \o pendingOf["tcp"]
  /\ pendingOf' = [l \in Lanes |-> <<>>]
  /\ UNCHANGED arrival

(* store_runnable_process: the pending lists, kind by kind, are pushed on   *)
(* the scan list; the arrival queue is not drained first.                   *)
StoreBack ==
  /\ body' = "present"
  /\ scanList' = scanList \o Merged
  /\ pendingOf' = [l \in Lanes |-> <<>>]
  /\ UNCHANGED arrival

(* Out of reductions, between two receives. *)
Preempt ==
  /\ body = "executing" /\ at = "code"
  /\ StoreBack
  /\ UNCHANGED <<scanning, mbBudget, mbGhosts>>

(* wait and wait_timeout: the slice ends and resumes at loop_rec. *)
Wait ==
  /\ body = "executing" /\ at = "wait"
  /\ at' = "rec"
  /\ StoreBack
  /\ UNCHANGED <<savePointer, recvMarker, reserved, want, marked, receives, mbBudget, mbGhosts>>

DrainArrival ==
  /\ scanList' = scanList \o arrival
  /\ arrival' = <<>>
  /\ UNCHANGED pendingOf

(* A collection reads the roots, and the mailbox is among them. *)
Collect ==
  /\ body = "executing" /\ arrival # <<>>
  /\ DrainArrival
  /\ UNCHANGED <<body, scanning, mbBudget, mbGhosts>>

SendToSelf ==
  /\ body = "executing" /\ at = "code" /\ sends[Owner] < Quota[Owner]
  /\ LET signal == Next1(Owner, "local") IN
     /\ arrival' = Append(arrival, signal)
     /\ Accept(signal)
  /\ UNCHANGED <<body, scanList, pendingOf, scanning, gone, dropped, taken, before, staleMarker>>

-----------------------------------------------------------------------------
(* The receive. *)
Lesser(a, b) == IF a < b THEN a ELSE b

(* A receive without a marker starts wherever the save pointer is. *)
StartReceive(who) ==
  /\ body = "executing" /\ at = "code" /\ receives < MaxReceives
  /\ at' = "rec" /\ want' = who /\ marked' = FALSE /\ receives' = receives + 1
  /\ UNCHANGED <<body, store, savePointer, recvMarker, reserved, mbBudget, mbGhosts>>

(* recv_marker_use and Mailbox::set_save_pointer. *)
RecvMarkerUse(who) ==
  /\ body = "executing" /\ at = "code" /\ receives < MaxReceives
  /\ recvMarker # NoMarker
  /\ DrainArrival
  /\ savePointer' = Lesser(recvMarker, Len(scanList'))
  /\ at' = "rec" /\ want' = who /\ marked' = TRUE /\ receives' = receives + 1
  /\ UNCHANGED <<body, recvMarker, reserved, mbBudget, mbGhosts>>

RecvMarkerReserve ==
  /\ body = "executing" /\ at = "code" /\ reserved = NoMarker
  /\ DrainArrival
  /\ reserved' = Len(scanList')
  /\ before' = Range(scanList') /\ staleMarker' = FALSE
  /\ UNCHANGED <<body, savePointer, recvMarker, at, want, marked, receives, mbBudget,
                 accepted, taken>>

RecvMarkerBind ==
  /\ body = "executing" /\ at = "code" /\ reserved # NoMarker /\ recvMarker = NoMarker
  /\ DrainArrival
  /\ recvMarker' = Lesser(reserved, Len(scanList'))
  /\ UNCHANGED <<body, savePointer, reserved, at, want, marked, receives, mbBudget, mbGhosts>>

RecvMarkerClear ==
  /\ body = "executing" /\ at = "code" /\ recvMarker # NoMarker
  /\ recvMarker' = NoMarker /\ reserved' = NoMarker /\ savePointer' = 0
  /\ UNCHANGED <<body, store, at, want, marked, receives, mbBudget, mbGhosts>>

Wanted(signal) == signal.from \in want

(* loop_rec: Mailbox::current_message. *)
LoopRec ==
  /\ body = "executing" /\ at = "rec"
  /\ DrainArrival
  /\ at' = IF savePointer < Len(scanList') THEN "message" ELSE "wait"
  /\ UNCHANGED <<body, savePointer, recvMarker, reserved, want, marked, receives, mbBudget,
                 mbGhosts>>

(* loop_rec_end: Mailbox::advance_save_pointer. *)
LoopRecEnd ==
  /\ body = "executing" /\ at = "message" /\ ~Wanted(scanList[savePointer + 1])
  /\ savePointer' = Lesser(savePointer + 1, Len(scanList))
  /\ at' = "rec"
  /\ UNCHANGED <<body, store, recvMarker, reserved, want, marked, receives, mbBudget, mbGhosts>>

(* Mutant: the save pointer stays where the match was. *)
RemoveCurrentKeepsPointer(index) ==
  /\ scanList' = RemoveAt(scanList, index + 1) \o arrival
  /\ savePointer' = index

(* The removal itself: scan_list.remove and the reset of the save pointer. *)
RemoveCurrent(index) ==
  /\ scanList' = RemoveAt(scanList, index + 1) \o arrival
  /\ savePointer' = 0

RemoveMessage ==
  /\ body = "executing" /\ at = "message" /\ Wanted(scanList[savePointer + 1])
  /\ taken' = taken \cup {scanList[savePointer + 1]}
  /\ RemoveCurrent(savePointer)
  /\ arrival' = <<>>
  /\ at' = "code" /\ want' = {}
  /\ staleMarker' = (reserved # NoMarker)
  /\ UNCHANGED <<body, pendingOf, recvMarker, reserved, marked, receives, mbBudget, accepted,
                 before>>

(* timeout: the receive is over and the next one starts from the front. *)
Timeout ==
  /\ body = "executing" /\ at = "wait"
  /\ savePointer' = 0 /\ at' = "code" /\ want' = {}
  /\ UNCHANGED <<body, store, recvMarker, reserved, marked, receives, mbBudget, mbGhosts>>

-----------------------------------------------------------------------------
Receiving == \E s \in Senders: StartReceive({s}) \/ RecvMarkerUse({s})

MbNext ==
  \/ \E s \in Correspondents: Send(s) \/ SendDropped(s) \/ PeerDies(s)
  \/ TakeRunnable \/ Preempt \/ Wait \/ Collect \/ SendToSelf
  \/ Receiving
  \/ RecvMarkerReserve \/ RecvMarkerBind \/ RecvMarkerClear
  \/ LoopRec \/ LoopRecEnd \/ RemoveMessage \/ Timeout

MbSpec == MbInit /\ [][MbNext]_mbVars

-----------------------------------------------------------------------------
(* Every variable has its type, and the save pointer never passes the end   *)
(* of the scan list: the message a receive is on is there.                  *)
MailboxTypeOK ==
  /\ body \in {"present", "executing"} /\ at \in {"code", "rec", "message", "wait"}
  /\ {arrival, scanList} \cup Range(pendingOf) \subseteq Seq(Signal)
  /\ savePointer \in 0..Len(scanList)
  /\ at = "message" => savePointer < Len(scanList)
  /\ recvMarker \in Nat \cup {NoMarker} /\ reserved \in Nat \cup {NoMarker}
  /\ want \subseteq Senders /\ marked \in BOOLEAN

(* What one sender sends by one of the owned lanes stands in the order it   *)
(* was sent.                                                                *)
InOrder(queue) ==
  \A i, j \in DOMAIN queue :
     /\ i < j
     /\ queue[i].from = queue[j].from
     /\ queue[i].lane = queue[j].lane /\ queue[i].lane # "local"
     => queue[i].n < queue[j].n

(* A signal that was accepted is in exactly one place, or was received      *)
(* once, and what one sender sends by one of the owned lanes (host sends,   *)
(* atoms and timers share one) is received in the order it was sent: the    *)
(* merge at store-back, the drain of the arrival queue and the removals     *)
(* lose, duplicate and overtake nothing.                                    *)
NothingLost ==
  LET queued == arrival \o scanList \o Merged
  IN  /\ Range(queued) \cup taken = accepted
      /\ Len(queued) + Cardinality(taken) = Cardinality(accepted)
      /\ InOrder(scanList \o Merged)

(* A receive passes over no message that it matches: what lies before the   *)
(* save pointer does not match, or was in the mailbox before the marker it  *)
(* started from was reserved.  (Until a message is removed under the        *)
(* marker: see MarkerSkipsOnlyOlder.)                                       *)
ReceiveSkipsNothing ==
  at # "code" =>
    \A i \in 1..savePointer:
       Wanted(scanList[i]) => marked /\ (staleMarker \/ scanList[i] \in before)

(* The last signal of a sender does not overtake the messages it sent.      *)
(* Expected to fail: the pending exits are merged before the pending        *)
(* messages, and what is pushed on the scan list passes the arrival queue.  *)
SignalsInSenderOrder ==
  \A i, j \in DOMAIN scanList:
     i < j /\ scanList[i].from = scanList[j].from => scanList[i].n < scanList[j].n

(* A receive that starts from a marker passes over nothing that arrived     *)
(* after the marker was reserved.  Expected to fail: the marker is an       *)
(* index, and removing an earlier message shifts what it counts.            *)
MarkerSkipsOnlyOlder ==
  at # "code" /\ marked =>
    \A i \in 1..savePointer: Wanted(scanList[i]) => scanList[i] \in before

=============================================================================

----------------------------- MODULE RemoteLinks -----------------------------
(***************************************************************************)
(* A link between two processes on two nodes:                              *)
(* scheduler/remote_supervision.rs, scheduler/dist_control_out.rs, the     *)
(* control lane of distribution/sender and the remote-link half of         *)
(* scheduler/supervision_integration.rs.                                   *)
(*                                                                         *)
(* Each end of the link is one entry of remote_links, kept by its own      *)
(* node.  The ends are kept in step by LINK, UNLINK and EXIT frames, each  *)
(* pinned to the connection it was queued against, and by the scan that    *)
(* delivers noconnection when a connection goes down.  The connections     *)
(* themselves are module Connections; here a session is the sockets' life: *)
(* installed, marked down, reaped, its Down delivered.  Both processes     *)
(* trap exits, so that what they are told can be counted.                  *)
(***************************************************************************)
EXTENDS Naturals, Sequences, FiniteSets

CONSTANTS MaxSessions,    \* bound: connections opened in a behaviour
          LaneCap,        \* DIST_CONTROL_QUEUE_CAP
          LinkCallers,    \* bound: the ends that call link/1 and unlink/1
          MaxLinkCalls,   \* bound: calls made in a behaviour
          MaxLinkFaults   \* bound: failures of a connection in a behaviour

LinkEnds == {"a", "b"}
SessionIds == 1..MaxSessions
Frames == {"LINK", "UNLINK", "EXIT"}

ASSUME RemoteLinksAssumption ==
  /\ MaxSessions \in Nat \ {0} /\ LaneCap \in Nat \ {0}
  /\ LinkCallers \subseteq LinkEnds
  /\ MaxLinkCalls \in Nat /\ MaxLinkFaults \in Nat

VARIABLES
  life,       \* each process: "alive", "exited", "taken" (links) or "dead"
  half,       \* whether each end has the link in remote_links
  session,    \* the connection in each node's table, 0 when there is none
  flagged,    \* the connections each node has marked down
  installed,  \* the last connection each node installed
  owed,       \* the Down events each node has queued
  scan,       \* what connection_down collected and has not applied
  lane,       \* the control lane of each node: frames with their pinned session
  sent,       \* what each node wrote to each socket and its peer has not read
  reading,    \* the sockets each node's readers are on
  hand,       \* the frame a reader holds, or the recheck it still owes
  caller,     \* where each process's link or unlink call is
  opened, linkCalls, linkFaults,
  made,       \* ghost: times each end entered the link
  signals,    \* ghost: exit signals delivered through the link
  over        \* ghost: the session whose LINK entered the link, 0 for a call

ends == <<life, half, made, signals, over>>
sessions == <<session, flagged, installed, owed, scan, opened>>
pipes == <<lane, sent, reading, hand>>
linkBudget == <<linkCalls, linkFaults>>
rlVars == <<ends, sessions, pipes, caller, linkBudget>>

-----------------------------------------------------------------------------
Other(n) == IF n = "a" THEN "b" ELSE "a"

RlInit ==
  /\ life = [n \in LinkEnds |-> "alive"]
  /\ half = [n \in LinkEnds |-> FALSE]
  /\ session = [n \in LinkEnds |-> 0]
  /\ flagged = [n \in LinkEnds |-> {}]
  /\ installed = [n \in LinkEnds |-> 0]
  /\ owed = [n \in LinkEnds |-> 0]
  /\ scan = [n \in LinkEnds |-> "idle"]
  /\ lane = [n \in LinkEnds |-> <<>>]
  /\ sent = [n \in LinkEnds |-> [g \in SessionIds |-> <<>>]]
  /\ reading = [n \in LinkEnds |-> {}]
  /\ hand = [n \in LinkEnds |-> [g \in SessionIds |-> "none"]]
  /\ caller = [n \in LinkEnds |-> "idle"]
  /\ opened = 0 /\ linkCalls = 0 /\ linkFaults = 0
  /\ made = [n \in LinkEnds |-> 0]
  /\ signals = [n \in LinkEnds |-> 0]
  /\ over = [n \in LinkEnds |-> 0]

(* establish_remote_link: a duplicate is a success without effect. *)
Establish(n, g) ==
  /\ half' = [half EXCEPT ![n] = TRUE]
  /\ over' = [over EXCEPT ![n] = IF half[n] THEN @ ELSE g]
  /\ made' = [made EXCEPT ![n] = IF half[n] THEN @ ELSE @ + 1]

(* Mutant: the signal is delivered whether or not the link is there. *)
LinkExitUngated(n) ==
  IF life[n] = "alive"
  THEN /\ half' = [half EXCEPT ![n] = FALSE]
       /\ signals' = [signals EXCEPT ![n] = @ + 1]
  ELSE UNCHANGED <<half, signals>>

(* process_remote_exit_signal of kind LinkExit: only the signal that takes  *)
(* the entry out is delivered.                                              *)
LinkExit(n) ==
  IF life[n] = "alive" /\ half[n]
  THEN /\ half' = [half EXCEPT ![n] = FALSE]
       /\ signals' = [signals EXCEPT ![n] = @ + 1]
  ELSE UNCHANGED <<half, signals>>

(* Mutant: a full lane takes one frame more. *)
EnqueueOffByOne(n, frame) ==
  IF session[n] = 0 THEN UNCHANGED <<lane, flagged>>
  ELSE IF Len(lane[n]) <= LaneCap
  THEN /\ lane' = [lane EXCEPT ![n] = Append(@, <<frame, session[n]>>)]
       /\ UNCHANGED flagged
  ELSE /\ flagged' = [flagged EXCEPT ![n] = @ \cup {session[n]}]
       /\ UNCHANGED lane

(* enqueue_control: the frame is pinned to the connection in the table; a   *)
(* full lane marks that connection down instead.                            *)
Enqueue(n, frame) ==
  IF session[n] = 0 THEN UNCHANGED <<lane, flagged>>
  ELSE IF Len(lane[n]) < LaneCap
  THEN /\ lane' = [lane EXCEPT ![n] = Append(@, <<frame, session[n]>>)]
       /\ UNCHANGED flagged
  ELSE /\ flagged' = [flagged EXCEPT ![n] = @ \cup {session[n]}]
       /\ UNCHANGED lane

-----------------------------------------------------------------------------
(* The calls of the processes.                                              *)

(* link_remote, first half: the local end is established before the frame   *)
(* is sent.                                                                 *)
LinkRemote(n) ==
  /\ n \in LinkCallers /\ linkCalls < MaxLinkCalls
  /\ life[n] = "alive" /\ caller[n] = "idle"
  /\ linkCalls' = linkCalls + 1
  /\ Establish(n, 0)
  /\ caller' = [caller EXCEPT ![n] = "send"]
  /\ UNCHANGED <<life, signals, sessions, pipes, linkFaults>>

(* link_remote, second half: without a connection the local end is undone. *)
SendLink(n) ==
  /\ caller[n] = "send"
  /\ caller' = [caller EXCEPT ![n] = "idle"]
  /\ Enqueue(n, "LINK")
  /\ half' = [half EXCEPT ![n] = @ /\ session[n] # 0]
  /\ UNCHANGED <<over, life, made, signals, session, installed, owed, scan, opened,
                 sent, reading, hand, linkBudget>>

(* unlink_remote. *)
UnlinkRemote(n) ==
  /\ n \in LinkCallers /\ linkCalls < MaxLinkCalls
  /\ life[n] = "alive" /\ caller[n] = "idle"
  /\ linkCalls' = linkCalls + 1
  /\ half' = [half EXCEPT ![n] = FALSE]
  /\ Enqueue(n, "UNLINK")
  /\ UNCHANGED <<over, life, made, signals, session, installed, owed, scan, opened,
                 sent, reading, hand, caller, linkFaults>>

(* A process exits between two calls; propagate_exit takes its remote       *)
(* links and then sends an EXIT for each.                                   *)
ProcessExits(n) ==
  /\ life[n] = "alive" /\ caller[n] = "idle"
  /\ life' = [life EXCEPT ![n] = "exited"]
  /\ UNCHANGED <<over, half, made, signals, sessions, pipes, caller, linkBudget>>

TakeRemoteLinks(n) ==
  /\ life[n] = "exited"
  /\ life' = [life EXCEPT ![n] = IF half[n] THEN "taken" ELSE "dead"]
  /\ half' = [half EXCEPT ![n] = FALSE]
  /\ UNCHANGED <<over, made, signals, sessions, pipes, caller, linkBudget>>

SendRemoteExit(n) ==
  /\ life[n] = "taken"
  /\ life' = [life EXCEPT ![n] = "dead"]
  /\ Enqueue(n, "EXIT")
  /\ UNCHANGED <<over, half, made, signals, session, installed, owed, scan, opened,
                 sent, reading, hand, caller, linkBudget>>

-----------------------------------------------------------------------------
(* The frames.                                                              *)

(* The drain: a frame goes to the connection it is pinned to, or nowhere. *)
DrainLane(n) ==
  /\ lane[n] # <<>>
  /\ lane' = [lane EXCEPT ![n] = Tail(@)]
  /\ LET g == Head(lane[n])[2] IN
     sent' = IF g \in flagged[n] THEN sent
             ELSE [sent EXCEPT ![n][g] = Append(@, Head(lane[n])[1])]
  /\ UNCHANGED <<ends, sessions, reading, hand, caller, linkBudget>>

(* The reader takes one frame off the socket, while the link is not down. *)
ReadFrame(n, g) ==
  /\ g \in reading[n] /\ hand[n][g] = "none" /\ g \notin flagged[n]
  /\ sent[Other(n)][g] # <<>>
  /\ hand' = [hand EXCEPT ![n][g] = Head(sent[Other(n)][g])]
  /\ sent' = [sent EXCEPT ![Other(n)][g] = Tail(@)]
  /\ UNCHANGED <<ends, sessions, lane, reading, caller, linkBudget>>

(* apply_inbound_link up to the recheck; a process that is gone answers     *)
(* with an EXIT.                                                            *)
ApplyLink(n, g) ==
  /\ hand[n][g] = "LINK"
  /\ IF life[n] = "alive"
     THEN /\ Establish(n, g)
          /\ hand' = [hand EXCEPT ![n][g] = "recheck"]
          /\ UNCHANGED <<lane, flagged>>
     ELSE /\ Enqueue(n, "EXIT")
          /\ hand' = [hand EXCEPT ![n][g] = "none"]
          /\ UNCHANGED <<half, made, over>>
  /\ UNCHANGED <<life, signals, session, installed, owed, scan, opened, sent,
                 reading, caller, linkBudget>>

(* Mutant: the connection is not looked at again. *)
NoRecheck(n, g) ==
  /\ hand[n][g] = "recheck"
  /\ hand' = [hand EXCEPT ![n][g] = "none"]
  /\ UNCHANGED <<ends, sessions, lane, sent, reading, caller, linkBudget>>

(* The connection is looked at again once the link is there. *)
RecheckConnection(n, g) ==
  /\ hand[n][g] = "recheck"
  /\ hand' = [hand EXCEPT ![n][g] = "none"]
  /\ IF session[n] = 0 \/ session[n] \in flagged[n]
     THEN LinkExit(n) ELSE UNCHANGED <<half, signals>>
  /\ UNCHANGED <<over, life, made, sessions, lane, sent, reading, caller, linkBudget>>

ApplyUnlink(n, g) ==
  /\ hand[n][g] = "UNLINK"
  /\ hand' = [hand EXCEPT ![n][g] = "none"]
  /\ half' = [half EXCEPT ![n] = @ /\ life[n] # "alive"]
  /\ UNCHANGED <<over, life, made, signals, sessions, lane, sent, reading, caller,
                 linkBudget>>

ApplyLinkExit(n, g) ==
  /\ hand[n][g] = "EXIT"
  /\ hand' = [hand EXCEPT ![n][g] = "none"]
  /\ LinkExit(n)
  /\ UNCHANGED <<over, life, made, sessions, lane, sent, reading, caller, linkBudget>>

-----------------------------------------------------------------------------
(* The connections.                                                         *)

(* connect_node from a node without a live connection. *)
OpenSession ==
  /\ opened < MaxSessions
  /\ \E n \in LinkEnds : session[n] = 0 \/ session[n] \in flagged[n]
  /\ opened = installed["a"] /\ opened = installed["b"]
  /\ opened' = opened + 1
  /\ UNCHANGED <<ends, session, flagged, installed, owed, scan, pipes, caller,
                 linkBudget>>

(* register_connection over a vacant entry or one that is marked down; the  *)
(* Down of the latter is queued first.                                      *)
Install(n) ==
  /\ installed[n] < opened
  /\ session[n] = 0 \/ session[n] \in flagged[n]
  /\ installed' = [installed EXCEPT ![n] = opened]
  /\ session' = [session EXCEPT ![n] = opened]
  /\ owed' = [owed EXCEPT ![n] = IF session[n] # 0 THEN @ + 1 ELSE @]
  /\ UNCHANGED <<ends, flagged, scan, opened, pipes, caller, linkBudget>>

(* The reader is spawned once every queued event has been delivered. *)
SpawnReader(n) ==
  /\ installed[n] # 0 /\ session[n] = installed[n]
  /\ installed[n] \notin reading[n] \cup flagged[n]
  /\ owed[n] = 0 /\ scan[n] = "idle"
  /\ reading' = [reading EXCEPT ![n] = @ \cup {installed[n]}]
  /\ UNCHANGED <<ends, sessions, lane, sent, hand, caller, linkBudget>>

(* A reader ends: the peer's end is closed, whether or not frames are left  *)
(* in the socket, or its own link is down.                                  *)
ReaderEnds(n, g) ==
  /\ g \in reading[n] /\ hand[n][g] = "none"
  /\ g \in flagged[n] \cup flagged[Other(n)]
  /\ reading' = [reading EXCEPT ![n] = @ \ {g}]
  /\ flagged' = [flagged EXCEPT ![n] = @ \cup {g}]
  /\ UNCHANGED <<ends, session, installed, owed, scan, opened, lane, sent, hand,
                 caller, linkBudget>>

(* A write timeout, the heartbeat's deadline or disconnect_node. *)
LinkFails(n) ==
  /\ linkFaults < MaxLinkFaults /\ linkFaults' = linkFaults + 1
  /\ session[n] # 0
  /\ flagged' = [flagged EXCEPT ![n] = @ \cup {session[n]}]
  /\ UNCHANGED <<ends, session, installed, owed, scan, opened, pipes, caller,
                 linkCalls>>

(* connection_down of the manager: the entry goes and the Down is queued. *)
Reap(n) ==
  /\ session[n] # 0 /\ session[n] \in flagged[n]
  /\ session' = [session EXCEPT ![n] = 0]
  /\ owed' = [owed EXCEPT ![n] = @ + 1]
  /\ UNCHANGED <<ends, flagged, installed, scan, opened, pipes, caller, linkBudget>>

(* connection_down of the scheduler, first half: collect the links. *)
CollectLinks(n) ==
  /\ owed[n] > 0 /\ scan[n] = "idle"
  /\ owed' = [owed EXCEPT ![n] = @ - 1]
  /\ scan' = [scan EXCEPT ![n] = IF half[n] THEN "collected" ELSE "idle"]
  /\ UNCHANGED <<ends, session, flagged, installed, opened, pipes, caller,
                 linkBudget>>

(* Second half: noconnection to each of them. *)
DeliverNoConnection(n) ==
  /\ scan[n] = "collected"
  /\ scan' = [scan EXCEPT ![n] = "idle"]
  /\ LinkExit(n)
  /\ UNCHANGED <<over, life, made, session, flagged, installed, owed, opened, pipes,
                 caller, linkBudget>>

-----------------------------------------------------------------------------
RlNext ==
  \/ OpenSession
  \/ \E n \in LinkEnds :
       \/ LinkRemote(n) \/ SendLink(n) \/ UnlinkRemote(n)
       \/ ProcessExits(n) \/ TakeRemoteLinks(n) \/ SendRemoteExit(n)
       \/ DrainLane(n) \/ Install(n) \/ SpawnReader(n) \/ LinkFails(n)
       \/ Reap(n) \/ CollectLinks(n) \/ DeliverNoConnection(n)
       \/ \E g \in SessionIds :
            \/ ReadFrame(n, g) \/ ApplyLink(n, g) \/ RecheckConnection(n, g)
            \/ ApplyUnlink(n, g) \/ ApplyLinkExit(n, g) \/ ReaderEnds(n, g)

RlSpec == RlInit /\ [][RlNext]_rlVars

-----------------------------------------------------------------------------
(* The types of the two ends, the connections and the frames.              *)
RemoteLinksTypeOK ==
  /\ life \in [LinkEnds -> {"alive", "exited", "taken", "dead"}]
  /\ half \in [LinkEnds -> BOOLEAN]
  /\ session \in [LinkEnds -> 0..MaxSessions]
  /\ flagged \in [LinkEnds -> SUBSET SessionIds]
  /\ installed \in [LinkEnds -> 0..MaxSessions] /\ opened \in 0..MaxSessions
  /\ owed \in [LinkEnds -> Nat] /\ scan \in [LinkEnds -> {"idle", "collected"}]
  /\ \A n \in LinkEnds : lane[n] \in Seq(Frames \X SessionIds) /\ Len(lane[n]) <= LaneCap
  /\ reading \in [LinkEnds -> SUBSET SessionIds]
  /\ hand \in [LinkEnds -> [SessionIds -> Frames \cup {"none", "recheck"}]]
  /\ caller \in [LinkEnds -> {"idle", "send"}]
  /\ made \in [LinkEnds -> Nat] /\ signals \in [LinkEnds -> Nat]

(* Nothing is left to do but to call, to exit, to fail or to connect. *)
Settled ==
  /\ opened = installed["a"] /\ opened = installed["b"]
  /\ \A n \in LinkEnds :
       /\ life[n] \in {"alive", "dead"} /\ caller[n] = "idle"
       /\ owed[n] = 0 /\ scan[n] = "idle" /\ lane[n] = <<>>
       /\ session[n] \notin flagged[n]
       /\ \A g \in SessionIds :
            /\ hand[n][g] = "none"
            /\ g \in reading[n] => /\ g \notin flagged[n] \cup flagged[Other(n)]
                                   /\ sent[Other(n)][g] = <<>>
       /\ session[n] # 0 => session[n] \in reading[n]

(* DC-4, "exactly-once exit per link": an end is never told more often that  *)
(* its peer is gone than it entered the link, however EXIT frames, the      *)
(* noconnection scan and the recheck race.                                  *)
ExitOncePerLink ==
  \A n \in LinkEnds : signals[n] + (IF half[n] THEN 1 ELSE 0) <= made[n]

(* An "immortal" half-link: once everything has settled no process holds a   *)
(* link over a connection that is gone, and over the first connection of a  *)
(* pair the two ends agree and both processes live: a LINK that crossed a   *)
(* death, a Down or an overflow of the lane has been answered or undone.    *)
NoDanglingHalf ==
  Settled =>
    /\ \A n \in LinkEnds : half[n] => session[n] # 0 /\ life[n] = "alive"
    /\ opened <= 1 /\ Cardinality(LinkCallers) <= 1 => half["a"] = half["b"]

(* apply_inbound_link: "If the connection is gone or down by the time the   *)
(* link exists, deliver the noconnection it missed": a link that a frame    *)
(* entered is held only over the connection the frame came by.              *)
MissedNoConnectionDelivered ==
  Settled => \A n \in LinkEnds : half[n] => over[n] \in {0, session[n]}
=============================================================================

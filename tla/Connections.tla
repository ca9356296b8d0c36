----------------------------- MODULE Connections -----------------------------
(***************************************************************************)
(* The distribution connections between two nodes: the handshake and its   *)
(* tie-break (connection/dial.rs, connection/lifecycle.rs,                 *)
(* handshake.rs), the connection table and its install rule                *)
(* (connection/mod.rs), the teardown of a link (connection/link.rs), the   *)
(* accept bound (connection/residency.rs) and the ordered Up and Down      *)
(* events of connection_events.rs.                                         *)
(*                                                                         *)
(* Each node runs a task for every handshake, a reader for every installed *)
(* link and any number of callers of disconnect_node.  A task's steps are  *)
(* the sections it runs under one lock: the table entry of the peer, or    *)
(* the dispatch gate.                                                      *)
(***************************************************************************)
EXTENDS Naturals, Sequences, FiniteSets, SequencesExt

CONSTANTS Low, High,     \* the two nodes, in the order of their names
          Sockets,       \* the TCP connections a behaviour may open
          Dialer,        \* which node opens each of them
          Envelope,      \* how many inbound links a node admits at a time
          Stepwise,      \* bound: the nodes whose deliveries interleave with the rest
          Watched,       \* the nodes among them on which somebody subscribes late
          MaxFaults      \* bound: failures, disconnects, restarts and late subscriptions

Nodes == {Low, High}
None == "none"
Free == <<>>          \* nobody holds the gate
Late == <<"late">>    \* a late subscriber holds it

ASSUME ConnectionsAssumption ==
  /\ Low # High /\ None \notin Sockets
  /\ Dialer \in [Sockets -> Nodes] /\ Watched \subseteq Stepwise
  /\ Stepwise \subseteq Nodes
  /\ Envelope \in Nat /\ MaxFaults \in Nat

VARIABLES
  creation,    \* the incarnation of each node's runtime
  init,        \* the dialling end of each handshake
  resp,        \* the accepting end of each handshake
  met,         \* the incarnation each end of a socket announced in its handshake
  connecting,  \* the dial that holds each node's `connecting` mark for the peer
  aborted,     \* the dials whose abort flag is set
  wire,        \* each end of each socket: "open", "closed" or "lost"
  permits,     \* the sockets that hold a share of each node's accept envelope
  conn,        \* the DistConnection of each installed end
  table,       \* connections: the socket in force at each node
  generation,  \* ConnectionEventHub.generations
  queue,       \* ConnectionEventHub.queue
  gate,        \* the task that holds dispatch_gate
  task,        \* where each task is
  log,         \* ghost: the events delivered to the first subscriber
  late,        \* the late subscriber of each node: its phase and its snapshot
  stream,      \* ghost: the events delivered to the late subscriber
  faults,      \* failures, disconnects, restarts and late subscriptions so far
  refused      \* ghost: a dial with no rival, and those dropped in favour of an incumbent

handshake == <<init, resp, met, connecting, aborted>>
links == <<wire, permits>>
hub == <<queue, log, stream>>
vars == <<creation, handshake, links, conn, table, generation, hub, gate, task,
          late, faults, refused>>

-----------------------------------------------------------------------------
Peer(n) == IF n = Low THEN High ELSE Low
Accepts(n, s) == Dialer[s] = Peer(n)

(* canonical_direction: the survivor of a simultaneous connect is the       *)
(* socket the higher-named node dialled, on both nodes.                     *)
Canonical(s) == Dialer[s] = High

Roles == {"install", "read", "user"}
Tasks == Nodes \X Sockets \X Roles
Off == [at |-> "off", victim |-> None]
NoConn == [gen |-> 0, creation |-> 0, down |-> FALSE]

Up(g, c) == [kind |-> "Up", gen |-> g, creation |-> c]
Down(g) == [kind |-> "Down", gen |-> g, creation |-> 0]

Live(n) == table[n] # None /\ ~conn[n][table[n]].down

Go(t, pc) == task' = [task EXCEPT ![t] =
  IF pc = "off" THEN Off ELSE [@ EXCEPT !.at = pc]]

Init ==
  /\ creation = [n \in Nodes |-> 1]
  /\ init = [s \in Sockets |-> "unused"]
  /\ resp = [s \in Sockets |-> "none"]
  /\ met = [s \in Sockets |-> [n \in Nodes |-> 0]]
  /\ connecting = [n \in Nodes |-> None]
  /\ aborted = {}
  /\ wire = [s \in Sockets |-> [n \in Nodes |-> "closed"]]
  /\ permits = [n \in Nodes |-> {}]
  /\ conn = [n \in Nodes |-> [s \in Sockets |-> NoConn]]
  /\ table = [n \in Nodes |-> None]
  /\ generation = [n \in Nodes |-> 0]
  /\ queue = [n \in Nodes |-> <<>>]
  /\ gate = [n \in Nodes |-> Free]
  /\ task = [t \in Tasks |-> Off]
  /\ log = [n \in Nodes |-> <<>>]
  /\ late = [n \in Nodes |-> [at |-> "off", snap |-> {}]]
  /\ stream = [n \in Nodes |-> <<>>]
  /\ faults = 0
  /\ refused = [lone |-> {}, dropped |-> {}]

-----------------------------------------------------------------------------
(* The handshake.                                                           *)

(* ConnectingGuard: the mark is one slot per peer; a later dial overwrites  *)
(* it and whichever dial ends first clears it.                              *)
Unmark(n) == connecting' = [connecting EXCEPT ![n] = None]

(* Mutant: the stream is not shut down. *)
StaysOpen(n, s) == UNCHANGED wire

Close(n, s) == wire' = [wire EXCEPT ![s][n] = "closed"]
ReturnPermit(n, s) == permits' = [permits EXCEPT ![n] = @ \ {s}]

(* No other handshake or install is under way and this node has no link. *)
Lone(s) ==
  /\ ~Live(Dialer[s])
  /\ \A r \in Sockets : init[r] \notin {"name", "replied", "register"}
                        /\ resp[r] \notin {"challenged", "register"}

(* connect: TCP connect, the mark, the name packet. *)
Connect(s) ==
  LET n == Dialer[s] IN
  /\ init[s] = "unused"
  /\ init' = [init EXCEPT ![s] = "name"]
  /\ met' = [met EXCEPT ![s][n] = creation[n]]
  /\ connecting' = [connecting EXCEPT ![n] = s]
  /\ wire' = [wire EXCEPT ![s] = [m \in Nodes |-> "open"]]
  /\ refused' = [refused EXCEPT !.lone = IF Lone(s) THEN {s} ELSE {}]
  /\ UNCHANGED <<creation, resp, aborted, permits, conn, table, generation, hub,
                 gate, task, late, faults>>

(* accept_loop, try_admit and decide_inbound_status of an accepted stream.  *)
Accept(s) ==
  LET n == Peer(Dialer[s]) IN
  /\ init[s] = "name" /\ resp[s] = "none" /\ wire[s][n] = "open"
  /\ IF Cardinality(permits[n]) >= Envelope
     THEN /\ resp' = [resp EXCEPT ![s] = "failed"] /\ Close(n, s)
          /\ UNCHANGED <<met, aborted, permits>>
     ELSE IF connecting[n] # None /\ n = High
     THEN /\ resp' = [resp EXCEPT ![s] = "nok"] /\ Close(n, s)
          /\ UNCHANGED <<met, aborted, permits>>
     ELSE /\ resp' = [resp EXCEPT ![s] = "challenged"]
          /\ met' = [met EXCEPT ![s][n] = creation[n]]
          /\ aborted' = aborted \cup ({connecting[n]} \ {None})
          /\ permits' = [permits EXCEPT ![n] = @ \cup {s}]
          /\ UNCHANGED wire
  /\ UNCHANGED <<creation, init, connecting, conn, table, generation, hub, gate,
                 task, late, faults, refused>>

(* A dial that ends without an install drops its stream and its mark. *)
DialEnds(s) ==
  /\ init' = [init EXCEPT ![s] = "failed"]
  /\ Unmark(Dialer[s]) /\ Close(Dialer[s], s)

(* The accepting end drops its stream and its share of the envelope. *)
AcceptEnds(s) ==
  LET n == Peer(Dialer[s]) IN
  /\ resp' = [resp EXCEPT ![s] = "failed"]
  /\ Close(n, s) /\ ReturnPermit(n, s)

(* The dialling end reads the status; unless it is nok the two exchange     *)
(* challenge, reply and acknowledgement, and the accepting end has nothing  *)
(* left but the install.  An end that is gone ends the handshake.           *)
Exchange(s) ==
  \/ /\ init[s] = "name" /\ resp[s] \in {"nok", "failed"}
     /\ DialEnds(s)
     /\ UNCHANGED <<creation, resp, met, aborted, permits, conn, table, generation,
                    hub, gate, task, late, faults, refused>>
  \/ /\ init[s] = "failed" /\ resp[s] = "challenged"
     /\ AcceptEnds(s)
     /\ UNCHANGED <<creation, init, met, connecting, aborted, conn, table,
                    generation, hub, gate, task, late, faults, refused>>
  \/ /\ init[s] = "name" /\ resp[s] = "challenged"
     /\ init' = [init EXCEPT ![s] = "replied"]
     /\ resp' = [resp EXCEPT ![s] = "register"]
     /\ Go(<<Peer(Dialer[s]), s, "install">>, "register")
     /\ UNCHANGED <<creation, met, connecting, aborted, links, conn, table,
                    generation, hub, gate, late, faults, refused>>

(* The dialling end reads the acknowledgement and then asks is_aborted. *)
ReadAck(s) ==
  /\ init[s] = "replied"
  /\ IF s \in aborted
     THEN DialEnds(s) /\ UNCHANGED task
     ELSE /\ init' = [init EXCEPT ![s] = "register"]
          /\ Go(<<Dialer[s], s, "install">>, "register")
          /\ UNCHANGED <<connecting, wire>>
  /\ UNCHANGED <<creation, resp, met, aborted, permits, conn, table, generation,
                 hub, gate, late, faults, refused>>

(* handshake_timeout, a failed digest or an I/O error at either end. *)
HandshakeFails(s) ==
  /\ faults < MaxFaults /\ faults' = faults + 1
  /\ \/ init[s] \in {"name", "replied"} /\ DialEnds(s) /\ UNCHANGED <<resp, permits>>
     \/ resp[s] = "challenged" /\ AcceptEnds(s) /\ UNCHANGED <<init, connecting>>
  /\ UNCHANGED <<creation, met, aborted, conn, table, generation, hub, gate,
                 task, late, refused>>

-----------------------------------------------------------------------------
(* register_connection.                                                     *)

(* The handshake at n's end is over: connect drops its mark. *)
HandshakeOver(n, s) ==
  IF Dialer[s] = n
  THEN init' = [init EXCEPT ![s] = "done"] /\ Unmark(n) /\ UNCHANGED resp
  ELSE resp' = [resp EXCEPT ![s] = "done"] /\ UNCHANGED <<init, connecting>>

(* A nonzero mismatch of creations: the incumbent serves another            *)
(* incarnation of the peer than the newcomer.                               *)
CreationMismatch(n, s) == conn[n][table[n]].creation # met[s][Peer(n)]

(* Mutant: whichever link was installed first wins. *)
FirstWins(n, s) ==
  table[n] # None /\ ~conn[n][table[n]].down /\ ~CreationMismatch(n, s)

(* A newcomer loses only to a live incumbent of the canonical direction     *)
(* that serves the same incarnation of the peer.                            *)
IncumbentWins(n, s) ==
  /\ table[n] # None /\ ~conn[n][table[n]].down
  /\ Canonical(table[n]) /\ ~CreationMismatch(n, s)

(* The installed generation and the events that go with it: a socket swap   *)
(* within a session keeps its generation and says nothing.                  *)
Swap(n, s) == Live(n) /\ ~CreationMismatch(n, s)
InstalledGeneration(n, s) ==
  IF Swap(n, s) THEN conn[n][table[n]].gen ELSE generation[n] + 1
(* Mutant: a displaced link that is already down gets no Down. *)
InstallEventsUpOnly(n, s) ==
  IF Swap(n, s) THEN <<>> ELSE <<Up(generation[n] + 1, met[s][Peer(n)])>>
InstallEvents(n, s) ==
  IF Swap(n, s) THEN <<>>
  ELSE (IF table[n] # None THEN <<Down(conn[n][table[n]].gen)>> ELSE <<>>)
         \o <<Up(generation[n] + 1, met[s][Peer(n)])>>

Register(n, s) ==
  LET t == <<n, s, "install">> IN
  /\ task[t].at = "register"
  /\ IF IncumbentWins(n, s)
     THEN /\ Close(n, s) /\ HandshakeOver(n, s) /\ ReturnPermit(n, s)
          /\ task' = [task EXCEPT ![t] = Off]
          /\ refused' = [refused EXCEPT !.dropped = @ \cup ({s} \cap refused.lone)]
          /\ UNCHANGED <<conn, table, generation, queue>>
     ELSE /\ conn' = [conn EXCEPT ![n][s] =
               [gen |-> InstalledGeneration(n, s), creation |-> met[s][Peer(n)],
                down |-> FALSE]]
          /\ generation' = [generation EXCEPT ![n] =
               IF Swap(n, s) THEN @ ELSE @ + 1]
          /\ queue' = [queue EXCEPT ![n] = @ \o InstallEvents(n, s)]
          /\ table' = [table EXCEPT ![n] = s]
          /\ task' = [task EXCEPT ![t] =
               [at |-> IF table[n] = None THEN "dispatch" ELSE "mark",
                victim |-> table[n]]]
          /\ UNCHANGED <<init, resp, connecting, links, refused>>
  /\ UNCHANGED <<creation, met, aborted, log, stream, gate, late, faults>>

(* PreparedSocket::prepare fails: the install is refused, the stream drops. *)
RegisterFails(n, s) ==
  LET t == <<n, s, "install">> IN
  /\ faults < MaxFaults /\ faults' = faults + 1
  /\ task[t].at = "register"
  /\ Close(n, s) /\ HandshakeOver(n, s) /\ ReturnPermit(n, s)
  /\ task' = [task EXCEPT ![t] = Off]
  /\ UNCHANGED <<creation, met, aborted, conn, table, generation, hub, gate,
                 late, refused>>

-----------------------------------------------------------------------------
(* mark_down, connection_down and dispatch, for whichever task runs them.   *)

(* Where a task goes once its own dispatch, or a mark_down that found the   *)
(* link already down, has returned.  A task that holds the gate is inside a *)
(* subscriber's callback and returns to the drain it is in.                 *)
AfterMark(t) == IF gate[t[1]] = t THEN "drain"
                ELSE IF t[3] = "install" THEN "dispatch" ELSE "off"

(* Mutant: the reader ends without returning its permit. *)
EndsWithPermit(t, pc) == UNCHANGED permits

(* The reader's task owns the permit and returns it when it ends. *)
Ends(t, pc) == IF t[3] = "read" /\ pc = "off" THEN ReturnPermit(t[1], t[2])
               ELSE UNCHANGED permits

(* mark_down: the swap of the flag and the shutdown of the socket. *)
MarkDown(t) ==
  LET n == t[1]
      v == task[t].victim
  IN /\ task[t].at = "mark"
     /\ IF conn[n][v].down
        THEN Go(t, AfterMark(t)) /\ Ends(t, AfterMark(t)) /\ UNCHANGED <<conn, wire>>
        ELSE /\ conn' = [conn EXCEPT ![n][v].down = TRUE]
             /\ Close(n, v) /\ Go(t, "reap") /\ UNCHANGED permits
     /\ UNCHANGED <<creation, handshake, table, generation, hub, gate, late,
                    faults, refused>>

(* connection_down, under the entry guard: the event goes into the queue    *)
(* and the entry out of the table, if it is still this connection's.        *)
ConnectionDown(t) ==
  LET n == t[1]
      v == task[t].victim
  IN /\ task[t].at = "reap"
     /\ IF table[n] = v
        THEN /\ queue' = [queue EXCEPT ![n] = Append(@, Down(conn[n][v].gen))]
             /\ table' = [table EXCEPT ![n] = None]
        ELSE UNCHANGED <<queue, table>>
     /\ Go(t, "dispatch")
     /\ UNCHANGED <<creation, handshake, links, conn, generation, log, stream,
                    gate, late, faults, refused>>

(* The caller of dispatch goes on: an install spawns the reader and its own  *)
(* caller returns, any other task is over.                                  *)
Return(t) ==
  LET n == t[1] IN
  IF t[3] = "install"
  THEN /\ task' = [task EXCEPT ![t] = Off, ![<<n, t[2], "read">>] =
                      [at |-> "reading", victim |-> t[2]]]
       /\ HandshakeOver(n, t[2])
       /\ UNCHANGED permits
  ELSE /\ Go(t, "off") /\ Ends(t, "off")
       /\ UNCHANGED <<init, resp, connecting>>

(* dispatch: a task that already holds the gate returns at once, any other  *)
(* waits for it.                                                            *)
Dispatch(t) ==
  LET n == t[1] IN
  /\ task[t].at = "dispatch" /\ n \in Stepwise
  /\ gate[n] \in {Free, t}
  /\ gate' = [gate EXCEPT ![n] = t]
  /\ Go(t, "drain")
  /\ UNCHANGED <<creation, handshake, links, conn, table, generation, hub, late,
                 faults, refused>>

(* One event to the subscribers of the moment, in the order of the queue. *)
DeliverFirst(n) ==
  /\ queue[n] # <<>>
  /\ log' = [log EXCEPT ![n] = Append(@, Head(queue[n]))]
  /\ stream' = [stream EXCEPT ![n] =
       IF late[n].at \in {"last", "on"} THEN Append(@, Head(queue[n])) ELSE @]
  /\ queue' = [queue EXCEPT ![n] = Tail(@)]

Drain(t) ==
  /\ task[t].at = "drain"
  /\ DeliverFirst(t[1])
  /\ UNCHANGED <<creation, handshake, links, conn, table, generation, gate, task,
                 late, faults, refused>>

(* A callback of the drain calls disconnect_node. *)
CallbackDisconnects(t) ==
  LET n == t[1] IN
  /\ task[t].at = "drain" /\ table[n] # None
  /\ faults < MaxFaults /\ faults' = faults + 1
  /\ task' = [task EXCEPT ![t] = [at |-> "mark", victim |-> table[n]]]
  /\ UNCHANGED <<creation, handshake, links, conn, table, generation, hub, gate,
                 late, refused>>

(* The queue is empty: dispatch releases the gate and returns. *)
DispatchReturns(t) ==
  LET n == t[1] IN
  /\ task[t].at = "drain" /\ queue[n] = <<>>
  /\ gate' = [gate EXCEPT ![n] = Free]
  /\ Return(t)
  /\ UNCHANGED <<creation, met, aborted, wire, conn, table, generation, hub,
                 late, faults, refused>>

(* The whole of dispatch in one step, on a node that is not Stepwise. *)
DispatchAtOnce(t) ==
  LET n == t[1] IN
  /\ task[t].at = "dispatch" /\ n \notin Stepwise
  /\ log' = [log EXCEPT ![n] = @ \o queue[n]]
  /\ queue' = [queue EXCEPT ![n] = <<>>]
  /\ Return(t)
  /\ UNCHANGED <<creation, met, aborted, wire, conn, table, generation, stream,
                 gate, late, faults, refused>>

-----------------------------------------------------------------------------
(* What takes a link down.                                                  *)

(* The reader sees the peer's end closed, or its own link marked down; the  *)
(* heartbeat sees a peer that fell silent, or a link fails.                 *)
ReaderStops(n, s) ==
  LET t == <<n, s, "read">> IN
  /\ task[t].at = "reading"
  /\ \/ wire[s][Peer(n)] # "open" /\ UNCHANGED faults
     \/ conn[n][s].down /\ UNCHANGED faults
     \/ faults < MaxFaults /\ faults' = faults + 1
  /\ Go(t, "mark")
  /\ UNCHANGED <<creation, handshake, links, conn, table, generation, hub, gate,
                 late, refused>>

(* disconnect_node: get_connection, then mark_down of what it returned. *)
DisconnectNode(n, s) ==
  LET t == <<n, s, "user">> IN
  /\ faults < MaxFaults /\ faults' = faults + 1
  /\ table[n] = s /\ task[t].at = "off"
  /\ task' = [task EXCEPT ![t] = [at |-> "mark", victim |-> s]]
  /\ UNCHANGED <<creation, handshake, links, conn, table, generation, hub, gate,
                 late, refused>>

(* disconnect_all raises the abort flag of the dial the mark names. *)
AbortDials(n) ==
  /\ faults < MaxFaults /\ faults' = faults + 1
  /\ connecting[n] # None
  /\ aborted' = aborted \cup {connecting[n]}
  /\ UNCHANGED <<creation, init, resp, met, connecting, links, conn, table,
                 generation, hub, gate, task, late, refused>>

(* The runtime of n dies and starts again as a new incarnation, with a new  *)
(* ConnectionManager; the peer may or may not see its sockets close.        *)
Restart(n) ==
  /\ faults < MaxFaults /\ faults' = faults + 1
  /\ creation' = [creation EXCEPT ![n] = @ + 1]
  /\ \E end \in {"closed", "lost"} :
       wire' = [s \in Sockets |-> [wire[s] EXCEPT ![n] =
                  IF @ = "open" THEN end ELSE @]]
  /\ init' = [s \in Sockets |->
       IF Dialer[s] = n /\ init[s] # "unused" THEN "failed" ELSE init[s]]
  /\ resp' = [s \in Sockets |->
       IF ~Accepts(n, s) \/ init[s] = "unused" THEN resp[s]
       ELSE IF resp[s] \in {"register", "done"} THEN "done" ELSE "failed"]
  /\ Unmark(n)
  /\ permits' = [permits EXCEPT ![n] = {}]
  /\ conn' = [conn EXCEPT ![n] = [s \in Sockets |-> NoConn]]
  /\ table' = [table EXCEPT ![n] = None]
  /\ generation' = [generation EXCEPT ![n] = 0]
  /\ queue' = [queue EXCEPT ![n] = <<>>]
  /\ log' = [log EXCEPT ![n] = <<>>]
  /\ stream' = [stream EXCEPT ![n] = <<>>]
  /\ late' = [late EXCEPT ![n] = [at |-> "off", snap |-> {}]]
  /\ gate' = [gate EXCEPT ![n] = Free]
  /\ task' = [t \in Tasks |-> IF t[1] = n THEN Off ELSE task[t]]
  /\ UNCHANGED <<met, aborted, refused>>

-----------------------------------------------------------------------------
(* subscribe_with_snapshot on node n.                                       *)

LateGoes(n, pc) == late' = [late EXCEPT ![n].at = pc]
LateRest == <<creation, handshake, links, conn, table, generation, task, refused>>

Subscribe(n) ==
  /\ n \in Watched /\ late[n].at = "off" /\ gate[n] = Free
  /\ faults < MaxFaults /\ faults' = faults + 1
  /\ gate' = [gate EXCEPT ![n] = Late]
  /\ LateGoes(n, "drain")
  /\ UNCHANGED <<LateRest, hub>>

LateDrains(n) ==
  /\ late[n].at \in {"drain", "last"}
  /\ DeliverFirst(n)
  /\ UNCHANGED <<LateRest, faults, gate, late>>

LateDrained(n) ==
  /\ late[n].at = "drain" /\ queue[n] = <<>>
  /\ LateGoes(n, "snapshot")
  /\ UNCHANGED <<LateRest, faults, hub, gate>>

(* connected_peers: the links that are not down. *)
Snapshot(n) ==
  /\ late[n].at = "snapshot"
  /\ late' = [late EXCEPT ![n] =
       [at |-> "check",
        snap |-> IF Live(n)
                 THEN {Up(conn[n][table[n]].gen, conn[n][table[n]].creation)}
                 ELSE {}]]
  /\ UNCHANGED <<LateRest, faults, hub, gate>>

(* The queue is looked at again: an event queued meanwhile may be in the    *)
(* snapshot already, so the snapshot is taken again.                        *)
RecheckQueue(n) ==
  /\ late[n].at = "check"
  /\ IF queue[n] # <<>>
     THEN LateGoes(n, "drain") /\ UNCHANGED stream
     ELSE /\ LateGoes(n, "last")
          /\ stream' = [stream EXCEPT ![n] = @ \o SetToSeq(late[n].snap)]
  /\ UNCHANGED <<LateRest, faults, queue, log, gate>>

LateReturns(n) ==
  /\ late[n].at = "last" /\ queue[n] = <<>>
  /\ late' = [late EXCEPT ![n] = [at |-> "on", snap |-> {}]]
  /\ gate' = [gate EXCEPT ![n] = Free]
  /\ UNCHANGED <<LateRest, faults, hub>>

-----------------------------------------------------------------------------
HandshakeStep(s) ==
  Accept(s) \/ Exchange(s) \/ ReadAck(s)

TaskStep(t) ==
  \/ MarkDown(t) \/ ConnectionDown(t) \/ Dispatch(t) \/ Drain(t)
  \/ DispatchReturns(t) \/ DispatchAtOnce(t)

LateStep(n) ==
  LateDrains(n) \/ LateDrained(n) \/ Snapshot(n) \/ RecheckQueue(n) \/ LateReturns(n)

Next ==
  \/ \E s \in Sockets : Connect(s) \/ HandshakeStep(s) \/ HandshakeFails(s)
  \/ \E n \in Nodes, s \in Sockets :
       \/ Register(n, s) \/ RegisterFails(n, s)
       \/ ReaderStops(n, s) \/ DisconnectNode(n, s)
  \/ \E t \in Tasks : TaskStep(t) \/ CallbackDisconnects(t)
  \/ \E n \in Nodes : AbortDials(n) \/ Restart(n) \/ Subscribe(n) \/ LateStep(n)

Spec == Init /\ [][Next]_vars

-----------------------------------------------------------------------------
Events == [kind : {"Up", "Down"}, gen : Nat, creation : Nat]

(* The types of the connection table, the hub and the tasks.               *)
ConnectionsTypeOK ==
  /\ creation \in [Nodes -> Nat]
  /\ init \in [Sockets -> {"unused", "name", "replied", "register",
                           "done", "failed"}]
  /\ resp \in [Sockets -> {"none", "nok", "challenged", "register", "done",
                           "failed"}]
  /\ met \in [Sockets -> [Nodes -> Nat]]
  /\ connecting \in [Nodes -> Sockets \cup {None}]
  /\ aborted \subseteq Sockets
  /\ wire \in [Sockets -> [Nodes -> {"open", "closed", "lost"}]]
  /\ permits \in [Nodes -> SUBSET Sockets]
  /\ \A n \in Nodes : \A s \in permits[n] : Accepts(n, s)
  /\ conn \in [Nodes -> [Sockets -> [gen : Nat, creation : Nat, down : BOOLEAN]]]
  /\ table \in [Nodes -> Sockets \cup {None}]
  /\ generation \in [Nodes -> Nat]
  /\ \A n \in Nodes : queue[n] \in Seq(Events) /\ log[n] \in Seq(Events)
  /\ gate \in [Nodes -> Tasks \cup {Free, Late}]
  /\ \A t \in Tasks :
       /\ task[t].at \in {"off", "register", "mark", "reap", "dispatch", "drain",
                          "reading"}
       /\ task[t].at \in {"mark", "reap"} => task[t].victim \in Sockets

(* INV-ALTERNATION and INV-EXACTLY-ONCE: what node n delivers, and has      *)
(* still to deliver, is Up(1) Down(1) Up(2) Down(2) ..., whatever races     *)
(* between installs and teardowns; and it says of the table what is in it:  *)
(* the last event is Up(g) exactly while a generation-g link is in force.   *)
EventsFollowTable ==
  \A n \in Nodes :
    LET all == log[n] \o queue[n] IN
    /\ \A i \in DOMAIN all :
         /\ all[i].kind = IF i % 2 = 1 THEN "Up" ELSE "Down"
         /\ all[i].gen = (i + 1) \div 2
    /\ Len(all) % 2 = IF table[n] # None THEN 1 ELSE 0
    /\ table[n] # None => conn[n][table[n]].gen = (Len(all) + 1) \div 2

(* INV-FRAME-ORDER and INV-SYNC: a reader that may hand a frame of          *)
(* generation g to the scheduler exists only once Up(g) has been delivered, *)
(* and a node with no task under way has delivered everything.              *)
FramesAfterUp ==
  \A n \in Nodes :
    /\ \A s \in Sockets : task[<<n, s, "read">>].at = "reading" =>
         \E i \in DOMAIN log[n] :
           log[n][i].kind = "Up" /\ log[n][i].gen = conn[n][s].gen
    /\ (\A t \in Tasks : t[1] = n => task[t].at \in {"off", "reading"})
         /\ gate[n] = Free => queue[n] = <<>>

(* No step is left to take but a dial, a fault, a restart or a              *)
(* subscription.                                                            *)
Quiet ==
  /\ \A s \in Sockets : /\ init[s] \notin {"name", "replied", "register"}
                         /\ resp[s] \notin {"challenged", "register"}
  /\ \A t \in Tasks : task[t].at \in {"off", "reading"}
  /\ \A n \in Nodes, s \in Sockets :
       task[<<n, s, "read">>].at = "reading" =>
         ~conn[n][s].down /\ wire[s][Peer(n)] = "open"

(* Once everything has settled the two nodes hold the same socket, or none: *)
(* register_connection, mark_down and the readers leave no node with a      *)
(* socket the other one has dropped, replaced or forgotten in a restart.    *)
SameSocket == Quiet => table[Low] = table[High]

(* If nothing failed, nobody disconnected and nobody restarted, a pair that *)
(* dialled has a link once everything has settled: "each node keeps only    *)
(* its canonical-direction link (the canonical socket is never torn down by *)
(* either side)", and an incumbent of that direction "is the rightful       *)
(* survivor on both nodes" (register_connection).                           *)
DialLeavesALink ==
  Quiet /\ faults = 0 /\ (\E s \in Sockets : init[s] # "unused")
    => \A n \in Nodes : table[n] # None

(* The accept envelope is never overdrawn, and every share of it is held by *)
(* a handshake in progress or by the reader of an inbound link: no exit     *)
(* path of handle_accepted or register_connection leaks one.                *)
PermitsAccounted ==
  \A n \in Nodes :
    /\ Cardinality(permits[n]) <= Envelope
    /\ \A s \in permits[n] : \/ resp[s] \in {"challenged", "register"}
                              \/ task[<<n, s, "read">>].at # "off"

(* subscribe_with_snapshot: from its first Up on, the late subscriber sees   *)
(* every session of the node opened once and closed once, in order; the     *)
(* snapshot and the queue never tell it the same event twice.               *)
LateStreamAlternates ==
  \A n \in Nodes :
    \A i \in 2..Len(stream[n]) :
      LET a == stream[n][i - 1]
          b == stream[n][i]
      IN \/ a.kind = "Up" /\ b.kind = "Down" /\ b.gen = a.gen
         \/ a.kind = "Down" /\ b.kind = "Up" /\ b.gen > a.gen

(* The contract of connection_events.rs: the events of a node tell its      *)
(* table, they come before the frames, and a late subscriber's stream is    *)
(* as good as an early one's.                                               *)
EventContract == EventsFollowTable /\ FramesAfterUp /\ LateStreamAlternates

(* register_connection on the loser of the dedup: "A lone re-dial never hits *)
(* this", and so "always re-establishes the link".                          *)
LoneDialNotRefused == refused.dropped = {}
=============================================================================

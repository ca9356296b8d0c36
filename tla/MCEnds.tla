------------------------------- MODULE MCEnds -------------------------------
(* Instances of what ends: the connections of two nodes, a link between    *)
(* processes on them, and a scheduler. The three share no state here: each *)
(* behaviour works one of them, and the others stay as they began.         *)
EXTENDS Connections, RemoteLinks, Teardown, TLC

CONSTANTS a1, b1, old, new, k1, k2

VARIABLE layer  \* the part at work

(* Each node dials once. *)
OneEach == [s \in {a1, b1} |-> IF s = b1 THEN High ELSE Low]

(* One node dials twice: two of its processes send while there is no link. *)
BothHigh == [s \in {a1, b1} |-> High]

(* A registration against two deaths of workers; a dirty call, a kill and a *)
(* spawn against one; a kill against a spawn.                               *)
Plots ==
  {[cast |-> {"shutdown", "registrar"}, deaths |-> 2], [cast |-> {"shutdown", "host", new}, deaths |-> 0]}
  \cup {[cast |-> {"shutdown", t}, deaths |-> 1] : t \in {old, new, "host"}}

CrewSymmetry == Permutations({k1, k2})

EndsInit ==
  /\ layer \in {"connections", "links", "teardown"}
  /\ Init /\ RlInit /\ TdInit
  /\ layer # "teardown" => thread["registrar"].at = "off"

EndsNext ==
  /\ UNCHANGED layer
  /\ \/ layer = "connections" /\ Next /\ UNCHANGED <<rlVars, tdVars>>
     \/ layer = "links" /\ RlNext /\ UNCHANGED <<vars, tdVars>>
     \/ layer = "teardown" /\ TdNext /\ UNCHANGED <<vars, rlVars>>

EndsSpec == EndsInit /\ [][EndsNext]_<<layer, vars, rlVars, tdVars>>

(* The state of the part at work is of its type; among the rest, a control  *)
(* lane never holds more frames than its capacity, whatever the links       *)
(* enqueue while the connection fails.                                      *)
EndsTypeOK ==
  CASE layer = "connections" -> ConnectionsTypeOK
    [] layer = "links" -> RemoteLinksTypeOK
    [] layer = "teardown" -> TeardownTypeOK
=============================================================================

---------------------------- MODULE MCSupervision ----------------------------
EXTENDS Supervision

CONSTANTS p1, p2, p3

(* p1 - p2 - p3: a death at one end has to travel through the middle. *)
Chain == {{p1, p2}, {p2, p3}}
Pair == {{p1, p2}}
=============================================================================

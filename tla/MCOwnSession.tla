---------------------------- MODULE MCOwnSession ----------------------------
(* Model-checking instances of OwnSession: two addresses share one slot of  *)
(* the guard; the second client is a CCcam3 server that reads from this one. *)
EXTENDS OwnSession

CONSTANTS c1, c2

MCVersion == [c \in Conn |-> IF c = c1 THEN 209 ELSE 301]
MCAddr == [c \in Conn |-> IF c = c1 THEN 1 ELSE 2]
=============================================================================

--------------------------- MODULE MCLoggedStore ---------------------------
(***************************************************************************)
(* Values of LoggedStore's constants for TLC.  A graph has the nodes 1 and *)
(* 2 and their edge, and node 0 after some crashes: then it needs 8 words. *)
(***************************************************************************)
EXTENDS LoggedStore

Op(op, a, b) == [op |-> op, a |-> a, b |-> b]

GraphOps == {Op("ADD_NODE", n, 0) : n \in {1, 2}}
              \cup {Op("REMOVE_NODE", 2, 0), Op("ADD_EDGE", 1, 2)}

AllGraphOps == GraphOps \cup {Op("REMOVE_EDGE", 1, 2)}
=============================================================================

------------------------- MODULE MCPartitionedEdges -------------------------
(***************************************************************************)
(* PartitionedEdges for TLC.  Two partitions of nodes by parity, as        *)
(* nodeId % 2 does.                                                        *)
(***************************************************************************)
EXTENDS PartitionedEdges

ByParity == [n \in Node |-> n % 2]
=============================================================================

-------------------------- MODULE MCSimpleProducer --------------------------
(* Four events over two partitions: even keys in one, odd in the other. *)
EXTENDS SimpleProducer

CONSTANTS p1, p2

MCPartitionOf == [k \in 0 .. Total - 1 |-> IF k % 2 = 0 THEN p1 ELSE p2]
=============================================================================

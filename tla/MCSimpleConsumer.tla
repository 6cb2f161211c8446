-------------------------- MODULE MCSimpleConsumer --------------------------
EXTENDS SimpleConsumer, TLC

CONSTANTS c1, c2, g1, u1, p1, p2

SharedGroup == [c \in Consumers |-> g1]
OneFresh == [c \in Consumers |-> IF c = c1 THEN g1 ELSE NoGroup]

Symmetry == Permutations({c1, c2})
=============================================================================

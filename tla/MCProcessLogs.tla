--------------------------- MODULE MCProcessLogs ---------------------------
EXTENDS ProcessLogs, TLC

L(f, p, m, a) == [fields |-> f, parts |-> p, month |-> m, ip |-> a]

(* Lines that are too short, have no date or no month, between good ones;    *)
(* keys that repeat within and across splits; too few keys to sample.        *)
MCInputs ==
    { (1 :> <<L(4, 3, 2, 1), L(2, 1, -1, 2), L(4, 3, 1, 1)>> @@ 2 :> <<L(4, 3, 2, 1), L(4, 1, -1, 2)>>),
      (1 :> <<L(4, 3, 1, 2), L(4, 3, -1, 1)>> @@ 2 :> <<L(4, 3, 2, 2), L(4, 3, 1, 1)>>),
      (1 :> <<L(4, 3, 1, 1)>> @@ 2 :> <<L(1, 1, -1, 1)>>) }
=============================================================================

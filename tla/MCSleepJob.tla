----------------------------- MODULE MCSleepJob -----------------------------
EXTENDS SleepJob

Line(m, r, mt, rt, d, a) ==
    [m |-> m, r |-> r, mt |-> mt, rt |-> rt, recordt |-> d, array |-> a]

(* Shares with and without a remainder, fewer keys than records, map-only,   *)
(* an array that does not fit, and counts that are zero or negative.         *)
MCConfigs ==
    {Line(2, 2, 200, 100, 100, "off"), Line(2, 2, 130, 250, 100, "fits"),
     Line(1, 2, 500, 150, 100, "off"), Line(2, 1, 300, 400, 100, "off"),
     Line(2, 0, 200, 100, 100, "off"), Line(1, 3, 400, 100, 100, "off"),
     Line(1, 1, 100, 100, 100, "big"), Line(2, 1, 0, 100, 100, "off"),
     Line(1, 1, 100, -100, 100, "off")}
=============================================================================

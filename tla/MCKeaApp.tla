------------------------------ MODULE MCKeaApp ------------------------------
(***************************************************************************)
(* KeaApp for TLC: two prefixes, two NetBox addresses, one NetBox range    *)
(* and pools inside three addresses, so that a pool can contain, overlap   *)
(* or avoid another one.  Kea starts empty or with one subnet that holds a *)
(* reservation of NetBox and items made by hand.                           *)
(***************************************************************************)
EXTENDS KeaApp

CONSTANTS p1, p2, n1, n2, good, bad, i1, i2, r1, m1, m2, a1, a2

MCPoint == 1..3

Populated ==
    [id |-> p1, net |-> n1, opt |-> good,
     resas |-> {[nid |-> i1, mac |-> m1, ip |-> a1]},
     pools |-> {[rid |-> NoId, lo |-> 2, hi |-> 2]}]

MCStartConfs == {{Populated}}
=============================================================================

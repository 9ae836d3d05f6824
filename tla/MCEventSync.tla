----------------------------- MODULE MCEventSync -----------------------------
(***************************************************************************)
(* EventSync for TLC: two servers; a prefix and one nested in it, which    *)
(* can be turned off, made as wide as the outer one, tagged for the other  *)
(* server or given settings Kea refuses; two addresses of one interface,   *)
(* both in the outer prefix and one in the inner; a pool in both.          *)
(* Addresses can lose their MAC, take that of the other one, and move out  *)
(* of the inner prefix.                                                    *)
(***************************************************************************)
EXTENDS EventSync

CONSTANTS p1, p2, outer, inner, good, bad, i1, i2, r1, m1, m2, a1, a2, a3, b1, b2, f1

MCPoint == 1..3
MCBackendOrder == <<b1, b2>>
MCAddrIn == [n \in {outer, inner} |-> IF n = outer THEN {a1, a2, a3} ELSE {a1}]
MCPointIn == [n \in {outer, inner} |-> IF n = outer THEN 1..3 ELSE 1..2]


\* By address, and then by id.
MCRank ==
    [x \in {i1, i2} \X {a1, a2, a3} |->
        (CASE x[2] = a1 -> 0 [] x[2] = a2 -> 2 [] x[2] = a3 -> 4)
            + (IF x[1] = i1 THEN 0 ELSE 1)]

Pre(on, net, backend) ==
    [on |-> on, net |-> net, opt |-> good, backend |-> backend]
Refused(net, backend) ==
    [on |-> TRUE, net |-> net, opt |-> bad, backend |-> backend]
Ip(on, ip, cf) == [on |-> on, ip |-> ip, cf |-> cf, iface |-> f1]
Rng(on, lo, hi) == [on |-> on, lo |-> lo, hi |-> hi]

MCPrefixMayBe ==
    [p \in {p1, p2} |->
        IF p = p1 THEN {Pre(TRUE, outer, b1), Pre(FALSE, outer, b1), Refused(outer, b1)}
        ELSE {Pre(TRUE, inner, b1), Pre(FALSE, inner, b1), Pre(TRUE, inner, b2),
              Pre(TRUE, inner, NoBackend), Pre(TRUE, outer, b1)}]

MCIpMayBe ==
    [i \in {i1, i2} |->
        IF i = i1 THEN {Ip(TRUE, a1, NoMac), Ip(FALSE, a1, NoMac), Ip(TRUE, a3, NoMac)}
        ELSE {Ip(TRUE, a2, m2), Ip(TRUE, a2, NoMac)}]

MCRangeMayBe == [r \in {r1} |-> {Rng(TRUE, 1, 2), Rng(FALSE, 1, 2), Rng(TRUE, 2, 3)}]

MCMacMayBe == [f \in {f1} |-> {m1, NoMac}]

\* For the run in which the prefixes stay as they are.
MCPrefixStays == [p \in {p1, p2} |-> {}]

MCNetBoxes ==
    {[prefix |-> [p \in {p1, p2} |->
                    IF p = p1 THEN Pre(TRUE, outer, b1) ELSE Pre(on, inner, b1)],
      ip |-> [i \in {i1, i2} |-> IF i = i1 THEN Ip(TRUE, a1, NoMac) ELSE Ip(TRUE, a2, m2)],
      range |-> [r \in {r1} |-> Rng(TRUE, 1, 2)],
      mac |-> [f \in {f1} |-> m1]] : on \in BOOLEAN}
=============================================================================

------------------------------ MODULE MCKeaCB ------------------------------
(***************************************************************************)
(* KeaCB for TLC: two subnets, a NetBox address reserved in the first, and *)
(* a row of another tool for the same address in the second.               *)
(***************************************************************************)
EXTENDS KeaCB

CONSTANTS p1, p2, n1, n2, good, i1, i2, r1, m1, m2, a1, a2

MCPoint == 1..1

Sub(pid, net) ==
    [id |-> pid, net |-> net, opt |-> good, resas |-> {}, pools |-> {}]

MCStartDbs == {{Sub(p1, n1), Sub(p2, n2)}}

HostRow(sid, nid, mac, ip) == [sid |-> sid, nid |-> nid, mac |-> mac, ip |-> ip]
MCStartHosts == {{HostRow(p1, i1, m1, a1), HostRow(p2, NoId, m2, a1)}}

\* With one subnet.
OneStartDbs == {{Sub(p1, n1)}}
OneStartHosts == {{HostRow(p1, i1, m1, a1)}}
=============================================================================

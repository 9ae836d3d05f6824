----------------------------- MODULE MCFullSync -----------------------------
(***************************************************************************)
(* FullSync for TLC: two servers, three prefixes, and contents of NetBox   *)
(* that meet each other: pools one of which contains another (set_pool     *)
(* lets it through, Kea does not), one MAC for two addresses, an address   *)
(* without a MAC, settings Kea refuses, two prefixes with one network      *)
(* address, a tag that names no server, a server without prefixes.         *)
(***************************************************************************)
EXTENDS FullSync

CONSTANTS p1, p2, p3, n1, n2, n3, good, bad, i1, i2, i3, i4, r1, r2, m1, m2, a1, a2,
          b1, b2

MCPoint == 1..3
MCBackendOrder == <<b1, b2>>

Ip(nid, mac, ip) == [nid |-> nid, mac |-> mac, ip |-> ip]
Rng(rid, lo, hi) == [rid |-> rid, lo |-> lo, hi |-> hi]
Prefix(net, opt, backend, addresses, pools) ==
    [net |-> net, opt |-> opt, backend |-> backend, ips |-> addresses,
     ranges |-> pools]

Nested == {Rng(r1, 1, 3), Rng(r2, 2, 2)}
TwoHosts == {Ip(i1, m1, a1), Ip(i2, m2, a2)}
OneMac == {Ip(i1, m1, a1), Ip(i3, m1, a2)}
NoMacHost == {Ip(i1, m1, a1), Ip(i4, NoMac, a2)}

\* What a prefix may be, two at a time.
Kinds ==
    { Prefix(n1, good, b1, TwoHosts, Nested),
      Prefix(n1, good, b1, NoMacHost, {Rng(r1, 1, 2)}),
      Prefix(n2, good, b1, OneMac, Nested),
      Prefix(n2, bad, b1, NoMacHost, {Rng(r1, 1, 1)}),
      Prefix(n2, good, b2, NoMacHost, Nested),
      Prefix(n3, bad, b2, TwoHosts, {}),
      Prefix(n3, good, NoBackend, OneMac, {}) }

Three ==
    [p \in {p1, p2, p3} |->
         CASE p = p1 -> Prefix(n1, good, b1, TwoHosts, Nested)
           [] p = p2 -> Prefix(n2, good, b2, NoMacHost, {})
           [] p = p3 -> Prefix(n3, bad, b2, {}, {Rng(r1, 1, 1)})]

\* One server has faulty prefixes, and the other could not be cleaner.
CleanBeside ==
    [p \in {p1, p2, p3} |->
         CASE p = p1 -> Prefix(n1, good, b1, TwoHosts, {Rng(r1, 1, 1), Rng(r2, 2, 3)})
           [] p = p2 -> Prefix(n2, good, b1, NoMacHost, {Rng(r1, 1, 2)})
           [] p = p3 -> Prefix(n3, bad, b2, NoMacHost, Nested)]

\* An empty NetBox is the one that may empty every server.
MCNetBoxes == [{p1, p2} -> Kinds] \cup {Three, CleanBeside, [p \in {} |-> p]}

Old == [id |-> p1, net |-> n2, opt |-> good,
        resas |-> {Ip(i1, m2, a2)}, pools |-> {Rng(r1, 2, 3)}]

MCLiveConfs == {{Old}}
=============================================================================

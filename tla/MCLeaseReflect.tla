--------------------------- MODULE MCLeaseReflect ---------------------------
(***************************************************************************)
(* LeaseReflect for TLC: a source with two addresses, the second of which  *)
(* has a server that runs the hook script, and a source with one address,  *)
(* before the others in NetBox's list; pages of one lease and of one       *)
(* record.  People have made a record with the status dhcp for the first   *)
(* address, and one that is theirs for the second.                         *)
(***************************************************************************)
EXTENDS LeaseReflect

CONSTANTS s1, s2, c1, c2

MCServed == [a \in Addr |-> IF a = 1 THEN s2 ELSE s1]

Theirs(i, a, d) ==
    [rid |-> i, addr |-> a, dhcp |-> d, by |-> People, who |-> NoRecord]

MCFirstRecords == {{Theirs(1, 1, TRUE), Theirs(2, 2, FALSE)}}

MCFirstLeases == {[a \in Addr |-> NoLease]}
=============================================================================

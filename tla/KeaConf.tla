------------------------------ MODULE KeaConf ------------------------------
(***************************************************************************)
(* The Kea configuration as DHCP4App (kea/app.py) holds and edits it in    *)
(* memory: a list of subnets, each with its options, host reservations and *)
(* pools.  Only the operators; KeaApp and the other modules own the state. *)
(*                                                                         *)
(* The lists of the code are sets here: an item is found by its key and    *)
(* the order of a list decides only which of two errors is raised first    *)
(* (see SubnetErrors).  NoId is the None that pull() stores as the NetBox  *)
(* id of a reservation or a pool that NetBox does not own ("foreign").     *)
(***************************************************************************)
EXTENDS Integers

CONSTANTS
    PrefixId,       \* NetBox prefix ids, which are the Kea subnet ids
    Net,            \* network addresses of subnets
    Opt,            \* settings of a subnet other than the keys below
    BadOpt,         \* the settings that Kea's own check refuses
    IpId,           \* NetBox ids of IP addresses
    RangeId,        \* NetBox ids of IP ranges
    NoId,           \* the id of an item NetBox does not own
    Mac,            \* hardware addresses
    Addr,           \* addresses a reservation can be for
    Point,          \* addresses a pool can start or end at, as integers
    IpUnique        \* the server's ip-reservations-unique

ASSUME NoIdAssumption == NoId \notin IpId \cup RangeId
ASSUME OptAssumption == BadOpt \subseteq Opt
ASSUME PointAssumption == Point \subseteq Int
ASSUME IpUniqueAssumption == IpUnique \in BOOLEAN

Resa == [nid : IpId \cup {NoId}, mac : Mac, ip : Addr]
Pool == [rid : RangeId \cup {NoId}, lo : Point, hi : Point]
Subnet == [id : PrefixId, net : Net, opt : Opt,
           resas : SUBSET Resa, pools : SUBSET Pool]
Conf == SUBSET Subnet

-----------------------------------------------------------------------------
(* Reading a configuration. *)

HasSubnet(c, pid) == \E s \in c : s.id = pid

\* Another subnet of c already has the network address net.
Twin(c, pid, net) == \E s \in c : s.id # pid /\ s.net = net

\* The reservations, and the pools, that NetBox does not own.
ForeignResas(s) == {r \in s.resas : r.nid = NoId}
ForeignPools(s) == {p \in s.pools : p.rid = NoId}

-----------------------------------------------------------------------------
(* Subnets: _set_subnet, del_subnet, del_all_subnets. *)

(***************************************************************************)
(* The errors _set_subnet can raise.  Its loop stops at the subnet with    *)
(* this id if the address is the same, so a twin counts only if it is not; *)
(* an update of a subnet whose address differs AND has a twin raises one   *)
(* error or the other, by the order of the list.                           *)
(***************************************************************************)
SubnetErrors(c, pid, net, onlyUpdate) ==
    LET same == \E s \in c : s.id = pid /\ s.net = net
        twin == ~same /\ Twin(c, pid, net)
    IN  {e \in {"DuplicateValue", "SubnetNotEqual", "SubnetNotFound"} :
            \/ e = "DuplicateValue" /\ twin
            \/ e = "SubnetNotEqual" /\ onlyUpdate /\ HasSubnet(c, pid) /\ ~same
            \/ e = "SubnetNotFound" /\ onlyUpdate /\ ~HasSubnet(c, pid) /\ ~twin}

DropSubnet(c, pid) == {s \in c : s.id # pid}

\* set_subnet: replace (or append) the subnet, without reservations nor pools.
PutSubnet(c, pid, net, opt) ==
    DropSubnet(c, pid) \cup
        {[id |-> pid, net |-> net, opt |-> opt, resas |-> {}, pools |-> {}]}

\* Mutant: the pools are not carried over to the new settings.
UpdateOptionsLosesPools(c, pid, opt) ==
    {IF s.id = pid THEN [s EXCEPT !.opt = opt, !.pools = {}] ELSE s : s \in c}

\* update_subnet: new settings, reservations and pools preserved.
UpdateOptions(c, pid, opt) ==
    {IF s.id = pid THEN [s EXCEPT !.opt = opt] ELSE s : s \in c}

-----------------------------------------------------------------------------
(* Items of a subnet: _set_subnet_item and _del_prefix_item. *)

\* Mutant: two reservations for one address pass.
ResaClashMacOnly(s, r) ==
    \E x \in s.resas : x.nid # r.nid /\ x.mac = r.mac

ResaClash(s, r) ==
    \E x \in s.resas :
        /\ x.nid # r.nid
        /\ x.mac = r.mac \/ (IpUnique /\ x.ip = r.ip)

\* The code compares the ends of the new pool with the old pool, only.
PoolClash(s, p) ==
    \E x \in s.pools :
        /\ x.rid # p.rid
        /\ \/ x.lo <= p.lo /\ p.lo <= x.hi
           \/ x.lo <= p.hi /\ p.hi <= x.hi

ResaErrors(c, pid, r) ==
    {e \in {"SubnetNotFound", "DuplicateValue"} :
        \/ e = "SubnetNotFound" /\ ~HasSubnet(c, pid)
        \/ e = "DuplicateValue" /\ \E s \in c : s.id = pid /\ ResaClash(s, r)}

PoolErrors(c, pid, p) ==
    {e \in {"SubnetNotFound", "DuplicateValue"} :
        \/ e = "SubnetNotFound" /\ ~HasSubnet(c, pid)
        \/ e = "DuplicateValue" /\ \E s \in c : s.id = pid /\ PoolClash(s, p)}

PutResa(c, pid, r) ==
    {IF s.id = pid
     THEN [s EXCEPT !.resas = {x \in s.resas : x.nid # r.nid} \cup {r}]
     ELSE s : s \in c}

PutPool(c, pid, p) ==
    {IF s.id = pid
     THEN [s EXCEPT !.pools = {x \in s.pools : x.rid # p.rid} \cup {p}]
     ELSE s : s \in c}

DropResa(c, nid) ==
    {[s EXCEPT !.resas = {x \in s.resas : x.nid # nid}] : s \in c}

DropPool(c, rid) ==
    {[s EXCEPT !.pools = {x \in s.pools : x.rid # rid}] : s \in c}

\* Mutant: any reservation for the address counts, whoever owns it.
StaleResasByAddress(c, pid, r) ==
    {x \in UNION {s.resas : s \in {t \in c : t.id = pid}} :
        x.ip = r.ip /\ x.mac # r.mac}

\* The reservations whose lease set_reservation deletes: same id, other MAC.
StaleResas(c, pid, r) ==
    {x \in UNION {s.resas : s \in {t \in c : t.id = pid}} :
        x.nid = r.nid /\ x.mac # r.mac}

\* Mutant: del_resa looks at the reservations that are already gone.
OwnedResasAfterDeletion(c, nid) ==
    {x \in UNION {s.resas : s \in DropResa(c, nid)} : x.nid = nid}

\* The reservations whose lease del_resa deletes.
OwnedResas(c, nid) ==
    {x \in UNION {s.resas : s \in c} : x.nid = nid}

-----------------------------------------------------------------------------
(* What a configuration has to satisfy. *)

SubnetsUnique(c) ==
    \A s, t \in c : s.id = t.id \/ s.net = t.net => s = t

ResasUnique(c) ==
    \A s \in c : \A x, y \in s.resas :
        \/ x.mac = y.mac
        \/ IpUnique /\ x.ip = y.ip
        \/ x.nid = y.nid /\ x.nid # NoId
        => x = y

PoolIdsUnique(c) ==
    \A s \in c : \A x, y \in s.pools :
        x.rid = y.rid /\ x.rid # NoId => x = y

PoolsDisjoint(c) ==
    \A s \in c : \A x, y \in s.pools :
        x.lo <= y.hi /\ y.lo <= x.hi => x = y

\* What the in-memory edits of DHCP4App preserve by their own checks.
Consistent(c) == SubnetsUnique(c) /\ ResasUnique(c) /\ PoolIdsUnique(c)

(***************************************************************************)
(* Kea's verdict on config-test and config-set (external): the duplicates  *)
(* and overlaps Kea refuses, and the settings it refuses.  The NetBox ids  *)
(* in user-context mean nothing to Kea.                                    *)
(***************************************************************************)
KeaAccepts(c) ==
    /\ SubnetsUnique(c)
    /\ \A s \in c : \A x, y \in s.resas :
           x.mac = y.mac \/ (IpUnique /\ x.ip = y.ip) => x = y
    /\ PoolsDisjoint(c)
    /\ \A s \in c : s.opt \notin BadOpt
=============================================================================

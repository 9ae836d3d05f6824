----------------------------- MODULE EventSync -----------------------------
(***************************************************************************)
(* The webhook listener (listener.py) and the event handlers of Connector  *)
(* (connector.py) over NetBox and one DHCP4App per server.  NetBox changes *)
(* an object and sends a webhook; the listener, one event at a time, pulls *)
(* every server's configuration, calls the handler of the object's type,   *)
(* and pushes every server.                                                *)
(*                                                                         *)
(* A handler asks NetBox several times, and NetBox may change between two  *)
(* answers.  A step of the handler is one answer of NetBox and what it     *)
(* leads to in memory, or one item set on one backend, or one push.        *)
(* Only the addresses of a subnet made anew are listed by page; the other  *)
(* lists (the prefixes around an object, the addresses of an interface,    *)
(* the ranges of a subnet) fit in one.                                     *)
(*                                                                         *)
(* auto_commit is on here (sync_all leaves it on), so that between two     *)
(* edits the working copy of a backend is its last commit: one variable,   *)
(* work, stands for both.  An edit that Kea does not answer ends the event *)
(* (Fail); its working copy is overwritten by the next pull() before       *)
(* anything reads it.  NetBox is the only one that changes the servers'    *)
(* configuration here; KeaApp has the administrator and restarts of Kea.   *)
(***************************************************************************)
EXTENDS KeaConf, Sequences, FiniteSets

CONSTANTS
    Backend,        \* servers
    BackendOrder,   \* the order of the registry
    NoBackend,      \* where an unknown tag leads
    NoMac,          \* no hardware address
    NoItem,         \* no object in hand
    Iface,          \* interfaces (of devices and virtual machines)
    AddrIn,         \* the addresses in a network
    PointIn,        \* the addresses in a network, as integers
    PageSize,       \* addresses NetBox lists at most per request
    Rank,           \* the order in which it lists addresses
    NetBoxes,       \* the contents of NetBox to start from
    PrefixMayBe, IpMayBe, RangeMayBe, MacMayBe,     \* what may become of them
    MaxChanges,     \* bound on the changes in NetBox
    MaxFaults       \* bound on lost or repeated events and failed requests

\* on: the object passes the query filter (and exists).
NetBoxPrefix == [on : BOOLEAN, net : Net, opt : Opt,
                 backend : Backend \cup {NoBackend}]
\* cf is the custom field for the hardware address.
NetBoxIp == [on : BOOLEAN, ip : Addr, cf : Mac \cup {NoMac}, iface : Iface]
NetBoxRange == [on : BOOLEAN, lo : Point, hi : Point]
NetBox == [prefix : [PrefixId -> NetBoxPrefix], ip : [IpId -> NetBoxIp],
           range : [RangeId -> NetBoxRange], mac : [Iface -> Mac \cup {NoMac}]]

Event == [model : {"prefix"}, id : PrefixId] \cup [model : {"ipaddress"}, id : IpId]
    \cup [model : {"iprange"}, id : RangeId] \cup [model : {"interface"}, id : Iface]

\* An address as NetBox answers it: it names its interface, whose hardware
\* address is another request.
Listing == [nid : IpId, ip : Addr, cf : Mac \cup {NoMac}, iface : Iface]

\* What a handler holds: addresses, reservations and pools, and prefixes.
Item == Listing \cup [nid : IpId, mac : Mac, ip : Addr]
    \cup [rid : RangeId, lo : Point, hi : Point]
Prefs == [id : PrefixId, net : Net, opt : Opt, backend : Backend]

ASSUME BackendAssumption ==
    /\ BackendOrder \in Seq(Backend) /\ BackendOrder # <<>>
    /\ \A b \in Backend : \E k \in DOMAIN BackendOrder : BackendOrder[k] = b
    /\ NoBackend \notin Backend /\ NoMac \notin Mac
ASSUME NoItemAssumption == NoItem \notin Item
ASSUME ContainmentAssumption ==
    AddrIn \in [Net -> SUBSET Addr] /\ PointIn \in [Net -> SUBSET Point]
\* By address, and then by id.
ASSUME ListAssumption ==
    /\ IsFiniteSet(IpId)
    /\ PageSize \in Nat \ {0} /\ Rank \in [IpId \X Addr -> Nat]
ASSUME MayBeAssumption ==
    /\ PrefixMayBe \in [PrefixId -> SUBSET NetBoxPrefix]
    /\ IpMayBe \in [IpId -> SUBSET NetBoxIp]
    /\ RangeMayBe \in [RangeId -> SUBSET NetBoxRange]
    /\ MacMayBe \in [Iface -> SUBSET (Mac \cup {NoMac})]
ASSUME NetBoxesAssumption == NetBoxes \subseteq NetBox
ASSUME BoundsAssumption == MaxChanges \in Nat /\ MaxFaults \in Nat

VARIABLES
    check,          \* the check option, fixed
    nb,             \* NetBox
    queue,          \* webhooks on their way
    live,           \* what each server runs
    work, staged,   \* of each DHCP4App: its last commit, _has_commit
    pc,             \* where the listener is
    ev,             \* the event it handles
    ids,            \* addresses sync_ipaddress is still to be called for
    item,           \* the reservation or pool in hand
    prefs,          \* prefixes the item is still to be set in
    cur,            \* the prefix whose subnet is being rebuilt
    items,          \* addresses or pools still to be set in it
    offset,         \* of the next page of its addresses, 0 if there is none
    seen,           \* history: the addresses of the pages before
    at,             \* position in the loop that pushes
    missed,         \* history: events lost, or with an error in the log
    moved,          \* history: objects whose former place no event names
    overlooked,     \* history: objects that a query left out of a subnet
    changes, faults \* bounds

apps == <<work, staged>>
pages == <<offset, seen>>
handler == <<pc, ev, ids, item, prefs, cur, items, pages, at>>
history == <<missed, moved, overlooked, changes, faults>>
vars == <<check, nb, queue, live, apps, handler, history>>

-----------------------------------------------------------------------------
(* What NetBox answers, and what Kea makes of it. *)

ListingOf(i) ==
    [nid |-> i, ip |-> nb.ip[i].ip, cf |-> nb.ip[i].cf, iface |-> nb.ip[i].iface]

\* _mk_dhcp_item for hw-address: the custom field, or else the interface's.
MacOf(x) == IF x.cf # NoMac THEN x.cf ELSE nb.mac[x.iface]
ResaFor(x) == [nid |-> x.nid, mac |-> MacOf(x), ip |-> x.ip]

Hw(i) == MacOf(ListingOf(i))
ResaOf(i) == ResaFor(ListingOf(i))
PoolOf(r) == [rid |-> r, lo |-> nb.range[r].lo, hi |-> nb.range[r].hi]

\* A prefix as a query returns it.
Pref(p) == [id |-> p, net |-> nb.prefix[p].net, opt |-> nb.prefix[p].opt,
            backend |-> nb.prefix[p].backend]

\* nb.prefixes(contains=...), without those whose tag no backend has.
PrefixesWithAddr(a) ==
    {Pref(p) : p \in {q \in PrefixId : nb.prefix[q].on
        /\ nb.prefix[q].backend # NoBackend /\ a \in AddrIn[nb.prefix[q].net]}}

PrefixesWithPoint(x) ==
    {Pref(p) : p \in {q \in PrefixId : nb.prefix[q].on
        /\ nb.prefix[q].backend # NoBackend /\ x \in PointIn[nb.prefix[q].net]}}

\* nb.ip_addresses(parent=...) and nb.ip_ranges(parent=...)
IpsIn(net) == {i \in IpId : nb.ip[i].on /\ nb.ip[i].ip \in AddrIn[net]}

\* The addresses before i in the list of those in net, and a page of it.
Position(i, net) ==
    Cardinality({j \in IpsIn(net) :
        Rank[<<j, nb.ip[j].ip>>] < Rank[<<i, nb.ip[i].ip>>]})

Page(net, from) ==
    {i \in IpsIn(net) : Position(i, net) \in from..(from + PageSize - 1)}

More(net, from) == \E i \in IpsIn(net) : Position(i, net) >= from + PageSize

RangesIn(net) ==
    {r \in RangeId : nb.range[r].on
        /\ nb.range[r].lo \in PointIn[net] /\ nb.range[r].hi \in PointIn[net]}

\* Mutant: an interface has one address.
MembersFirst(f) ==
    LET all == {i \in IpId : nb.ip[i].on /\ nb.ip[i].iface = f}
    IN  IF all = {} THEN {} ELSE {CHOOSE i \in all : TRUE}

\* nb.ip_addresses(interface_id=...), and so for the other three handlers.
Members(f) == {i \in IpId : nb.ip[i].on /\ nb.ip[i].iface = f}

\* Kea refuses items outside their subnet, too.
Accepts(c) ==
    /\ KeaAccepts(c)
    /\ \A s \in c :
        /\ \A r \in s.resas : r.ip \in AddrIn[s.net]
        /\ \A p \in s.pools : p.lo \in PointIn[s.net] /\ p.hi \in PointIn[s.net]

\* What a backend has to run, by NetBox.
Wanted(b) ==
    {[id |-> p, net |-> nb.prefix[p].net, opt |-> nb.prefix[p].opt,
      resas |-> {ResaOf(i) : i \in {j \in IpsIn(nb.prefix[p].net) : Hw(j) # NoMac}},
      pools |-> {PoolOf(r) : r \in RangesIn(nb.prefix[p].net)}] :
        p \in {q \in PrefixId : nb.prefix[q].on /\ nb.prefix[q].backend = b}}

\* A full synchronisation has nothing to skip, reject or abort on.
Sound ==
    /\ \A p \in PrefixId : nb.prefix[p].on => nb.prefix[p].backend # NoBackend
    /\ \A b \in Backend : Accepts(Wanted(b))

Idle ==
    /\ pc = "idle"
    /\ ids = {} /\ item = NoItem /\ prefs = {} /\ cur = NoItem /\ items = {}
    /\ offset = 0 /\ seen = {}
    /\ at = 1

\* After a full synchronisation: the servers have NetBox's content (FullSync's
\* CleanPushIsExact).
Init ==
    /\ check \in BOOLEAN
    /\ nb \in NetBoxes
    /\ Sound
    /\ queue = <<>>
    /\ live = [b \in Backend |-> Wanted(b)]
    /\ work = live
    /\ staged = [b \in Backend |-> FALSE]
    /\ Idle
    /\ ev = NoItem
    /\ missed = {} /\ moved = {} /\ overlooked = {}
    /\ changes = 0 /\ faults = 0

-----------------------------------------------------------------------------
(* NetBox changes, and its webhooks travel. *)

\* While the daemon starts, nothing listens yet.
Notify(e) ==
    IF pc = "starting" THEN queue' = queue /\ missed' = missed \cup {e}
    ELSE queue' = Append(queue, e) /\ missed' = missed

Changed ==
    /\ changes < MaxChanges
    /\ changes' = changes + 1
    /\ UNCHANGED <<check, live, apps, handler, overlooked, faults>>

\* x has left a place that its next event does not name.
Mark(x, left) == moved' = moved \cup (IF left THEN {x} ELSE {})

ChangePrefix(p) ==
    \E v \in PrefixMayBe[p] :
        LET old == nb.prefix[p]
            x == [model |-> "prefix", id |-> p]
        IN  /\ v # old
            /\ Changed
            /\ nb' = [nb EXCEPT !.prefix[p] = v]
            /\ Notify(x)
            /\ Mark(x, v.backend # old.backend)

ChangeIp(i) ==
    \E v \in IpMayBe[i] :
        LET old == nb.ip[i]
            x == [model |-> "ipaddress", id |-> i]
        IN  /\ v # old
            /\ Changed
            /\ nb' = [nb EXCEPT !.ip[i] = v]
            /\ Notify(x)
            /\ Mark(x, \E n \in Net : old.ip \in AddrIn[n] /\ v.ip \notin AddrIn[n])

ChangeRange(r) ==
    \E v \in RangeMayBe[r] :
        LET old == nb.range[r]
            x == [model |-> "iprange", id |-> r]
        IN  /\ v # old
            /\ Changed
            /\ nb' = [nb EXCEPT !.range[r] = v]
            /\ Notify(x)
            /\ Mark(x, \E n \in Net : old.lo \in PointIn[n] /\ v.lo \notin PointIn[n])

ChangeMac(f) ==
    \E v \in MacMayBe[f] :
        /\ v # nb.mac[f]
        /\ Changed
        /\ nb' = [nb EXCEPT !.mac[f] = v]
        /\ Notify([model |-> "interface", id |-> f])
        /\ UNCHANGED moved

Fault == faults < MaxFaults /\ faults' = faults + 1

\* The first webhook is lost.
Lose ==
    /\ queue # <<>>
    /\ Fault
    /\ queue' = Tail(queue)
    /\ missed' = missed \cup {Head(queue)}
    /\ UNCHANGED <<check, nb, live, apps, handler, moved, overlooked, changes>>

\* It comes a second time, after others.
Repeat ==
    /\ queue # <<>>
    /\ Fault
    /\ queue' = Append(queue, Head(queue))
    /\ UNCHANGED <<check, nb, live, apps, handler, missed, moved, overlooked, changes>>

-----------------------------------------------------------------------------
(* The listener: new_event. *)

Quiet == UNCHANGED <<check, nb, queue, live, moved, changes>>

EndEvent ==
    /\ pc' = "idle" /\ ev' = NoItem
    /\ ids' = {} /\ item' = NoItem /\ prefs' = {} /\ cur' = NoItem /\ items' = {}
    /\ offset' = 0 /\ seen' = {}
    /\ at' = 1

\* An exception leaves the handler: no push, and nobody tries again.
Raise ==
    /\ EndEvent
    /\ missed' = missed \cup {ev}
    /\ UNCHANGED <<apps, overlooked, faults>>
    /\ Quiet

\* Handling e repairs what its object missed.  A prefix that is only updated
\* keeps items that were set while it was not what Kea has.
Repair(e) ==
    /\ missed' = missed \ (IF e.model = "prefix" THEN {} ELSE {e})
    /\ overlooked' = {x \in overlooked : x[2] # e}

\* Mutant: the handler starts from what the last event left behind.
TakeKeepingWork ==
    /\ pc = "idle" /\ queue # <<>>
    /\ LET e == Head(queue) IN
        /\ queue' = Tail(queue)
        /\ ev' = e
        /\ pc' = IF e.model = "interface" THEN "list" ELSE "read"
        /\ ids' = IF e.model = "interface" THEN {} ELSE {e.id}
        /\ Repair(e)
    /\ UNCHANGED <<check, nb, live, apps, item, prefs, cur, items, pages, at>>
    /\ UNCHANGED <<moved, changes, faults>>

\* reload_dhcp_config: every backend pulls, and the handler starts.
Take ==
    /\ pc = "idle" /\ queue # <<>>
    /\ LET e == Head(queue) IN
        /\ queue' = Tail(queue)
        /\ ev' = e
        /\ pc' = IF e.model = "interface" THEN "list" ELSE "read"
        /\ ids' = IF e.model = "interface" THEN {} ELSE {e.id}
        /\ Repair(e)
    /\ work' = live
    /\ staged' = [b \in Backend |-> FALSE]
    /\ UNCHANGED <<check, nb, live, item, prefs, cur, items, pages, at>>
    /\ UNCHANGED <<moved, changes, faults>>

\* A backend does not answer its pull: those before it have pulled.
ReloadFails ==
    /\ pc = "idle" /\ queue # <<>>
    /\ Fault
    /\ \E k \in DOMAIN BackendOrder :
        LET pulled == {BackendOrder[j] : j \in 1..(k - 1)}
        IN  /\ work' = [b \in Backend |-> IF b \in pulled THEN live[b] ELSE work[b]]
            /\ staged' = [b \in Backend |-> staged[b] /\ b \notin pulled]
    /\ queue' = Tail(queue)
    /\ missed' = missed \cup {Head(queue)}
    /\ UNCHANGED <<check, nb, live, handler, moved, overlooked, changes>>

Handling == pc \notin {"idle", "starting", "push"}

\* NetBox or Kea does not answer the handler.
Fail ==
    /\ Handling
    /\ Fault
    /\ EndEvent
    /\ missed' = missed \cup {ev}
    /\ UNCHANGED <<apps, overlooked>>
    /\ Quiet

-----------------------------------------------------------------------------
(* What the handlers share. *)

Along == UNCHANGED <<ev, pages, at, faults>> /\ Quiet
Step == Along /\ UNCHANGED overlooked

\* The subnet of p is gone, or new and empty.
Forget(p) == overlooked' = {x \in overlooked : x[1] # p}

\* An edit of b that Kea accepts is its new commit.
Commit(b, c) ==
    /\ Accepts(c)
    /\ work' = [work EXCEPT ![b] = c]
    /\ staged' = [staged EXCEPT ![b] = TRUE]

\* _broadcast: a deletion on every backend (Kea never refuses fewer items).
Broadcast(confs) ==
    /\ work' = confs
    /\ staged' = [b \in Backend |-> TRUE]

\* The call for this object is over: the next object, or the push.
Over(rest) ==
    /\ ids' = rest
    /\ pc' = IF rest = {} THEN "push" ELSE "read"
    /\ item' = NoItem /\ prefs' = {} /\ cur' = NoItem /\ items' = {}
    /\ UNCHANGED missed
    /\ Along

NextObject(rest) == Over(rest) /\ UNCHANGED overlooked

\* _prefix_to_subnet(pr, fullsync=True): the subnet first, then its items.
Recreate(pr) ==
    LET b == pr.backend
        c == PutSubnet(work[b], pr.id, pr.net, pr.opt)
        duplicate == SubnetErrors(work[b], pr.id, pr.net, FALSE) # {}
    IN  \/ /\ ~duplicate
           /\ Commit(b, c)
           /\ pc' = "addresses" /\ cur' = pr /\ prefs' = prefs \ {pr}
           /\ UNCHANGED <<ids, item, items, missed>>
           /\ Along
           /\ Forget(pr.id)
        \/ /\ duplicate \/ ~Accepts(c)
           /\ Raise

-----------------------------------------------------------------------------
(* sync_prefix *)

\* The prefix is gone, or filtered out.
DeletePrefix ==
    /\ pc = "read" /\ ev.model = "prefix"
    /\ ~nb.prefix[ev.id].on
    /\ Broadcast([b \in Backend |-> DropSubnet(work[b], ev.id)])
    /\ Over({})
    /\ Forget(ev.id)

\* Its tag names no server.
SkipPrefix ==
    /\ pc = "read" /\ ev.model = "prefix"
    /\ nb.prefix[ev.id].on /\ nb.prefix[ev.id].backend = NoBackend
    /\ UNCHANGED apps
    /\ NextObject({})

\* update_subnet, which may say that the subnet has to be made anew.
UpdatePrefix ==
    /\ pc = "read" /\ ev.model = "prefix"
    /\ nb.prefix[ev.id].on /\ nb.prefix[ev.id].backend # NoBackend
    /\ LET pr == Pref(ev.id)
           b == pr.backend
           c == UpdateOptions(work[b], pr.id, pr.opt)
           errors == SubnetErrors(work[b], pr.id, pr.net, TRUE)
       IN  \/ errors = {} /\ Commit(b, c) /\ NextObject({})
           \/ errors = {} /\ ~Accepts(c) /\ Raise
           \/ "DuplicateValue" \in errors /\ Raise
           \/ errors \cap {"SubnetNotEqual", "SubnetNotFound"} # {} /\ Recreate(pr)

-----------------------------------------------------------------------------
(* sync_ipaddress, once per address for an interface, and sync_iprange *)

ListAddresses ==
    /\ pc = "list"
    /\ NextObject(Members(ev.id))
    /\ UNCHANGED apps

\* The address is gone or filtered out.
DeleteIp ==
    /\ pc = "read" /\ ev.model \in {"ipaddress", "interface"}
    /\ \E i \in ids :
        /\ ~nb.ip[i].on
        /\ Broadcast([b \in Backend |-> DropResa(work[b], i)])
        /\ NextObject(ids \ {i})

DeleteRange ==
    /\ pc = "read" /\ ev.model = "iprange"
    /\ ~nb.range[ev.id].on
    /\ Broadcast([b \in Backend |-> DropPool(work[b], ev.id)])
    /\ NextObject({})

\* The address is read, and not yet its interface.
ReadIp ==
    /\ pc = "read" /\ ev.model \in {"ipaddress", "interface"}
    /\ \E i \in ids :
        /\ nb.ip[i].on
        /\ item' = ListingOf(i)
        /\ ids' = ids \ {i}
    /\ pc' = "mac"
    /\ UNCHANGED <<apps, prefs, cur, items, missed>>
    /\ Step

\* It has no hardware address.
DeleteBare ==
    /\ pc = "mac" /\ MacOf(item) = NoMac
    /\ Broadcast([b \in Backend |-> DropResa(work[b], item.nid)])
    /\ NextObject(ids)

\* The object is read, and not yet the prefixes it is in.
ReadMac ==
    /\ pc = "mac" /\ MacOf(item) # NoMac
    /\ item' = ResaFor(item)
    /\ pc' = "prefixes"
    /\ UNCHANGED <<apps, ids, prefs, cur, items, missed>>
    /\ Step

ReadRange ==
    /\ pc = "read" /\ ev.model = "iprange"
    /\ nb.range[ev.id].on
    /\ item' = PoolOf(ev.id)
    /\ ids' = {}
    /\ pc' = "prefixes"
    /\ UNCHANGED <<apps, prefs, cur, items, missed>>
    /\ Step

QueryPrefixes ==
    /\ pc = "prefixes"
    /\ prefs' = IF ev.model = "iprange" THEN PrefixesWithPoint(item.lo)
                ELSE PrefixesWithAddr(item.ip)
    /\ LET x == IF ev.model = "iprange" THEN [model |-> "iprange", id |-> item.rid]
                ELSE [model |-> "ipaddress", id |-> item.nid]
           holds == {s \in UNION {work[b] : b \in Backend} :
                        IF ev.model = "iprange" THEN item.lo \in PointIn[s.net]
                        ELSE item.ip \in AddrIn[s.net]}
       IN  overlooked' = overlooked \cup
               {<<p, x>> : p \in {s.id : s \in holds} \ {pr.id : pr \in prefs'}}
    /\ pc' = "set"
    /\ UNCHANGED <<apps, ids, item, cur, items, missed>>
    /\ Along

\* set_pool or set_reservation in one of them.
SetItem ==
    /\ pc = "set"
    /\ \E pr \in prefs :
        LET b == pr.backend
            pool == ev.model = "iprange"
            errors == IF pool THEN PoolErrors(work[b], pr.id, item)
                      ELSE ResaErrors(work[b], pr.id, item)
            c == IF pool THEN PutPool(work[b], pr.id, item)
                 ELSE PutResa(work[b], pr.id, item)
        IN  \/ /\ errors = {}
               /\ Commit(b, c)
               /\ prefs' = prefs \ {pr}
               /\ UNCHANGED <<pc, ids, item, cur, items, missed>>
               /\ Step
            \/ errors = {} /\ ~Accepts(c) /\ Raise
            \/ "DuplicateValue" \in errors /\ Raise
            \/ "SubnetNotFound" \in errors /\ Recreate(pr)

EndItem ==
    /\ pc = "set" /\ prefs = {}
    /\ UNCHANGED apps
    /\ NextObject(ids)

-----------------------------------------------------------------------------
(* The items of a subnet made anew. *)

\* A page of the addresses; a list that changes between two pages may leave out
\* an address that was in it all the time.
QueryAddresses ==
    /\ pc = "addresses" \/ (pc = "resas" /\ items = {} /\ offset > 0)
    /\ LET page == Page(cur.net, offset)
           passed == {i \in IpsIn(cur.net) : Position(i, cur.net) < offset}
       IN  /\ items' = {ListingOf(i) : i \in page}
           /\ IF More(cur.net, offset)
              THEN offset' = offset + PageSize /\ seen' = seen \cup page
              ELSE offset' = 0 /\ seen' = {}
           /\ overlooked' = overlooked \cup
                  {<<cur.id, [model |-> "ipaddress", id |-> i]>> : i \in passed \ seen}
    /\ pc' = "resas"
    /\ UNCHANGED <<apps, ev, ids, item, prefs, cur, at, missed, faults>>
    /\ Quiet

QueryRanges ==
    /\ pc = "resas" /\ items = {} /\ offset = 0
    /\ items' = {PoolOf(r) : r \in RangesIn(cur.net)}
    /\ pc' = "pools"
    /\ UNCHANGED <<apps, ids, item, prefs, cur, missed>>
    /\ Step

\* Mutant: the subnet is made anew once more for an item that fails.
AddOrRecreate(x, e, errors, c) ==
    /\ items' = items \ {x}
    /\ \/ errors = {} /\ Commit(cur.backend, c) /\ UNCHANGED <<pc, missed>>
       \/ /\ errors # {} \/ ~Accepts(c)
          /\ pc' = "addresses"
          /\ UNCHANGED <<apps, missed>>
    /\ UNCHANGED <<ids, item, prefs, cur>>
    /\ Step

\* An item that fails is logged and left out.
AddOrLog(x, e, errors, c) ==
    /\ items' = items \ {x}
    /\ \/ errors = {} /\ Commit(cur.backend, c) /\ UNCHANGED missed
       \/ /\ errors # {} \/ ~Accepts(c)
          /\ missed' = missed \cup {e}
          /\ UNCHANGED apps
    /\ UNCHANGED <<pc, ids, item, prefs, cur>>
    /\ Step

AddResa ==
    /\ pc = "resas"
    /\ \E x \in items :
        /\ MacOf(x) # NoMac
        /\ AddOrLog(x, [model |-> "ipaddress", id |-> x.nid],
               ResaErrors(work[cur.backend], cur.id, ResaFor(x)),
               PutResa(work[cur.backend], cur.id, ResaFor(x)))

\* An address without hardware address loses its reservations everywhere.
DropBare ==
    /\ pc = "resas"
    /\ \E x \in items :
        /\ MacOf(x) = NoMac
        /\ Broadcast([b \in Backend |-> DropResa(work[b], x.nid)])
        /\ items' = items \ {x}
    /\ UNCHANGED <<pc, ids, item, prefs, cur, missed>>
    /\ Step

AddPool ==
    /\ pc = "pools"
    /\ \E x \in items :
        AddOrLog(x, [model |-> "iprange", id |-> x.rid],
            PoolErrors(work[cur.backend], cur.id, x),
            PutPool(work[cur.backend], cur.id, x))

\* Back to the item that missed the subnet, or to the end of sync_prefix.
EndRecreate ==
    /\ pc = "pools" /\ items = {}
    /\ pc' = IF item = NoItem THEN "push" ELSE "set"
    /\ cur' = NoItem
    /\ UNCHANGED <<apps, ids, item, prefs, items, missed>>
    /\ Step

-----------------------------------------------------------------------------
(* push_to_dhcp, and the process. *)

Pushing == UNCHANGED <<check, nb, queue, work, moved, overlooked, changes>>

PushNothing ==
    /\ pc = "push" /\ check
    /\ EndEvent
    /\ UNCHANGED <<live, staged, missed, faults>>
    /\ Pushing

\* Mutant: the loop goes past the last backend.
NextPushOverrun ==
    /\ IF at > Len(BackendOrder)
       THEN EndEvent
       ELSE at' = at + 1 /\ UNCHANGED <<pc, ev, ids, item, prefs, cur, items, pages>>
    /\ Pushing

\* The loop goes on to the next backend, or the event is over.
NextPush ==
    /\ IF at = Len(BackendOrder)
       THEN EndEvent
       ELSE at' = at + 1 /\ UNCHANGED <<pc, ev, ids, item, prefs, cur, items, pages>>
    /\ Pushing

Push ==
    /\ pc = "push" /\ ~check
    /\ LET b == BackendOrder[at] IN
        \/ \* nothing to push
           /\ ~staged[b]
           /\ UNCHANGED <<live, staged, missed, faults>>
           /\ NextPush
        \/ /\ staged[b]
           /\ live' = [live EXCEPT ![b] = work[b]]
           /\ staged' = [staged EXCEPT ![b] = FALSE]
           /\ UNCHANGED <<missed, faults>>
           /\ NextPush
        \/ \* config-set or config-write is refused: logged, the loop goes on
           /\ staged[b] /\ Fault
           /\ live' \in {live, [live EXCEPT ![b] = work[b]]}
           /\ staged' = [staged EXCEPT ![b] = FALSE]
           /\ missed' = missed \cup {ev}
           /\ NextPush
        \/ \* no answer: an exception, and the backends after b are not pushed
           /\ staged[b] /\ Fault
           /\ live' \in {live, [live EXCEPT ![b] = work[b]]}
           /\ missed' = missed \cup {ev}
           /\ EndEvent
           /\ UNCHANGED staged
           /\ Pushing

(***************************************************************************)
(* The process ends and starts again with a full synchronisation, which    *)
(* FullSync shows step by step; a NetBox it has errors on is left out.     *)
(* Webhooks of before may come again or not.                               *)
(***************************************************************************)
Restart ==
    /\ Fault
    /\ Sound
    /\ live' = IF check THEN live ELSE [b \in Backend |-> Wanted(b)]
    /\ work' = live'
    /\ staged' = [b \in Backend |-> FALSE]
    /\ pc' = "starting" /\ ev' = NoItem
    /\ ids' = {} /\ item' = NoItem /\ prefs' = {} /\ cur' = NoItem /\ items' = {}
    /\ offset' = 0 /\ seen' = {}
    /\ at' = 1
    /\ queue' \in {queue, <<>>}
    /\ missed' = {} /\ moved' = {} /\ overlooked' = {}
    /\ UNCHANGED <<check, nb, changes>>

Listen ==
    /\ pc = "starting"
    /\ pc' = "idle"
    /\ UNCHANGED <<check, nb, queue, live, apps>>
    /\ UNCHANGED <<ev, ids, item, prefs, cur, items, pages, at>>
    /\ UNCHANGED history

-----------------------------------------------------------------------------

Environment ==
    \/ \E p \in PrefixId : ChangePrefix(p)
    \/ \E i \in IpId : ChangeIp(i)
    \/ \E r \in RangeId : ChangeRange(r)
    \/ \E f \in Iface : ChangeMac(f)
    \/ Lose \/ Repeat

Listener ==
    \/ Take \/ ListAddresses
    \/ DeletePrefix \/ SkipPrefix \/ UpdatePrefix
    \/ DeleteIp \/ DeleteRange \/ DeleteBare
    \/ ReadIp \/ ReadMac \/ ReadRange \/ QueryPrefixes \/ SetItem \/ EndItem
    \/ QueryAddresses \/ AddResa \/ DropBare \/ QueryRanges \/ AddPool \/ EndRecreate
    \/ PushNothing \/ Push \/ Listen

Next == Environment \/ ReloadFails \/ Fail \/ Restart \/ Listener

Spec == Init /\ [][Next]_vars

\* The listener goes on as long as it has an event, or is handling one.
FairSpec == Spec /\ WF_vars(Listener)

-----------------------------------------------------------------------------
(* Properties. *)

\* Every variable keeps its type.
TypeOK ==
    /\ check \in BOOLEAN
    /\ nb \in NetBox
    /\ queue \in Seq(Event)
    /\ live \in [Backend -> Conf] /\ work \in [Backend -> Conf]
    /\ staged \in [Backend -> BOOLEAN]
    /\ pc \in {"starting", "idle", "list", "read", "mac", "prefixes", "set",
               "addresses", "resas", "pools", "push"}
    /\ ev \in Event \cup {NoItem}
    /\ ids \subseteq IpId \cup PrefixId \cup RangeId
    /\ item \in Item \cup {NoItem}
    /\ prefs \subseteq Prefs
    /\ cur \in Prefs \cup {NoItem}
    /\ items \subseteq Item
    /\ offset \in Nat /\ seen \subseteq IpId
    /\ at \in DOMAIN BackendOrder
    /\ missed \subseteq Event /\ moved \subseteq Event
    /\ overlooked \subseteq PrefixId \X Event
    /\ changes \in 0..MaxChanges /\ faults \in 0..MaxFaults

Settled == pc = "idle" /\ queue = <<>>

Excused(model, id) == [model |-> model, id |-> id] \in missed \cup moved

\* In the subnet of p.
Overlooked(p, model, id) == <<p, [model |-> model, id |-> id]>> \in overlooked

\* What is left of c when the excused objects are left out.
Visible(c) ==
    {[s EXCEPT
        !.resas = {r \in s.resas : /\ ~Excused("ipaddress", r.nid)
                                   /\ ~Excused("interface", nb.ip[r.nid].iface)
                                   /\ ~Overlooked(s.id, "ipaddress", r.nid)},
        !.pools = {p \in s.pools : /\ ~Excused("iprange", p.rid)
                                   /\ ~Overlooked(s.id, "iprange", p.rid)}] :
        s \in {t \in c : ~Excused("prefix", t.id)}}

(***************************************************************************)
(* Once the listener has handled what NetBox sent, every server runs what  *)
(* NetBox says, but for three kinds of objects: those whose event was      *)
(* lost, or ended with an error in the log, since the last full            *)
(* synchronisation (missed); those that left a network or a server, whose  *)
(* former place no event names (moved); and, in the subnet of one prefix,  *)
(* an address or range that a query left out of it (overlooked), until its *)
(* own next event or until the subnet is deleted or made anew.  A query    *)
(* leaves it out in two ways.  The prefixes of an address are asked for    *)
(* while the prefix is gone, or elsewhere, and its subnet is still there;  *)
(* when it is back, update_subnet keeps what the subnet has.  Or the list  *)
(* of a new subnet's addresses gets shorter between two pages.  The last   *)
(* two kinds are silent; EventsSuffice shows the first of them.            *)
(* Nothing else goes wrong, however the changes, the queries and the edits *)
(* interleave: an address read before a change, a subnet dropped and made  *)
(* anew, several addresses of one interface, nested prefixes               *)
(* (connector.py, sync_* and _prefix_to_subnet to _ipaddr_to_resa).        *)
(***************************************************************************)
NoSilentDivergence ==
    Settled /\ ~check => \A b \in Backend : Visible(live[b]) = Visible(Wanted(b))

\* As long as every event is handled without an error, the servers end up with
\* what NetBox says (README.md, lines 31 to 32): not so after a move.
EventsSuffice ==
    Settled /\ ~check /\ missed = {} => \A b \in Backend : live[b] = Wanted(b)

\* t is s but for what e is about.
Kept(e, s, t) ==
    /\ t.id = s.id /\ t.net = s.net /\ t.opt = s.opt
    /\ \A r \in t.resas \ s.resas :
        e.model = "interface" \/ (e.model = "ipaddress" /\ r.nid = e.id)
    /\ \A p \in (t.pools \ s.pools) \cup (s.pools \ t.pools) :
        e.model = "iprange" /\ p.rid = e.id

\* From old to new, what e is about has changed and subnets were made anew.
InScope(e, old, new) ==
    /\ \A s \in old :
        e = [model |-> "prefix", id |-> s.id] \/ \E t \in new : Kept(e, s, t)
    /\ \A t \in new :
        HasSubnet(old, t.id) \/ e.model # "prefix" \/ e.id = t.id

(***************************************************************************)
(* A push sends a whole configuration, and yet changes only what its event *)
(* is about: no subnet disappears or changes its settings but that of a    *)
(* prefix event, no pool but that of a range event, no reservation is new  *)
(* but those of an address or interface event; subnets the server did not  *)
(* have may come, and any reservation may go (an address without MAC, met  *)
(* in a subnet made anew, loses all of its).  Nothing of an earlier event  *)
(* that failed half way is in it (listener.py, reload_dhcp_config before   *)
(* each event).                                                            *)
(***************************************************************************)
FocusedPush ==
    pc = "push" => \A b \in Backend : staged[b] => InScope(ev, live[b], work[b])

(***************************************************************************)
(* The listener comes to rest: whatever NetBox does while a handler runs,  *)
(* the handlers that call each other (a missing subnet is made anew in the *)
(* middle of an address) come to an end.                                   *)
(***************************************************************************)
Settles == <>[]Settled
=============================================================================

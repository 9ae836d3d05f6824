------------------------------- MODULE KeaCB -------------------------------
(***************************************************************************)
(* DHCP4CB (kea/cb.py): the backend that keeps subnets and pools in Kea's  *)
(* configuration database and host reservations in Kea's hosts table.      *)
(* It inherits the edits of DHCP4App.  Nothing is checked at commit();     *)
(* push() writes the subnets in one transaction, then compares the host    *)
(* reservations with the table and corrects it call by call through Kea's  *)
(* API, then deletes the leases that the edits asked to delete.  A call    *)
(* that fails is logged and skipped.                                       *)
(*                                                                         *)
(* This is the backend with a control URL: without one it ignores the      *)
(* reservations.  MACs are compared in lower case by the code; here they   *)
(* are values.                                                             *)
(***************************************************************************)
EXTENDS KeaConf

CONSTANTS
    StartDbs,       \* contents of the database at the start
    StartHosts,     \* contents of the hosts table at the start
    MaxEdits,       \* bound on the edits and on the changes by others
    MaxFaults       \* bound on the calls that fail

\* A row of the hosts table; nid is NoId if it is not NetBox's.
Row == [sid : PrefixId, nid : IpId \cup {NoId}, mac : Mac, ip : Addr]
OwnResa == {r \in Resa : r.nid # NoId}
OwnPool == {p \in Pool : p.rid # NoId /\ p.lo <= p.hi}

\* The keys of the table: one row for a MAC and one for an address, by subnet.
Collide(x, y) == x.sid = y.sid /\ (x.mac = y.mac \/ x.ip = y.ip)
RowsUnique(rows) == \A x, y \in rows : Collide(x, y) => x = y

Owned(rows) == {r \in rows : r.nid # NoId}
Foreign(rows) == {r \in rows : r.nid = NoId}

\* A NetBox address of a subnet is a key too, as long as every call succeeds.
SameKey(x, y) == x.sid = y.sid /\ x.nid = y.nid
KeysUnique(rows) == \A x, y \in Owned(rows) : SameKey(x, y) => x = y

\* What the database holds of a configuration, and the rows it asks for.
Strip(c) == {[s EXCEPT !.resas = {}] : s \in c}
RowOf(s, r) == [sid |-> s.id, nid |-> r.nid, mac |-> r.mac, ip |-> r.ip]
RowsOf(c) == UNION {{RowOf(s, r) : r \in s.resas} : s \in c}

\* DHCP4CB does not read ip-reservations-unique: it is always on.
ASSUME IpUniqueHere == IpUnique
ASSUME StartDbsAssumption ==
    StartDbs \subseteq {c \in Conf : Consistent(c) /\ Strip(c) = c}
ASSUME StartHostsAssumption ==
    \A rows \in StartHosts : rows \subseteq Row /\ RowsUnique(rows)
ASSUME CbBoundsAssumption == MaxEdits \in Nat /\ MaxFaults \in Nat

VARIABLES
    \* the daemon: attributes of DHCP4CB
    pulled, conf, commitConf, hasCommit, autoCommit,
    pending,        \* _pending_lease_dels
    \* the daemon: push()
    pc,             \* "idle", or in push(): "fetch", "reconcile"
    todel, toadd,   \* calls still to make
    want,           \* desired_map
    blocked,        \* blocked_nids
    \* outside
    db, hosts,
    \* history
    base,           \* rows NetBox owned when pull() last read them
    had,            \* keys that push() found in the table and in want
    wiped,          \* subnets replaced or deleted since pull()
    asked,          \* reservations whose lease is to go, since pull()
    evicted,        \* addresses whose lease was deleted since pull()
    rebuilt,        \* del_all_subnets() was called since pull()
    done,           \* push() came to its end, and nothing was edited since
    failed,         \* a call failed since pull()
    disturbed,      \* a call failed, or a push met a row of others, ever, also
                    \* before the start: then the table may show it
    edits, faults

app == <<conf, commitConf, hasCommit>>
work == <<todel, toadd, want, blocked, had>>
past == <<base, wiped, asked, evicted, rebuilt>>
trouble == <<failed, disturbed, faults>>
vars == <<pulled, app, autoCommit, pending, pc, work, db, hosts, past, done,
          trouble, edits>>

Init ==
    /\ pulled = FALSE
    /\ conf = {} /\ commitConf = {} /\ hasCommit = FALSE
    /\ autoCommit = TRUE
    /\ pending = {}
    /\ pc = "idle"
    /\ todel = {} /\ toadd = {} /\ want = {} /\ blocked = {} /\ had = {}
    /\ db \in StartDbs
    /\ hosts \in StartHosts
    /\ base = {} /\ wiped = {} /\ asked = {} /\ evicted = {}
    /\ rebuilt = FALSE
    /\ done = FALSE
    /\ failed = FALSE
    /\ disturbed = ~KeysUnique(hosts)
    /\ edits = 0 /\ faults = 0

\* The subnets of the database, each with its rows of the hosts table.
Loaded ==
    {[s EXCEPT !.resas = {[nid |-> h.nid, mac |-> h.mac, ip |-> h.ip] :
                              h \in {x \in hosts : x.sid = s.id}}] : s \in db}

Pull ==
    /\ pc = "idle"
    /\ pulled' = TRUE
    /\ conf' = Loaded /\ commitConf' = Loaded
    /\ hasCommit' = FALSE
    /\ pending' = {}
    /\ base' = Owned(RowsOf(Loaded))
    /\ wiped' = {} /\ asked' = {} /\ evicted' = {} /\ rebuilt' = FALSE
    /\ done' = FALSE /\ failed' = FALSE
    /\ UNCHANGED <<autoCommit, pc, work, db, hosts, disturbed, faults, edits>>

-----------------------------------------------------------------------------
(* Edits: those of DHCP4App, with another commit() and another eviction. *)

\* commit() with the working copy c: recorded as it is.
CommitOf(c) == conf' = c /\ commitConf' = c /\ hasCommit' = TRUE

AfterEdit(c) ==
    IF autoCommit
    THEN CommitOf(c)
    ELSE conf' = c /\ UNCHANGED <<commitConf, hasCommit>>

Edit(errors, c) == IF errors # {} THEN UNCHANGED app ELSE AfterEdit(c)

Editing ==
    /\ pulled /\ pc = "idle"
    /\ edits < MaxEdits
    /\ edits' = edits + 1
    /\ done' = FALSE
    /\ UNCHANGED <<pulled, autoCommit, pc, work, db, hosts, base, evicted,
                   trouble>>

SetSubnet(pid, net, opt) ==
    LET errors == SubnetErrors(conf, pid, net, FALSE)
    IN  /\ Editing
        /\ Edit(errors, PutSubnet(conf, pid, net, opt))
        /\ wiped' = IF errors # {} THEN wiped ELSE wiped \cup {pid}
        /\ UNCHANGED <<pending, asked, rebuilt>>

UpdateSubnet(pid, net, opt) ==
    /\ Editing
    /\ Edit(SubnetErrors(conf, pid, net, TRUE), UpdateOptions(conf, pid, opt))
    /\ UNCHANGED <<pending, asked, wiped, rebuilt>>

DelSubnet(pid) ==
    /\ Editing
    /\ AfterEdit(DropSubnet(conf, pid))
    /\ wiped' = wiped \cup {pid}
    /\ UNCHANGED <<pending, asked, rebuilt>>

DelAllSubnets ==
    /\ Editing
    /\ AfterEdit({})
    /\ wiped' = PrefixId
    /\ rebuilt' = TRUE
    /\ UNCHANGED <<pending, asked>>

SetPool(pid, p) ==
    /\ Editing
    /\ Edit(PoolErrors(conf, pid, p), PutPool(conf, pid, p))
    /\ UNCHANGED <<pending, asked, wiped, rebuilt>>

DelPool(rid) ==
    /\ Editing
    /\ AfterEdit(DropPool(conf, rid))
    /\ UNCHANGED <<pending, asked, wiped, rebuilt>>

\* Mutant: no lease is deleted when the MAC changes.
StageNothing(rs) == UNCHANGED <<pending, asked>>

\* _evict_lease: later, by push().
Stage(rs) ==
    /\ pending' = pending \cup {r.ip : r \in rs}
    /\ asked' = asked \cup rs

\* r instead of the reservations old of subnet pid.
Replace(c, pid, old, r) ==
    {IF s.id = pid THEN [s EXCEPT !.resas = (s.resas \ old) \cup {r}] ELSE s :
        s \in c}

(***************************************************************************)
(* The table may hold two rows for one NetBox address (see Converged).     *)
(* The code then replaces the last one it finds and leaves the other.      *)
(* Equal reservations of a subnet are one here.                            *)
(***************************************************************************)
SetReservation(pid, r) ==
    LET same == {x \in UNION {s.resas : s \in {t \in conf : t.id = pid}} :
                    x.nid = r.nid}
    IN  /\ Editing
        /\ Stage(StaleResas(conf, pid, r))
        /\ \/ ResaErrors(conf, pid, r) # {} /\ UNCHANGED app
           \/ /\ ResaErrors(conf, pid, r) = {}
              /\ \E old \in SUBSET same :
                     /\ same # {} => \E x \in same : old = {x}
                     /\ AfterEdit(Replace(conf, pid, old, r))
        /\ UNCHANGED <<wiped, rebuilt>>

DelResa(nid) ==
    /\ Editing
    /\ Stage(OwnedResas(conf, nid))
    /\ AfterEdit(DropResa(conf, nid))
    /\ UNCHANGED <<wiped, rebuilt>>

Commit ==
    /\ pulled /\ pc = "idle"
    /\ CommitOf(conf)
    /\ UNCHANGED <<pulled, autoCommit, pending, pc, work, db, hosts, past, done,
                   trouble, edits>>

SetAutoCommit ==
    /\ pc = "idle"
    /\ autoCommit' = ~autoCommit
    /\ UNCHANGED <<pulled, app, pending, pc, work, db, hosts, past, done,
                   trouble, edits>>

-----------------------------------------------------------------------------
(* push(). *)

Fault ==
    /\ faults < MaxFaults
    /\ faults' = faults + 1
    /\ failed' = TRUE /\ disturbed' = TRUE

\* A call that Kea refuses needs no fault of its own.
Refused == failed' = TRUE /\ disturbed' = TRUE /\ UNCHANGED faults

\* The transaction.  An exception leaves push(), and may hide its commit.
PushDb ==
    /\ pc = "idle" /\ hasCommit
    /\ \/ /\ db' = Strip(commitConf)
          /\ hasCommit' = FALSE
          /\ pc' = "fetch"
          /\ done' = FALSE
          /\ UNCHANGED trouble
       \/ /\ Fault
          /\ db' \in {db, Strip(commitConf)}
          /\ UNCHANGED <<hasCommit, pc, done>>
    /\ UNCHANGED <<pulled, conf, commitConf, autoCommit, pending, work, hosts,
                   past, edits>>

\* Mutant: a row without a NetBox id gets a key like the others.
DictionariesOfAll(rows) ==
    {d \in SUBSET rows :
        /\ \A x, y \in d : SameKey(x, y) => x = y
        /\ \A x \in rows : \E y \in d : SameKey(x, y)}

\* A dictionary by (subnet, NetBox id) keeps one row of each key.
Dictionaries(rows) ==
    {d \in SUBSET Owned(rows) :
        /\ \A x, y \in d : SameKey(x, y) => x = y
        /\ \A x \in Owned(rows) : \E y \in d : SameKey(x, y)}

\* Mutant: the address is not looked for among the rows of others.
BlockedNever(wanted) == {}

\* Addresses of NetBox whose wanted place is taken by a row of others.
Blocked(wanted) ==
    {w.nid : w \in {x \in wanted :
        \E f \in Foreign(hosts) : f.sid = x.sid /\ f.ip = x.ip}}

\* Mutant: a row that is to change is not deleted first.
GoneOnly(current, wanted) ==
    {r \in current : ~ \E w \in wanted : SameKey(r, w)}

\* Rows to delete: gone or changed.
Gone(current, wanted) ==
    {r \in current : r \notin wanted /\ r.nid \notin Blocked(wanted)}

\* Rows to add: new or changed, and not on a place taken by others.
New(current, wanted) ==
    {w \in wanted : w \notin current
        /\ ~ \E f \in Foreign(hosts) : f.sid = w.sid /\ f.ip = w.ip}

Fetch ==
    /\ pc = "fetch"
    /\ \/ \E current \in Dictionaries(hosts),
             wanted \in Dictionaries(RowsOf(commitConf)) :
              /\ todel' = Gone(current, wanted)
              /\ toadd' = New(current, wanted)
              /\ want' = wanted
              /\ blocked' = Blocked(wanted)
              /\ had' = {w \in wanted : \E r \in current : SameKey(r, w)}
              /\ pc' = "reconcile"
              /\ disturbed' = (disturbed \/ Blocked(wanted) # {})
              /\ UNCHANGED <<failed, faults>>
       \/ /\ Fault
          /\ pc' = "idle"
          /\ UNCHANGED work
    /\ UNCHANGED <<pulled, app, autoCommit, pending, db, hosts, past, done, edits>>

\* Mutant: reservation-del names no subnet.
WithoutAddress(rows, r) == {x \in rows : x.ip # r.ip}

\* reservation-del by subnet and address.
Without(rows, r) == {x \in rows : ~(x.sid = r.sid /\ x.ip = r.ip)}

DelRow(r) ==
    /\ pc = "reconcile" /\ r \in todel
    /\ todel' = todel \ {r}
    /\ \/ hosts' = Without(hosts, r) /\ UNCHANGED trouble
       \/ Fault /\ hosts' \in {hosts, Without(hosts, r)}
    /\ UNCHANGED <<pulled, app, autoCommit, pending, pc, toadd, want, blocked,
                   had, db, past, done, edits>>

AddRow(w) ==
    /\ pc = "reconcile" /\ todel = {} /\ w \in toadd
    /\ toadd' = toadd \ {w}
    /\ \/ /\ ~ \E x \in hosts : Collide(x, w)
          /\ hosts' = hosts \cup {w}
          /\ UNCHANGED trouble \/ Fault
       \/ /\ \E x \in hosts : Collide(x, w)
          /\ Refused
          /\ UNCHANGED hosts
       \/ /\ Fault
          /\ UNCHANGED hosts
    /\ UNCHANGED <<pulled, app, autoCommit, pending, pc, todel, want, blocked,
                   had, db, past, done, edits>>

\* lease4-del for each staged address; one that fails is not tried again.
FlushEvictions ==
    /\ pc = "reconcile" /\ todel = {} /\ toadd = {}
    /\ \/ evicted' = evicted \cup pending /\ UNCHANGED trouble
       \/ /\ Fault
          /\ \E gone \in SUBSET pending : evicted' = evicted \cup gone
    /\ pending' = {}
    /\ pc' = "idle"
    /\ done' = TRUE
    /\ UNCHANGED <<pulled, app, autoCommit, work, db, hosts, base, wiped, asked,
                   rebuilt, edits>>

-----------------------------------------------------------------------------

Crash ==
    /\ pulled
    /\ pulled' = FALSE
    /\ conf' = {} /\ commitConf' = {} /\ hasCommit' = FALSE
    /\ autoCommit' = TRUE
    /\ pending' = {}
    /\ pc' = "idle"
    /\ todel' = {} /\ toadd' = {} /\ want' = {} /\ blocked' = {} /\ had' = {}
    /\ done' = FALSE
    /\ UNCHANGED <<db, hosts, past, trouble, edits>>

\* Another tool adds a reservation of its own.
AddForeign(f) ==
    /\ edits < MaxEdits
    /\ edits' = edits + 1
    /\ ~ \E x \in hosts : Collide(x, f)
    /\ hosts' = hosts \cup {f}
    /\ UNCHANGED <<pulled, app, autoCommit, pending, pc, work, db, past, done,
                   trouble>>

EditSubnets ==
    \/ \E pid \in PrefixId, net \in Net, opt \in Opt :
           SetSubnet(pid, net, opt) \/ UpdateSubnet(pid, net, opt)
    \/ \E pid \in PrefixId : DelSubnet(pid)
    \/ DelAllSubnets

EditItems ==
    \/ \E pid \in PrefixId, p \in OwnPool : SetPool(pid, p)
    \/ \E rid \in RangeId : DelPool(rid)
    \/ \E pid \in PrefixId, r \in OwnResa : SetReservation(pid, r)
    \/ \E nid \in IpId : DelResa(nid)

Push ==
    \/ PushDb \/ Fetch
    \/ \E r \in todel : DelRow(r)
    \/ \E w \in toadd : AddRow(w)
    \/ FlushEvictions

Next ==
    \/ Pull
    \/ EditSubnets \/ EditItems
    \/ Commit \/ SetAutoCommit
    \/ Push
    \/ Crash
    \/ \E f \in Foreign(Row) : AddForeign(f)

Spec == Init /\ [][Next]_vars

-----------------------------------------------------------------------------
(* Properties. *)

TypeOK ==
    /\ pulled \in BOOLEAN /\ hasCommit \in BOOLEAN /\ autoCommit \in BOOLEAN
    /\ conf \in Conf /\ commitConf \in Conf /\ db \in Conf
    /\ pending \subseteq Addr /\ evicted \subseteq Addr
    /\ asked \subseteq OwnResa
    /\ pc \in {"idle", "fetch", "reconcile"}
    /\ hosts \subseteq Row /\ base \subseteq Row
    /\ todel \subseteq Owned(Row) /\ toadd \subseteq Owned(Row)
    /\ want \subseteq Owned(Row) /\ had \subseteq Owned(Row)
    /\ blocked \subseteq IpId
    /\ wiped \subseteq PrefixId
    /\ rebuilt \in BOOLEAN /\ done \in BOOLEAN
    /\ failed \in BOOLEAN /\ disturbed \in BOOLEAN
    /\ edits \in 0..MaxEdits /\ faults \in 0..MaxFaults

(***************************************************************************)
(* "Rows without it are foreign (manual or other tooling) and are never    *)
(* touched", although they are loaded, wiped in memory by a full           *)
(* synchronisation, and reservation-del names an address and not an owner. *)
(***************************************************************************)
ForeignRowsKept == [][Foreign(hosts) \subseteq hosts']_vars

(***************************************************************************)
(* A push that met no failure drops no NetBox address from a subnet that   *)
(* had it and is to keep it: what is deleted to be changed is added again, *)
(* also when a row of others takes the new place.                          *)
(***************************************************************************)
NothingDropped ==
    pc = "idle" /\ done /\ ~failed =>
        \A w \in had : \E h \in hosts : SameKey(h, w)

\* The table has exactly the rows of the last push, but for those of NetBox
\* addresses that met a row of others.
Exact ==
    {h \in Owned(hosts) : h.nid \notin blocked} =
        {w \in want : w.nid \notin blocked}

(***************************************************************************)
(* As long as no call ever failed and no row of others was in the way,     *)
(* every push leaves exactly what was committed: the rows of subnets that  *)
(* are gone are deleted, and those of two addresses that change places are *)
(* both there.                                                             *)
(***************************************************************************)
PushIsExact == pc = "idle" /\ done /\ ~disturbed => Exact

(***************************************************************************)
(* "netbox ids whose desired target address is held by a foreign row:      *)
(* their adds will be skipped, so their old rows must be kept too".  Ids   *)
(* are compared without the subnet: an id that is blocked in one subnet    *)
(* and changed in another keeps its old row there and gets the new one.    *)
(***************************************************************************)
BlockedAddsSkipped ==
    [][\A h \in Owned(hosts' \ hosts) : h.nid \notin blocked]_vars

(***************************************************************************)
(* "API failures are logged and skipped -- the next full sync converges":  *)
(* a full synchronisation without a failure of its own leaves exactly what *)
(* was committed, whatever failed before.  It does not: after a failed     *)
(* reservation-del there can be two rows for one NetBox address, and push  *)
(* sees one of them.                                                       *)
(***************************************************************************)
Converged == pc = "idle" /\ done /\ rebuilt /\ ~failed => Exact

(***************************************************************************)
(* A NetBox address is taken from a MAC only together with a lease of that *)
(* MAC, although the lease waits for push(): a row that pull() read, of a  *)
(* subnet not replaced since, has a successor for the same MAC, or a lease *)
(* of that MAC was deleted, or a call failed.                              *)
(***************************************************************************)
SameHolder(x, y) == x.nid = y.nid /\ x.mac = y.mac

HandOver ==
    pulled /\ pc = "idle" /\ ~failed =>
        \A r \in base :
            \/ r.sid \in wiped
            \/ \E e \in asked : SameHolder(e, r) /\ e.ip \in evicted
            \/ \E h \in hosts : SameKey(h, r) /\ h.mac = r.mac
=============================================================================

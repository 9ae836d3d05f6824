---------------------------- MODULE LeaseReflect ----------------------------
(***************************************************************************)
(* Leases reflected into NetBox.  One thread per lease source polls a Kea  *)
(* server (lease_poller.py); the listener handles what the servers' hook   *)
(* script posts to /lease/ (listener.py, Connector.sync_lease); both write *)
(* NetBox addresses through NetboxApp (netbox.py), with requests that      *)
(* interleave.  A step is one request.                                     *)
(*                                                                         *)
(* A lease belongs to a client, which stands for what a record shows of    *)
(* it: the host name, and the MAC in the description.  The rest of the     *)
(* description says who wrote the record: a source, by its marker, or the  *)
(* hook, or people.  A record is dhcp when the query of upsert_dhcp_ip and *)
(* delete_dhcp_ip finds it: status dhcp, and the address written as /32.   *)
(***************************************************************************)
EXTENDS Naturals, FiniteSets

CONSTANTS
    Source,         \* lease sources, one thread each
    Addr,           \* addresses, in Kea's order
    Served,         \* the source whose server leases an address
    Hooked,         \* addresses whose server also runs the hook script
    Client,         \* holders of leases
    Ended,          \* a lease of another state than 0
    NoLease,        \* no lease
    Hook, People,   \* other authors of records
    NoRecord,       \* nothing found
    Rid,            \* NetBox ids, as many as a run needs
    FirstRecords,   \* the records people made, to start from
    FirstLeases,    \* the leases to start from: they predate the daemon
    PageLimit,      \* PAGE_LIMIT
    ListLimit,      \* records NetBox lists at most per request
    MaxLeases,      \* bound on the changes of leases
    MaxFaults       \* bound on lost calls, failed requests and claims

Author == Source \cup {Hook, People}
Record == [rid : Rid, addr : Addr, dhcp : BOOLEAN, by : Author,
           who : Client \cup {NoRecord}]
Lease == [addr : Addr, who : Client]
Call == [action : {"add"}, addr : Addr, who : Client]
    \cup [action : {"del"}, addr : Addr]

ASSUME AddrAssumption == Addr \subseteq Nat \ {0} /\ IsFiniteSet(Addr)
ASSUME RidAssumption == Rid \subseteq Nat
ASSUME ServedAssumption == Served \in [Addr -> Source] /\ Hooked \subseteq Addr
ASSUME NamesAssumption ==
    /\ Hook \notin Source /\ People \notin Source /\ Hook # People
    /\ Ended \notin Client /\ NoLease \notin Client /\ Ended # NoLease
    /\ NoRecord \notin Record /\ NoRecord \notin Client
ASSUME PageAssumption == PageLimit \in Nat \ {0} /\ ListLimit \in Nat \ {0}
ASSUME RecordsAssumption ==
    \A f \in FirstRecords :
        /\ f \subseteq {r \in Record : r.by = People /\ r.who = NoRecord}
        /\ IsFiniteSet(f)
        /\ \A q, r \in f : q.rid = r.rid => q = r
ASSUME LeasesAssumption == FirstLeases \subseteq [Addr -> Client \cup {Ended, NoLease}]
ASSUME BoundsAssumption == MaxLeases \in Nat /\ MaxFaults \in Nat

VARIABLES
    lease,          \* the servers' leases, by address
    nb,             \* the addresses in NetBox
    calls,          \* calls of the hook script on their way
    pc,             \* where a poller is, by source
    cursor,         \* the last address of its last page
    active,         \* the active leases it has read
    listed,         \* the offset of the next page of NetBox's list
    current,        \* its records it has read, and then those to delete
    todo,           \* leases to reflect
    hand, found,    \* the lease in hand, the record to update for it
    call,           \* the call the listener handles
    target,         \* what it found to update or to delete
    clean,          \* history: nothing disturbed the source's last pass
    mine,           \* history: records of people no thread had in hand
    changes, faults \* bounds

poller == <<pc, cursor, active, listed, current, todo, hand, found>>
listener == <<call, target>>
vars == <<lease, nb, calls, poller, listener, clean, mine, changes, faults>>

-----------------------------------------------------------------------------
(* Queries and writes of NetboxApp. *)

Rids == {r.rid : r \in nb}

\* Mutant: any record of the address, whatever its status.
MatchesAnyStatus(a) == {r \in nb : r.addr = a}

\* ip_addresses.filter(address=..., status='dhcp')
Matches(a) == {r \in nb : r.addr = a /\ r.dhcp}

\* The first match, if there is one: which one is NetBox's choice.
FirstMatch(a) == IF Matches(a) = {} THEN {NoRecord} ELSE Matches(a)

\* Of dhcp_ips(), the records with the marker of s.
Own(s) == {r \in nb : r.dhcp /\ r.by = s}

\* The records some thread is about to write, or has read to decide.
InHand ==
    {r.rid : r \in UNION {current[s] : s \in Source}}
        \cup {found[s].rid : s \in {t \in Source : found[t] # NoRecord}}
        \cup {r.rid : r \in target \ {NoRecord}}

\* dhcp_ips(): NetBox lists by address and id, page by page.  The place of r is
\* the number of records before it.
Place(r) ==
    Cardinality({q.rid : q \in {d \in nb : d.dhcp
        /\ (d.addr < r.addr \/ (d.addr = r.addr /\ d.rid < r.rid))}})

ListPage(from) ==
    {r \in nb : r.dhcp /\ Place(r) \in from..(from + ListLimit - 1)}

More(from) == \E r \in nb : r.dhcp /\ Place(r) >= from + ListLimit

\* Ids are never used again: the next one is free, and nobody remembers it.
NewRid ==
    LET free == Rid \ (Rids \cup InHand) IN {i \in free : \A j \in free : i <= j}

\* One of them for each address: the dictionary keeps the last.
OnePerAddress(own) ==
    {c \in SUBSET own :
        /\ {r.addr : r \in c} = {r.addr : r \in own}
        /\ \A q, r \in c : q.addr = r.addr => q = r}

\* The second half of upsert_dhcp_ip: an update sends what differs from the
\* record that was read.  The result is all that NetBox may contain after it.
Upserted(old, by, l) ==
    IF old = NoRecord
    THEN {nb \cup {[rid |-> i, addr |-> l.addr, dhcp |-> TRUE, by |-> by, who |-> l.who]} :
             i \in NewRid}
    ELSE IF old.by = by /\ old.who = l.who THEN {nb}
    ELSE {{IF r.rid = old.rid THEN [r EXCEPT !.by = by, !.who = l.who] ELSE r : r \in nb}}

\* The request names a record that is no more: an exception.
Vanished(old, by, l) ==
    /\ old # NoRecord /\ old.rid \notin Rids
    /\ old.by # by \/ old.who # l.who

Deleted(old) == {r \in nb : r.rid # old.rid}

-----------------------------------------------------------------------------
(* Kea and people. *)

Init ==
    /\ lease \in FirstLeases
    /\ nb \in FirstRecords
    /\ calls = {}
    /\ pc = [s \in Source |-> "sleep"]
    /\ cursor = [s \in Source |-> 0]
    /\ active = [s \in Source |-> {}]
    /\ todo = [s \in Source |-> {}]
    /\ listed = [s \in Source |-> 0]
    /\ current = [s \in Source |-> {}]
    /\ hand = [s \in Source |-> NoRecord]
    /\ found = [s \in Source |-> NoRecord]
    /\ call = NoRecord
    /\ target = {}
    /\ clean = [s \in Source |-> FALSE]
    /\ mine = {r \in nb : ~r.dhcp}
    /\ changes = 0 /\ faults = 0

\* A lease is given, passes to another client, ends or is forgotten.  The
\* hook script posts the first two and the third.
ChangeLease(a) ==
    /\ changes < MaxLeases
    /\ \E new \in Client \cup {Ended, NoLease} :
        /\ new # lease[a]
        /\ new = Ended => lease[a] \in Client
        /\ lease' = [lease EXCEPT ![a] = new]
        /\ calls' =
            IF a \notin Hooked THEN calls
            ELSE IF new \in Client
            THEN calls \cup {[action |-> "add", addr |-> a, who |-> new]}
            ELSE IF lease[a] \in Client
            THEN calls \cup {[action |-> "del", addr |-> a]}
            ELSE calls
    /\ changes' = changes + 1
    /\ clean' = [clean EXCEPT ![Served[a]] = FALSE]
    /\ UNCHANGED <<nb, poller, listener, mine, faults>>

(***************************************************************************)
(* History.  What happens disturbs the passes of the sources in dis, and,  *)
(* if a record leaves NetBox's list, the pass of a source that is between  *)
(* two pages of it: the records after it move up, and one that moves to    *)
(* the page before is read by no request.                                  *)
(***************************************************************************)
Between(s) == pc[s] = "list" /\ listed[s] > 0

ListKept ==
    \A r \in nb : r.dhcp => \E q \in nb' : q.dhcp /\ q.rid = r.rid /\ q.addr = r.addr

Disturbs(dis) ==
    clean' = [s \in Source |-> clean[s] /\ s \notin dis /\ (Between(s) => ListKept)]

Fault == faults < MaxFaults /\ faults' = faults + 1

\* A call of the hook script does not arrive.  (They arrive in any order.)
LoseCall ==
    /\ Fault
    /\ \E c \in calls : calls' = calls \ {c}
    /\ UNCHANGED <<lease, nb, poller, listener, clean, mine, changes>>

\* Somebody makes a reflected address their own, with another status.
Claim ==
    /\ Fault
    /\ \E r \in nb :
        LET own == [r EXCEPT !.dhcp = FALSE, !.by = People]
        IN  /\ r.dhcp
            /\ nb' = (nb \ {r}) \cup {own}
            /\ mine' = IF r.rid \in InHand THEN mine ELSE mine \cup {own}
            /\ Disturbs({Served[r.addr]})
    /\ UNCHANGED <<lease, calls, poller, listener, changes>>

-----------------------------------------------------------------------------
(* A poller: run_forever and sync_once. *)

Others(s) == UNCHANGED <<lease, calls, listener, mine, changes>>

\* A pass, or what is left of it, is over.
Sleep(s) ==
    /\ pc' = [pc EXCEPT ![s] = "sleep"]
    /\ cursor' = [cursor EXCEPT ![s] = 0]
    /\ active' = [active EXCEPT ![s] = {}]
    /\ todo' = [todo EXCEPT ![s] = {}]
    /\ listed' = [listed EXCEPT ![s] = 0]
    /\ current' = [current EXCEPT ![s] = {}]
    /\ hand' = [hand EXCEPT ![s] = NoRecord]
    /\ found' = [found EXCEPT ![s] = NoRecord]

\* Mutant: the exception leaves the loop, and with it the thread.
AbandonThread(s) ==
    /\ pc' = [pc EXCEPT ![s] = "ended"]
    /\ UNCHANGED <<cursor, active, listed, current, todo, hand, found>>
    /\ Disturbs({s})
    /\ Others(s)

\* An exception is logged; the next pass starts from nothing.
Abandon(s) ==
    /\ Sleep(s)
    /\ Disturbs({s})
    /\ Others(s)

\* No call for an address of s is on its way.
NoCalls(s) ==
    \A c \in calls \cup ({call} \ {NoRecord}) : Served[c.addr] # s

\* The leases after the cursor, as the server has them now.
Rest(s) == {a \in Addr : Served[a] = s /\ lease[a] # NoLease /\ a > cursor[s]}

\* lease4-get-page: the first PAGE_LIMIT of them.
Page(s) ==
    {a \in Rest(s) : Cardinality({b \in Rest(s) : b < a}) < PageLimit}

\* Mutant: a full page is the last one.
FetchOnePage(s) ==
    /\ pc[s] \in {"sleep", "fetch"}
    /\ active' = [active EXCEPT ![s] = @ \cup
            {[addr |-> a, who |-> lease[a]] : a \in {b \in Page(s) : lease[b] # Ended}}]
    /\ pc' = [pc EXCEPT ![s] = "list"] /\ UNCHANGED cursor
    /\ clean' = [clean EXCEPT ![s] = IF pc[s] = "sleep" THEN NoCalls(s) ELSE @]
    /\ UNCHANGED <<nb, listed, current, todo, hand, found, faults>>
    /\ Others(s)

\* Mutant: leases of every state are active.
FetchAnyState(s) ==
    /\ pc[s] \in {"sleep", "fetch"}
    /\ active' = [active EXCEPT ![s] = @ \cup
            {[addr |-> a, who |-> lease[a]] : a \in Page(s)}]
    /\ pc' = [pc EXCEPT ![s] = "list"] /\ UNCHANGED cursor
    /\ clean' = [clean EXCEPT ![s] = IF pc[s] = "sleep" THEN NoCalls(s) ELSE @]
    /\ UNCHANGED <<nb, listed, current, todo, hand, found, faults>>
    /\ Others(s)

\* The first page begins a pass.  fetch_leases asks page by page, and the
\* leases of state 0 are the active ones.
Fetch(s) ==
    /\ pc[s] \in {"sleep", "fetch"}
    /\ active' = [active EXCEPT ![s] = @ \cup
            {[addr |-> a, who |-> lease[a]] : a \in {b \in Page(s) : lease[b] # Ended}}]
    /\ IF Cardinality(Page(s)) < PageLimit
       THEN pc' = [pc EXCEPT ![s] = "list"] /\ UNCHANGED cursor
       ELSE /\ \E last \in Page(s) :
                /\ \A b \in Page(s) : b <= last
                /\ cursor' = [cursor EXCEPT ![s] = last]
            /\ pc' = [pc EXCEPT ![s] = "fetch"]
    /\ clean' = [clean EXCEPT ![s] = IF pc[s] = "sleep" THEN NoCalls(s) ELSE @]
    /\ UNCHANGED <<nb, listed, current, todo, hand, found, faults>>
    /\ Others(s)

\* A page of NetBox's list: the records of s on it.  The last page says what is
\* to be done: leases to reflect, and records to delete.
List(s) ==
    /\ pc[s] = "list"
    /\ LET read == current[s] \cup (Own(s) \cap ListPage(listed[s])) IN
        \/ /\ More(listed[s])
           /\ current' = [current EXCEPT ![s] = read]
           /\ listed' = [listed EXCEPT ![s] = @ + ListLimit]
           /\ UNCHANGED <<pc, active, todo>>
        \/ /\ ~More(listed[s])
           /\ \E kept \in OnePerAddress(read) :
                /\ todo' = [todo EXCEPT ![s] = {l \in active[s] :
                       ~\E r \in kept : r.addr = l.addr /\ r.who = l.who}]
                /\ current' = [current EXCEPT ![s] =
                       {r \in kept : ~\E l \in active[s] : l.addr = r.addr}]
           /\ listed' = [listed EXCEPT ![s] = 0]
           /\ active' = [active EXCEPT ![s] = {}]
           /\ pc' = [pc EXCEPT ![s] = "upsert"]
    /\ UNCHANGED <<nb, cursor, hand, found, clean, faults>>
    /\ Others(s)

\* upsert_dhcp_ip asks for the address,
Find(s) ==
    /\ pc[s] = "upsert"
    /\ \E l \in todo[s] : \E r \in FirstMatch(l.addr) :
        /\ todo' = [todo EXCEPT ![s] = @ \ {l}]
        /\ hand' = [hand EXCEPT ![s] = l]
        /\ found' = [found EXCEPT ![s] = r]
    /\ pc' = [pc EXCEPT ![s] = "write"]
    /\ UNCHANGED <<nb, cursor, active, listed, current, clean, faults>>
    /\ Others(s)

\* and updates it or creates it.
Write(s) ==
    /\ pc[s] = "write"
    /\ ~Vanished(found[s], s, hand[s])
    /\ nb' \in Upserted(found[s], s, hand[s])
    /\ pc' = [pc EXCEPT ![s] = "upsert"]
    /\ hand' = [hand EXCEPT ![s] = NoRecord]
    /\ found' = [found EXCEPT ![s] = NoRecord]
    /\ Disturbs({})
    /\ UNCHANGED <<cursor, active, listed, current, todo, faults>>
    /\ Others(s)

\* What is not leased any more is deleted, by the id that was read.
Delete(s) ==
    /\ pc[s] = "upsert" /\ todo[s] = {}
    /\ \E r \in current[s] :
        /\ r.rid \in Rids
        /\ nb' = Deleted(r)
        /\ current' = [current EXCEPT ![s] = @ \ {r}]
    /\ Disturbs({})
    /\ UNCHANGED <<pc, cursor, active, listed, todo, hand, found, faults>>
    /\ Others(s)

\* Somebody else has deleted the record: an exception ends the pass.
Gone(s) ==
    /\ \/ pc[s] = "write" /\ Vanished(found[s], s, hand[s])
       \/ /\ pc[s] = "upsert" /\ todo[s] = {}
          /\ \E r \in current[s] : r.rid \notin Rids
    /\ UNCHANGED <<nb, faults>>
    /\ Abandon(s)

EndPass(s) ==
    /\ pc[s] = "upsert" /\ todo[s] = {} /\ current[s] = {}
    /\ Sleep(s)
    /\ UNCHANGED <<nb, clean, faults>>
    /\ Others(s)

\* A request fails, or is done and its answer is lost.
PollFails(s) ==
    /\ pc[s] # "sleep"
    /\ Fault
    /\ \/ UNCHANGED nb
       \/ pc[s] = "write" /\ nb' \in Upserted(found[s], s, hand[s])
       \/ pc[s] = "upsert" /\ todo[s] = {} /\ \E r \in current[s] : nb' = Deleted(r)
    /\ Abandon(s)

-----------------------------------------------------------------------------
(* The listener: new_lease and sync_lease, one call at a time. *)

Aside == UNCHANGED <<lease, poller, mine, changes>> /\ Disturbs({})

\* The first request asks NetBox for the address.
TakeCall ==
    /\ call = NoRecord
    /\ \E c \in calls :
        /\ calls' = calls \ {c}
        /\ call' = c
        /\ IF c.action = "add"
           THEN \E r \in FirstMatch(c.addr) : target' = {r}
           ELSE target' = Matches(c.addr)
    /\ UNCHANGED <<nb, faults>>
    /\ Aside

EndCall == call' = NoRecord /\ target' = {} /\ UNCHANGED calls

\* action add: upsert_dhcp_ip
WriteCall ==
    /\ call # NoRecord /\ call.action = "add"
    /\ \E r \in target :
        /\ ~Vanished(r, Hook, call)
        /\ nb' \in Upserted(r, Hook, call)
    /\ EndCall
    /\ UNCHANGED faults
    /\ Aside

\* action del: delete_dhcp_ip, one record after the other
DeleteCall ==
    /\ call # NoRecord /\ call.action = "del"
    /\ \E r \in target :
        /\ r.rid \in Rids
        /\ nb' = Deleted(r)
        /\ target' = target \ {r}
    /\ UNCHANGED <<calls, call, faults>>
    /\ Aside

EndDeletes ==
    /\ call # NoRecord /\ call.action = "del" /\ target = {}
    /\ EndCall
    /\ UNCHANGED <<nb, faults>>
    /\ Aside

\* A record to write is no more: the hook script gets a 500.
CallGone ==
    /\ call # NoRecord
    /\ \E r \in target :
        IF call.action = "add" THEN Vanished(r, Hook, call) ELSE r.rid \notin Rids
    /\ EndCall
    /\ UNCHANGED <<nb, faults>>
    /\ Aside

\* A request fails, or is done and its answer is lost: a 500 again.
CallFails ==
    /\ call # NoRecord
    /\ Fault
    /\ \/ UNCHANGED nb
       \/ call.action = "add" /\ \E r \in target : nb' \in Upserted(r, Hook, call)
       \/ call.action = "del" /\ \E r \in target : nb' = Deleted(r)
    /\ EndCall
    /\ Aside

-----------------------------------------------------------------------------

Poll(s) ==
    Fetch(s) \/ List(s) \/ Find(s) \/ Write(s) \/ Delete(s) \/ Gone(s)
        \/ EndPass(s)

Listen == TakeCall \/ WriteCall \/ DeleteCall \/ EndDeletes \/ CallGone

Next ==
    \/ \E a \in Addr : ChangeLease(a)
    \/ LoseCall \/ Claim
    \/ \E s \in Source : Poll(s) \/ PollFails(s)
    \/ Listen \/ CallFails

Spec == Init /\ [][Next]_vars

\* The threads go on: run_forever sleeps and polls again, the listener serves.
FairSpec == Spec /\ (\A s \in Source : WF_vars(Poll(s))) /\ WF_vars(Listen)

-----------------------------------------------------------------------------
(* Properties. *)

\* Every variable keeps its type.
TypeOK ==
    /\ lease \in [Addr -> Client \cup {Ended, NoLease}]
    /\ nb \subseteq Record
    /\ calls \subseteq Call
    /\ pc \in [Source -> {"sleep", "fetch", "list", "upsert", "write"}]
    /\ cursor \in [Source -> Addr \cup {0}]
    /\ active \in [Source -> SUBSET Lease]
    /\ listed \in [Source -> Nat]
    /\ current \in [Source -> SUBSET Record]
    /\ todo \in [Source -> SUBSET Lease]
    /\ hand \in [Source -> Lease \cup {NoRecord}]
    /\ found \in [Source -> Record \cup {NoRecord}]
    /\ call \in Call \cup {NoRecord}
    /\ target \subseteq Record \cup {NoRecord}
    /\ clean \in [Source -> BOOLEAN]
    /\ mine \subseteq Record
    /\ changes \in 0..MaxLeases /\ faults \in 0..MaxFaults

(***************************************************************************)
(* A record that people made or took over stays as it is, whatever leases  *)
(* its address has: both threads write by ids they read a while ago        *)
(* (netbox.py, upsert_dhcp_ip and delete_dhcp_ip; lease_poller.py,         *)
(* obj.delete()).  Not so for a record with the status dhcp, nor for one   *)
(* that is taken over while a thread has it in hand.                       *)
(***************************************************************************)
PeopleKept == mine \subseteq nb

\* Addresses for which people made two records with the status dhcp: the first
\* match may be the one today and the other tomorrow, and both get the marker.
Doubled ==
    {a \in Addr : \E f \in FirstRecords : \E q, r \in f :
        q # r /\ q.dhcp /\ r.dhcp /\ q.addr = a /\ r.addr = a}

(***************************************************************************)
(* A pass during which no lease of the source changed, no call for its     *)
(* addresses was on its way, no request failed, and no record left         *)
(* NetBox's list between two pages of it, leaves every active lease with a *)
(* record of its client and the source's marker; and where no hook writes, *)
(* and people made no two records, exactly one record for it and none for  *)
(* the others.  Whatever failed passes, lost answers and other sources did *)
(* before (lease_poller.py, sync_once over pages of lease4-get-page and of *)
(* dhcp_ips).                                                              *)
(***************************************************************************)
PassIsExact ==
    \A s \in Source : clean[s] /\ pc[s] = "sleep" =>
        \A a \in Addr : Served[a] = s =>
            /\ lease[a] \in Client => \E r \in Own(s) : r.addr = a /\ r.who = lease[a]
            /\ a \notin Hooked \cup Doubled =>
                Cardinality({r \in Matches(a) : r.by # People}) =
                    IF lease[a] \in Client THEN 1 ELSE 0

\* The active leases have their records, and no address without one has a
\* record of its source.
Reflected ==
    \A a \in Addr :
        LET own == {r \in Own(Served[a]) : r.addr = a}
        IN  IF lease[a] \in Client THEN \E r \in own : r.who = lease[a] ELSE own = {}

(***************************************************************************)
(* Once the leases rest, the records follow them and stay so: although     *)
(* calls are late, lost, or overtake each other, the listener and a poller *)
(* write and delete the same records, and a pass ends at any exception     *)
(* (lease_poller.py, run_forever).                                         *)
(***************************************************************************)
EventuallyReflected == <>[]Reflected
=============================================================================

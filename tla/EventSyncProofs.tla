--------------------------- MODULE EventSyncProofs ---------------------------
(***************************************************************************)
(* For any number of servers, prefixes, addresses and changes: the         *)
(* listener of EventSync keeps its types (EventTypes); a push changes only *)
(* what its event is about (PushesAreFocused); and once everything is      *)
(* handled, the servers run what NetBox says, but for the objects whose    *)
(* event went wrong in the log, or that left a place no event names, or    *)
(* that a query left out of a subnet (NoDivergenceIsSilent).  The last     *)
(* rests on the invariant InStep, which says for every place of a handler  *)
(* what it has still to do: what NetBox changes (Drift) is told of, and    *)
(* what a handler has done stays done.                                     *)
(***************************************************************************)
EXTENDS EventSync, KeaConfProofs, FiniteSetTheorems

\* What the handlers hold: a reservation of an address, a pool of a range.
ResaItem == [nid : IpId, mac : Mac, ip : Addr]
PoolItem == [rid : RangeId, lo : Point, hi : Point]

\* The objects an event lists for sync_ipaddress.
Lists(e, is) ==
    /\ e.model = "ipaddress" => is \subseteq {e.id}
    /\ e.model = "interface" => is \subseteq IpId

\* The address in hand, or the item, is one the event is about.
FitsAddress(e, x) ==
    /\ e.model \in {"ipaddress", "interface"} /\ x \in Listing
    /\ e.model = "ipaddress" => x.nid = e.id
Fits(e, x) ==
    \/ e.model = "iprange" /\ x \in PoolItem /\ x.rid = e.id
    \/ e.model = "ipaddress" /\ x \in ResaItem /\ x.nid = e.id
    \/ e.model = "interface" /\ x \in ResaItem

Busy == pc \notin {"idle", "starting"}
Rebuilding == pc \in {"addresses", "resas", "pools"}

\* What each place of the handler knows of its variables.
HandlerOK ==
    /\ Busy => ev \in Event /\ Lists(ev, ids)
    /\ pc \in {"idle", "starting", "list", "read", "push"} => item = NoItem
    /\ pc = "list" => ev.model = "interface"
    /\ pc = "mac" => FitsAddress(ev, item)
    /\ pc \in {"prefixes", "set"} => Fits(ev, item)
    /\ Rebuilding => cur \in Prefs /\ (item # NoItem => Fits(ev, item))
    /\ pc = "resas" => items \subseteq Listing
    /\ pc # "resas" => offset = 0
    /\ offset = 0 => seen = {}
    /\ pc = "pools" => items \subseteq PoolItem

Inv == TypeOK /\ HandlerOK

Untouched == UNCHANGED <<check, nb, queue, live, moved, changes>>

\* What the steps of a handler leave alone keeps its type.
LEMMA HandlerStep ==
    ASSUME TypeOK, Untouched, ev' \in Event \cup {NoItem},
           work' \in [Backend -> Conf], staged' \in [Backend -> BOOLEAN],
           pc' \in {"starting", "idle", "list", "read", "mac", "prefixes", "set",
                    "addresses", "resas", "pools", "push"},
           ids' \subseteq IpId \cup PrefixId \cup RangeId,
           item' \in Item \cup {NoItem}, prefs' \subseteq Prefs,
           cur' \in Prefs \cup {NoItem}, items' \subseteq Item,
           offset' \in Nat, seen' \subseteq IpId, at' \in DOMAIN BackendOrder,
           missed' \subseteq Event,
           overlooked' \subseteq PrefixId \X Event, faults' \in 0..MaxFaults
    PROVE  TypeOK'
BY DEF TypeOK, Untouched

\* The first position of the registry.
LEMMA FirstBackend == 1 \in DOMAIN BackendOrder
BY BackendAssumption

\* Reservations and pools of NetBox are items a subnet can have.
LEMMA ItemTypes == /\ ResaItem \subseteq Resa /\ PoolItem \subseteq Pool
                   /\ Item = Listing \cup ResaItem \cup PoolItem
BY DEF ResaItem, PoolItem, Resa, Pool, Item

\* The address of a listing gets the hardware address its interface has now.
LEMMA ListingType ==
    ASSUME nb \in NetBox, NEW x \in Listing
    PROVE  /\ MacOf(x) \in Mac \cup {NoMac}
           /\ MacOf(x) # NoMac => ResaFor(x) \in ResaItem
           /\ ResaFor(x).nid = x.nid /\ ResaFor(x).ip = x.ip
BY DEF NetBox, Listing, MacOf, ResaFor, ResaItem

LEMMA ListingOfType ==
    ASSUME nb \in NetBox, NEW i \in IpId
    PROVE  ListingOf(i) \in Listing /\ ListingOf(i).nid = i
BY DEF NetBox, NetBoxIp, ListingOf, Listing

LEMMA ResaOfShape ==
    ASSUME NEW i
    PROVE  /\ ResaOf(i) = [nid |-> i, mac |-> Hw(i), ip |-> nb.ip[i].ip]
           /\ ResaOf(i)' = [nid |-> i, mac |-> Hw(i)', ip |-> nb'.ip[i].ip]
BY DEF Hw, ResaOf, ResaFor, MacOf, ListingOf

LEMMA ResaOfType ==
    ASSUME nb \in NetBox, NEW i \in IpId
    PROVE  /\ Hw(i) \in Mac \cup {NoMac}
           /\ Hw(i) # NoMac => ResaOf(i) \in ResaItem
           /\ ResaOf(i).nid = i
BY ListingOfType, ListingType DEF Hw, ResaOf

LEMMA PoolOfType ==
    ASSUME nb \in NetBox, NEW r \in RangeId
    PROVE  PoolOf(r) \in PoolItem /\ PoolOf(r).rid = r
BY DEF NetBox, NetBoxRange, PoolOf, PoolItem

LEMMA PrefType ==
    ASSUME nb \in NetBox, NEW p \in PrefixId, nb.prefix[p].backend # NoBackend
    PROVE  Pref(p) \in Prefs /\ Pref(p).id = p
BY DEF NetBox, NetBoxPrefix, Pref, Prefs

\* An accepted edit, and a deletion everywhere, keep the types.
LEMMA CommitType ==
    ASSUME TypeOK, NEW b \in Backend, NEW c \in Conf, Commit(b, c)
    PROVE  work' \in [Backend -> Conf] /\ staged' \in [Backend -> BOOLEAN]
BY DEF TypeOK, Commit

LEMMA BroadcastType ==
    ASSUME NEW confs \in [Backend -> Conf], Broadcast(confs)
    PROVE  work' \in [Backend -> Conf] /\ staged' \in [Backend -> BOOLEAN]
BY DEF Broadcast

\* An event that ends leaves nothing in hand.
LEMMA EndEventOK ==
    ASSUME EndEvent
    PROVE  /\ HandlerOK'
           /\ ev' \in Event \cup {NoItem} /\ pc' = "idle" /\ ids' = {}
           /\ item' = NoItem /\ prefs' = {} /\ cur' = NoItem /\ items' = {}
           /\ offset' = 0 /\ seen' = {} /\ at' \in DOMAIN BackendOrder
BY FirstBackend DEF EndEvent, HandlerOK, Busy, Rebuilding

LEMMA RaiseKeeps ==
    ASSUME Inv, ev \in Event, Raise
    PROVE  Inv'
<1>1. HandlerOK'
  BY EndEventOK DEF Raise
<1>2. TypeOK'
  <2>1. Untouched /\ missed' \subseteq Event
    BY DEF Raise, Quiet, Untouched, Inv, TypeOK
  <2>2. UNCHANGED <<work, staged, overlooked, faults>>
    BY DEF Raise, apps
  <2> QED
    BY <2>1, <2>2, EndEventOK, HandlerStep DEF Raise, Inv, TypeOK
<1> QED
  BY <1>1, <1>2 DEF Inv

\* The next object, or the push.
LEMMA OverKeeps ==
    ASSUME Inv, Busy, pc # "resas", NEW rest, rest \subseteq IpId \cup PrefixId \cup RangeId,
           Lists(ev, rest), Over(rest), overlooked' \subseteq PrefixId \X Event,
           work' \in [Backend -> Conf], staged' \in [Backend -> BOOLEAN]
    PROVE  Inv'
<1>1. Untouched /\ UNCHANGED <<ev, pages, at, faults, missed>>
  BY DEF Over, Along, Quiet, Untouched
<1>2. /\ ids' = rest /\ pc' \in {"push", "read"}
      /\ item' = NoItem /\ prefs' = {} /\ cur' = NoItem /\ items' = {}
  BY DEF Over
<1>3. TypeOK'
  BY <1>1, <1>2, HandlerStep DEF pages, Inv, TypeOK
<1>4. HandlerOK'
  BY <1>1, <1>2 DEF Inv, HandlerOK, Busy, Rebuilding, Lists, pages
<1> QED
  BY <1>3, <1>4 DEF Inv

\* The common case: nothing is made anew.
LEMMA NextObjectKeeps ==
    ASSUME Inv, Busy, pc # "resas", NEW rest, rest \subseteq IpId \cup PrefixId \cup RangeId,
           Lists(ev, rest), NextObject(rest),
           work' \in [Backend -> Conf], staged' \in [Backend -> BOOLEAN]
    PROVE  Inv'
BY OverKeeps DEF NextObject, Inv, TypeOK

\* A subnet made anew, for a prefix event or for an item that missed it.
LEMMA RecreateKeeps ==
    ASSUME Inv, Busy, pc # "resas", NEW pr \in Prefs, item # NoItem => Fits(ev, item),
           Recreate(pr)
    PROVE  Inv'
<1> DEFINE c == PutSubnet(work[pr.backend], pr.id, pr.net, pr.opt)
           duplicate == SubnetErrors(work[pr.backend], pr.id, pr.net, FALSE) # {}
<1>1. CASE Raise
  BY <1>1, RaiseKeeps DEF Inv, HandlerOK
<1>2. CASE /\ Commit(pr.backend, c)
           /\ pc' = "addresses" /\ cur' = pr /\ prefs' = prefs \ {pr}
           /\ UNCHANGED <<ids, item, items, missed>>
           /\ Along
           /\ Forget(pr.id)
  <2>1. c \in Conf
    BY PutSubnetType DEF Inv, TypeOK, Prefs
  <2>2. work' \in [Backend -> Conf] /\ staged' \in [Backend -> BOOLEAN]
    BY <1>2, <2>1, CommitType DEF Inv, Prefs
  <2>3. /\ Untouched /\ UNCHANGED <<ev, pages, at, faults>>
        /\ overlooked' \subseteq PrefixId \X Event
    BY <1>2 DEF Along, Quiet, Untouched, Forget, Inv, TypeOK
  <2>4. TypeOK'
    BY <1>2, <2>2, <2>3, HandlerStep DEF pages, Inv, TypeOK
  <2>5. HandlerOK'
    BY <1>2, <2>3 DEF Inv, HandlerOK, Busy, Rebuilding, Lists, Fits, pages
  <2> QED
    BY <2>4, <2>5 DEF Inv
<1> QED
  BY <1>1, <1>2 DEF Recreate

-----------------------------------------------------------------------------
(* One lemma per action. *)

\* NetBox changes and the webhooks travel; the handler does not move.
LEMMA EnvironmentKeeps ==
    ASSUME Inv, Environment
    PROVE  Inv'
<1> USE DEF Inv
<1>1. ASSUME nb' \in NetBox, queue' \in Seq(Event), missed' \subseteq Event,
             moved' \subseteq Event,
             changes' \in 0..MaxChanges, faults' \in 0..MaxFaults,
             UNCHANGED <<check, live, apps, handler, overlooked>>
      PROVE  Inv'
  <2>1. TypeOK'
    BY <1>1 DEF TypeOK, apps, handler, pages
  <2>2. HandlerOK'
    BY <1>1 DEF HandlerOK, Busy, Rebuilding, Lists, Fits, FitsAddress, handler, pages
  <2> QED
    BY <2>1, <2>2
<1>2. ASSUME NEW e \in Event, Notify(e)
      PROVE  queue' \in Seq(Event) /\ missed' \subseteq Event
  <2>1. queue \in Seq(Event) /\ missed \subseteq Event
    BY DEF TypeOK
  <2>2. Append(queue, e) \in Seq(Event) /\ missed \cup {e} \subseteq Event
    BY <2>1
  <2>3. CASE pc = "starting"
    BY <1>2, <2>1, <2>2, <2>3 DEF Notify
  <2>4. CASE pc # "starting"
    BY <1>2, <2>1, <2>2, <2>4 DEF Notify
  <2> QED
    BY <2>3, <2>4
<1>3. ASSUME NEW x \in Event, NEW left, Mark(x, left)
      PROVE  moved' \subseteq Event
  BY <1>3 DEF Mark, TypeOK
<1>4. ASSUME Changed
      PROVE  /\ changes' \in 0..MaxChanges /\ faults' \in 0..MaxFaults
             /\ UNCHANGED <<check, live, apps, handler, overlooked>>
  BY <1>4, BoundsAssumption DEF Changed, TypeOK
<1>5. ASSUME NEW p \in PrefixId, ChangePrefix(p)
      PROVE  Inv'
  <2> DEFINE x == [model |-> "prefix", id |-> p]
  <2>1. PICK v \in PrefixMayBe[p] :
          /\ Changed
          /\ nb' = [nb EXCEPT !.prefix[p] = v]
          /\ Notify(x)
          /\ Mark(x, v.backend # nb.prefix[p].backend)
    BY <1>5 DEF ChangePrefix
  <2>2. x \in Event
    BY DEF Event
  <2>3. v \in NetBoxPrefix
    BY MayBeAssumption
  <2>4. nb' \in NetBox
    BY <2>1, <2>3 DEF TypeOK, NetBox
  <2> QED
    BY <1>1, <1>2, <1>3, <1>4, <2>1, <2>2, <2>4
<1>6. ASSUME NEW i \in IpId, ChangeIp(i)
      PROVE  Inv'
  <2> DEFINE x == [model |-> "ipaddress", id |-> i]
  <2>1. PICK v \in IpMayBe[i], left \in BOOLEAN :
          /\ Changed
          /\ nb' = [nb EXCEPT !.ip[i] = v]
          /\ Notify(x)
          /\ Mark(x, left)
    BY <1>6 DEF ChangeIp
  <2>2. x \in Event
    BY DEF Event
  <2>3. v \in NetBoxIp
    BY MayBeAssumption
  <2>4. nb' \in NetBox
    BY <2>1, <2>3 DEF TypeOK, NetBox
  <2> QED
    BY <1>1, <1>2, <1>3, <1>4, <2>1, <2>2, <2>4
<1>7. ASSUME NEW r \in RangeId, ChangeRange(r)
      PROVE  Inv'
  <2> DEFINE x == [model |-> "iprange", id |-> r]
  <2>1. PICK v \in RangeMayBe[r], left \in BOOLEAN :
          /\ Changed
          /\ nb' = [nb EXCEPT !.range[r] = v]
          /\ Notify(x)
          /\ Mark(x, left)
    BY <1>7 DEF ChangeRange
  <2>2. x \in Event
    BY DEF Event
  <2>3. v \in NetBoxRange
    BY MayBeAssumption
  <2>4. nb' \in NetBox
    BY <2>1, <2>3 DEF TypeOK, NetBox
  <2> QED
    BY <1>1, <1>2, <1>3, <1>4, <2>1, <2>2, <2>4
<1>8. ASSUME NEW f \in Iface, ChangeMac(f)
      PROVE  Inv'
  <2> DEFINE x == [model |-> "interface", id |-> f]
  <2>1. PICK v \in MacMayBe[f] :
          /\ Changed
          /\ nb' = [nb EXCEPT !.mac[f] = v]
          /\ Notify(x)
          /\ UNCHANGED moved
    BY <1>8 DEF ChangeMac
  <2>2. x \in Event
    BY DEF Event
  <2>3. v \in Mac \cup {NoMac}
    BY MayBeAssumption
  <2>4. nb' \in NetBox /\ moved' \subseteq Event
    BY <2>1, <2>3 DEF TypeOK, NetBox
  <2> QED
    BY <1>1, <1>2, <1>4, <2>1, <2>2, <2>4
<1>9. CASE Lose
  BY <1>1, <1>9, BoundsAssumption DEF Lose, Fault, TypeOK
<1>10. CASE Repeat
  BY <1>1, <1>10, BoundsAssumption DEF Repeat, Fault, TypeOK
<1> QED
  BY <1>5, <1>6, <1>7, <1>8, <1>9, <1>10 DEF Environment

\* An event is taken from the queue.
LEMMA TakeKeeps ==
    ASSUME Inv, Take
    PROVE  Inv'
<1> USE DEF Inv
<1> DEFINE e == Head(queue)
<1>1. e \in Event /\ Tail(queue) \in Seq(Event)
  BY DEF Take, TypeOK
<1>2. /\ pc = "idle" /\ queue' = Tail(queue) /\ ev' = e
      /\ pc' = IF e.model = "interface" THEN "list" ELSE "read"
      /\ ids' = IF e.model = "interface" THEN {} ELSE {e.id}
      /\ Repair(e)
      /\ work' = live
      /\ staged' = [b \in Backend |-> FALSE]
      /\ UNCHANGED <<check, nb, live, item, prefs, cur, items, pages, at>>
      /\ UNCHANGED <<moved, changes, faults>>
  BY DEF Take
<1>3. e.model # "interface" => e.id \in IpId \cup PrefixId \cup RangeId
  BY <1>1 DEF Event
<1> HIDE DEF e
<1>4. TypeOK'
  BY <1>1, <1>2, <1>3 DEF TypeOK, Repair, pages
<1>5. HandlerOK'
  BY <1>1, <1>2 DEF HandlerOK, Busy, Rebuilding, Lists, pages
<1> QED
  BY <1>4, <1>5

LEMMA ReloadFailsKeeps ==
    ASSUME Inv, ReloadFails
    PROVE  Inv'
<1> USE DEF Inv
<1>1. Head(queue) \in Event /\ Tail(queue) \in Seq(Event)
  BY DEF ReloadFails, TypeOK
<1>2. /\ pc = "idle" /\ queue' = Tail(queue)
      /\ missed' = missed \cup {Head(queue)}
      /\ UNCHANGED <<check, nb, live, handler, moved, overlooked, changes>>
      /\ faults' \in 0..MaxFaults
  BY BoundsAssumption DEF ReloadFails, Fault, TypeOK
<1>3. work' \in [Backend -> Conf] /\ staged' \in [Backend -> BOOLEAN]
  <2>1. PICK k \in DOMAIN BackendOrder :
          LET pulled == {BackendOrder[j] : j \in 1..(k - 1)}
          IN  /\ work' = [b \in Backend |-> IF b \in pulled THEN live[b] ELSE work[b]]
              /\ staged' = [b \in Backend |-> staged[b] /\ b \notin pulled]
    BY DEF ReloadFails
  <2> QED
    BY <2>1 DEF TypeOK
<1>4. TypeOK'
  BY <1>1, <1>2, <1>3 DEF TypeOK, handler, pages
<1>5. HandlerOK'
  BY <1>2 DEF HandlerOK, Busy, Rebuilding, handler, pages
<1> QED
  BY <1>4, <1>5

LEMMA FailKeeps ==
    ASSUME Inv, Fail
    PROVE  Inv'
<1>1. HandlerOK'
  BY EndEventOK DEF Fail
<1>2. ev \in Event
  BY DEF Fail, Handling, Inv, HandlerOK, Busy
<1>3. /\ Untouched /\ UNCHANGED <<work, staged, overlooked>>
      /\ missed' \subseteq Event /\ faults' \in 0..MaxFaults
  BY <1>2, BoundsAssumption
  DEF Fail, Quiet, Untouched, apps, Fault, Inv, TypeOK
<1>4. TypeOK'
  BY <1>3, EndEventOK, HandlerStep DEF Fail, Inv, TypeOK
<1> QED
  BY <1>1, <1>4 DEF Inv

LEMMA ListAddressesKeeps ==
    ASSUME Inv, ListAddresses
    PROVE  Inv'
<1>1. ev \in Event /\ Busy /\ pc # "resas"
  BY DEF ListAddresses, Inv, HandlerOK, Busy
<1>2. Members(ev.id) \subseteq IpId
  BY DEF Members
<1>3. Lists(ev, Members(ev.id))
  BY <1>2 DEF ListAddresses, Inv, HandlerOK, Lists
<1>4. work' \in [Backend -> Conf] /\ staged' \in [Backend -> BOOLEAN]
  BY DEF ListAddresses, Inv, TypeOK, apps
<1> QED
  BY <1>1, <1>2, <1>3, <1>4, NextObjectKeeps DEF ListAddresses

\* sync_prefix.
LEMMA DeletePrefixKeeps ==
    ASSUME Inv, DeletePrefix
    PROVE  Inv'
<1> DEFINE confs == [b \in Backend |-> DropSubnet(work[b], ev.id)]
<1>1. Busy /\ pc # "resas" /\ Lists(ev, {})
  BY DEF DeletePrefix, Busy, Lists
<1>2. confs \in [Backend -> Conf]
  BY DropSubnetType DEF Inv, TypeOK
<1>3. work' \in [Backend -> Conf] /\ staged' \in [Backend -> BOOLEAN]
  BY <1>2, BroadcastType DEF DeletePrefix
<1>4. overlooked' \subseteq PrefixId \X Event
  BY DEF DeletePrefix, Forget, Inv, TypeOK
<1> QED
  BY <1>1, <1>3, <1>4, OverKeeps DEF DeletePrefix

LEMMA SkipPrefixKeeps ==
    ASSUME Inv, SkipPrefix
    PROVE  Inv'
<1>1. Busy /\ pc # "resas" /\ Lists(ev, {})
  BY DEF SkipPrefix, Busy, Lists
<1>2. work' \in [Backend -> Conf] /\ staged' \in [Backend -> BOOLEAN]
  BY DEF SkipPrefix, Inv, TypeOK, apps
<1> QED
  BY <1>1, <1>2, NextObjectKeeps DEF SkipPrefix

LEMMA UpdatePrefixKeeps ==
    ASSUME Inv, UpdatePrefix
    PROVE  Inv'
<1> DEFINE pr == Pref(ev.id)
           c == UpdateOptions(work[pr.backend], pr.id, pr.opt)
<1>1. Busy /\ pc # "resas" /\ Lists(ev, {}) /\ item = NoItem /\ ev \in Event
  BY DEF UpdatePrefix, Busy, Lists, Inv, HandlerOK
<1>2. pr \in Prefs
  <2>1. ev.id \in PrefixId
    BY <1>1 DEF UpdatePrefix, Event
  <2> QED
    BY <2>1, PrefType DEF UpdatePrefix, Inv, TypeOK
<1>3. c \in Conf
  BY <1>2, UpdateOptionsType DEF Inv, TypeOK, Prefs
<1>4. pr.backend \in Backend
  BY <1>2 DEF Prefs
<1>5. \/ Commit(pr.backend, c) /\ NextObject({})
      \/ Raise
      \/ Recreate(pr)
  BY DEF UpdatePrefix
<1> HIDE DEF pr, c
<1>6. CASE Commit(pr.backend, c) /\ NextObject({})
  BY <1>1, <1>3, <1>4, <1>6, CommitType, NextObjectKeeps DEF Inv
<1>7. CASE Raise
  BY <1>1, <1>7, RaiseKeeps
<1>8. CASE Recreate(pr)
  BY <1>1, <1>2, <1>8, RecreateKeeps
<1> QED
  BY <1>5, <1>6, <1>7, <1>8

\* sync_ipaddress and sync_iprange.
LEMMA DeleteIpKeeps ==
    ASSUME Inv, DeleteIp
    PROVE  Inv'
<1>1. PICK i \in ids :
        /\ Broadcast([b \in Backend |-> DropResa(work[b], i)])
        /\ NextObject(ids \ {i})
  BY DEF DeleteIp
<1>2. Busy /\ pc # "resas" /\ Lists(ev, ids \ {i})
  BY DEF DeleteIp, Busy, Lists, Inv, HandlerOK
<1>3. [b \in Backend |-> DropResa(work[b], i)] \in [Backend -> Conf]
  BY DropResaType DEF Inv, TypeOK
<1>4. work' \in [Backend -> Conf] /\ staged' \in [Backend -> BOOLEAN]
  BY <1>1, <1>3, BroadcastType
<1>5. ids \ {i} \subseteq IpId \cup PrefixId \cup RangeId
  BY DEF Inv, TypeOK
<1> QED
  BY <1>1, <1>2, <1>4, <1>5, NextObjectKeeps

LEMMA DeleteRangeKeeps ==
    ASSUME Inv, DeleteRange
    PROVE  Inv'
<1>1. Busy /\ pc # "resas" /\ Lists(ev, {})
  BY DEF DeleteRange, Busy, Lists
<1>2. [b \in Backend |-> DropPool(work[b], ev.id)] \in [Backend -> Conf]
  BY DropPoolType DEF Inv, TypeOK
<1>3. work' \in [Backend -> Conf] /\ staged' \in [Backend -> BOOLEAN]
  BY <1>2, BroadcastType DEF DeleteRange
<1> QED
  BY <1>1, <1>3, NextObjectKeeps DEF DeleteRange

LEMMA ReadIpKeeps ==
    ASSUME Inv, ReadIp
    PROVE  Inv'
<1>1. PICK i \in ids : item' = ListingOf(i) /\ ids' = ids \ {i}
  BY DEF ReadIp
<1>2. /\ ev \in Event /\ Lists(ev, ids)
      /\ ev.model \in {"ipaddress", "interface"}
  BY DEF ReadIp, Inv, HandlerOK, Busy
<1>3. i \in IpId /\ (ev.model = "ipaddress" => i = ev.id)
  BY <1>2 DEF Lists, Event
<1>4. ListingOf(i) \in Listing /\ ListingOf(i).nid = i
  BY <1>3, ListingOfType DEF Inv, TypeOK
<1>5. FitsAddress(ev, ListingOf(i))
  BY <1>2, <1>3, <1>4 DEF FitsAddress
<1>6. /\ pc = "read" /\ pc' = "mac" /\ Untouched
      /\ UNCHANGED <<work, staged, prefs, cur, items, missed>>
      /\ UNCHANGED <<ev, pages, at, faults, overlooked>>
  BY DEF ReadIp, Step, Along, Quiet, Untouched, apps
<1>7. TypeOK'
  BY <1>1, <1>4, <1>6, ItemTypes, HandlerStep DEF pages, Inv, TypeOK
<1>8. HandlerOK'
  BY <1>1, <1>2, <1>5, <1>6
  DEF Inv, HandlerOK, Busy, Rebuilding, Lists, pages
<1> QED
  BY <1>7, <1>8 DEF Inv

LEMMA DeleteBareKeeps ==
    ASSUME Inv, DeleteBare
    PROVE  Inv'
<1>1. Busy /\ pc # "resas" /\ Lists(ev, ids) /\ ids \subseteq IpId \cup PrefixId \cup RangeId
  BY DEF DeleteBare, Busy, Inv, HandlerOK, TypeOK
<1>2. [b \in Backend |-> DropResa(work[b], item.nid)] \in [Backend -> Conf]
  BY DropResaType DEF Inv, TypeOK
<1>3. work' \in [Backend -> Conf] /\ staged' \in [Backend -> BOOLEAN]
  BY <1>2, BroadcastType DEF DeleteBare
<1> QED
  BY <1>1, <1>3, NextObjectKeeps DEF DeleteBare

LEMMA ReadMacKeeps ==
    ASSUME Inv, ReadMac
    PROVE  Inv'
<1>1. /\ pc = "mac" /\ MacOf(item) # NoMac /\ item' = ResaFor(item)
      /\ pc' = "prefixes" /\ Untouched
      /\ UNCHANGED <<work, staged, ids, prefs, cur, items, missed>>
      /\ UNCHANGED <<ev, pages, at, faults, overlooked>>
  BY DEF ReadMac, Step, Along, Quiet, Untouched, apps
<1>2. /\ ev \in Event /\ Lists(ev, ids) /\ FitsAddress(ev, item)
  BY <1>1 DEF Inv, HandlerOK, Busy
<1>3. ResaFor(item) \in ResaItem /\ ResaFor(item).nid = item.nid
  BY <1>1, <1>2, ListingType DEF FitsAddress, Inv, TypeOK
<1>4. Fits(ev, ResaFor(item))
  BY <1>2, <1>3 DEF Fits, FitsAddress
<1>5. TypeOK'
  BY <1>1, <1>3, ItemTypes, HandlerStep DEF pages, Inv, TypeOK
<1>6. HandlerOK'
  BY <1>1, <1>2, <1>4 DEF Inv, HandlerOK, Busy, Rebuilding, pages
<1> QED
  BY <1>5, <1>6 DEF Inv

LEMMA ReadRangeKeeps ==
    ASSUME Inv, ReadRange
    PROVE  Inv'
<1>1. pc = "read" /\ ev \in Event /\ ev.model = "iprange"
  BY DEF ReadRange, Inv, HandlerOK, Busy
<1>2. ev.id \in RangeId
  BY <1>1 DEF Event
<1>3. PoolOf(ev.id) \in PoolItem /\ Fits(ev, PoolOf(ev.id))
  BY <1>1, <1>2, PoolOfType DEF Fits, Inv, TypeOK
<1>4. /\ pc' = "prefixes" /\ ids' = {} /\ item' = PoolOf(ev.id) /\ Untouched
      /\ UNCHANGED <<work, staged, prefs, cur, items, missed, ev, pages, at, faults,
                     overlooked>>
  BY DEF ReadRange, Step, Along, Quiet, Untouched, apps
<1>5. TypeOK'
  BY <1>3, <1>4, ItemTypes, HandlerStep DEF pages, Inv, TypeOK
<1>6. HandlerOK'
  BY <1>1, <1>3, <1>4 DEF Inv, HandlerOK, Busy, Rebuilding, Lists, pages
<1> QED
  BY <1>5, <1>6 DEF Inv

\* What a query of the prefixes leaves out is an event of the subnets.
LEMMA LeftOutType ==
    ASSUME Inv, QueryPrefixes
    PROVE  overlooked' \subseteq PrefixId \X Event
<1> DEFINE x == IF ev.model = "iprange" THEN [model |-> "iprange", id |-> item.rid]
                ELSE [model |-> "ipaddress", id |-> item.nid]
<1>1. \A y \in overlooked' :
        \/ y \in overlooked
        \/ \E b \in Backend : \E s \in work[b] : y = <<s.id, x>>
  BY DEF QueryPrefixes
<1>2. Fits(ev, item)
  BY DEF QueryPrefixes, Inv, HandlerOK
<1>3. x \in Event
  BY <1>2 DEF Fits, ResaItem, PoolItem, Event
<1> HIDE DEF x
<1>4. \A b \in Backend : \A s \in work[b] : s.id \in PrefixId
  BY DEF Inv, TypeOK, Conf, Subnet
<1> QED
  BY <1>1, <1>3, <1>4 DEF Inv, TypeOK

LEMMA QueryPrefixesKeeps ==
    ASSUME Inv, QueryPrefixes
    PROVE  Inv'
<1>1. /\ pc = "prefixes" /\ pc' = "set" /\ Untouched
      /\ UNCHANGED <<work, staged, ids, item, cur, items, missed, ev, pages, at, faults>>
  BY DEF QueryPrefixes, Along, Quiet, Untouched, apps
<1>2. prefs' \subseteq Prefs
  <2>1. \A a : PrefixesWithAddr(a) \subseteq Prefs
    BY PrefType DEF PrefixesWithAddr, Inv, TypeOK
  <2>2. \A x : PrefixesWithPoint(x) \subseteq Prefs
    BY PrefType DEF PrefixesWithPoint, Inv, TypeOK
  <2> QED
    BY <2>1, <2>2 DEF QueryPrefixes
<1>3. TypeOK'
  BY <1>1, <1>2, LeftOutType, HandlerStep DEF pages, Inv, TypeOK
<1>4. HandlerOK'
  BY <1>1 DEF Inv, HandlerOK, Busy, Rebuilding, Lists, Fits, pages
<1> QED
  BY <1>3, <1>4 DEF Inv

LEMMA SetItemKeeps ==
    ASSUME Inv, SetItem
    PROVE  Inv'
<1>1. pc = "set" /\ pc # "resas" /\ Busy /\ ev \in Event /\ Fits(ev, item)
  BY DEF SetItem, Inv, HandlerOK, Busy
<1> DEFINE c(pr) == IF ev.model = "iprange" THEN PutPool(work[pr.backend], pr.id, item)
                    ELSE PutResa(work[pr.backend], pr.id, item)
<1>2. PICK pr \in prefs :
        \/ /\ Commit(pr.backend, c(pr))
           /\ prefs' = prefs \ {pr}
           /\ UNCHANGED <<pc, ids, item, cur, items, missed>>
           /\ Step
        \/ Raise
        \/ Recreate(pr)
  BY DEF SetItem
<1>3. pr \in Prefs /\ pr.backend \in Backend
  BY DEF Inv, TypeOK, Prefs
<1>4. c(pr) \in Conf
  BY <1>1, <1>3, ItemTypes, PutPoolType, PutResaType DEF Fits, Inv, TypeOK
<1> HIDE DEF c
<1>5. CASE /\ Commit(pr.backend, c(pr))
           /\ prefs' = prefs \ {pr}
           /\ UNCHANGED <<pc, ids, item, cur, items, missed>>
           /\ Step
  <2>1. work' \in [Backend -> Conf] /\ staged' \in [Backend -> BOOLEAN]
    BY <1>3, <1>4, <1>5, CommitType DEF Inv
  <2>2. Untouched /\ UNCHANGED <<ev, pages, at, faults, overlooked>>
    BY <1>5 DEF Step, Along, Quiet, Untouched
  <2>3. TypeOK'
    BY <1>5, <2>1, <2>2, HandlerStep DEF pages, Inv, TypeOK
  <2>4. HandlerOK'
    BY <1>1, <1>5, <2>2 DEF Inv, HandlerOK, Busy, Rebuilding, Lists, Fits, pages
  <2> QED
    BY <2>3, <2>4 DEF Inv
<1>6. CASE Raise
  BY <1>1, <1>6, RaiseKeeps
<1>7. CASE Recreate(pr)
  BY <1>1, <1>3, <1>7, RecreateKeeps
<1> QED
  BY <1>2, <1>5, <1>6, <1>7

LEMMA EndItemKeeps ==
    ASSUME Inv, EndItem
    PROVE  Inv'
<1>1. Busy /\ pc # "resas" /\ Lists(ev, ids) /\ ids \subseteq IpId \cup PrefixId \cup RangeId
  BY DEF EndItem, Inv, HandlerOK, TypeOK, Busy
<1>2. work' \in [Backend -> Conf] /\ staged' \in [Backend -> BOOLEAN]
  BY DEF EndItem, Inv, TypeOK, apps
<1> QED
  BY <1>1, <1>2, NextObjectKeeps DEF EndItem

\* The items of a subnet made anew.
LEMMA QueryAddressesKeeps ==
    ASSUME Inv, QueryAddresses
    PROVE  Inv'
<1> DEFINE page == Page(cur.net, offset)
           passed == {i \in IpsIn(cur.net) : Position(i, cur.net) < offset}
           left == {<<cur.id, [model |-> "ipaddress", id |-> i]>> : i \in passed \ seen}
<1>1. /\ pc \in {"addresses", "resas"} /\ pc' = "resas" /\ Untouched
      /\ items' = {ListingOf(i) : i \in page}
      /\ \/ offset' = offset + PageSize /\ seen' = seen \cup page
         \/ offset' = 0 /\ seen' = {}
      /\ overlooked' = overlooked \cup left
      /\ UNCHANGED <<work, staged, ids, item, prefs, cur, missed, ev, at, faults>>
  BY DEF QueryAddresses, Quiet, Untouched, apps
<1>2. page \subseteq IpId /\ passed \subseteq IpId
  BY DEF Page, IpsIn
<1>3. items' \subseteq Listing
  BY <1>1, <1>2, ListingOfType DEF Inv, TypeOK
<1>4. cur \in Prefs
  BY <1>1 DEF Inv, HandlerOK, Rebuilding
<1>5. overlooked' \subseteq PrefixId \X Event
  <2>1. \A i \in passed : [model |-> "ipaddress", id |-> i] \in Event
    BY <1>2 DEF Event
  <2>2. cur.id \in PrefixId
    BY <1>4 DEF Prefs
  <2> QED
    BY <1>1, <2>1, <2>2 DEF Inv, TypeOK
<1>6. offset' \in Nat /\ seen' \subseteq IpId
  BY <1>1, <1>2, ListAssumption DEF Inv, TypeOK
<1> HIDE DEF page, passed, left
<1>7. offset' = 0 => seen' = {}
  BY <1>1, ListAssumption DEF Inv, TypeOK
<1>8. TypeOK'
  BY <1>1, <1>3, <1>5, <1>6, ItemTypes, HandlerStep DEF Inv, TypeOK
<1>9. HandlerOK'
  BY <1>1, <1>3, <1>7 DEF Inv, HandlerOK, Busy, Rebuilding, Lists, Fits, pages
<1> QED
  BY <1>8, <1>9 DEF Inv

LEMMA QueryRangesKeeps ==
    ASSUME Inv, QueryRanges
    PROVE  Inv'
<1>1. /\ pc = "resas" /\ offset = 0 /\ pc' = "pools" /\ Untouched
      /\ items' = {PoolOf(r) : r \in RangesIn(cur.net)}
      /\ UNCHANGED <<work, staged, ids, item, prefs, cur, missed, ev, pages, at, faults,
                     overlooked>>
  BY DEF QueryRanges, Step, Along, Quiet, Untouched, apps
<1>2. RangesIn(cur.net) \subseteq RangeId
  BY DEF RangesIn
<1>3. items' \subseteq PoolItem
  BY <1>1, <1>2, PoolOfType DEF Inv, TypeOK
<1>4. TypeOK'
  BY <1>1, <1>3, ItemTypes, HandlerStep DEF pages, Inv, TypeOK
<1>5. HandlerOK'
  BY <1>1, <1>3 DEF Inv, HandlerOK, Busy, Rebuilding, Lists, Fits, pages
<1> QED
  BY <1>4, <1>5 DEF Inv

\* An item set, or logged and left out.
LEMMA AddOrLogKeeps ==
    ASSUME Inv, pc \in {"resas", "pools"}, NEW x \in items, NEW e \in Event,
           NEW errors, NEW c \in Conf, AddOrLog(x, e, errors, c)
    PROVE  Inv'
<1>1. /\ items' = items \ {x} /\ Untouched
      /\ UNCHANGED <<pc, ids, item, prefs, cur, ev, pages, at, faults, overlooked>>
  BY DEF AddOrLog, Step, Along, Quiet, Untouched
<1>2. cur.backend \in Backend
  BY DEF Inv, HandlerOK, Rebuilding, Prefs
<1>3. /\ work' \in [Backend -> Conf] /\ staged' \in [Backend -> BOOLEAN]
      /\ missed' \subseteq Event
  <2>1. CASE Commit(cur.backend, c) /\ UNCHANGED missed
    BY <1>2, <2>1, CommitType DEF Inv, TypeOK
  <2>2. CASE missed' = missed \cup {e} /\ UNCHANGED apps
    BY <2>2 DEF Inv, TypeOK, apps
  <2> QED
    BY <2>1, <2>2 DEF AddOrLog
<1>4. TypeOK'
  BY <1>1, <1>3, HandlerStep DEF pages, Inv, TypeOK
<1>5. HandlerOK'
  BY <1>1 DEF Inv, HandlerOK, Busy, Rebuilding, Lists, Fits, pages
<1> QED
  BY <1>4, <1>5 DEF Inv

LEMMA AddResaKeeps ==
    ASSUME Inv, AddResa
    PROVE  Inv'
<1>1. PICK x \in items :
        /\ MacOf(x) # NoMac
        /\ AddOrLog(x, [model |-> "ipaddress", id |-> x.nid],
               ResaErrors(work[cur.backend], cur.id, ResaFor(x)),
               PutResa(work[cur.backend], cur.id, ResaFor(x)))
  BY DEF AddResa
<1>2. x \in Listing /\ cur \in Prefs
  BY DEF AddResa, Inv, HandlerOK, Rebuilding
<1>3. [model |-> "ipaddress", id |-> x.nid] \in Event
  BY <1>2 DEF Listing, Event
<1>4. ResaFor(x) \in ResaItem
  BY <1>1, <1>2, ListingType DEF Inv, TypeOK
<1>5. PutResa(work[cur.backend], cur.id, ResaFor(x)) \in Conf
  BY <1>2, <1>4, ItemTypes, PutResaType DEF Prefs, Inv, TypeOK
<1> QED
  BY <1>1, <1>3, <1>5, AddOrLogKeeps DEF AddResa

LEMMA DropBareKeeps ==
    ASSUME Inv, DropBare
    PROVE  Inv'
<1>1. PICK x \in items :
        /\ Broadcast([b \in Backend |-> DropResa(work[b], x.nid)])
        /\ items' = items \ {x}
  BY DEF DropBare
<1>2. /\ pc = "resas" /\ Untouched
      /\ UNCHANGED <<pc, ids, item, prefs, cur, missed>>
      /\ UNCHANGED <<ev, pages, at, faults, overlooked>>
  BY DEF DropBare, Step, Along, Quiet, Untouched
<1>3. [b \in Backend |-> DropResa(work[b], x.nid)] \in [Backend -> Conf]
  BY DropResaType DEF Inv, TypeOK
<1>4. work' \in [Backend -> Conf] /\ staged' \in [Backend -> BOOLEAN]
  BY <1>1, <1>3, BroadcastType
<1>5. TypeOK'
  BY <1>1, <1>2, <1>4, HandlerStep DEF pages, Inv, TypeOK
<1>6. HandlerOK'
  BY <1>1, <1>2 DEF Inv, HandlerOK, Busy, Rebuilding, Lists, Fits, pages
<1> QED
  BY <1>5, <1>6 DEF Inv

LEMMA AddPoolKeeps ==
    ASSUME Inv, AddPool
    PROVE  Inv'
<1>1. PICK x \in items :
        AddOrLog(x, [model |-> "iprange", id |-> x.rid],
            PoolErrors(work[cur.backend], cur.id, x),
            PutPool(work[cur.backend], cur.id, x))
  BY DEF AddPool
<1>2. x \in PoolItem /\ cur \in Prefs
  BY DEF AddPool, Inv, HandlerOK, Rebuilding
<1>3. [model |-> "iprange", id |-> x.rid] \in Event
  BY <1>2 DEF PoolItem, Event
<1>4. PutPool(work[cur.backend], cur.id, x) \in Conf
  BY <1>2, ItemTypes, PutPoolType DEF Prefs, Inv, TypeOK
<1> QED
  BY <1>1, <1>3, <1>4, AddOrLogKeeps DEF AddPool

LEMMA EndRecreateKeeps ==
    ASSUME Inv, EndRecreate
    PROVE  Inv'
<1>1. /\ pc = "pools" /\ pc' = IF item = NoItem THEN "push" ELSE "set"
      /\ cur' = NoItem /\ Untouched
      /\ UNCHANGED <<work, staged, ids, item, prefs, items, missed, ev, pages, at, faults,
                     overlooked>>
  BY DEF EndRecreate, Step, Along, Quiet, Untouched, apps
<1>2. TypeOK'
  BY <1>1, HandlerStep DEF pages, Inv, TypeOK
<1>3. HandlerOK'
  BY <1>1 DEF Inv, HandlerOK, Busy, Rebuilding, Lists, Fits, pages
<1> QED
  BY <1>2, <1>3 DEF Inv

\* The pushes.
LEMMA PushingKeeps ==
    ASSUME Inv, pc = "push", Pushing, NextPush \/ EndEvent,
           live' \in [Backend -> Conf], staged' \in [Backend -> BOOLEAN],
           missed' \subseteq Event, faults' \in 0..MaxFaults
    PROVE  Inv'
<1>1. UNCHANGED <<check, nb, queue, work, moved, overlooked, changes>>
  BY DEF Pushing
<1>2. CASE EndEvent
  <2>1. TypeOK'
    BY <1>1, <1>2, EndEventOK DEF Inv, TypeOK
  <2> QED
    BY <1>2, <2>1, EndEventOK DEF Inv
<1>3. CASE /\ at # Len(BackendOrder) /\ at' = at + 1
           /\ UNCHANGED <<pc, ev, ids, item, prefs, cur, items, pages>>
  <2>1. at' \in DOMAIN BackendOrder
    BY <1>3, BackendAssumption DEF Inv, TypeOK
  <2>2. TypeOK'
    BY <1>1, <1>3, <2>1 DEF pages, Inv, TypeOK
  <2>3. HandlerOK'
    BY <1>3 DEF Inv, HandlerOK, Busy, Rebuilding, Lists, pages
  <2> QED
    BY <2>2, <2>3 DEF Inv
<1> QED
  BY <1>2, <1>3 DEF NextPush

LEMMA PushKeeps ==
    ASSUME Inv, Push
    PROVE  Inv'
<1> DEFINE b == BackendOrder[at]
           pushed == [live EXCEPT ![b] = work[b]]
<1>1. b \in Backend /\ ev \in Event /\ pc = "push"
  BY BackendAssumption DEF Push, Inv, TypeOK, HandlerOK, Busy
<1>2. /\ live \in [Backend -> Conf] /\ pushed \in [Backend -> Conf]
      /\ staged \in [Backend -> BOOLEAN]
      /\ [staged EXCEPT ![b] = FALSE] \in [Backend -> BOOLEAN]
      /\ missed \subseteq Event /\ faults \in 0..MaxFaults
  BY <1>1 DEF Inv, TypeOK
<1>3. Fault => faults' \in 0..MaxFaults
  BY <1>2, BoundsAssumption DEF Fault
<1>4. live' \in {live, pushed}
  BY DEF Push
<1>5. staged' \in {staged, [staged EXCEPT ![b] = FALSE]}
  BY DEF Push
<1>6. missed' \in {missed, missed \cup {ev}}
  BY DEF Push
<1>7. Fault \/ UNCHANGED faults
  BY DEF Push
<1>8. Pushing /\ (NextPush \/ EndEvent)
  BY DEF Push, NextPush
<1> HIDE DEF b, pushed
<1> QED
  BY <1>1, <1>2, <1>3, <1>4, <1>5, <1>6, <1>7, <1>8, PushingKeeps

LEMMA PushNothingKeeps ==
    ASSUME Inv, PushNothing
    PROVE  Inv'
BY PushingKeeps DEF PushNothing, Inv, TypeOK

\* What NetBox asks for is a configuration.
LEMMA WantedType ==
    ASSUME nb \in NetBox, NEW b \in Backend
    PROVE  Wanted(b) \in Conf
<1>1. \A n : IpsIn(n) \subseteq IpId /\ RangesIn(n) \subseteq RangeId
  BY DEF IpsIn, RangesIn
<1>2. \A n : {ResaOf(i) : i \in {j \in IpsIn(n) : Hw(j) # NoMac}} \subseteq Resa
  BY <1>1, ResaOfType, ItemTypes
<1>3. \A n : {PoolOf(r) : r \in RangesIn(n)} \subseteq Pool
  BY <1>1, PoolOfType, ItemTypes
<1>4. \A p \in PrefixId : nb.prefix[p].net \in Net /\ nb.prefix[p].opt \in Opt
  BY DEF NetBox, NetBoxPrefix
<1> DEFINE wanted(p) ==
        [id |-> p, net |-> nb.prefix[p].net, opt |-> nb.prefix[p].opt,
         resas |-> {ResaOf(i) : i \in {j \in IpsIn(nb.prefix[p].net) : Hw(j) # NoMac}},
         pools |-> {PoolOf(r) : r \in RangesIn(nb.prefix[p].net)}]
<1>5. \A p \in PrefixId : wanted(p) \in Subnet
  BY <1>2, <1>3, <1>4 DEF Subnet
<1> SUFFICES ASSUME NEW s \in Wanted(b)
             PROVE  s \in Subnet
  BY DEF Conf
<1>6. PICK p \in PrefixId : s = wanted(p)
  BY DEF Wanted
<1> HIDE DEF wanted
<1> QED
  BY <1>5, <1>6

\* The process starts again.
LEMMA RestartKeeps ==
    ASSUME Inv, Restart
    PROVE  Inv'
<1>1. live' \in [Backend -> Conf]
  BY WantedType DEF Restart, Inv, TypeOK
<1>2. queue' \in Seq(Event)
  <2>1. queue \in Seq(Event) /\ <<>> \in Seq(Event)
    BY DEF Inv, TypeOK
  <2> QED
    BY <2>1 DEF Restart
<1>3. faults' \in 0..MaxFaults
  BY BoundsAssumption DEF Restart, Fault, Inv, TypeOK
<1>4. TypeOK'
  BY <1>1, <1>2, <1>3, FirstBackend DEF Restart, Inv, TypeOK
<1>5. HandlerOK'
  BY DEF Restart, HandlerOK, Busy, Rebuilding
<1> QED
  BY <1>4, <1>5 DEF Inv

LEMMA ListenKeeps ==
    ASSUME Inv, Listen
    PROVE  Inv'
<1>1. TypeOK'
  BY DEF Listen, Inv, TypeOK, apps, pages, history
<1>2. HandlerOK'
  BY DEF Listen, Inv, HandlerOK, Busy, Rebuilding, pages
<1> QED
  BY <1>1, <1>2 DEF Inv

LEMMA InitInv ==
    ASSUME Init
    PROVE  Inv
<1>1. nb \in NetBox
  BY NetBoxesAssumption DEF Init
<1>2. HandlerOK
  BY DEF Init, Idle, HandlerOK, Busy, Rebuilding
<1>3. live \in [Backend -> Conf] /\ work = live
  BY <1>1, WantedType DEF Init
<1>4. TypeOK
  BY <1>1, <1>3, FirstBackend, BoundsAssumption DEF Init, Idle, TypeOK
<1> QED
  BY <1>2, <1>4 DEF Inv

\* Every step keeps the types and what the handler knows.
LEMMA NextKeeps ==
    ASSUME Inv, [Next]_vars
    PROVE  Inv'
<1>1. CASE Next
  BY <1>1, EnvironmentKeeps, ReloadFailsKeeps, FailKeeps, RestartKeeps, TakeKeeps,
     ListAddressesKeeps, DeletePrefixKeeps, SkipPrefixKeeps, UpdatePrefixKeeps,
     DeleteIpKeeps, DeleteRangeKeeps, DeleteBareKeeps, ReadIpKeeps, ReadMacKeeps,
     ReadRangeKeeps, QueryPrefixesKeeps, SetItemKeeps, EndItemKeeps,
     QueryAddressesKeeps, AddResaKeeps, DropBareKeeps, QueryRangesKeeps,
     AddPoolKeeps, EndRecreateKeeps,
     PushNothingKeeps, PushKeeps, ListenKeeps
  DEF Next, Listener
<1>2. CASE UNCHANGED vars
  <2>1. TypeOK'
    BY <1>2 DEF vars, apps, handler, pages, history, Inv, TypeOK
  <2>2. HandlerOK'
    BY <1>2
    DEF vars, handler, pages, Inv, HandlerOK, Busy, Rebuilding, Lists, Fits, FitsAddress
  <2> QED
    BY <2>1, <2>2 DEF Inv
<1> QED
  BY <1>1, <1>2

LEMMA InvHolds == Spec => []Inv
<1>1. Init => Inv
  BY InitInv
<1>2. Inv /\ [Next]_vars => Inv'
  BY NextKeeps
<1> QED
  BY <1>1, <1>2, PTL DEF Spec

\* Every variable of the listener keeps its type (listener.py, connector.py).
THEOREM EventTypes == Spec => []TypeOK
<1>1. Inv => TypeOK
  BY DEF Inv
<1> QED
  BY <1>1, InvHolds, PTL

-----------------------------------------------------------------------------
(***************************************************************************)
(* A push is focused because every edit is: from the pull that begins an   *)
(* event to its last push, the working copy of each server differs from    *)
(* what it runs only in what the event is about.                           *)
(***************************************************************************)

\* A subnet that is made anew is that of the event, or the server has it not.
CurOK ==
    Rebuilding =>
        IF ev.model = "prefix" THEN cur.id = ev.id
        ELSE ~HasSubnet(live[cur.backend], cur.id)

WorkOK == Busy => \A b \in Backend : InScope(ev, live[b], work[b])

Scope == CurOK /\ WorkOK

LEMMA KeptReflexive ==
    ASSUME NEW e, NEW c
    PROVE  InScope(e, c, c)
BY DEF InScope, Kept, HasSubnet

\* Dropping the subnet of a prefix event.
LEMMA DropSubnetScope ==
    ASSUME NEW e \in Event, e.model = "prefix", NEW old, NEW new, InScope(e, old, new)
    PROVE  InScope(e, old, DropSubnet(new, e.id))
<1>1. \A s : s.id = e.id => e = [model |-> "prefix", id |-> s.id]
  BY DEF Event
<1> QED
  BY <1>1 DEF InScope, Kept, DropSubnet

\* Making it anew, or making one that is missing.
LEMMA PutSubnetScope ==
    ASSUME NEW e \in Event, NEW old, NEW new, InScope(e, old, new),
           NEW pid, NEW net, NEW opt,
           IF e.model = "prefix" THEN pid = e.id ELSE ~HasSubnet(old, pid)
    PROVE  InScope(e, old, PutSubnet(new, pid, net, opt))
<1> DEFINE bare == [id |-> pid, net |-> net, opt |-> opt, resas |-> {}, pools |-> {}]
<1>1. \A s \in old : s.id = pid => e = [model |-> "prefix", id |-> s.id]
  BY DEF Event, HasSubnet
<1>2. \A t : t \in PutSubnet(new, pid, net, opt) <=> (t \in new /\ t.id # pid) \/ t = bare
  BY DEF PutSubnet, DropSubnet
<1>3. bare.id = pid
  OBVIOUS
<1> HIDE DEF bare
<1>4. ASSUME NEW s \in old, e # [model |-> "prefix", id |-> s.id]
      PROVE  \E t \in PutSubnet(new, pid, net, opt) : Kept(e, s, t)
  <2>1. PICK t \in new : Kept(e, s, t)
    BY <1>4 DEF InScope
  <2>2. t.id # pid
    BY <1>1, <1>4, <2>1 DEF Kept
  <2> QED
    BY <1>2, <2>1, <2>2
<1>5. ASSUME NEW t \in PutSubnet(new, pid, net, opt)
      PROVE  HasSubnet(old, t.id) \/ e.model # "prefix" \/ e.id = t.id
  BY <1>2, <1>3, <1>5 DEF InScope
<1> QED
  BY <1>4, <1>5 DEF InScope

\* An edit of the subnets one by one, which keeps what is not of the event.
LEMMA EachSubnetScope ==
    ASSUME NEW e, NEW old, NEW new, InScope(e, old, new), NEW f,
           \A t \in new : f[t].id = t.id,
           \A s \in old : \A t \in new :
               Kept(e, s, t) => e = [model |-> "prefix", id |-> s.id] \/ Kept(e, s, f[t])
    PROVE  InScope(e, old, {f[t] : t \in new})
BY DEF InScope

LEMMA UpdateOptionsScope ==
    ASSUME NEW e \in Event, e.model = "prefix", NEW old \in Conf, NEW new \in Conf,
           InScope(e, old, new), NEW opt
    PROVE  InScope(e, old, UpdateOptions(new, e.id, opt))
<1> DEFINE f == [t \in new |-> IF t.id = e.id THEN [t EXCEPT !.opt = opt] ELSE t]
<1>1. UpdateOptions(new, e.id, opt) = {f[t] : t \in new}
  BY DEF UpdateOptions
<1>2. \A t \in new : f[t].id = t.id /\ (t.id # e.id => f[t] = t)
  BY DEF Conf, Subnet
<1>3. \A s \in old : s.id = e.id => e = [model |-> "prefix", id |-> s.id]
  BY DEF Event
<1> HIDE DEF f
<1>4. \A s \in old : \A t \in new :
        Kept(e, s, t) => e = [model |-> "prefix", id |-> s.id] \/ Kept(e, s, f[t])
  BY <1>2, <1>3 DEF Kept
<1> QED
  BY <1>1, <1>2, <1>4, EachSubnetScope

\* Fewer reservations.
WithoutResas(c, nids) ==
    {[s EXCEPT !.resas = {x \in s.resas : x.nid \notin nids}] : s \in c}

LEMMA WithoutResasScope ==
    ASSUME NEW e, NEW old \in Conf, NEW new \in Conf, InScope(e, old, new), NEW nids
    PROVE  InScope(e, old, WithoutResas(new, nids))
<1> DEFINE f == [s \in new |->
                    [s EXCEPT !.resas = {x \in s.resas : x.nid \notin nids}]]
<1>1. WithoutResas(new, nids) = {f[t] : t \in new}
  BY DEF WithoutResas
<1>2. \A t \in new : /\ f[t].id = t.id /\ f[t].net = t.net /\ f[t].opt = t.opt
                     /\ f[t].resas \subseteq t.resas /\ f[t].pools = t.pools
  BY DEF Conf, Subnet
<1> HIDE DEF f
<1>3. \A s \in old : \A t \in new : Kept(e, s, t) => Kept(e, s, f[t])
  BY <1>2 DEF Kept
<1>4. InScope(e, old, {f[t] : t \in new})
  BY <1>2, <1>3, EachSubnetScope
<1> QED
  BY <1>1, <1>4

LEMMA DropResaScope ==
    ASSUME NEW e, NEW old \in Conf, NEW new \in Conf, InScope(e, old, new), NEW nid
    PROVE  InScope(e, old, DropResa(new, nid))
<1>1. DropResa(new, nid) = WithoutResas(new, {nid})
  BY DEF DropResa, WithoutResas
<1> QED
  BY <1>1, WithoutResasScope

LEMMA DropPoolScope ==
    ASSUME NEW e \in Event, e.model = "iprange", NEW old \in Conf, NEW new \in Conf,
           InScope(e, old, new)
    PROVE  InScope(e, old, DropPool(new, e.id))
<1> DEFINE f == [s \in new |-> [s EXCEPT !.pools = {x \in s.pools : x.rid # e.id}]]
<1>1. DropPool(new, e.id) = {f[t] : t \in new}
  BY DEF DropPool
<1>2. \A t \in new : /\ f[t].id = t.id /\ f[t].net = t.net /\ f[t].opt = t.opt
                     /\ f[t].resas = t.resas
                     /\ \A x : x \in f[t].pools <=> x \in t.pools /\ x.rid # e.id
  BY DEF Conf, Subnet
<1> HIDE DEF f
<1>3. \A s \in old : \A t \in new : Kept(e, s, t) => Kept(e, s, f[t])
  BY <1>2 DEF Kept
<1> QED
  BY <1>1, <1>2, <1>3, EachSubnetScope

\* An item of the event, or an item of a subnet that is made anew.
LEMMA PutResaScope ==
    ASSUME NEW e \in Event, NEW old \in Conf, NEW new \in Conf, InScope(e, old, new),
           NEW pid, NEW r \in ResaItem,
           \/ e.model = "ipaddress" /\ r.nid = e.id
           \/ e.model = "interface"
           \/ e.model = "prefix" /\ pid = e.id
           \/ ~HasSubnet(old, pid)
    PROVE  InScope(e, old, PutResa(new, pid, r))
<1> DEFINE f == [s \in new |->
                 IF s.id = pid
                 THEN [s EXCEPT !.resas = {x \in s.resas : x.nid # r.nid} \cup {r}]
                 ELSE s]
<1>1. PutResa(new, pid, r) = {f[t] : t \in new}
  BY DEF PutResa
<1>2. \A t \in new : /\ f[t].id = t.id /\ f[t].net = t.net /\ f[t].opt = t.opt
                     /\ f[t].pools = t.pools
                     /\ f[t].resas \subseteq t.resas \cup {r}
                     /\ t.id # pid => f[t] = t
  BY DEF Conf, Subnet
<1>3. \A s \in old : s.id = e.id /\ e.model = "prefix"
                     => e = [model |-> "prefix", id |-> s.id]
  BY DEF Event
<1> HIDE DEF f
<1>4. ASSUME NEW s \in old, NEW t \in new, Kept(e, s, t)
      PROVE  e = [model |-> "prefix", id |-> s.id] \/ Kept(e, s, f[t])
  <2>1. CASE t.id # pid
    BY <1>2, <1>4, <2>1
  <2>2. CASE /\ t.id = pid
             /\ \/ e.model = "ipaddress" /\ r.nid = e.id
                \/ e.model = "interface"
    BY <1>2, <1>4, <2>2 DEF Kept
  <2>3. CASE t.id = pid /\ e.model = "prefix" /\ pid = e.id
    BY <1>3, <1>4, <2>3 DEF Kept
  <2>4. CASE t.id = pid /\ ~HasSubnet(old, pid)
    BY <1>4, <2>4 DEF Kept, HasSubnet
  <2> QED
    BY <2>1, <2>2, <2>3, <2>4
<1> QED
  BY <1>1, <1>2, <1>4, EachSubnetScope

LEMMA PutPoolScope ==
    ASSUME NEW e \in Event, NEW old \in Conf, NEW new \in Conf, InScope(e, old, new),
           NEW pid, NEW p \in PoolItem,
           \/ e.model = "iprange" /\ p.rid = e.id
           \/ e.model = "prefix" /\ pid = e.id
           \/ ~HasSubnet(old, pid)
    PROVE  InScope(e, old, PutPool(new, pid, p))
<1> DEFINE f == [s \in new |->
                 IF s.id = pid
                 THEN [s EXCEPT !.pools = {x \in s.pools : x.rid # p.rid} \cup {p}]
                 ELSE s]
<1>1. PutPool(new, pid, p) = {f[t] : t \in new}
  BY DEF PutPool
<1>2. \A t \in new : /\ f[t].id = t.id /\ f[t].net = t.net /\ f[t].opt = t.opt
                     /\ f[t].resas = t.resas
                     /\ \A x : x.rid # p.rid => (x \in f[t].pools <=> x \in t.pools)
                     /\ t.id # pid => f[t] = t
  BY DEF Conf, Subnet
<1>3. \A s \in old : s.id = e.id /\ e.model = "prefix"
                     => e = [model |-> "prefix", id |-> s.id]
  BY DEF Event
<1> HIDE DEF f
<1>4. ASSUME NEW s \in old, NEW t \in new, Kept(e, s, t)
      PROVE  e = [model |-> "prefix", id |-> s.id] \/ Kept(e, s, f[t])
  <2>1. CASE t.id # pid
    BY <1>2, <1>4, <2>1
  <2>2. CASE t.id = pid /\ e.model = "iprange" /\ p.rid = e.id
    BY <1>2, <1>4, <2>2 DEF Kept
  <2>3. CASE t.id = pid /\ e.model = "prefix" /\ pid = e.id
    BY <1>3, <1>4, <2>3 DEF Kept
  <2>4. CASE t.id = pid /\ ~HasSubnet(old, pid)
    BY <1>4, <2>4 DEF Kept, HasSubnet
  <2> QED
    BY <2>1, <2>2, <2>3, <2>4
<1> QED
  BY <1>1, <1>2, <1>4, EachSubnetScope

-----------------------------------------------------------------------------

\* An accepted edit of one server, in scope there, keeps WorkOK.
LEMMA CommitScope ==
    ASSUME Inv, Scope, Busy, NEW b \in Backend, NEW c, Commit(b, c),
           InScope(ev, live[b], c), UNCHANGED <<ev, live>>
    PROVE  WorkOK'
BY DEF Commit, Scope, WorkOK, Busy, Inv, TypeOK

\* A deletion on every server, in scope on each.
LEMMA BroadcastScope ==
    ASSUME Inv, Scope, Busy, NEW confs, Broadcast(confs), UNCHANGED <<ev, live>>,
           \A b \in Backend : InScope(ev, live[b], confs[b])
    PROVE  WorkOK'
BY DEF Broadcast, WorkOK, Busy

\* The event is over, or nothing was edited.
LEMMA RestScope ==
    ASSUME ~Busy'
    PROVE  Scope'
BY DEF Scope, CurOK, WorkOK, Busy, Rebuilding

LEMMA EndEventScope ==
    ASSUME EndEvent
    PROVE  Scope'
BY RestScope DEF EndEvent, Busy

LEMMA OverScope ==
    ASSUME NEW rest, Over(rest), WorkOK'
    PROVE  Scope'
BY DEF Over, Scope, CurOK, Rebuilding

LEMMA QuietScope ==
    ASSUME Inv, Scope, Busy, UNCHANGED <<live, work, ev>>
    PROVE  WorkOK'
BY DEF Scope, WorkOK, Busy

LEMMA RecreateScope ==
    ASSUME Inv, Scope, Busy, NEW pr \in Prefs, Recreate(pr),
           IF ev.model = "prefix" THEN pr.id = ev.id
           ELSE ~HasSubnet(work[pr.backend], pr.id)
    PROVE  Scope'
<1> DEFINE b == pr.backend
           c == PutSubnet(work[b], pr.id, pr.net, pr.opt)
<1>1. b \in Backend /\ ev \in Event /\ InScope(ev, live[b], work[b])
  BY DEF Prefs, Inv, HandlerOK, Scope, WorkOK
<1>2. IF ev.model = "prefix" THEN pr.id = ev.id ELSE ~HasSubnet(live[b], pr.id)
  <2>1. ASSUME ev.model # "prefix", HasSubnet(live[b], pr.id)
        PROVE  HasSubnet(work[b], pr.id)
    <3>1. PICK s \in live[b] : s.id = pr.id
      BY <2>1 DEF HasSubnet
    <3>2. ev # [model |-> "prefix", id |-> s.id]
      BY <2>1
    <3> QED
      BY <1>1, <3>1, <3>2 DEF InScope, Kept, HasSubnet
  <2> QED
    BY <2>1
<1>3. CASE Raise
  BY <1>3, EndEventScope DEF Raise
<1>4. CASE /\ Commit(b, c) /\ Along
           /\ pc' = "addresses" /\ cur' = pr
  <2>1. UNCHANGED <<ev, live>>
    BY <1>4 DEF Along, Quiet
  <2>2. InScope(ev, live[b], c)
    BY <1>1, <1>2, PutSubnetScope
  <2>3. WorkOK'
    BY <1>1, <1>4, <2>1, <2>2, CommitScope
  <2>4. CurOK'
    BY <1>2, <1>4, <2>1 DEF CurOK
  <2> QED
    BY <2>3, <2>4 DEF Scope
<1> QED
  BY <1>3, <1>4 DEF Recreate

\* The edits of an event stay in its scope, one lemma per action that edits.
LEMMA UpdatePrefixScope ==
    ASSUME Inv, Scope, UpdatePrefix
    PROVE  Scope'
<1> DEFINE pr == Pref(ev.id)
           b == pr.backend
           c == UpdateOptions(work[b], pr.id, pr.opt)
<1>1. Busy /\ ev \in Event /\ ev.model = "prefix"
  BY DEF UpdatePrefix, Busy, Inv, HandlerOK
<1>2. pr \in Prefs /\ pr.id = ev.id
  <2>1. ev.id \in PrefixId
    BY <1>1 DEF Event
  <2> QED
    BY <2>1, PrefType DEF UpdatePrefix, Inv, TypeOK
<1>3. b \in Backend
  BY <1>2 DEF Prefs
<1>4. live[b] \in Conf /\ work[b] \in Conf /\ InScope(ev, live[b], work[b])
  BY <1>1, <1>3 DEF Inv, TypeOK, Scope, WorkOK
<1>5. \/ Commit(b, c) /\ NextObject({})
      \/ Raise
      \/ Recreate(pr)
  BY DEF UpdatePrefix
<1>6. InScope(ev, live[b], c)
  BY <1>1, <1>2, <1>4, UpdateOptionsScope
<1> HIDE DEF pr, b, c
<1>7. CASE Commit(b, c) /\ NextObject({})
  <2>1. UNCHANGED <<ev, live>> /\ Over({})
    BY <1>7 DEF NextObject, Over, Along, Quiet
  <2> QED
    BY <1>1, <1>3, <1>6, <1>7, <2>1, CommitScope, OverScope
<1>8. CASE Raise
  BY <1>8, EndEventScope DEF Raise
<1>9. CASE Recreate(pr)
  BY <1>1, <1>2, <1>9, RecreateScope
<1> QED
  BY <1>5, <1>7, <1>8, <1>9

LEMMA DeletionsScope ==
    ASSUME Inv, Scope, DeletePrefix \/ DeleteIp \/ DeleteRange \/ DeleteBare
    PROVE  Scope'
<1>1. Busy /\ ev \in Event
  BY DEF DeletePrefix, DeleteIp, DeleteRange, DeleteBare, Busy, Inv, HandlerOK
<1>2. \A b \in Backend : /\ live[b] \in Conf /\ work[b] \in Conf
                         /\ InScope(ev, live[b], work[b])
  BY <1>1 DEF Inv, TypeOK, Scope, WorkOK
<1>3. PICK confs, rest :
        /\ Broadcast(confs) /\ Over(rest)
        /\ \A b \in Backend : InScope(ev, live[b], confs[b])
  <2>1. CASE DeletePrefix
    <3>1. \A b \in Backend : InScope(ev, live[b], DropSubnet(work[b], ev.id))
      BY <1>1, <1>2, <2>1, DropSubnetScope DEF DeletePrefix
    <3>2. Broadcast([b \in Backend |-> DropSubnet(work[b], ev.id)]) /\ Over({})
      BY <2>1 DEF DeletePrefix
    <3> QED
      BY <3>1, <3>2
  <2>2. CASE DeleteIp
    <3>1. PICK i \in ids : /\ Broadcast([b \in Backend |-> DropResa(work[b], i)])
                           /\ NextObject(ids \ {i})
      BY <2>2 DEF DeleteIp
    <3>2. \A b \in Backend : InScope(ev, live[b], DropResa(work[b], i))
      BY <1>2, DropResaScope
    <3> QED
      BY <3>1, <3>2 DEF NextObject
  <2>3. CASE DeleteRange
    <3>1. \A b \in Backend : InScope(ev, live[b], DropPool(work[b], ev.id))
      BY <1>1, <1>2, <2>3, DropPoolScope DEF DeleteRange
    <3>2. Broadcast([b \in Backend |-> DropPool(work[b], ev.id)]) /\ Over({})
      BY <2>3 DEF DeleteRange, NextObject
    <3> QED
      BY <3>1, <3>2
  <2>4. CASE DeleteBare
    <3>1. \A b \in Backend : InScope(ev, live[b], DropResa(work[b], item.nid))
      BY <1>2, DropResaScope
    <3>2. /\ Broadcast([b \in Backend |-> DropResa(work[b], item.nid)])
          /\ Over(ids)
      BY <2>4 DEF DeleteBare, NextObject
    <3> QED
      BY <3>1, <3>2
  <2> QED
    BY <2>1, <2>2, <2>3, <2>4
<1>4. UNCHANGED <<ev, live>>
  BY <1>3 DEF Over, Along, Quiet
<1> QED
  BY <1>1, <1>3, <1>4, BroadcastScope, OverScope

LEMMA SetItemScope ==
    ASSUME Inv, Scope, SetItem
    PROVE  Scope'
<1>1. Busy /\ ev \in Event /\ Fits(ev, item) /\ pc = "set"
  BY DEF SetItem, Busy, Inv, HandlerOK
<1> DEFINE c(pr) == IF ev.model = "iprange" THEN PutPool(work[pr.backend], pr.id, item)
                    ELSE PutResa(work[pr.backend], pr.id, item)
<1>2. PICK pr \in prefs :
        \/ Commit(pr.backend, c(pr)) /\ UNCHANGED pc /\ Step
        \/ Raise
        \/ ~HasSubnet(work[pr.backend], pr.id) /\ Recreate(pr)
  BY DEF SetItem, PoolErrors, ResaErrors
<1>3. pr \in Prefs /\ pr.backend \in Backend
  BY DEF Inv, TypeOK, Prefs
<1>4. /\ live[pr.backend] \in Conf /\ work[pr.backend] \in Conf
      /\ InScope(ev, live[pr.backend], work[pr.backend])
  BY <1>1, <1>3 DEF Inv, TypeOK, Scope, WorkOK
<1>5. InScope(ev, live[pr.backend], c(pr))
  BY <1>1, <1>4, PutPoolScope, PutResaScope DEF Fits
<1> HIDE DEF c
<1>6. CASE Commit(pr.backend, c(pr)) /\ UNCHANGED pc /\ Step
  <2>1. UNCHANGED <<ev, live>>
    BY <1>6 DEF Step, Along, Quiet
  <2>2. WorkOK'
    BY <1>1, <1>3, <1>5, <1>6, <2>1, CommitScope
  <2> QED
    BY <1>1, <1>6, <2>2 DEF Scope, CurOK, Rebuilding
<1>7. CASE Raise
  BY <1>7, EndEventScope DEF Raise
<1>8. CASE ~HasSubnet(work[pr.backend], pr.id) /\ Recreate(pr)
  BY <1>1, <1>3, <1>8, RecreateScope DEF Fits
<1> QED
  BY <1>2, <1>6, <1>7, <1>8

LEMMA AddItemScope ==
    ASSUME Inv, Scope, AddResa \/ AddPool
    PROVE  Scope'
<1> DEFINE b == cur.backend
<1>1. /\ Busy /\ Rebuilding /\ ev \in Event /\ cur \in Prefs /\ b \in Backend
      /\ \/ ev.model = "prefix" /\ cur.id = ev.id
         \/ ~HasSubnet(live[b], cur.id)
  BY DEF AddResa, AddPool, Busy, Rebuilding, Inv, HandlerOK, Prefs, Scope, CurOK
<1>2. live[b] \in Conf /\ work[b] \in Conf /\ InScope(ev, live[b], work[b])
  BY <1>1 DEF Inv, TypeOK, Scope, WorkOK
<1>3. \E x \in items : \E e, errors, c :
        AddOrLog(x, e, errors, c) /\ InScope(ev, live[b], c)
  <2>1. CASE AddResa
    <3>1. PICK x \in items :
            /\ MacOf(x) # NoMac
            /\ AddOrLog(x, [model |-> "ipaddress", id |-> x.nid],
                   ResaErrors(work[b], cur.id, ResaFor(x)),
                   PutResa(work[b], cur.id, ResaFor(x)))
      BY <2>1 DEF AddResa
    <3>2. ResaFor(x) \in ResaItem
      BY <2>1, <3>1, ListingType DEF AddResa, Inv, HandlerOK, TypeOK
    <3>3. InScope(ev, live[b], PutResa(work[b], cur.id, ResaFor(x)))
      BY <1>1, <1>2, <3>2, PutResaScope
    <3> QED
      BY <3>1, <3>3
  <2>2. CASE AddPool
    <3>1. PICK x \in items :
            AddOrLog(x, [model |-> "iprange", id |-> x.rid],
                PoolErrors(work[b], cur.id, x), PutPool(work[b], cur.id, x))
      BY <2>2 DEF AddPool
    <3>2. x \in PoolItem
      BY <2>2 DEF AddPool, Inv, HandlerOK
    <3>3. InScope(ev, live[b], PutPool(work[b], cur.id, x))
      BY <1>1, <1>2, <3>2, PutPoolScope
    <3> QED
      BY <3>1, <3>3
  <2> QED
    BY <2>1, <2>2
<1>4. PICK x \in items : \E e, errors, c :
        AddOrLog(x, e, errors, c) /\ InScope(ev, live[b], c)
  BY <1>3
<1>5. PICK e, errors, c : AddOrLog(x, e, errors, c) /\ InScope(ev, live[b], c)
  BY <1>4
<1>6. UNCHANGED <<pc, cur, ev, live>> /\ (UNCHANGED apps \/ Commit(b, c))
  BY <1>5 DEF AddOrLog, Step, Along, Quiet
<1>7. WorkOK'
  BY <1>1, <1>5, <1>6, CommitScope, QuietScope DEF apps
<1>8. CurOK'
  BY <1>6 DEF Scope, CurOK, Rebuilding
<1> QED
  BY <1>7, <1>8 DEF Scope

LEMMA DropBareScope ==
    ASSUME Inv, Scope, DropBare
    PROVE  Scope'
<1>1. PICK x \in items : Broadcast([b \in Backend |-> DropResa(work[b], x.nid)])
  BY DEF DropBare
<1>2. Busy /\ UNCHANGED <<pc, cur, ev, live>>
  BY DEF DropBare, Busy, Step, Along, Quiet
<1>3. \A b \in Backend : InScope(ev, live[b], DropResa(work[b], x.nid))
  BY <1>2, DropResaScope DEF Inv, TypeOK, HandlerOK, Scope, WorkOK
<1>4. WorkOK'
  BY <1>1, <1>2, <1>3, BroadcastScope
<1>5. CurOK'
  BY <1>2 DEF Scope, CurOK, Rebuilding
<1> QED
  BY <1>4, <1>5 DEF Scope

\* An event starts from what the servers run.
LEMMA TakeScope ==
    ASSUME Inv, Take
    PROVE  Scope'
<1>1. work' = live /\ UNCHANGED live /\ pc' \in {"list", "read"}
  BY DEF Take
<1>2. WorkOK'
  BY <1>1, KeptReflexive DEF WorkOK
<1> QED
  BY <1>1, <1>2 DEF Scope, CurOK, Rebuilding

\* Answers of NetBox, which edit nothing.
LEMMA AnswersScope ==
    ASSUME Inv, Scope,
           ListAddresses \/ SkipPrefix \/ ReadIp \/ ReadMac \/ ReadRange
             \/ QueryPrefixes \/ EndItem \/ QueryAddresses \/ QueryRanges
             \/ EndRecreate
    PROVE  Scope'
<1>1. UNCHANGED <<ev, live, work>> /\ Busy
  BY DEF ListAddresses, SkipPrefix, ReadIp, ReadMac, ReadRange, QueryPrefixes,
         EndItem, QueryAddresses, QueryRanges, EndRecreate, NextObject, Over, Step, Along,
         Quiet, apps, Busy
<1>2. Rebuilding' => Rebuilding /\ UNCHANGED cur
  BY DEF ListAddresses, SkipPrefix, ReadIp, ReadMac, ReadRange, QueryPrefixes,
         EndItem, QueryAddresses, QueryRanges, EndRecreate, NextObject, Over, Rebuilding
<1>3. WorkOK'
  BY <1>1, QuietScope
<1>4. CurOK'
  BY <1>1, <1>2 DEF Scope, CurOK
<1> QED
  BY <1>3, <1>4 DEF Scope

\* A server that is pushed runs its working copy.
LEMMA PushScope ==
    ASSUME Inv, Scope, Push \/ PushNothing
    PROVE  Scope'
<1> DEFINE b == BackendOrder[at]
<1>1. CASE EndEvent
  BY <1>1, EndEventScope
<1>2. CASE UNCHANGED <<pc, ev, cur>> /\ Push
  <2>1. /\ live' \in {live, [live EXCEPT ![b] = work[b]]} /\ UNCHANGED work
        /\ pc = "push" /\ b \in Backend
    BY <1>2, BackendAssumption DEF Push, Pushing, NextPush, Inv, TypeOK
  <2>2. live \in [Backend -> Conf]
    BY DEF Inv, TypeOK
  <2>3. \A d \in Backend : live'[d] \in {live[d], work[d]}
    BY <2>1, <2>2
  <2>4. WorkOK'
    BY <1>2, <2>1, <2>3, KeptReflexive DEF Scope, WorkOK, Busy
  <2> QED
    BY <1>2, <2>1, <2>4 DEF Scope, CurOK, Rebuilding
<1> QED
  BY <1>1, <1>2 DEF Push, PushNothing, NextPush

\* NetBox changes; the handler and the servers do not.
LEMMA EnvironmentScope ==
    ASSUME Inv, Scope, Environment \/ UNCHANGED vars
    PROVE  Scope'
<1>1. UNCHANGED <<live, work, pc, ev, cur>>
  BY DEF Environment, ChangePrefix, ChangeIp, ChangeRange, ChangeMac, Changed,
         Lose, Repeat, vars, apps, handler
<1> QED
  BY <1>1 DEF Scope, CurOK, WorkOK, Busy, Rebuilding

\* Nothing is handled before or after.
LEMMA IdleScope ==
    ASSUME Inv, ReloadFails \/ Fail \/ Restart \/ Listen
    PROVE  Scope'
<1>1. CASE Fail
  BY <1>1, EndEventScope DEF Fail
<1>2. CASE ReloadFails \/ Restart \/ Listen
  BY <1>2, RestScope DEF ReloadFails, Restart, Listen, handler, Busy
<1> QED
  BY <1>1, <1>2

\* What is staged is in the scope of its event, in every state.
LEMMA ScopeHolds == Spec => []Scope
<1>1. Init => Scope
  BY RestScope DEF Init, Idle, Scope, CurOK, WorkOK, Busy, Rebuilding
<1>2. Inv /\ Scope /\ [Next]_vars => Scope'
  BY TakeScope, AnswersScope, PushScope, EnvironmentScope, IdleScope,
     DeletionsScope, UpdatePrefixScope, SetItemScope, AddItemScope, DropBareScope
  DEF Next, Listener
<1> QED
  BY <1>1, <1>2, InvHolds, PTL DEF Spec

(***************************************************************************)
(* A push changes only what its event is about: whatever NetBox does       *)
(* between the queries of a handler, whatever failed before, and with a    *)
(* subnet made anew in the middle of an address (listener.py,              *)
(* reload_dhcp_config and push_to_dhcp; connector.py, the event handlers). *)
(***************************************************************************)
THEOREM PushesAreFocused == Spec => []FocusedPush
<1>1. Scope => FocusedPush
  BY DEF Scope, WorkOK, Busy, FocusedPush
<1> QED
  BY <1>1, ScopeHolds, PTL

-----------------------------------------------------------------------------
(***************************************************************************)
(* The servers have what NetBox says, but for what an event on its way, or *)
(* the event in hand, is about, and for what is excused: of what each      *)
(* server runs (Live...), and of the working copy the handler edits        *)
(* (Work...), which catches up with the event as the handler goes on.      *)
(***************************************************************************)

Named(model, id) == [model |-> model, id |-> id]

Sent == {queue[k] : k \in DOMAIN queue}
Told == missed \cup moved
Late == Sent \cup Told

\* The settings of a prefix that was told of may stay wrong.
Hard(p) == Named("prefix", p) \in Told
Soft(p) == Named("prefix", p) \in Sent

\* The excuse of an interface is for the addresses it has.
LateResa(i) ==
    \/ Named("ipaddress", i) \in Late
    \/ nb.ip[i].on /\ Named("interface", nb.ip[i].iface) \in Late
LatePool(r) == Named("iprange", r) \in Late

\* What the event in hand is about.
EvPrefix(p) == Busy /\ ev = Named("prefix", p)
EvResa(i) ==
    Busy /\ \/ ev = Named("ipaddress", i)
            \/ nb.ip[i].on /\ ev = Named("interface", nb.ip[i].iface)
EvPool(r) == Busy /\ ev = Named("iprange", r)

WantsResa(i, net) == nb.ip[i].on /\ nb.ip[i].ip \in AddrIn[net] /\ Hw(i) # NoMac
WantsPool(r, net) ==
    nb.range[r].on /\ nb.range[r].lo \in PointIn[net] /\ nb.range[r].hi \in PointIn[net]

RightPlace(s, b) == nb.prefix[s.id].backend = b
RightSettings(s) ==
    /\ nb.prefix[s.id].on
    /\ nb.prefix[s.id].net = s.net /\ nb.prefix[s.id].opt = s.opt

\* The items of a subnet are right by its own network, whatever has become of
\* its prefix.
RightResa(s, i) ==
    /\ \A x \in s.resas : x.nid = i => WantsResa(i, s.net) /\ x = ResaOf(i)
    /\ WantsResa(i, s.net) => ResaOf(i) \in s.resas
RightPool(s, r) ==
    /\ \A x \in s.pools : x.rid = r => WantsPool(r, s.net) /\ x = PoolOf(r)
    /\ WantsPool(r, s.net) => PoolOf(r) \in s.pools

LiveSubnets ==
    \A b \in Backend : \A s \in live[b] :
        \/ Hard(s.id) \/ EvPrefix(s.id)
        \/ RightPlace(s, b) /\ (Soft(s.id) \/ RightSettings(s))
LiveCovers ==
    \A b \in Backend : \A p \in PrefixId :
        nb.prefix[p].on /\ nb.prefix[p].backend = b =>
            Hard(p) \/ EvPrefix(p) \/ Soft(p) \/ HasSubnet(live[b], p)
LiveResas ==
    \A b \in Backend : \A s \in live[b] : \A i \in IpId :
        \/ Hard(s.id) \/ EvPrefix(s.id) \/ Overlooked(s.id, "ipaddress", i)
        \/ LateResa(i) \/ EvResa(i) \/ RightResa(s, i)
LivePools ==
    \A b \in Backend : \A s \in live[b] : \A r \in RangeId :
        \/ Hard(s.id) \/ EvPrefix(s.id) \/ Overlooked(s.id, "iprange", r)
        \/ LatePool(r) \/ EvPool(r) \/ RightPool(s, r)

LiveRight == LiveSubnets /\ LiveCovers /\ LiveResas /\ LivePools

\* What the handler is still to do: read a prefix, set an item somewhere,
\* fill a subnet made anew.
AboutIps == ev.model \in {"ipaddress", "interface"}
ToRead(p) == pc = "read" /\ ev = Named("prefix", p)
ToDoResa(i) ==
    \/ pc = "list" /\ nb.ip[i].on /\ nb.ip[i].iface = ev.id
    \/ AboutIps /\ i \in ids
    \/ AboutIps /\ pc \in {"mac", "prefixes"} /\ i = item.nid
ToDoPool(r) == pc \in {"read", "prefixes"} /\ ev = Named("iprange", r)

InHand(p) == \E pr \in prefs : pr.id = p
ToSetResa(p, i) ==
    \/ InHand(p) /\ AboutIps /\ item.nid = i
    \/ pc = "addresses" /\ cur.id = p
    \/ pc = "resas" /\ cur.id = p /\ \E x \in items : x.nid = i
    \/ pc = "resas" /\ cur.id = p /\ offset > 0 /\ i \notin seen
ToSetPool(p, r) ==
    \/ InHand(p) /\ ev.model = "iprange" /\ item.rid = r
    \/ pc \in {"addresses", "resas"} /\ cur.id = p
    \/ pc = "pools" /\ cur.id = p /\ \E x \in items : x.rid = r

\* The working copy is right, or about to be.
SubnetDone(s, b) ==
    \/ Hard(s.id)
    \/ RightPlace(s, b) /\ (Soft(s.id) \/ ToRead(s.id) \/ RightSettings(s))
ResaDone(s, i) ==
    \/ Hard(s.id) \/ Overlooked(s.id, "ipaddress", i)
    \/ LateResa(i) \/ ToDoResa(i) \/ ToSetResa(s.id, i) \/ RightResa(s, i)
PoolDone(s, r) ==
    \/ Hard(s.id) \/ Overlooked(s.id, "iprange", r)
    \/ LatePool(r) \/ ToDoPool(r) \/ ToSetPool(s.id, r) \/ RightPool(s, r)

WorkSubnets == Busy => \A b \in Backend : \A s \in work[b] : SubnetDone(s, b)
WorkCovers ==
    Busy => \A b \in Backend : \A p \in PrefixId :
        nb.prefix[p].on /\ nb.prefix[p].backend = b =>
            Hard(p) \/ Soft(p) \/ ToRead(p) \/ HasSubnet(work[b], p)
WorkResas ==
    Busy => \A b \in Backend : \A s \in work[b] : \A i \in IpId : ResaDone(s, i)
WorkPools ==
    Busy => \A b \in Backend : \A s \in work[b] : \A r \in RangeId : PoolDone(s, r)

WorkRight == WorkSubnets /\ WorkCovers /\ WorkResas /\ WorkPools

\* The object is still in every network it was in, or has moved.
TracksResa(x) ==
    \/ Named("ipaddress", x.nid) \in moved
    \/ \A n \in Net : x.ip \in AddrIn[n] => nb.ip[x.nid].ip \in AddrIn[n]
TracksPool(x) ==
    \/ Named("iprange", x.rid) \in moved
    \/ \A n \in Net : x.lo \in PointIn[n] => nb.range[x.rid].lo \in PointIn[n]

\* The items of a subnet are NetBox's, in its network.
LawfulResas(s) ==
    \A x \in s.resas : x \in ResaItem /\ x.ip \in AddrIn[s.net] /\ TracksResa(x)
LawfulPools(s) ==
    \A x \in s.pools : x \in PoolItem /\ x.lo \in PointIn[s.net] /\ TracksPool(x)
Lawful(c) ==
    /\ \A s, t \in c : s.id = t.id => s = t
    /\ \A s \in c : LawfulResas(s) /\ LawfulPools(s)

LiveLawful == \A b \in Backend : Lawful(live[b])
WorkLawful == Busy => \A b \in Backend : Lawful(work[b])

\* A prefix, or an object, that was read is as it was, or an event says not.
Known(pr) ==
    \/ Hard(pr.id)
    \/ /\ nb.prefix[pr.id].backend = pr.backend
       /\ \/ Soft(pr.id)
          \/ /\ nb.prefix[pr.id].on
             /\ nb.prefix[pr.id].net = pr.net /\ nb.prefix[pr.id].opt = pr.opt
KnownAddress(x) ==
    /\ TracksResa(x)
    /\ LateResa(x.nid) \/ (nb.ip[x.nid].on /\ x = ListingOf(x.nid))
KnownResa(x) ==
    /\ TracksResa(x)
    /\ LateResa(x.nid) \/ (nb.ip[x.nid].on /\ x = ResaOf(x.nid))
KnownPool(x) ==
    /\ TracksPool(x)
    /\ LatePool(x.rid) \/ (nb.range[x.rid].on /\ x = PoolOf(x.rid))

PrefsKnown ==
    /\ prefs # {} => pc = "set" \/ (Rebuilding /\ item # NoItem)
    /\ \A pr \in prefs : Known(pr)
    /\ \A q, r \in prefs : q.id = r.id => q = r

\* The subnet made anew is there, with the items that were set in it.
CurKnown ==
    Rebuilding =>
        /\ Known(cur) /\ \A pr \in prefs : pr.id # cur.id
        /\ \E s \in work[cur.backend] :
            /\ s.id = cur.id /\ s.net = cur.net
            /\ pc = "addresses" => s.resas = {}
            /\ pc = "resas" /\ offset > 0 => \A x \in s.resas : x.nid \in seen
            /\ pc # "pools" => s.pools = {}

ItemsKnown ==
    /\ item # NoItem =>
        /\ pc = "mac" => KnownAddress(item)
        /\ pc # "mac" /\ AboutIps => KnownResa(item)
        /\ ev.model = "iprange" => KnownPool(item)
    /\ pc = "resas" => \A x \in items :
           KnownAddress(x) /\ (offset > 0 => x.nid \in seen)
    /\ pc = "pools" => \A x \in items : KnownPool(x)

\* A server that has nothing staged runs its working copy.
Looping ==
    /\ pc # "push" => at = 1
    /\ Busy => \A b \in Backend :
           ~staged[b] => live[b] = work[b] \/ (pc = "push" /\ ev \in missed)
    /\ pc = "push" => /\ \A k \in 1..(at - 1) : ~staged[BackendOrder[k]]
                      /\ ids = {} \/ ~AboutIps
    /\ pc = "list" => ids = {}
    /\ Rebuilding /\ item = NoItem => ~AboutIps

InStep ==
    /\ LiveRight /\ LiveLawful
    /\ WorkRight /\ WorkLawful
    /\ PrefsKnown /\ CurKnown /\ ItemsKnown /\ Looping

-----------------------------------------------------------------------------
(***************************************************************************)
(* NetBox moves on.                                                        *)
(***************************************************************************)

\* The servers and the handler stay as they are; what changes is told of.
Drift ==
    /\ UNCHANGED <<live, handler>>
    /\ missed \subseteq missed' /\ moved \subseteq moved'
    /\ UNCHANGED overlooked /\ Late \subseteq Late'
    /\ \A p \in PrefixId :
        \/ Hard(p)'
        \/ /\ nb'.prefix[p].backend = nb.prefix[p].backend
           /\ Soft(p)' \/ nb'.prefix[p] = nb.prefix[p]
    /\ \A i \in IpId :
        /\ \/ LateResa(i)'
           \/ nb'.ip[i] = nb.ip[i] /\ (nb.ip[i].on => Hw(i)' = Hw(i))
        /\ \/ Named("ipaddress", i) \in moved'
           \/ \A n \in Net : nb.ip[i].ip \in AddrIn[n] => nb'.ip[i].ip \in AddrIn[n]
    /\ \A r \in RangeId :
        /\ LatePool(r)' \/ nb'.range[r] = nb.range[r]
        /\ \/ Named("iprange", r) \in moved'
           \/ \A n \in Net : nb.range[r].lo \in PointIn[n] => nb'.range[r].lo \in PointIn[n]

\* A webhook is on its way, or lost while nothing listens.
LEMMA NotifyTells ==
    ASSUME Inv, NEW e, Notify(e), moved \subseteq moved'
    PROVE  missed \subseteq missed' /\ Late \subseteq Late' /\ e \in Late'
<1>1. CASE pc = "starting"
  BY <1>1 DEF Notify, Late, Sent, Told
<1>2. CASE pc # "starting"
  <2>1. queue' = Append(queue, e) /\ missed' = missed /\ queue \in Seq(Event)
    BY <1>2 DEF Notify, Inv, TypeOK
  <2>2. e \in Sent' /\ Sent \subseteq Sent'
    BY <2>1 DEF Sent
  <2> QED
    BY <2>1, <2>2 DEF Late, Told
<1> QED
  BY <1>1, <1>2

LEMMA ChangePrefixDrifts ==
    ASSUME Inv, NEW p \in PrefixId, ChangePrefix(p)
    PROVE  Drift
<1>1. PICK v \in PrefixMayBe[p] :
        /\ Changed
        /\ nb' = [nb EXCEPT !.prefix[p] = v]
        /\ Notify(Named("prefix", p))
        /\ Mark(Named("prefix", p), v.backend # nb.prefix[p].backend)
  BY DEF ChangePrefix, Named
<1>2. /\ UNCHANGED <<live, handler, overlooked>>
      /\ moved \subseteq moved'
      /\ v.backend # nb.prefix[p].backend => Named("prefix", p) \in moved'
  BY <1>1 DEF Changed, Mark, apps
<1>3. missed \subseteq missed' /\ Late \subseteq Late' /\ Named("prefix", p) \in Late'
  BY <1>1, <1>2, NotifyTells
<1>4. /\ nb'.ip = nb.ip /\ nb'.range = nb.range /\ nb'.mac = nb.mac
      /\ nb'.prefix[p] = v
      /\ \A q \in PrefixId : q # p => nb'.prefix[q] = nb.prefix[q]
  BY <1>1 DEF Inv, TypeOK, NetBox
<1>5. \A i \in IpId : nb'.ip[i] = nb.ip[i] /\ Hw(i)' = Hw(i)
  BY <1>4 DEF Hw, MacOf, ListingOf
<1>6. Hard(p)' \/ (v.backend = nb.prefix[p].backend /\ Soft(p)')
  BY <1>2, <1>3 DEF Hard, Soft, Late, Told
<1>7. ASSUME NEW q \in PrefixId
      PROVE  \/ Hard(q)'
             \/ /\ nb'.prefix[q].backend = nb.prefix[q].backend
                /\ Soft(q)' \/ nb'.prefix[q] = nb.prefix[q]
  <2>1. CASE q = p
    BY <1>4, <1>6, <2>1
  <2>2. CASE q # p
    BY <1>4, <2>2
  <2> QED
    BY <2>1, <2>2
<1> QED
  BY <1>2, <1>3, <1>4, <1>5, <1>7 DEF Drift

LEMMA ChangeIpDrifts ==
    ASSUME Inv, NEW i \in IpId, ChangeIp(i)
    PROVE  Drift
<1>1. PICK v \in IpMayBe[i] :
        /\ Changed
        /\ nb' = [nb EXCEPT !.ip[i] = v]
        /\ Notify(Named("ipaddress", i))
        /\ Mark(Named("ipaddress", i),
                \E n \in Net : nb.ip[i].ip \in AddrIn[n] /\ v.ip \notin AddrIn[n])
  BY DEF ChangeIp, Named
<1>2. /\ UNCHANGED <<live, handler, overlooked>>
      /\ moved \subseteq moved'
      /\ \/ Named("ipaddress", i) \in moved'
         \/ \A n \in Net : nb.ip[i].ip \in AddrIn[n] => v.ip \in AddrIn[n]
  BY <1>1 DEF Changed, Mark, apps
<1>3. missed \subseteq missed' /\ Late \subseteq Late' /\ Named("ipaddress", i) \in Late'
  BY <1>1, <1>2, NotifyTells
<1>4. /\ nb'.prefix = nb.prefix /\ nb'.range = nb.range /\ nb'.mac = nb.mac
      /\ nb'.ip[i] = v
      /\ \A j \in IpId : j # i => nb'.ip[j] = nb.ip[j]
  BY <1>1 DEF Inv, TypeOK, NetBox
<1>5. LateResa(i)'
  BY <1>3 DEF LateResa
<1>6. \A j \in IpId : j # i => nb'.ip[j] = nb.ip[j] /\ Hw(j)' = Hw(j)
  BY <1>4 DEF Hw, MacOf, ListingOf
<1>7. ASSUME NEW j \in IpId
      PROVE  /\ \/ LateResa(j)'
                \/ nb'.ip[j] = nb.ip[j] /\ (nb.ip[j].on => Hw(j)' = Hw(j))
             /\ \/ Named("ipaddress", j) \in moved'
                \/ \A n \in Net : nb.ip[j].ip \in AddrIn[n] => nb'.ip[j].ip \in AddrIn[n]
  <2>1. CASE j = i
    BY <1>2, <1>4, <1>5, <2>1
  <2>2. CASE j # i
    BY <1>6, <2>2
  <2> QED
    BY <2>1, <2>2
<1> QED
  BY <1>2, <1>3, <1>4, <1>7 DEF Drift

LEMMA ChangeRangeDrifts ==
    ASSUME Inv, NEW r \in RangeId, ChangeRange(r)
    PROVE  Drift
<1>1. PICK v \in RangeMayBe[r] :
        /\ Changed
        /\ nb' = [nb EXCEPT !.range[r] = v]
        /\ Notify(Named("iprange", r))
        /\ Mark(Named("iprange", r),
                \E n \in Net : nb.range[r].lo \in PointIn[n] /\ v.lo \notin PointIn[n])
  BY DEF ChangeRange, Named
<1>2. /\ UNCHANGED <<live, handler, overlooked>>
      /\ moved \subseteq moved'
      /\ \/ Named("iprange", r) \in moved'
         \/ \A n \in Net : nb.range[r].lo \in PointIn[n] => v.lo \in PointIn[n]
  BY <1>1 DEF Changed, Mark, apps
<1>3. missed \subseteq missed' /\ Late \subseteq Late' /\ Named("iprange", r) \in Late'
  BY <1>1, <1>2, NotifyTells
<1>4. /\ nb'.prefix = nb.prefix /\ nb'.ip = nb.ip /\ nb'.mac = nb.mac
      /\ nb'.range[r] = v
      /\ \A q \in RangeId : q # r => nb'.range[q] = nb.range[q]
  BY <1>1 DEF Inv, TypeOK, NetBox
<1>5. LatePool(r)'
  BY <1>3 DEF LatePool
<1>6. \A j \in IpId : nb'.ip[j] = nb.ip[j] /\ Hw(j)' = Hw(j)
  BY <1>4 DEF Hw, MacOf, ListingOf
<1>7. ASSUME NEW q \in RangeId
      PROVE  /\ LatePool(q)' \/ nb'.range[q] = nb.range[q]
             /\ \/ Named("iprange", q) \in moved'
                \/ \A n \in Net :
                     nb.range[q].lo \in PointIn[n] => nb'.range[q].lo \in PointIn[n]
  <2>1. CASE q = r
    BY <1>2, <1>4, <1>5, <2>1
  <2>2. CASE q # r
    BY <1>4, <2>2
  <2> QED
    BY <2>1, <2>2
<1> QED
  BY <1>2, <1>3, <1>4, <1>6, <1>7 DEF Drift

LEMMA ChangeMacDrifts ==
    ASSUME Inv, NEW f \in Iface, ChangeMac(f)
    PROVE  Drift
<1>1. PICK v \in MacMayBe[f] :
        /\ Changed
        /\ nb' = [nb EXCEPT !.mac[f] = v]
        /\ Notify(Named("interface", f))
        /\ UNCHANGED moved
  BY DEF ChangeMac, Named
<1>2. UNCHANGED <<live, handler, overlooked, moved>>
  BY <1>1 DEF Changed, apps
<1>3. missed \subseteq missed' /\ Late \subseteq Late' /\ Named("interface", f) \in Late'
  BY <1>1, <1>2, NotifyTells
<1>4. /\ nb'.prefix = nb.prefix /\ nb'.ip = nb.ip /\ nb'.range = nb.range
      /\ \A g \in Iface : g # f => nb'.mac[g] = nb.mac[g]
      /\ \A i \in IpId : nb.ip[i].iface \in Iface
  BY <1>1 DEF Inv, TypeOK, NetBox, NetBoxIp
<1>5. ASSUME NEW i \in IpId
      PROVE  LateResa(i)' \/ (nb.ip[i].on => Hw(i)' = Hw(i))
  <2>1. CASE nb.ip[i].iface = f
    BY <1>3, <1>4, <2>1 DEF LateResa
  <2>2. CASE nb.ip[i].iface # f
    BY <1>4, <2>2 DEF Hw, MacOf, ListingOf
  <2> QED
    BY <2>1, <2>2
<1> QED
  BY <1>2, <1>3, <1>4, <1>5 DEF Drift

\* A webhook that is lost is missed; one that comes again is still sent.
LEMMA TransportDrifts ==
    ASSUME Inv, Lose \/ Repeat \/ ReloadFails
    PROVE  Drift
<1>1. /\ UNCHANGED <<nb, live, handler, moved, overlooked>>
      /\ queue \in Seq(Event) /\ queue # <<>>
  BY DEF Lose, Repeat, ReloadFails, Inv, TypeOK, apps
<1>2. missed \subseteq missed' /\ Late \subseteq Late'
  <2>1. CASE Lose \/ ReloadFails
    <3>1. Sent \subseteq {Head(queue)} \cup Sent'
      <4>1. ASSUME NEW k \in DOMAIN queue, k # 1
            PROVE  queue[k] \in Sent'
        <5>1. queue' = Tail(queue) /\ k - 1 \in DOMAIN queue' /\ queue[k] = queue'[k - 1]
          BY <1>1, <2>1, <4>1 DEF Lose, ReloadFails
        <5> QED
          BY <5>1 DEF Sent
      <4> QED
        BY <1>1, <4>1 DEF Sent
    <3> QED
      BY <1>1, <2>1, <3>1 DEF Lose, ReloadFails, Late, Told
  <2>2. CASE Repeat
    <3>1. Sent \subseteq Sent'
      BY <1>1, <2>2 DEF Repeat, Sent
    <3> QED
      BY <1>1, <2>2, <3>1 DEF Repeat, Late, Told
  <2> QED
    BY <2>1, <2>2
<1>3. \A i \in IpId : Hw(i)' = Hw(i)
  BY <1>1 DEF Hw, MacOf, ListingOf
<1> QED
  BY <1>1, <1>2, <1>3 DEF Drift

LEMMA EnvironmentDrifts ==
    ASSUME Inv, Environment
    PROVE  Drift
BY ChangePrefixDrifts, ChangeIpDrifts, ChangeRangeDrifts, ChangeMacDrifts,
   TransportDrifts DEF Environment

\* Excuses outlive what NetBox does.
LEMMA DriftKeepsExcuses ==
    ASSUME Inv, Drift
    PROVE  /\ \A p : Hard(p) => Hard(p)'
           /\ \A p : Soft(p) => Soft(p)' \/ Hard(p)'
           /\ \A i \in IpId : LateResa(i) => LateResa(i)'
           /\ \A r : LatePool(r) => LatePool(r)'
           /\ \A p : EvPrefix(p)' <=> EvPrefix(p)
           /\ \A i \in IpId : EvResa(i) => EvResa(i)' \/ LateResa(i)'
           /\ \A r : EvPool(r)' <=> EvPool(r)
<1>1. \A p : (Hard(p) => Hard(p)') /\ (Soft(p) => Soft(p)' \/ Hard(p)')
  BY DEF Drift, Hard, Soft, Late, Told
<1>2. \A i \in IpId : /\ LateResa(i) => LateResa(i)'
                      /\ EvResa(i) => EvResa(i)' \/ LateResa(i)'
  BY DEF Drift, LateResa, EvResa, Busy, handler
<1>3. \A r : LatePool(r) => LatePool(r)'
  BY DEF Drift, LatePool
<1>4. \A p : (EvPrefix(p)' <=> EvPrefix(p)) /\ (EvPool(p)' <=> EvPool(p))
  BY DEF Drift, EvPrefix, EvPool, Busy, handler
<1> QED
  BY <1>1, <1>2, <1>3, <1>4

\* What was right stays right, or is excused.
LEMMA DriftKeepsRight ==
    ASSUME Inv, Drift, NEW s \in Subnet
    PROVE  /\ \A b : RightPlace(s, b) => RightPlace(s, b)' \/ Hard(s.id)'
           /\ RightSettings(s) => RightSettings(s)' \/ Soft(s.id)' \/ Hard(s.id)'
           /\ \A i \in IpId : RightResa(s, i) => RightResa(s, i)' \/ LateResa(i)'
           /\ \A r \in RangeId : RightPool(s, r) => RightPool(s, r)' \/ LatePool(r)'
<1>1. s.id \in PrefixId
  BY DEF Subnet
<1>2. \A b : RightPlace(s, b) => RightPlace(s, b)' \/ Hard(s.id)'
  BY <1>1 DEF Drift, RightPlace
<1>3. RightSettings(s) => RightSettings(s)' \/ Soft(s.id)' \/ Hard(s.id)'
  BY <1>1 DEF Drift, RightSettings
<1>4. ASSUME NEW i \in IpId, RightResa(s, i), ~LateResa(i)'
      PROVE  RightResa(s, i)'
  <2>1. nb'.ip[i] = nb.ip[i] /\ (nb.ip[i].on => Hw(i)' = Hw(i))
    BY <1>4 DEF Drift
  <2> QED
    BY <1>4, <2>1, ResaOfShape DEF RightResa, WantsResa
<1>5. ASSUME NEW r \in RangeId, RightPool(s, r), ~LatePool(r)'
      PROVE  RightPool(s, r)'
  <2>1. nb'.range[r] = nb.range[r]
    BY <1>5 DEF Drift
  <2> QED
    BY <1>5, <2>1 DEF RightPool, WantsPool, PoolOf
<1> QED
  BY <1>2, <1>3, <1>4, <1>5

LEMMA DriftKeepsLive ==
    ASSUME Inv, Drift, LiveRight
    PROVE  LiveRight'
<1>1. \A b \in Backend : live'[b] = live[b] /\ live[b] \subseteq Subnet
  BY DEF Drift, Inv, TypeOK, Conf
<1>2. ASSUME NEW b \in Backend, NEW s \in live[b]
      PROVE  \/ Hard(s.id)' \/ EvPrefix(s.id)'
             \/ RightPlace(s, b)' /\ (Soft(s.id)' \/ RightSettings(s)')
  <2>1. s \in Subnet
    BY <1>1
  <2> QED
    BY <2>1, DriftKeepsExcuses, DriftKeepsRight DEF LiveRight, LiveSubnets
<1>3. ASSUME NEW b \in Backend, NEW p \in PrefixId,
             nb'.prefix[p].on /\ nb'.prefix[p].backend = b
      PROVE  Hard(p)' \/ EvPrefix(p)' \/ Soft(p)' \/ HasSubnet(live[b], p)
  <2>1. Hard(p)' \/ Soft(p)' \/ (nb.prefix[p].on /\ nb.prefix[p].backend = b)
    BY <1>3 DEF Drift
  <2> QED
    BY <2>1, DriftKeepsExcuses DEF LiveRight, LiveCovers
<1>4. ASSUME NEW b \in Backend, NEW s \in live[b], NEW i \in IpId
      PROVE  \/ Hard(s.id)' \/ EvPrefix(s.id)' \/ Overlooked(s.id, "ipaddress", i)'
             \/ LateResa(i)' \/ EvResa(i)' \/ RightResa(s, i)'
  <2>1. s \in Subnet /\ UNCHANGED overlooked
    BY <1>1 DEF Drift
  <2> QED
    BY <2>1, DriftKeepsExcuses, DriftKeepsRight DEF LiveRight, LiveResas, Overlooked
<1>5. ASSUME NEW b \in Backend, NEW s \in live[b], NEW r \in RangeId
      PROVE  \/ Hard(s.id)' \/ EvPrefix(s.id)' \/ Overlooked(s.id, "iprange", r)'
             \/ LatePool(r)' \/ EvPool(r)' \/ RightPool(s, r)'
  <2>1. s \in Subnet /\ UNCHANGED overlooked
    BY <1>1 DEF Drift
  <2> QED
    BY <2>1, DriftKeepsExcuses, DriftKeepsRight DEF LiveRight, LivePools, Overlooked
<1>6. LiveSubnets'
  BY <1>1, <1>2 DEF LiveSubnets
<1>7. LiveCovers'
  BY <1>1, <1>3 DEF LiveCovers
<1>8. LiveResas'
  BY <1>1, <1>4 DEF LiveResas
<1>9. LivePools'
  BY <1>1, <1>5 DEF LivePools
<1> QED
  BY <1>6, <1>7, <1>8, <1>9 DEF LiveRight

LEMMA DriftKeepsToDo ==
    ASSUME Inv, Drift
    PROVE  /\ \A p : ToRead(p) => ToRead(p)'
           /\ \A i \in IpId : ToDoResa(i) => ToDoResa(i)' \/ LateResa(i)'
           /\ \A r : ToDoPool(r) => ToDoPool(r)'
           /\ \A p, i : ToSetResa(p, i) => ToSetResa(p, i)'
           /\ \A p, r : ToSetPool(p, r) => ToSetPool(p, r)'
<1>1. /\ UNCHANGED <<pc, ev, ids, item, prefs, cur, items, offset, seen>>
      /\ \A i \in IpId : LateResa(i)' \/ nb'.ip[i] = nb.ip[i]
  BY DEF Drift, handler, pages
<1>2. \A i \in IpId : ToDoResa(i) => ToDoResa(i)' \/ LateResa(i)'
  BY <1>1 DEF ToDoResa, AboutIps
<1>3. \A p, i : ToSetResa(p, i) => ToSetResa(p, i)'
  BY <1>1 DEF ToSetResa, InHand, AboutIps
<1>4. \A p, r : ToSetPool(p, r) => ToSetPool(p, r)'
  BY <1>1 DEF ToSetPool, InHand
<1>5. \A p : (ToRead(p) => ToRead(p)') /\ (ToDoPool(p) => ToDoPool(p)')
  BY <1>1 DEF ToRead, ToDoPool
<1> QED
  BY <1>2, <1>3, <1>4, <1>5

LEMMA DriftKeepsWork ==
    ASSUME Inv, Drift, UNCHANGED work, WorkRight
    PROVE  WorkRight'
<1>1. /\ \A b \in Backend : work'[b] = work[b] /\ work[b] \subseteq Subnet
      /\ (Busy' <=> Busy) /\ UNCHANGED overlooked
  BY DEF Drift, Inv, TypeOK, Conf, Busy, handler
<1>2. \A s \in Subnet : \A b : SubnetDone(s, b) => SubnetDone(s, b)'
  BY DriftKeepsExcuses, DriftKeepsRight, DriftKeepsToDo DEF SubnetDone
<1>3. ASSUME Busy, NEW b \in Backend, NEW p \in PrefixId,
             nb'.prefix[p].on /\ nb'.prefix[p].backend = b
      PROVE  Hard(p)' \/ Soft(p)' \/ ToRead(p)' \/ HasSubnet(work[b], p)
  <2>1. Hard(p)' \/ Soft(p)' \/ (nb.prefix[p].on /\ nb.prefix[p].backend = b)
    BY <1>3 DEF Drift
  <2> QED
    BY <1>3, <2>1, DriftKeepsExcuses, DriftKeepsToDo DEF WorkRight, WorkCovers
<1>4. \A s \in Subnet : \A i \in IpId : ResaDone(s, i) => ResaDone(s, i)'
  BY <1>1, DriftKeepsExcuses, DriftKeepsRight, DriftKeepsToDo DEF ResaDone, Overlooked
<1>5. \A s \in Subnet : \A r \in RangeId : PoolDone(s, r) => PoolDone(s, r)'
  BY <1>1, DriftKeepsExcuses, DriftKeepsRight, DriftKeepsToDo DEF PoolDone, Overlooked
<1>6. WorkSubnets'
  BY <1>1, <1>2 DEF WorkRight, WorkSubnets
<1>7. WorkCovers'
  BY <1>1, <1>3 DEF WorkCovers
<1>8. WorkResas'
  BY <1>1, <1>4 DEF WorkRight, WorkResas
<1>9. WorkPools'
  BY <1>1, <1>5 DEF WorkRight, WorkPools
<1> QED
  BY <1>6, <1>7, <1>8, <1>9 DEF WorkRight

\* Items keep the trace of their object.
LEMMA DriftKeepsTracks ==
    ASSUME Inv, Drift
    PROVE  /\ \A x : x.nid \in IpId /\ TracksResa(x) => TracksResa(x)'
           /\ \A x : x.rid \in RangeId /\ TracksPool(x) => TracksPool(x)'
BY DEF Drift, TracksResa, TracksPool

LEMMA DriftKeepsLawful ==
    ASSUME Inv, Drift, NEW c \in Conf, Lawful(c)
    PROVE  Lawful(c)'
<1>1. \A x \in ResaItem : TracksResa(x) => TracksResa(x)'
  BY DriftKeepsTracks DEF ResaItem
<1>2. \A x \in PoolItem : TracksPool(x) => TracksPool(x)'
  BY DriftKeepsTracks DEF PoolItem
<1>3. \A s : (LawfulResas(s) => LawfulResas(s)') /\ (LawfulPools(s) => LawfulPools(s)')
  BY <1>1, <1>2 DEF LawfulResas, LawfulPools
<1> QED
  BY <1>3 DEF Lawful

\* What the handler holds is as it was read, or an event says not.
LEMMA DriftKeepsKnown ==
    ASSUME Inv, Drift
    PROVE  /\ \A pr \in Prefs : Known(pr) => Known(pr)'
           /\ \A x \in Listing : KnownAddress(x) => KnownAddress(x)'
           /\ \A x \in ResaItem : KnownResa(x) => KnownResa(x)'
           /\ \A x \in PoolItem : KnownPool(x) => KnownPool(x)'
<1>1. ASSUME NEW pr \in Prefs, Known(pr)
      PROVE  Known(pr)'
  <2>1. pr.id \in PrefixId /\ (Hard(pr.id) => Hard(pr.id)')
        /\ (Soft(pr.id) => Soft(pr.id)' \/ Hard(pr.id)')
    BY DriftKeepsExcuses DEF Prefs
  <2> QED
    BY <1>1, <2>1 DEF Known, Drift
<1>2. ASSUME NEW x \in ResaItem, KnownResa(x)
      PROVE  KnownResa(x)'
  <2>1. x.nid \in IpId
    BY DEF ResaItem
  <2>2. LateResa(x.nid)' \/ (nb'.ip[x.nid].on /\ x = ResaOf(x.nid)')
    BY <1>2, <2>1, DriftKeepsExcuses, ResaOfShape DEF KnownResa, Drift
  <2> QED
    BY <1>2, <2>1, <2>2, DriftKeepsTracks DEF KnownResa
<1>3. ASSUME NEW x \in PoolItem, KnownPool(x)
      PROVE  KnownPool(x)'
  <2>1. x.rid \in RangeId
    BY DEF PoolItem
  <2>2. LatePool(x.rid)' \/ (nb'.range[x.rid].on /\ x = PoolOf(x.rid)')
    BY <1>3, <2>1, DriftKeepsExcuses DEF KnownPool, Drift, PoolOf
  <2> QED
    BY <1>3, <2>1, <2>2, DriftKeepsTracks DEF KnownPool
<1>4. ASSUME NEW x \in Listing, KnownAddress(x)
      PROVE  KnownAddress(x)'
  <2>1. x.nid \in IpId
    BY DEF Listing
  <2>2. LateResa(x.nid)' \/ (nb'.ip[x.nid].on /\ x = ListingOf(x.nid)')
    BY <1>4, <2>1, DriftKeepsExcuses DEF KnownAddress, Drift, ListingOf
  <2> QED
    BY <1>4, <2>1, <2>2, DriftKeepsTracks DEF KnownAddress
<1> QED
  BY <1>1, <1>2, <1>3, <1>4

LEMMA DriftInStep ==
    ASSUME Inv, Drift, UNCHANGED <<work, staged>>, InStep
    PROVE  InStep'
<1>1. /\ UNCHANGED <<live, work, staged, pc, ev, ids, item, prefs, cur, items, at>>
      /\ UNCHANGED <<offset, seen>>
      /\ missed \subseteq missed' /\ (Busy' <=> Busy) /\ (Rebuilding' <=> Rebuilding)
      /\ AboutIps' <=> AboutIps
  BY DEF Drift, handler, pages, Busy, Rebuilding, AboutIps
<1>2. \A b \in Backend : live[b] \in Conf /\ work[b] \in Conf
  BY DEF Inv, TypeOK
<1>3. LiveLawful'
  <2>1. \A b \in Backend : Lawful(live[b])'
    BY <1>1, <1>2, DriftKeepsLawful DEF InStep, LiveLawful
  <2> QED
    BY <2>1 DEF LiveLawful
<1>4. WorkLawful'
  <2>1. Busy => \A b \in Backend : Lawful(work[b])'
    BY <1>1, <1>2, DriftKeepsLawful DEF InStep, WorkLawful
  <2> QED
    BY <1>1, <2>1 DEF WorkLawful
<1>5. PrefsKnown' /\ CurKnown'
  <2>1. prefs \subseteq Prefs /\ (Rebuilding => cur \in Prefs)
    BY DEF Inv, TypeOK, HandlerOK
  <2> QED
    BY <1>1, <2>1, DriftKeepsKnown DEF InStep, PrefsKnown, CurKnown
<1>6. ItemsKnown'
  <2>1. /\ pc = "mac" => item \in Listing
        /\ item # NoItem /\ pc # "mac" /\ AboutIps => item \in ResaItem
        /\ item # NoItem /\ ev.model = "iprange" => item \in PoolItem
        /\ pc = "resas" => items \subseteq Listing
        /\ pc = "pools" => items \subseteq PoolItem
    BY DEF Inv, TypeOK, HandlerOK, Fits, FitsAddress, AboutIps, Rebuilding
  <2> QED
    BY <1>1, <2>1, DriftKeepsKnown DEF InStep, ItemsKnown
<1>7. Looping'
  BY <1>1 DEF InStep, Looping
<1> QED
  BY <1>3, <1>4, <1>5, <1>6, <1>7, DriftKeepsLive, DriftKeepsWork DEF InStep

\* Nothing is handled: only what the servers run matters.
LEMMA NothingInHand ==
    ASSUME ~Busy', at' = 1, prefs' = {}, item' = NoItem
    PROVE  WorkRight' /\ WorkLawful' /\ PrefsKnown' /\ CurKnown' /\ ItemsKnown' /\ Looping'
BY DEF Busy, Rebuilding, WorkRight, WorkSubnets, WorkCovers, WorkResas, WorkPools,
       WorkLawful, PrefsKnown, CurKnown, ItemsKnown, Looping

LEMMA EnvironmentInStep ==
    ASSUME Inv, InStep, Environment
    PROVE  InStep'
<1>1. UNCHANGED <<work, staged>>
  BY DEF Environment, ChangePrefix, ChangeIp, ChangeRange, ChangeMac, Changed,
         Lose, Repeat, apps
<1> QED
  BY <1>1, EnvironmentDrifts, DriftInStep

LEMMA ReloadFailsInStep ==
    ASSUME Inv, InStep, ReloadFails
    PROVE  InStep'
<1>1. Drift
  BY TransportDrifts
<1>2. LiveRight'
  BY <1>1, DriftKeepsLive DEF InStep
<1>3. LiveLawful'
  <2>1. \A b \in Backend : Lawful(live[b])'
    BY <1>1, DriftKeepsLawful DEF InStep, LiveLawful, Inv, TypeOK, Drift
  <2> QED
    BY <2>1 DEF LiveLawful
<1>4. ~Busy' /\ at' = 1 /\ prefs' = {} /\ item' = NoItem
  BY DEF ReloadFails, handler, Busy, Inv, HandlerOK, InStep, Looping, PrefsKnown, Rebuilding
<1> QED
  BY <1>2, <1>3, <1>4, NothingInHand DEF InStep

-----------------------------------------------------------------------------
(***************************************************************************)
(* The event in hand, step by step.                                        *)
(***************************************************************************)

\* NetBox is as it was, and so is what the servers run.
Still == UNCHANGED <<nb, queue, live, moved>>

\* What was overlooked in the subnet of p still is.
StaysOverlooked(p) == \A x : <<p, x>> \in overlooked => <<p, x>> \in overlooked'

LEMMA StillKeepsRight ==
    ASSUME UNCHANGED nb
    PROVE  /\ \A s, i : RightResa(s, i)' <=> RightResa(s, i)
           /\ \A s, r : RightPool(s, r)' <=> RightPool(s, r)
           /\ \A s : /\ \A b : RightPlace(s, b)' <=> RightPlace(s, b)
                     /\ RightSettings(s)' <=> RightSettings(s)
           /\ \A i : /\ Hw(i)' = Hw(i) /\ ResaOf(i)' = ResaOf(i)
                     /\ ListingOf(i)' = ListingOf(i)
           /\ \A x : MacOf(x)' = MacOf(x) /\ ResaFor(x)' = ResaFor(x)
           /\ \A r : PoolOf(r)' = PoolOf(r)
BY DEF RightPlace, RightSettings, RightResa, RightPool, WantsResa, WantsPool, ResaOf, ResaFor,
       PoolOf, Hw, MacOf, ListingOf

LEMMA StillKeepsExcuses ==
    ASSUME Still, missed \subseteq missed'
    PROVE  /\ \A p : (Hard(p) => Hard(p)') /\ (Soft(p)' <=> Soft(p))
           /\ \A i : LateResa(i) => LateResa(i)'
           /\ \A r : LatePool(r) => LatePool(r)'
BY DEF Still, Hard, Soft, LateResa, LatePool, Late, Told, Sent

LEMMA StillKeepsLawful ==
    ASSUME UNCHANGED <<nb, moved>>
    PROVE  /\ \A x : (TracksResa(x)' <=> TracksResa(x)) /\ (TracksPool(x)' <=> TracksPool(x))
           /\ \A s : /\ LawfulResas(s)' <=> LawfulResas(s)
                     /\ LawfulPools(s)' <=> LawfulPools(s)
           /\ \A c : Lawful(c)' <=> Lawful(c)
BY DEF TracksResa, TracksPool, LawfulResas, LawfulPools, Lawful

LEMMA StillKeepsKnown ==
    ASSUME Still, missed \subseteq missed'
    PROVE  /\ \A pr : Known(pr) => Known(pr)'
           /\ \A x : /\ KnownAddress(x) => KnownAddress(x)'
                     /\ KnownResa(x) => KnownResa(x)'
                     /\ KnownPool(x) => KnownPool(x)'
<1>1. \A pr : Known(pr) => Known(pr)'
  BY StillKeepsExcuses DEF Known, Still
<1>2. \A x : KnownAddress(x) => KnownAddress(x)'
  BY StillKeepsExcuses, StillKeepsLawful, StillKeepsRight DEF KnownAddress, Still
<1>3. \A x : KnownResa(x) => KnownResa(x)'
  BY StillKeepsExcuses, StillKeepsLawful, StillKeepsRight DEF KnownResa, Still
<1>4. \A x : KnownPool(x) => KnownPool(x)'
  BY StillKeepsExcuses, StillKeepsLawful, StillKeepsRight DEF KnownPool, Still
<1> QED
  BY <1>1, <1>2, <1>3, <1>4

\* What the servers run is right as long as the event is in hand, or missed.
LEMMA StillKeepsLive ==
    ASSUME LiveRight, LiveLawful, Busy, Still, missed \subseteq missed',
           (Busy' /\ ev' = ev) \/ ev \in missed',
           \A b \in Backend : \A s \in live[b] :
               StaysOverlooked(s.id) \/ Hard(s.id) \/ EvPrefix(s.id)
    PROVE  LiveRight' /\ LiveLawful'
<1>1. /\ \A p : EvPrefix(p) => EvPrefix(p)' \/ Hard(p)'
      /\ \A i : EvResa(i) => EvResa(i)' \/ LateResa(i)'
      /\ \A r : EvPool(r) => EvPool(r)' \/ LatePool(r)'
  BY DEF Still, EvPrefix, EvResa, EvPool, Hard, LateResa, LatePool, Late, Told
<1>2. live' = live
  BY DEF Still
<1>3. LiveSubnets'
  BY <1>1, <1>2, StillKeepsExcuses, StillKeepsRight DEF LiveRight, LiveSubnets, Still
<1>4. LiveCovers'
  BY <1>1, <1>2, StillKeepsExcuses DEF LiveRight, LiveCovers, Still
<1>5. LiveResas'
  BY <1>1, <1>2, StillKeepsExcuses, StillKeepsRight
  DEF LiveRight, LiveResas, Overlooked, StaysOverlooked, Still
<1>6. LivePools'
  BY <1>1, <1>2, StillKeepsExcuses, StillKeepsRight
  DEF LiveRight, LivePools, Overlooked, StaysOverlooked, Still
<1>7. LiveLawful'
  <2>1. \A b \in Backend : Lawful(live[b])'
    BY <1>2, StillKeepsLawful DEF LiveLawful, Still
  <2> QED
    BY <2>1 DEF LiveLawful
<1> QED
  BY <1>3, <1>4, <1>5, <1>6, <1>7 DEF LiveRight

\* An exception, or no answer.
LEMMA GivenUpInStep ==
    ASSUME Inv, InStep, Busy, EndEvent, missed' = missed \cup {ev}, Still,
           UNCHANGED overlooked
    PROVE  InStep'
<1>1. LiveRight' /\ LiveLawful'
  BY StillKeepsLive DEF InStep, StaysOverlooked
<1>2. ~Busy' /\ at' = 1 /\ prefs' = {} /\ item' = NoItem
  BY DEF EndEvent, Busy
<1> QED
  BY <1>1, <1>2, NothingInHand DEF InStep

LEMMA FailInStep ==
    ASSUME Inv, InStep, Fail
    PROVE  InStep'
BY GivenUpInStep DEF Fail, Handling, Busy, Quiet, Still

LEMMA RaiseInStep ==
    ASSUME Inv, InStep, Busy, Raise
    PROVE  InStep'
BY GivenUpInStep DEF Raise, Quiet, Still

\* What was done stays done, and so does what is no longer to be done.
LEMMA StillDone ==
    ASSUME Still, missed \subseteq missed', NEW s, StaysOverlooked(s.id)
    PROVE  /\ \A b : SubnetDone(s, b) /\ (ToRead(s.id) => SubnetDone(s, b)')
                       => SubnetDone(s, b)'
           /\ \A i : ResaDone(s, i) /\ (ToDoResa(i) \/ ToSetResa(s.id, i) => ResaDone(s, i)')
                       => ResaDone(s, i)'
           /\ \A r : PoolDone(s, r) /\ (ToDoPool(r) \/ ToSetPool(s.id, r) => PoolDone(s, r)')
                       => PoolDone(s, r)'
<1>1. /\ RightSettings(s) => RightSettings(s)'
      /\ \A b : RightPlace(s, b) => RightPlace(s, b)'
      /\ \A i : RightResa(s, i) => RightResa(s, i)'
      /\ \A r : RightPool(s, r) => RightPool(s, r)'
      /\ \A m, i : Overlooked(s.id, m, i) => Overlooked(s.id, m, i)'
  BY StillKeepsRight DEF Still, Overlooked, StaysOverlooked
<1>2. \A b : SubnetDone(s, b) /\ (ToRead(s.id) => SubnetDone(s, b)') => SubnetDone(s, b)'
  BY <1>1, StillKeepsExcuses DEF SubnetDone
<1>3. \A i : ResaDone(s, i) /\ (ToDoResa(i) \/ ToSetResa(s.id, i) => ResaDone(s, i)')
               => ResaDone(s, i)'
  BY <1>1, StillKeepsExcuses DEF ResaDone
<1>4. \A r : PoolDone(s, r) /\ (ToDoPool(r) \/ ToSetPool(s.id, r) => PoolDone(s, r)')
               => PoolDone(s, r)'
  BY <1>1, StillKeepsExcuses DEF PoolDone
<1> QED
  BY <1>2, <1>3, <1>4

\* The same of a whole working copy that is not edited.
LEMMA StillKeepsWork ==
    ASSUME WorkRight, WorkLawful, Busy, Still, missed \subseteq missed',
           UNCHANGED work, overlooked \subseteq overlooked',
           \A b \in Backend : \A s \in work[b] : ToRead(s.id) => SubnetDone(s, b)',
           \A p \in PrefixId : ToRead(p) /\ nb.prefix[p].backend \in Backend => ToRead(p)',
           \A b \in Backend : \A s \in work[b] : \A i \in IpId :
               ToDoResa(i) \/ ToSetResa(s.id, i) => ResaDone(s, i)',
           \A b \in Backend : \A s \in work[b] : \A r \in RangeId :
               ToDoPool(r) \/ ToSetPool(s.id, r) => PoolDone(s, r)'
    PROVE  WorkRight' /\ WorkLawful'
<1>1. WorkSubnets'
  BY StillDone DEF WorkRight, WorkSubnets, StaysOverlooked
<1>2. WorkCovers'
  BY StillKeepsExcuses DEF WorkRight, WorkCovers, Still
<1>3. WorkResas'
  BY StillDone DEF WorkRight, WorkResas, StaysOverlooked
<1>4. WorkPools'
  BY StillDone DEF WorkRight, WorkPools, StaysOverlooked
<1>5. WorkLawful'
  <2>1. \A b \in Backend : Lawful(work[b])'
    BY StillKeepsLawful DEF WorkLawful, Still
  <2> QED
    BY <2>1 DEF WorkLawful
<1> QED
  BY <1>1, <1>2, <1>3, <1>4, <1>5 DEF WorkRight

\* An event starts from what the servers run, with everything it is about to do.
LEMMA TakeInStep ==
    ASSUME Inv, InStep, Take
    PROVE  InStep'
<1> DEFINE e == Head(queue)
<1>1. /\ ~Busy /\ Busy' /\ ev' = e /\ UNCHANGED <<nb, live, moved, offset>>
      /\ pc' = IF e.model = "interface" THEN "list" ELSE "read"
      /\ ids' = IF e.model = "interface" THEN {} ELSE {e.id}
      /\ Repair(e) /\ work' = live /\ e \in Event
      /\ UNCHANGED <<item, prefs, at>> /\ item = NoItem /\ prefs = {} /\ at = 1
  BY DEF Take, Busy, Rebuilding, Inv, TypeOK, HandlerOK, InStep, PrefsKnown, Looping, pages
<1>2. Sent \subseteq {e} \cup Sent'
  <2>1. ASSUME NEW k \in DOMAIN queue, k # 1
        PROVE  queue[k] \in Sent'
    <3>1. queue' = Tail(queue) /\ queue \in Seq(Event)
      BY DEF Take, Inv, TypeOK
    <3>2. k - 1 \in DOMAIN queue' /\ queue[k] = queue'[k - 1]
      BY <2>1, <3>1
    <3> QED
      BY <3>2 DEF Sent
  <2> QED
    BY <2>1 DEF Sent
<1> HIDE DEF e
<1>3. Late \subseteq {e} \cup Late'
  BY <1>1, <1>2 DEF Late, Told, Repair
<1>4. \A p : (Hard(p) => Hard(p)') /\ (Soft(p) => Soft(p)' \/ ToRead(p)')
  BY <1>1, <1>2 DEF Hard, Soft, Told, Repair, Named, ToRead
<1>5. \A i \in IpId : LateResa(i) => LateResa(i)' \/ ToDoResa(i)'
  BY <1>1, <1>3 DEF LateResa, ToDoResa, AboutIps, Named
<1>6. \A r : LatePool(r) => LatePool(r)' \/ ToDoPool(r)'
  BY <1>1, <1>3 DEF LatePool, ToDoPool, Named
<1>16. /\ \A p : \A i \in IpId : Overlooked(p, "ipaddress", i)
                    => Overlooked(p, "ipaddress", i)' \/ ToDoResa(i)'
       /\ \A p, r : Overlooked(p, "iprange", r) => Overlooked(p, "iprange", r)' \/ ToDoPool(r)'
  BY <1>1 DEF Overlooked, Repair, ToDoResa, ToDoPool, AboutIps, Named
<1>7. /\ \A p : ToRead(p)' => EvPrefix(p)'
      /\ \A i \in IpId : ToDoResa(i)' => EvResa(i)'
      /\ \A r : ToDoPool(r)' => EvPool(r)'
  BY <1>1 DEF ToRead, ToDoResa, ToDoPool, EvPrefix, EvResa, EvPool, AboutIps, Named, Event
<1>8. /\ \A p : ~EvPrefix(p)
      /\ \A i : ~EvResa(i) /\ \A r : ~EvPool(r)
  BY <1>1 DEF EvPrefix, EvResa, EvPool
<1>9. \A s : /\ \A b : RightPlace(s, b)' <=> RightPlace(s, b)
             /\ RightSettings(s)' <=> RightSettings(s)
             /\ \A i : RightResa(s, i)' <=> RightResa(s, i)
             /\ \A r : RightPool(s, r)' <=> RightPool(s, r)
  BY <1>1, StillKeepsRight
<1>10. LiveSubnets' /\ WorkSubnets'
  BY <1>1, <1>4, <1>7, <1>8, <1>9
  DEF InStep, LiveRight, LiveSubnets, WorkSubnets, SubnetDone
<1>11. LiveCovers' /\ WorkCovers'
  BY <1>1, <1>4, <1>7, <1>8 DEF InStep, LiveRight, LiveCovers, WorkCovers
<1>12. LiveResas' /\ WorkResas'
  BY <1>1, <1>4, <1>5, <1>7, <1>8, <1>9, <1>16
  DEF InStep, LiveRight, LiveResas, WorkResas, ResaDone
<1>13. LivePools' /\ WorkPools'
  BY <1>1, <1>4, <1>6, <1>7, <1>8, <1>9, <1>16
  DEF InStep, LiveRight, LivePools, WorkPools, PoolDone
<1>14. LiveLawful' /\ WorkLawful'
  <2>1. \A b \in Backend : Lawful(live[b])'
    BY <1>1, StillKeepsLawful DEF InStep, LiveLawful
  <2> QED
    BY <1>1, <2>1 DEF LiveLawful, WorkLawful
<1>15. PrefsKnown' /\ CurKnown' /\ ItemsKnown' /\ Looping'
  BY <1>1 DEF PrefsKnown, CurKnown, ItemsKnown, Looping, Rebuilding, AboutIps
<1> QED
  BY <1>10, <1>11, <1>12, <1>13, <1>14, <1>15 DEF InStep, LiveRight, WorkRight

\* An edited server has something staged.
Staging == \A b \in Backend : ~staged'[b] => ~staged[b] /\ work'[b] = work[b]

LEMMA EditsStage ==
    ASSUME Inv
    PROVE  /\ UNCHANGED apps => Staging
           /\ \A b \in Backend : \A c : Commit(b, c) => Staging
           /\ \A confs : Broadcast(confs) => Staging
BY DEF Staging, Commit, Broadcast, apps, Inv, TypeOK

LEMMA StillKeepsLooping ==
    ASSUME Looping, Busy, pc # "push", Staging, Still, UNCHANGED at,
           pc' = "push" => ids' = {} \/ ~AboutIps', pc' # "list",
           Rebuilding' /\ item' = NoItem => ~AboutIps'
    PROVE  Looping'
BY DEF Looping, Staging, Still, Busy

\* The call for one object is over.
LEMMA OverInStep ==
    ASSUME Inv, InStep, Busy, pc # "push", NEW rest, Over(rest), Staging
    PROVE  /\ Still /\ UNCHANGED <<missed, ev>> /\ Busy'
           /\ ids' = rest /\ pc' = IF rest = {} THEN "push" ELSE "read"
           /\ item' = NoItem /\ prefs' = {}
           /\ PrefsKnown' /\ CurKnown' /\ ItemsKnown' /\ Looping'
<1>1. /\ Still /\ UNCHANGED <<missed, ev, at>>
      /\ ids' = rest /\ pc' = IF rest = {} THEN "push" ELSE "read"
      /\ item' = NoItem /\ prefs' = {}
  BY DEF Over, Along, Quiet, Still
<1>2. Busy' /\ ~Rebuilding'
  BY <1>1 DEF Busy, Rebuilding
<1>3. PrefsKnown' /\ CurKnown' /\ ItemsKnown'
  BY <1>1, <1>2 DEF PrefsKnown, CurKnown, ItemsKnown
<1>4. Looping'
  BY <1>1, <1>2, StillKeepsLooping DEF InStep
<1> QED
  BY <1>1, <1>2, <1>3, <1>4

LEMMA ListAddressesInStep ==
    ASSUME Inv, InStep, ListAddresses
    PROVE  InStep'
<1>1. /\ pc = "list" /\ Busy /\ Over(Members(ev.id)) /\ UNCHANGED <<work, staged, overlooked>>
      /\ prefs = {} /\ ev \in Event /\ ev.model = "interface"
  BY DEF ListAddresses, NextObject, apps, Busy, Rebuilding, Inv, HandlerOK,
         InStep, PrefsKnown
<1>2. Staging
  BY <1>1, EditsStage DEF apps
<1>3. /\ Still /\ UNCHANGED <<missed, ev>> /\ Busy' /\ ids' = Members(ev.id)
      /\ PrefsKnown' /\ CurKnown' /\ ItemsKnown' /\ Looping'
  BY <1>1, <1>2, OverInStep
<1>4. \A i \in IpId : ToDoResa(i) => ToDoResa(i)' \/ LateResa(i)'
  BY <1>1, <1>3 DEF ToDoResa, AboutIps, Members, InStep, Looping
<1>5. /\ \A p : ~ToRead(p)
      /\ \A p, i : ~ToSetResa(p, i)
      /\ \A r : ~ToDoPool(r)
      /\ \A p, r : ~ToSetPool(p, r)
  BY <1>1 DEF ToRead, ToSetResa, ToDoPool, ToSetPool, InHand
<1>6. WorkRight' /\ WorkLawful'
  BY <1>1, <1>3, <1>4, <1>5, StillKeepsWork DEF InStep, ResaDone
<1>7. LiveRight' /\ LiveLawful'
  BY <1>1, <1>3, StillKeepsLive DEF InStep, StaysOverlooked
<1> QED
  BY <1>3, <1>6, <1>7 DEF InStep

\* The tag of the prefix names no server: no server has the subnet.
LEMMA SkipPrefixInStep ==
    ASSUME Inv, InStep, SkipPrefix
    PROVE  InStep'
<1>1. /\ pc = "read" /\ Busy /\ Over({}) /\ UNCHANGED <<work, staged, overlooked>>
      /\ prefs = {} /\ ev \in Event /\ ev.model = "prefix"
      /\ nb.prefix[ev.id].backend = NoBackend
  BY DEF SkipPrefix, NextObject, apps, Busy, Rebuilding, Inv, HandlerOK,
         InStep, PrefsKnown
<1>2. Staging
  BY <1>1, EditsStage DEF apps
<1>3. /\ Still /\ UNCHANGED <<missed, ev>> /\ Busy'
      /\ PrefsKnown' /\ CurKnown' /\ ItemsKnown' /\ Looping'
  BY <1>1, <1>2, OverInStep
<1>4. /\ \A i : ~ToDoResa(i)
      /\ \A p, i : ~ToSetResa(p, i)
      /\ \A r : ~ToDoPool(r)
      /\ \A p, r : ~ToSetPool(p, r)
      /\ \A p : ToRead(p) => nb.prefix[p].backend = NoBackend
  BY <1>1 DEF ToDoResa, AboutIps, ToRead, Named, ToSetResa, ToDoPool, ToSetPool, InHand
<1>5. ASSUME NEW b \in Backend, NEW s \in work[b], ToRead(s.id)
      PROVE  SubnetDone(s, b)'
  <2>1. Hard(s.id)
    BY <1>1, <1>4, <1>5, BackendAssumption
    DEF InStep, WorkRight, WorkSubnets, SubnetDone, RightPlace
  <2> QED
    BY <1>3, <2>1, StillKeepsExcuses DEF SubnetDone
<1>6. WorkRight' /\ WorkLawful'
  BY <1>1, <1>3, <1>4, <1>5, StillKeepsWork, BackendAssumption DEF InStep
<1>7. LiveRight' /\ LiveLawful'
  BY <1>1, <1>3, StillKeepsLive DEF InStep, StaysOverlooked
<1> QED
  BY <1>3, <1>6, <1>7 DEF InStep

\* An address is read: it is in hand instead of listed.
LEMMA ReadIpInStep ==
    ASSUME Inv, InStep, ReadIp
    PROVE  InStep'
<1>1. PICK i \in ids : nb.ip[i].on /\ item' = ListingOf(i) /\ ids' = ids \ {i}
  BY DEF ReadIp
<1>2. /\ pc = "read" /\ pc' = "mac" /\ Busy /\ Busy' /\ AboutIps /\ AboutIps'
      /\ Still /\ UNCHANGED <<work, staged, overlooked, missed, prefs, ev, at>>
      /\ prefs = {} /\ ev \in Event /\ ~Rebuilding'
  BY DEF ReadIp, Step, Along, Quiet, Still, apps, Busy, Rebuilding, AboutIps,
         Inv, HandlerOK, InStep, PrefsKnown
<1>3. i \in IpId /\ ListingOf(i).nid = i /\ ListingOf(i).ip = nb.ip[i].ip
  BY <1>2 DEF Inv, HandlerOK, Lists, AboutIps, Event, ListingOf
<1>4. /\ \A p : ~ToRead(p)
      /\ \A p, j : ~ToSetResa(p, j)
      /\ \A r : ~ToDoPool(r)
      /\ \A p, r : ~ToSetPool(p, r)
      /\ \A j : ToDoResa(j) => ToDoResa(j)'
  BY <1>1, <1>2, <1>3
  DEF ToDoResa, AboutIps, ToRead, Named, ToSetResa, ToDoPool, ToSetPool, InHand
<1>5. WorkRight' /\ WorkLawful'
  BY <1>2, <1>4, StillKeepsWork DEF InStep, ResaDone
<1>6. LiveRight' /\ LiveLawful'
  BY <1>2, StillKeepsLive DEF InStep, StaysOverlooked
<1>7. KnownAddress(item)'
  BY <1>1, <1>2, <1>3, StillKeepsRight DEF KnownAddress, TracksResa, Still
<1>8. PrefsKnown' /\ CurKnown' /\ ItemsKnown'
  BY <1>2, <1>7 DEF PrefsKnown, CurKnown, ItemsKnown, AboutIps
<1>9. Looping'
  BY <1>2, EditsStage, StillKeepsLooping DEF InStep, apps
<1> QED
  BY <1>5, <1>6, <1>8, <1>9 DEF InStep

\* The hardware address its interface has now makes it a reservation that is
\* right now.
LEMMA ReadMacInStep ==
    ASSUME Inv, InStep, ReadMac
    PROVE  InStep'
<1>1. /\ pc = "mac" /\ pc' = "prefixes" /\ Busy /\ Busy' /\ AboutIps /\ AboutIps'
      /\ Still /\ UNCHANGED <<work, staged, overlooked, missed, prefs, ids, ev, at>>
      /\ prefs = {} /\ ev \in Event /\ ~Rebuilding'
      /\ item \in Listing /\ item' = ResaFor(item)
  BY DEF ReadMac, Step, Along, Quiet, Still, apps, Busy, Rebuilding, AboutIps, FitsAddress,
         Inv, HandlerOK, InStep, PrefsKnown
<1>2. item'.nid = item.nid /\ item'.ip = item.ip /\ KnownAddress(item)
  BY <1>1, ListingType, ItemTypes, NoItemAssumption
  DEF InStep, ItemsKnown, Inv, TypeOK
<1>3. /\ \A p : ~ToRead(p)
      /\ \A p, j : ~ToSetResa(p, j)
      /\ \A r : ~ToDoPool(r)
      /\ \A p, r : ~ToSetPool(p, r)
      /\ \A j : ToDoResa(j) => ToDoResa(j)'
  BY <1>1, <1>2
  DEF ToDoResa, AboutIps, ToRead, Named, ToSetResa, ToDoPool, ToSetPool, InHand
<1>4. WorkRight' /\ WorkLawful'
  BY <1>1, <1>3, StillKeepsWork DEF InStep, ResaDone
<1>5. LiveRight' /\ LiveLawful'
  BY <1>1, StillKeepsLive DEF InStep, StaysOverlooked
<1>6. KnownResa(item)'
  <2>1. KnownResa(item')
    BY <1>1, <1>2 DEF KnownAddress, KnownResa, TracksResa, ResaOf
  <2> QED
    BY <1>1, <2>1, StillKeepsKnown
<1>7. PrefsKnown' /\ CurKnown' /\ ItemsKnown'
  BY <1>1, <1>6 DEF PrefsKnown, CurKnown, ItemsKnown, AboutIps
<1>8. Looping'
  BY <1>1, EditsStage, StillKeepsLooping DEF InStep, apps
<1> QED
  BY <1>4, <1>5, <1>7, <1>8 DEF InStep

LEMMA ReadRangeInStep ==
    ASSUME Inv, InStep, ReadRange
    PROVE  InStep'
<1>1. /\ pc = "read" /\ pc' = "prefixes" /\ Busy /\ Busy' /\ ev.model = "iprange"
      /\ Still /\ UNCHANGED <<work, staged, overlooked, missed, prefs, ev, at>>
      /\ prefs = {} /\ ev \in Event /\ ~Rebuilding'
      /\ nb.range[ev.id].on /\ item' = PoolOf(ev.id)
  BY DEF ReadRange, Step, Along, Quiet, Still, apps, Busy, Rebuilding,
         Inv, HandlerOK, InStep, PrefsKnown
<1>2. PoolOf(ev.id).rid = ev.id /\ PoolOf(ev.id).lo = nb.range[ev.id].lo
  BY DEF PoolOf
<1>3. /\ \A p : ~ToRead(p)
      /\ \A p, j : ~ToSetResa(p, j)
      /\ \A r : ToDoPool(r) => ToDoPool(r)'
      /\ \A p, r : ~ToSetPool(p, r)
      /\ \A j : ~ToDoResa(j)
  BY <1>1
  DEF ToDoResa, AboutIps, ToRead, Named, ToSetResa, ToDoPool, ToSetPool, InHand
<1>4. WorkRight' /\ WorkLawful'
  BY <1>1, <1>3, StillKeepsWork DEF InStep, PoolDone
<1>5. LiveRight' /\ LiveLawful'
  BY <1>1, StillKeepsLive DEF InStep, StaysOverlooked
<1>6. KnownPool(item)'
  BY <1>1, <1>2, StillKeepsRight DEF KnownPool, TracksPool, Still
<1>7. PrefsKnown' /\ CurKnown' /\ ItemsKnown'
  BY <1>1, <1>6 DEF PrefsKnown, CurKnown, ItemsKnown, AboutIps
<1>8. Looping'
  BY <1>1, EditsStage, StillKeepsLooping DEF InStep, apps
<1> QED
  BY <1>4, <1>5, <1>7, <1>8 DEF InStep

\* An item in hand is in all the prefixes that hold it.
LEMMA EndItemInStep ==
    ASSUME Inv, InStep, EndItem
    PROVE  InStep'
<1>1. /\ pc = "set" /\ Busy /\ Over(ids) /\ UNCHANGED <<work, staged, overlooked>>
      /\ prefs = {} /\ ev \in Event
  BY DEF EndItem, NextObject, apps, Busy, Inv, HandlerOK
<1>2. Staging
  BY <1>1, EditsStage DEF apps
<1>3. /\ Still /\ UNCHANGED <<missed, ev>> /\ Busy' /\ ids' = ids
      /\ PrefsKnown' /\ CurKnown' /\ ItemsKnown' /\ Looping'
  BY <1>1, <1>2, OverInStep
<1>4. /\ \A p : ~ToRead(p)
      /\ \A p, i : ~ToSetResa(p, i)
      /\ \A r : ~ToDoPool(r)
      /\ \A p, r : ~ToSetPool(p, r)
      /\ \A i : ToDoResa(i) => ToDoResa(i)'
  BY <1>1, <1>3
  DEF ToDoResa, AboutIps, ToRead, Named, ToSetResa, ToDoPool, ToSetPool, InHand
<1>5. WorkRight' /\ WorkLawful'
  BY <1>1, <1>3, <1>4, StillKeepsWork DEF InStep, ResaDone
<1>6. LiveRight' /\ LiveLawful'
  BY <1>1, <1>3, StillKeepsLive DEF InStep, StaysOverlooked
<1> QED
  BY <1>3, <1>5, <1>6 DEF InStep

\* A subnet whose network does not hold the address does not hold it either.
LEMMA ResaElsewhere ==
    ASSUME Inv, InStep, Busy, NEW b \in Backend, NEW s \in work[b], NEW i \in IpId,
           ~LateResa(i),
           nb.ip[i].ip \notin AddrIn[s.net]
    PROVE  RightResa(s, i)
<1>1. ~WantsResa(i, s.net)
  BY DEF WantsResa
<1>2. ASSUME NEW x \in s.resas, x.nid = i
      PROVE  FALSE
  <2>1. x.ip \in AddrIn[s.net] /\ TracksResa(x)
    BY DEF InStep, WorkLawful, Lawful, LawfulResas
  <2>2. Named("ipaddress", i) \notin moved
    BY DEF LateResa, Late, Told
  <2>3. s.net \in Net
    BY DEF Inv, TypeOK, Conf, Subnet
  <2> QED
    BY <1>2, <2>1, <2>2, <2>3 DEF TracksResa
<1> QED
  BY <1>1, <1>2 DEF RightResa

LEMMA PoolElsewhere ==
    ASSUME Inv, InStep, Busy, NEW b \in Backend, NEW s \in work[b], NEW r \in RangeId,
           ~LatePool(r),
           nb.range[r].lo \notin PointIn[s.net]
    PROVE  RightPool(s, r)
<1>1. ~WantsPool(r, s.net)
  BY DEF WantsPool
<1>2. ASSUME NEW x \in s.pools, x.rid = r
      PROVE  FALSE
  <2>1. x.lo \in PointIn[s.net] /\ TracksPool(x)
    BY DEF InStep, WorkLawful, Lawful, LawfulPools
  <2>2. Named("iprange", r) \notin moved
    BY DEF LatePool, Late, Told
  <2>3. s.net \in Net
    BY DEF Inv, TypeOK, Conf, Subnet
  <2> QED
    BY <1>2, <2>1, <2>2, <2>3 DEF TracksPool
<1> QED
  BY <1>1, <1>2 DEF RightPool

LEMMA QueryPrefixesInStep ==
    ASSUME Inv, InStep, QueryPrefixes
    PROVE  InStep'
<1>1. /\ pc = "prefixes" /\ pc' = "set" /\ Busy /\ Busy' /\ ~Rebuilding'
      /\ Still /\ UNCHANGED <<work, staged, missed, item, ids, ev, at>>
      /\ overlooked \subseteq overlooked'
      /\ ev \in Event /\ Fits(ev, item) /\ prefs = {}
      /\ prefs' = IF ev.model = "iprange" THEN PrefixesWithPoint(item.lo)
                  ELSE PrefixesWithAddr(item.ip)
  BY DEF QueryPrefixes, Along, Quiet, Still, apps, Busy, Rebuilding,
         Inv, HandlerOK, InStep, PrefsKnown
<1>2. \A p : Pref(p).id = p
  BY DEF Pref
\* A prefix that holds the item is in the answer, or overlooked.
<1>3. ASSUME NEW b \in Backend, NEW s \in work[b], ~InHand(s.id)'
      PROVE  /\ AboutIps /\ item.ip \in AddrIn[s.net]
                   => <<s.id, Named("ipaddress", item.nid)>> \in overlooked'
             /\ ev.model = "iprange" /\ item.lo \in PointIn[s.net]
                   => <<s.id, Named("iprange", item.rid)>> \in overlooked'
  <2> DEFINE x == IF ev.model = "iprange" THEN [model |-> "iprange", id |-> item.rid]
                  ELSE [model |-> "ipaddress", id |-> item.nid]
             holds == {t \in UNION {work[a] : a \in Backend} :
                          IF ev.model = "iprange" THEN item.lo \in PointIn[t.net]
                          ELSE item.ip \in AddrIn[t.net]}
  <2>1. overlooked' = overlooked \cup
            {<<p, x>> : p \in {t.id : t \in holds} \ {pr.id : pr \in prefs'}}
    BY DEF QueryPrefixes
  <2>2. s \in UNION {work[a] : a \in Backend}
    OBVIOUS
  <2>3. s.id \notin {pr.id : pr \in prefs'}
    BY <1>3 DEF InHand
  <2>4. s \in holds => <<s.id, x>> \in overlooked'
    BY <2>1, <2>3
  <2>5. CASE ev.model = "iprange"
    BY <2>2, <2>4, <2>5 DEF Named, AboutIps
  <2>6. CASE ev.model # "iprange"
    BY <2>2, <2>4, <2>6 DEF Named, AboutIps
  <2> QED
    BY <2>5, <2>6
<1>4. ASSUME NEW b \in Backend, NEW s \in work[b], NEW i \in IpId, ToDoResa(i)
      PROVE  ResaDone(s, i)'
  <2>1. CASE i \in ids /\ AboutIps
    BY <1>1, <2>1 DEF ResaDone, ToDoResa, AboutIps
  <2>2. CASE LateResa(i)
    BY <1>1, <2>2, StillKeepsExcuses DEF ResaDone
  <2>3. CASE ~LateResa(i) /\ i = item.nid /\ AboutIps
    <3>1. item.ip = nb.ip[i].ip
      BY <1>1, <2>3, ItemTypes, NoItemAssumption, ResaOfShape
      DEF InStep, ItemsKnown, KnownResa, Fits, AboutIps
    <3>2. CASE item.ip \in AddrIn[s.net] /\ InHand(s.id)'
      BY <1>1, <2>3, <3>2 DEF ResaDone, ToSetResa, AboutIps
    <3>3. CASE item.ip \in AddrIn[s.net] /\ ~InHand(s.id)'
      BY <1>3, <2>3, <3>3 DEF ResaDone, Overlooked, Named
    <3>4. CASE item.ip \notin AddrIn[s.net]
      BY <1>1, <2>3, <3>1, <3>4, ResaElsewhere, StillKeepsRight DEF ResaDone, Still
    <3> QED
      BY <3>2, <3>3, <3>4
  <2> QED
    BY <1>1, <1>4, <2>1, <2>2, <2>3 DEF ToDoResa
<1>5. ASSUME NEW b \in Backend, NEW s \in work[b], NEW r \in RangeId, ToDoPool(r)
      PROVE  PoolDone(s, r)'
  <2>1. CASE LatePool(r)
    BY <1>1, <2>1, StillKeepsExcuses DEF PoolDone
  <2>2. CASE ~LatePool(r)
    <3>1. ev.model = "iprange" /\ item.rid = r /\ item.lo = nb.range[r].lo
      BY <1>1, <1>5, <2>2, ItemTypes, NoItemAssumption
      DEF ToDoPool, Named, Fits, InStep, ItemsKnown, KnownPool, PoolOf
    <3>2. CASE item.lo \in PointIn[s.net] /\ InHand(s.id)'
      BY <1>1, <3>1, <3>2 DEF PoolDone, ToSetPool
    <3>3. CASE item.lo \in PointIn[s.net] /\ ~InHand(s.id)'
      BY <1>3, <3>1, <3>3 DEF PoolDone, Overlooked, Named
    <3>4. CASE item.lo \notin PointIn[s.net]
      BY <1>1, <2>2, <3>1, <3>4, PoolElsewhere, StillKeepsRight DEF PoolDone, Still
    <3> QED
      BY <3>2, <3>3, <3>4
  <2> QED
    BY <2>1, <2>2
<1>6. /\ \A p : ~ToRead(p)
      /\ \A p, i : ~ToSetResa(p, i)
      /\ \A p, r : ~ToSetPool(p, r)
  BY <1>1 DEF ToRead, ToSetResa, ToSetPool, InHand
<1>7. WorkRight' /\ WorkLawful'
  BY <1>1, <1>4, <1>5, <1>6, StillKeepsWork DEF InStep
<1>8. LiveRight' /\ LiveLawful'
  BY <1>1, StillKeepsLive DEF InStep, StaysOverlooked
<1>9. PrefsKnown'
  <2>1. \A pr \in prefs' : pr.id \in PrefixId /\ pr = Pref(pr.id) /\ nb.prefix[pr.id].on
    BY <1>1, <1>2 DEF PrefixesWithAddr, PrefixesWithPoint
  <2>2. \A pr \in prefs' : Known(pr)'
    BY <1>1, <2>1 DEF Known, Pref, Still
  <2> QED
    BY <1>1, <2>1, <2>2 DEF PrefsKnown
<1>10. ItemsKnown' /\ CurKnown'
  BY <1>1, StillKeepsKnown DEF InStep, ItemsKnown, CurKnown, AboutIps
<1>11. Looping'
  BY <1>1, EditsStage, StillKeepsLooping DEF InStep, apps
<1> QED
  BY <1>7, <1>8, <1>9, <1>10, <1>11 DEF InStep

\* The subnet made anew, unless its prefix moved between servers.
LEMMA CurSubnet ==
    ASSUME Inv, InStep, Rebuilding, NEW b \in Backend, NEW s \in work[b],
           s.id = cur.id, ~Hard(s.id)
    PROVE  /\ b = cur.backend /\ s.net = cur.net
           /\ pc = "addresses" => s.resas = {}
           /\ pc = "resas" /\ offset > 0 => \A x \in s.resas : x.nid \in seen
           /\ pc # "pools" => s.pools = {}
<1>1. Busy
  BY DEF Busy, Rebuilding
<1>2. SubnetDone(s, b) /\ Known(cur) /\ Lawful(work[b])
  BY <1>1 DEF InStep, WorkRight, WorkSubnets, CurKnown, WorkLawful
<1>3. b = cur.backend
  BY <1>2 DEF SubnetDone, RightPlace, Known
<1>4. PICK t \in work[cur.backend] :
        /\ t.id = cur.id /\ t.net = cur.net
        /\ pc = "addresses" => t.resas = {}
        /\ pc = "resas" /\ offset > 0 => \A x \in t.resas : x.nid \in seen
        /\ pc # "pools" => t.pools = {}
  BY DEF InStep, CurKnown
<1>5. s = t
  BY <1>2, <1>3, <1>4 DEF Lawful
<1> QED
  BY <1>3, <1>4, <1>5

LEMMA QueryRangesInStep ==
    ASSUME Inv, InStep, QueryRanges
    PROVE  InStep'
<1>1. /\ pc = "resas" /\ pc' = "pools" /\ Busy /\ Busy' /\ Rebuilding /\ Rebuilding'
      /\ Still /\ UNCHANGED <<work, staged, overlooked, missed, prefs, item, ids, cur, ev, at>>
      /\ items = {} /\ offset = 0 /\ items' = {PoolOf(r) : r \in RangesIn(cur.net)}
  BY DEF QueryRanges, Step, Along, Quiet, Still, apps, Busy, Rebuilding
<1>2. /\ \A p : ~ToRead(p)
      /\ \A i : ToDoResa(i) => ToDoResa(i)'
      /\ \A p, i : ToSetResa(p, i) => ToSetResa(p, i)'
      /\ \A r : ~ToDoPool(r)
      /\ \A p, r : ToSetPool(p, r) => (InHand(p) /\ ToSetPool(p, r)') \/ cur.id = p
  BY <1>1 DEF ToRead, ToDoResa, AboutIps, ToSetResa, ToDoPool, ToSetPool, InHand
<1>3. ASSUME NEW b \in Backend, NEW s \in work[b], NEW r \in RangeId, cur.id = s.id
      PROVE  PoolDone(s, r)'
  <2>1. CASE Hard(s.id)
    BY <1>1, <2>1, StillKeepsExcuses DEF PoolDone
  <2>2. CASE ~Hard(s.id) /\ r \in RangesIn(cur.net)
    <3>1. PoolOf(r) \in items' /\ PoolOf(r).rid = r
      BY <1>1, <2>2 DEF PoolOf
    <3> QED
      BY <1>1, <1>3, <3>1 DEF PoolDone, ToSetPool
  <2>3. CASE ~Hard(s.id) /\ r \notin RangesIn(cur.net)
    <3>1. s.net = cur.net /\ s.pools = {}
      BY <1>1, <1>3, <2>3, CurSubnet
    <3>2. RightPool(s, r)
      BY <2>3, <3>1 DEF RightPool, WantsPool, RangesIn
    <3> QED
      BY <1>1, <3>2, StillKeepsRight DEF PoolDone, Still
  <2> QED
    BY <2>1, <2>2, <2>3
<1>4. WorkRight' /\ WorkLawful'
  BY <1>1, <1>2, <1>3, StillKeepsWork DEF InStep, ResaDone, PoolDone
<1>5. LiveRight' /\ LiveLawful'
  BY <1>1, StillKeepsLive DEF InStep, StaysOverlooked
<1>6. \A x \in items' : KnownPool(x)'
  <2>1. \A r \in RangesIn(cur.net) : KnownPool(PoolOf(r))
    BY DEF KnownPool, TracksPool, RangesIn, PoolOf
  <2> QED
    BY <1>1, <2>1, StillKeepsKnown
<1>7. PrefsKnown' /\ CurKnown' /\ ItemsKnown'
  BY <1>1, <1>6, StillKeepsKnown DEF InStep, PrefsKnown, CurKnown, ItemsKnown, AboutIps
<1>8. Looping'
  BY <1>1, EditsStage, StillKeepsLooping DEF InStep, apps, Looping, AboutIps
<1> QED
  BY <1>4, <1>5, <1>7, <1>8 DEF InStep

LEMMA EndRecreateInStep ==
    ASSUME Inv, InStep, EndRecreate
    PROVE  InStep'
<1>1. /\ pc = "pools" /\ pc' = (IF item = NoItem THEN "push" ELSE "set")
      /\ Busy /\ Busy' /\ Rebuilding /\ ~Rebuilding'
      /\ Still /\ UNCHANGED <<work, staged, overlooked, missed, prefs, item, ids, items,
                              ev, at>>
      /\ items = {}
  BY DEF EndRecreate, Step, Along, Quiet, Still, apps, Busy, Rebuilding
<1>2. /\ \A p : ~ToRead(p)
      /\ \A i : ToDoResa(i) => ToDoResa(i)'
      /\ \A p, i : ToSetResa(p, i) => ToSetResa(p, i)'
      /\ \A r : ~ToDoPool(r)
      /\ \A p, r : ToSetPool(p, r) => ToSetPool(p, r)'
  BY <1>1 DEF ToRead, ToDoResa, AboutIps, ToSetResa, ToDoPool, ToSetPool, InHand
<1>3. WorkRight' /\ WorkLawful'
  BY <1>1, <1>2, StillKeepsWork DEF InStep, ResaDone, PoolDone
<1>4. LiveRight' /\ LiveLawful'
  BY <1>1, StillKeepsLive DEF InStep, StaysOverlooked
<1>5. PrefsKnown' /\ CurKnown' /\ ItemsKnown'
  BY <1>1, StillKeepsKnown DEF InStep, PrefsKnown, CurKnown, ItemsKnown, AboutIps
<1>6. Looping'
  BY <1>1, EditsStage, StillKeepsLooping DEF InStep, apps, Looping, AboutIps
<1> QED
  BY <1>3, <1>4, <1>5, <1>6 DEF InStep

-----------------------------------------------------------------------------
(* What the edits of a configuration leave of each subnet. *)

\* t is s with other items.
SameSubnet(s, t) == t.id = s.id /\ t.net = s.net /\ t.opt = s.opt

\* Every subnet of the result is one of before, edited, and the other way round.
LEMMA WithoutResasShape ==
    ASSUME NEW c \in Conf, NEW nids
    PROVE  /\ \A t \in WithoutResas(c, nids) : \E s \in c :
                  SameSubnet(s, t) /\ t.pools = s.pools
                      /\ t.resas = {x \in s.resas : x.nid \notin nids}
           /\ \A s \in c : \E t \in WithoutResas(c, nids) :
                  t.id = s.id /\ t.net = s.net /\ t.pools = s.pools
                      /\ t.resas \subseteq s.resas
           /\ Lawful(c) => \A t, u \in WithoutResas(c, nids) : t.id = u.id => t = u
<1> DEFINE f == [s \in c |-> [s EXCEPT !.resas = {x \in s.resas : x.nid \notin nids}]]
<1>1. WithoutResas(c, nids) = {f[s] : s \in c}
  BY DEF WithoutResas
<1>2. \A s \in c : /\ SameSubnet(s, f[s]) /\ f[s].pools = s.pools
                   /\ f[s].resas = {x \in s.resas : x.nid \notin nids}
  BY DEF Conf, Subnet, SameSubnet
<1>3. \A s \in c : f[s].id = s.id /\ f[s].net = s.net /\ f[s].resas \subseteq s.resas
  BY <1>2 DEF SameSubnet
<1> HIDE DEF f
<1>4. Lawful(c) => \A s, t \in c : f[s].id = f[t].id => f[s] = f[t]
  BY <1>3 DEF Lawful
<1> QED
  BY <1>1, <1>2, <1>3, <1>4

LEMMA DropPoolShape ==
    ASSUME NEW c \in Conf, NEW rid
    PROVE  /\ \A t \in DropPool(c, rid) : \E s \in c :
                  SameSubnet(s, t) /\ t.resas = s.resas
                      /\ t.pools = {x \in s.pools : x.rid # rid}
           /\ \A s \in c : \E t \in DropPool(c, rid) : t.id = s.id
           /\ Lawful(c) => \A t, u \in DropPool(c, rid) : t.id = u.id => t = u
<1> DEFINE f == [s \in c |-> [s EXCEPT !.pools = {x \in s.pools : x.rid # rid}]]
<1>1. DropPool(c, rid) = {f[s] : s \in c}
  BY DEF DropPool
<1>2. \A s \in c : /\ SameSubnet(s, f[s]) /\ f[s].resas = s.resas
                   /\ f[s].pools = {x \in s.pools : x.rid # rid}
  BY DEF Conf, Subnet, SameSubnet
<1>3. \A s \in c : f[s].id = s.id
  BY <1>2 DEF SameSubnet
<1> HIDE DEF f
<1>4. Lawful(c) => \A s, t \in c : f[s].id = f[t].id => f[s] = f[t]
  BY <1>3 DEF Lawful
<1> QED
  BY <1>1, <1>2, <1>3, <1>4

LEMMA PutResaShape ==
    ASSUME NEW c \in Conf, NEW pid, NEW r
    PROVE  /\ \A t \in PutResa(c, pid, r) : \E s \in c :
                  /\ SameSubnet(s, t) /\ t.pools = s.pools
                  /\ s.id # pid => t = s
                  /\ s.id = pid => t.resas = {x \in s.resas : x.nid # r.nid} \cup {r}
           /\ \A s \in c : \E t \in PutResa(c, pid, r) :
                  t.id = s.id /\ t.net = s.net /\ t.pools = s.pools
           /\ Lawful(c) => \A t, u \in PutResa(c, pid, r) : t.id = u.id => t = u
<1> DEFINE f == [s \in c |->
                 IF s.id = pid
                 THEN [s EXCEPT !.resas = {x \in s.resas : x.nid # r.nid} \cup {r}]
                 ELSE s]
<1>1. PutResa(c, pid, r) = {f[s] : s \in c}
  BY DEF PutResa
<1>2. \A s \in c :
        /\ SameSubnet(s, f[s]) /\ f[s].pools = s.pools
        /\ s.id # pid => f[s] = s
        /\ s.id = pid => f[s].resas = {x \in s.resas : x.nid # r.nid} \cup {r}
  BY DEF Conf, Subnet, SameSubnet
<1>3. \A s \in c : f[s].id = s.id /\ f[s].net = s.net
  BY <1>2 DEF SameSubnet
<1> HIDE DEF f
<1>4. Lawful(c) => \A s, t \in c : f[s].id = f[t].id => f[s] = f[t]
  BY <1>3 DEF Lawful
<1> QED
  BY <1>1, <1>2, <1>3, <1>4

LEMMA PutPoolShape ==
    ASSUME NEW c \in Conf, NEW pid, NEW p
    PROVE  /\ \A t \in PutPool(c, pid, p) : \E s \in c :
                  /\ SameSubnet(s, t) /\ t.resas = s.resas
                  /\ s.id # pid => t = s
                  /\ s.id = pid => t.pools = {x \in s.pools : x.rid # p.rid} \cup {p}
           /\ \A s \in c : \E t \in PutPool(c, pid, p) : t.id = s.id /\ t.net = s.net
           /\ Lawful(c) => \A t, u \in PutPool(c, pid, p) : t.id = u.id => t = u
<1> DEFINE f == [s \in c |->
                 IF s.id = pid
                 THEN [s EXCEPT !.pools = {x \in s.pools : x.rid # p.rid} \cup {p}]
                 ELSE s]
<1>1. PutPool(c, pid, p) = {f[s] : s \in c}
  BY DEF PutPool
<1>2. \A s \in c :
        /\ SameSubnet(s, f[s]) /\ f[s].resas = s.resas
        /\ s.id # pid => f[s] = s
        /\ s.id = pid => f[s].pools = {x \in s.pools : x.rid # p.rid} \cup {p}
  BY DEF Conf, Subnet, SameSubnet
<1>3. \A s \in c : f[s].id = s.id /\ f[s].net = s.net
  BY <1>2 DEF SameSubnet
<1> HIDE DEF f
<1>4. Lawful(c) => \A s, t \in c : f[s].id = f[t].id => f[s] = f[t]
  BY <1>3 DEF Lawful
<1> QED
  BY <1>1, <1>2, <1>3, <1>4

LEMMA UpdateOptionsShape ==
    ASSUME NEW c \in Conf, NEW pid, NEW opt
    PROVE  /\ \A t \in UpdateOptions(c, pid, opt) : \E s \in c :
                  /\ t.id = s.id /\ t.net = s.net
                  /\ t.resas = s.resas /\ t.pools = s.pools
                  /\ IF s.id = pid THEN t.opt = opt ELSE t = s
           /\ \A s \in c : \E t \in UpdateOptions(c, pid, opt) : t.id = s.id
           /\ Lawful(c) => \A t, u \in UpdateOptions(c, pid, opt) : t.id = u.id => t = u
<1> DEFINE f == [s \in c |-> IF s.id = pid THEN [s EXCEPT !.opt = opt] ELSE s]
<1>1. UpdateOptions(c, pid, opt) = {f[s] : s \in c}
  BY DEF UpdateOptions
<1>2. \A s \in c : /\ f[s].id = s.id /\ f[s].net = s.net
                   /\ f[s].resas = s.resas /\ f[s].pools = s.pools
                   /\ IF s.id = pid THEN f[s].opt = opt ELSE f[s] = s
  BY DEF Conf, Subnet
<1> HIDE DEF f
<1>3. Lawful(c) => \A s, t \in c : f[s].id = f[t].id => f[s] = f[t]
  BY <1>2 DEF Lawful
<1> QED
  BY <1>1, <1>2, <1>3

\* An item that an edit of its subnet does not touch.
LEMMA EditedResa ==
    ASSUME Still, missed \subseteq missed', NEW s, NEW t, NEW i,
           t.id = s.id, t.net = s.net, StaysOverlooked(s.id),
           \A x : x.nid = i => (x \in t.resas <=> x \in s.resas),
           ResaDone(s, i), ToDoResa(i) \/ ToSetResa(s.id, i) => ResaDone(t, i)'
    PROVE  ResaDone(t, i)'
<1>1. ResaOf(i).nid = i
  BY ResaOfShape
<1>2. RightResa(s, i) => RightResa(t, i)
  BY <1>1 DEF RightResa
<1>3. RightResa(t, i)' <=> RightResa(t, i)
  BY StillKeepsRight DEF Still
<1> QED
  BY <1>2, <1>3, StillKeepsExcuses DEF ResaDone, Overlooked, StaysOverlooked

LEMMA EditedPool ==
    ASSUME Still, missed \subseteq missed', NEW s, NEW t, NEW r,
           t.id = s.id, t.net = s.net, StaysOverlooked(s.id),
           \A x : x.rid = r => (x \in t.pools <=> x \in s.pools),
           PoolDone(s, r), ToDoPool(r) \/ ToSetPool(s.id, r) => PoolDone(t, r)'
    PROVE  PoolDone(t, r)'
<1>1. PoolOf(r).rid = r
  BY DEF PoolOf
<1>2. RightPool(s, r) => RightPool(t, r)
  BY <1>1 DEF RightPool
<1>3. RightPool(t, r)' <=> RightPool(t, r)
  BY StillKeepsRight DEF Still
<1> QED
  BY <1>2, <1>3, StillKeepsExcuses DEF PoolDone, Overlooked, StaysOverlooked

\* An edit of items: each subnet stays, with items that are right.
LEMMA ItemsEdited ==
    ASSUME Inv, InStep, Busy, Still, missed \subseteq missed',
           overlooked \subseteq overlooked',
           \A p : ~ToRead(p),
           \A b \in Backend : \A t \in work'[b] : \E s \in work[b] :
               /\ SameSubnet(s, t)
               /\ \A i \in IpId : ResaDone(s, i) => ResaDone(t, i)'
               /\ \A r \in RangeId : PoolDone(s, r) => PoolDone(t, r)'
               /\ LawfulResas(s) /\ LawfulPools(s) => LawfulResas(t) /\ LawfulPools(t),
           \A b \in Backend : \A s \in work[b] : HasSubnet(work'[b], s.id),
           \A b \in Backend : \A t, u \in work'[b] : t.id = u.id => t = u
    PROVE  WorkRight' /\ WorkLawful'
<1>1. WorkSubnets'
  <2>1. ASSUME NEW b \in Backend, NEW t \in work'[b]
        PROVE  SubnetDone(t, b)'
    <3>1. PICK s \in work[b] : SameSubnet(s, t)
      BY <2>1
    <3>2. SubnetDone(s, b)
      BY DEF InStep, WorkRight, WorkSubnets
    <3>3. SubnetDone(t, b)
      BY <3>1, <3>2 DEF SubnetDone, SameSubnet, RightPlace, RightSettings
    <3> QED
      BY <3>3, StillDone DEF StaysOverlooked
  <2> QED
    BY <2>1 DEF WorkSubnets
<1>2. WorkCovers'
  <2>1. ASSUME NEW b \in Backend, NEW p, HasSubnet(work[b], p)
        PROVE  HasSubnet(work'[b], p)
    BY <2>1 DEF HasSubnet
  <2> QED
    BY <2>1, StillKeepsExcuses DEF InStep, WorkRight, WorkCovers, Still
<1>3. WorkResas' /\ WorkPools'
  BY DEF InStep, WorkRight, WorkResas, WorkPools
<1>4. WorkLawful'
  <2>1. \A b \in Backend : \A t \in work'[b] : LawfulResas(t)' /\ LawfulPools(t)'
    BY StillKeepsLawful DEF InStep, WorkLawful, Lawful, Still
  <2> QED
    BY <2>1 DEF WorkLawful, Lawful
<1> QED
  BY <1>1, <1>2, <1>3, <1>4 DEF WorkRight

\* A place in a list is a number.
LEMMA PositionType ==
    ASSUME NEW i, NEW net
    PROVE  Position(i, net) \in Nat
<1> DEFINE before == {j \in IpsIn(net) :
                        Rank[<<j, nb.ip[j].ip>>] < Rank[<<i, nb.ip[i].ip>>]}
<1>1. before \subseteq IpId
  BY DEF IpsIn
<1>2. Cardinality(before) \in Nat
  BY <1>1, ListAssumption, FS_Subset, FS_CardinalityType
<1> QED
  BY <1>2 DEF Position

\* A page of the addresses of a subnet made anew: with the last one, every
\* address is in a page, or overlooked.
LEMMA QueryAddressesInStep ==
    ASSUME Inv, InStep, QueryAddresses
    PROVE  InStep'
<1> DEFINE page == Page(cur.net, offset)
           passed == {i \in IpsIn(cur.net) : Position(i, cur.net) < offset}
<1>1. /\ pc = "addresses" \/ (pc = "resas" /\ items = {} /\ offset > 0)
      /\ pc' = "resas" /\ Busy /\ Busy' /\ Rebuilding /\ Rebuilding'
      /\ Still /\ UNCHANGED <<work, staged, missed, prefs, item, ids, cur, ev, at>>
      /\ items' = {ListingOf(i) : i \in page}
      /\ IF More(cur.net, offset)
         THEN offset' = offset + PageSize /\ seen' = seen \cup page
         ELSE offset' = 0 /\ seen' = {}
      /\ overlooked' = overlooked \cup
             {<<cur.id, Named("ipaddress", i)>> : i \in passed \ seen}
      /\ cur \in Prefs
  BY DEF QueryAddresses, Quiet, Still, Busy, Rebuilding, apps, Named, Inv, HandlerOK
<1>2. /\ offset \in Nat /\ PageSize \in Nat /\ PageSize > 0
      /\ pc = "addresses" => offset = 0 /\ seen = {}
      /\ overlooked \subseteq overlooked'
  BY <1>1, ListAssumption DEF Inv, TypeOK, HandlerOK
<1>3. /\ page \subseteq IpsIn(cur.net) /\ IpsIn(cur.net) \subseteq IpId
           /\ \A i \in IpId :
                 i \in IpsIn(cur.net) <=> nb.ip[i].on /\ nb.ip[i].ip \in AddrIn[cur.net]
  BY DEF Page, IpsIn
<1>4. ASSUME NEW i \in IpsIn(cur.net), i \notin seen, i \notin page,
             ~More(cur.net, offset)
      PROVE  <<cur.id, Named("ipaddress", i)>> \in overlooked'
  <2>1. Position(i, cur.net) \in Nat
    BY PositionType
  <2>2. ~(Position(i, cur.net) >= offset + PageSize)
    BY <1>4 DEF More
  <2>3. Position(i, cur.net) < offset
    BY <1>2, <1>4, <2>1, <2>2 DEF Page
  <2> QED
    BY <1>1, <1>4, <2>3
<1>5. \A i \in page : /\ ListingOf(i).nid = i /\ ListingOf(i) \in items'
                      /\ KnownAddress(ListingOf(i))
  BY <1>1, <1>3 DEF ListingOf, KnownAddress, TracksResa
<1>6. \A x \in items' : \E i \in page : x = ListingOf(i)
  BY <1>1
<1>7. More(cur.net, offset) => offset' > 0 /\ seen' = seen \cup page
  BY <1>1, <1>2
<1>8. ~More(cur.net, offset) => ~(offset' > 0)
  BY <1>1
<1> HIDE DEF page, passed
<1>9. /\ \A p : ~ToRead(p)
      /\ \A i : ToDoResa(i) => ToDoResa(i)'
      /\ \A p, i : ToSetResa(p, i) => ToSetResa(p, i)' \/ p = cur.id
      /\ \A i : ToSetResa(cur.id, i) => i \notin seen
      /\ \A r : ~ToDoPool(r)
      /\ \A p, r : ToSetPool(p, r) => ToSetPool(p, r)'
  <2>1. ~InHand(cur.id)
    BY <1>1 DEF InStep, CurKnown, InHand
  <2> QED
    BY <1>1, <1>2, <2>1
    DEF ToRead, ToDoResa, AboutIps, ToSetResa, ToDoPool, ToSetPool, InHand
<1>10. ASSUME NEW b \in Backend, NEW s \in work[b], NEW i \in IpId, s.id = cur.id
       PROVE  ResaDone(s, i)'
  <2>1. CASE Hard(s.id)
    BY <1>1, <2>1, StillKeepsExcuses DEF ResaDone
  <2>2. CASE i \in page
    BY <1>1, <1>5, <1>10, <2>2 DEF ResaDone, ToSetResa
  <2>3. CASE i \in seen
    <3>1. ResaDone(s, i) /\ (ToDoResa(i) \/ ToSetResa(s.id, i) => ResaDone(s, i)')
      BY <1>1, <1>9, <1>10, <2>3 DEF InStep, WorkRight, WorkResas, ResaDone
    <3> QED
      BY <1>1, <1>2, <3>1, StillDone DEF StaysOverlooked
  <2>4. CASE i \notin page /\ i \notin seen /\ More(cur.net, offset)
    BY <1>1, <1>7, <1>10, <2>4 DEF ResaDone, ToSetResa
  <2>5. CASE i \notin page /\ i \notin seen /\ ~More(cur.net, offset) /\ ~Hard(s.id)
    <3>1. CASE i \in IpsIn(cur.net)
      BY <1>4, <1>10, <2>5, <3>1 DEF ResaDone, Overlooked, Named
    <3>2. CASE i \notin IpsIn(cur.net)
      <4>1. /\ s.net = cur.net
            /\ pc = "addresses" => s.resas = {}
            /\ pc = "resas" /\ offset > 0 => \A x \in s.resas : x.nid \in seen
        BY <1>1, <1>10, <2>5, CurSubnet
      <4>2. \A x \in s.resas : x.nid # i
        BY <1>1, <2>5, <4>1
      <4>3. RightResa(s, i)
        BY <1>3, <3>2, <4>1, <4>2 DEF RightResa, WantsResa
      <4> QED
        BY <1>1, <4>3, StillKeepsRight DEF ResaDone, Still
    <3> QED
      BY <3>1, <3>2
  <2> QED
    BY <2>1, <2>2, <2>3, <2>4, <2>5
<1>11. WorkRight' /\ WorkLawful'
  <2>1. \A b \in Backend : \A s \in work[b] : \A i \in IpId :
           ToDoResa(i) \/ ToSetResa(s.id, i) => ResaDone(s, i)'
    BY <1>9, <1>10 DEF ResaDone
  <2>2. \A b \in Backend : \A s \in work[b] : \A r \in RangeId :
           ToDoPool(r) \/ ToSetPool(s.id, r) => PoolDone(s, r)'
    BY <1>9 DEF PoolDone
  <2> QED
    BY <1>1, <1>2, <1>9, <2>1, <2>2, StillKeepsWork DEF InStep
<1>12. LiveRight' /\ LiveLawful'
  BY <1>1, <1>2, StillKeepsLive DEF InStep, StaysOverlooked
<1>13. PrefsKnown'
  BY <1>1, StillKeepsKnown DEF InStep, PrefsKnown
<1>14. CurKnown'
  <2>1. PICK s \in work[cur.backend] :
          /\ s.id = cur.id /\ s.net = cur.net /\ s.pools = {}
          /\ pc = "addresses" => s.resas = {}
          /\ pc = "resas" /\ offset > 0 => \A x \in s.resas : x.nid \in seen
    BY <1>1 DEF InStep, CurKnown
  <2>2. offset' > 0 => \A x \in s.resas : x.nid \in seen'
    BY <1>1, <1>7, <1>8, <2>1
  <2>3. /\ work'[cur'.backend] = work[cur.backend]
        /\ s.id = cur'.id /\ s.net = cur'.net /\ s.pools = {}
        /\ pc' = "resas"
    BY <1>1, <2>1
  <2>4. Known(cur)' /\ \A pr \in prefs' : pr.id # cur'.id
    BY <1>1, StillKeepsKnown DEF InStep, CurKnown
  <2> QED
    BY <2>1, <2>2, <2>3, <2>4 DEF CurKnown
<1>15. ItemsKnown'
  <2>1. \A x \in items' : KnownAddress(x) /\ (offset' > 0 => x.nid \in seen')
    BY <1>5, <1>6, <1>7, <1>8
  <2>2. \A x \in items' : KnownAddress(x)'
    BY <1>1, <2>1, StillKeepsKnown
  <2>3. item' # NoItem => /\ AboutIps' => KnownResa(item)'
                          /\ ev'.model = "iprange" => KnownPool(item)'
    BY <1>1, StillKeepsKnown DEF InStep, ItemsKnown, AboutIps
  <2> QED
    BY <1>1, <2>1, <2>2, <2>3 DEF ItemsKnown
<1>16. Looping'
  BY <1>1, EditsStage, StillKeepsLooping DEF InStep, Looping, AboutIps, apps
<1> QED
  BY <1>11, <1>12, <1>13, <1>14, <1>15, <1>16 DEF InStep

\* Kea accepts a reservation where NetBox has its address, or not at all.
LEMMA PutResaRight ==
    ASSUME Inv, NEW c \in Conf, NEW pid, NEW x \in ResaItem, KnownResa(x),
           Accepts(PutResa(c, pid, x)), NEW t \in PutResa(c, pid, x), t.id = pid
    PROVE  x.ip \in AddrIn[t.net] /\ (LateResa(x.nid) \/ RightResa(t, x.nid))
<1>1. PICK s \in c : s.id = pid /\ t.resas = {y \in s.resas : y.nid # x.nid} \cup {x}
  <2>1. PICK s \in c : /\ SameSubnet(s, t)
                       /\ s.id = pid => t.resas = {y \in s.resas : y.nid # x.nid} \cup {x}
    BY PutResaShape
  <2> QED
    BY <2>1 DEF SameSubnet
<1>2. x \in t.resas /\ \A y \in t.resas : y.nid = x.nid => y = x
  BY <1>1
<1>3. x.ip \in AddrIn[t.net]
  BY <1>2 DEF Accepts
<1>4. ASSUME ~LateResa(x.nid)
      PROVE  RightResa(t, x.nid)
  <2>1. nb.ip[x.nid].on /\ x = ResaOf(x.nid)
    BY <1>4 DEF KnownResa
  <2>2. x.mac = Hw(x.nid) /\ x.ip = nb.ip[x.nid].ip
    BY <2>1, ResaOfShape
  <2>3. Hw(x.nid) # NoMac
    BY <2>2, BackendAssumption DEF ResaItem
  <2> QED
    BY <1>2, <1>3, <2>1, <2>2, <2>3 DEF RightResa, WantsResa
<1> QED
  BY <1>3, <1>4

LEMMA PutPoolRight ==
    ASSUME Inv, NEW c \in Conf, NEW pid, NEW x \in PoolItem, KnownPool(x),
           Accepts(PutPool(c, pid, x)), NEW t \in PutPool(c, pid, x), t.id = pid
    PROVE  x.lo \in PointIn[t.net] /\ (LatePool(x.rid) \/ RightPool(t, x.rid))
<1>1. PICK s \in c : s.id = pid /\ t.pools = {y \in s.pools : y.rid # x.rid} \cup {x}
  <2>1. PICK s \in c : /\ SameSubnet(s, t)
                       /\ s.id = pid => t.pools = {y \in s.pools : y.rid # x.rid} \cup {x}
    BY PutPoolShape
  <2> QED
    BY <2>1 DEF SameSubnet
<1>2. x \in t.pools /\ \A y \in t.pools : y.rid = x.rid => y = x
  BY <1>1
<1>3. x.lo \in PointIn[t.net] /\ x.hi \in PointIn[t.net]
  BY <1>2 DEF Accepts
<1>4. ASSUME ~LatePool(x.rid)
      PROVE  RightPool(t, x.rid)
  <2>1. nb.range[x.rid].on /\ x = PoolOf(x.rid)
    BY <1>4 DEF KnownPool
  <2>2. x.lo = nb.range[x.rid].lo /\ x.hi = nb.range[x.rid].hi
    BY <2>1 DEF PoolOf
  <2> QED
    BY <1>2, <1>3, <2>1, <2>2 DEF RightPool, WantsPool
<1> QED
  BY <1>3, <1>4

\* An accepted reservation in one subnet of one server.
LEMMA PutResaDone ==
    ASSUME Inv, InStep, Busy, Still, UNCHANGED <<missed, overlooked>>,
           NEW d \in Backend, NEW pid, NEW x \in ResaItem, KnownResa(x),
           Commit(d, PutResa(work[d], pid, x)), \A p : ~ToRead(p),
           \A b \in Backend : \A s \in work[b] : s.id = pid => b = d \/ Hard(s.id),
           \A p, i : ToDoResa(i) \/ ToSetResa(p, i) =>
               ToDoResa(i)' \/ ToSetResa(p, i)' \/ (p = pid /\ i = x.nid),
           \A p, r : ToDoPool(r) \/ ToSetPool(p, r) => ToDoPool(r)' \/ ToSetPool(p, r)'
    PROVE  WorkRight' /\ WorkLawful'
<1> DEFINE c == PutResa(work[d], pid, x)
<1>1. /\ work[d] \in Conf /\ Accepts(c)
      /\ \A b \in Backend : work'[b] = IF b = d THEN c ELSE work[b]
      /\ \A b \in Backend : Lawful(work[b])
  BY DEF Commit, Inv, TypeOK, InStep, WorkLawful
<1>2. \A t \in c : \E s \in work[d] :
         /\ SameSubnet(s, t) /\ t.pools = s.pools
         /\ s.id # pid => t = s
         /\ s.id = pid => t.resas = {y \in s.resas : y.nid # x.nid} \cup {x}
  BY <1>1, PutResaShape
<1>3. /\ \A s \in work[d] : HasSubnet(c, s.id)
      /\ \A t, u \in c : t.id = u.id => t = u
  BY <1>1, PutResaShape DEF HasSubnet
<1>4. \A t \in c : t.id = pid =>
         x.ip \in AddrIn[t.net] /\ (LateResa(x.nid) \/ RightResa(t, x.nid))
  BY <1>1, PutResaRight
<1> HIDE DEF c
\* A subnet with the same items.
<1>5. ASSUME NEW b \in Backend, NEW s \in work[b], NEW i \in IpId, ResaDone(s, i),
             s.id # pid \/ b # d
      PROVE  ResaDone(s, i)'
  <2>1. CASE Hard(s.id)
    BY <2>1, StillKeepsExcuses DEF ResaDone
  <2>2. CASE ~Hard(s.id)
    <3>1. ToDoResa(i) \/ ToSetResa(s.id, i) => ResaDone(s, i)'
      BY <1>5, <2>2 DEF ResaDone
    <3> QED
      BY <1>5, <3>1, StillDone DEF StaysOverlooked
  <2> QED
    BY <2>1, <2>2
<1>6. ASSUME NEW s, NEW t, SameSubnet(s, t), t.pools = s.pools,
             NEW r \in RangeId, PoolDone(s, r)
      PROVE  PoolDone(t, r)'
  <2>1. ToDoPool(r) \/ ToSetPool(s.id, r) => PoolDone(t, r)'
    BY <1>6 DEF PoolDone, SameSubnet
  <2> QED
    BY <1>6, <2>1, EditedPool DEF SameSubnet, StaysOverlooked
\* The subnet with the new item.
<1>7. ASSUME NEW s \in work[d], NEW t \in c, SameSubnet(s, t), s.id = pid,
             t.resas = {y \in s.resas : y.nid # x.nid} \cup {x},
             NEW i \in IpId, ResaDone(s, i)
      PROVE  ResaDone(t, i)'
  <2>1. CASE i = x.nid
    <3>1. LateResa(i) \/ RightResa(t, i)
      BY <1>4, <1>7, <2>1 DEF SameSubnet
    <3> QED
      BY <3>1, StillKeepsExcuses, StillKeepsRight DEF ResaDone, Still
  <2>2. CASE i # x.nid
    <3>1. \A y : y.nid = i => (y \in t.resas <=> y \in s.resas)
      BY <1>7, <2>2
    <3>2. ToDoResa(i) \/ ToSetResa(s.id, i) => ResaDone(t, i)'
      BY <1>7, <2>2 DEF ResaDone, SameSubnet
    <3> QED
      BY <1>7, <3>1, <3>2, EditedResa DEF SameSubnet, StaysOverlooked
  <2> QED
    BY <2>1, <2>2
<1>8. ASSUME NEW b \in Backend, NEW t \in work'[b]
      PROVE  \E s \in work[b] :
               /\ SameSubnet(s, t)
               /\ \A i \in IpId : ResaDone(s, i) => ResaDone(t, i)'
               /\ \A r \in RangeId : PoolDone(s, r) => PoolDone(t, r)'
               /\ LawfulResas(s) /\ LawfulPools(s) => LawfulResas(t) /\ LawfulPools(t)
  <2>1. CASE b # d
    <3>1. t \in work[b] /\ SameSubnet(t, t)
      BY <1>1, <1>8, <2>1 DEF SameSubnet
    <3> QED
      BY <1>5, <1>6, <2>1, <3>1
  <2>2. CASE b = d
    <3>1. PICK s \in work[d] :
             /\ SameSubnet(s, t) /\ t.pools = s.pools
             /\ s.id # pid => t = s
             /\ s.id = pid => t.resas = {y \in s.resas : y.nid # x.nid} \cup {x}
      BY <1>1, <1>2, <1>8, <2>2
    <3>2. t \in c
      BY <1>1, <1>8, <2>2
    <3>3. \A i \in IpId : ResaDone(s, i) => ResaDone(t, i)'
      <4>1. CASE s.id # pid
        BY <1>5, <3>1, <4>1
      <4>2. CASE s.id = pid
        BY <1>7, <3>1, <3>2, <4>2
      <4> QED
        BY <4>1, <4>2
    <3>4. LawfulResas(s) /\ LawfulPools(s) => LawfulResas(t) /\ LawfulPools(t)
      <4>1. CASE s.id # pid
        BY <3>1, <4>1
      <4>2. CASE s.id = pid
        <5>1. x.ip \in AddrIn[t.net] /\ TracksResa(x)
          BY <1>4, <3>1, <3>2, <4>2 DEF SameSubnet, KnownResa
        <5> QED
          BY <3>1, <4>2, <5>1 DEF LawfulResas, LawfulPools, SameSubnet
      <4> QED
        BY <4>1, <4>2
    <3> QED
      BY <1>6, <2>2, <3>1, <3>3, <3>4
  <2> QED
    BY <2>1, <2>2
<1>9. \A b \in Backend : /\ \A s \in work[b] : HasSubnet(work'[b], s.id)
                         /\ \A t, u \in work'[b] : t.id = u.id => t = u
  BY <1>1, <1>3 DEF HasSubnet, Lawful
<1> QED
  BY <1>8, <1>9, ItemsEdited

\* An accepted pool in one subnet of one server.
LEMMA PutPoolDone ==
    ASSUME Inv, InStep, Busy, Still, UNCHANGED <<missed, overlooked>>,
           NEW d \in Backend, NEW pid, NEW x \in PoolItem, KnownPool(x),
           Commit(d, PutPool(work[d], pid, x)), \A p : ~ToRead(p),
           \A b \in Backend : \A s \in work[b] : s.id = pid => b = d \/ Hard(s.id),
           \A p, r : ToDoPool(r) \/ ToSetPool(p, r) =>
               ToDoPool(r)' \/ ToSetPool(p, r)' \/ (p = pid /\ r = x.rid),
           \A p, i : ToDoResa(i) \/ ToSetResa(p, i) => ToDoResa(i)' \/ ToSetResa(p, i)'
    PROVE  WorkRight' /\ WorkLawful'
<1> DEFINE c == PutPool(work[d], pid, x)
<1>1. /\ work[d] \in Conf /\ Accepts(c)
      /\ \A b \in Backend : work'[b] = IF b = d THEN c ELSE work[b]
      /\ \A b \in Backend : Lawful(work[b])
  BY DEF Commit, Inv, TypeOK, InStep, WorkLawful
<1>2. \A t \in c : \E s \in work[d] :
         /\ SameSubnet(s, t) /\ t.resas = s.resas
         /\ s.id # pid => t = s
         /\ s.id = pid => t.pools = {y \in s.pools : y.rid # x.rid} \cup {x}
  BY <1>1, PutPoolShape
<1>3. /\ \A s \in work[d] : HasSubnet(c, s.id)
      /\ \A t, u \in c : t.id = u.id => t = u
  BY <1>1, PutPoolShape DEF HasSubnet
<1>4. \A t \in c : t.id = pid =>
         x.lo \in PointIn[t.net] /\ (LatePool(x.rid) \/ RightPool(t, x.rid))
  BY <1>1, PutPoolRight
<1> HIDE DEF c
\* A subnet with the same items.
<1>5. ASSUME NEW b \in Backend, NEW s \in work[b], NEW r \in RangeId, PoolDone(s, r),
             s.id # pid \/ b # d
      PROVE  PoolDone(s, r)'
  <2>1. CASE Hard(s.id)
    BY <2>1, StillKeepsExcuses DEF PoolDone
  <2>2. CASE ~Hard(s.id)
    <3>1. ToDoPool(r) \/ ToSetPool(s.id, r) => PoolDone(s, r)'
      BY <1>5, <2>2 DEF PoolDone
    <3> QED
      BY <1>5, <3>1, StillDone DEF StaysOverlooked
  <2> QED
    BY <2>1, <2>2
<1>6. ASSUME NEW s, NEW t, SameSubnet(s, t), t.resas = s.resas,
             NEW i \in IpId, ResaDone(s, i)
      PROVE  ResaDone(t, i)'
  <2>1. ToDoResa(i) \/ ToSetResa(s.id, i) => ResaDone(t, i)'
    BY <1>6 DEF ResaDone, SameSubnet
  <2> QED
    BY <1>6, <2>1, EditedResa DEF SameSubnet, StaysOverlooked
\* The subnet with the new item.
<1>7. ASSUME NEW s \in work[d], NEW t \in c, SameSubnet(s, t), s.id = pid,
             t.pools = {y \in s.pools : y.rid # x.rid} \cup {x},
             NEW r \in RangeId, PoolDone(s, r)
      PROVE  PoolDone(t, r)'
  <2>1. CASE r = x.rid
    <3>1. LatePool(r) \/ RightPool(t, r)
      BY <1>4, <1>7, <2>1 DEF SameSubnet
    <3> QED
      BY <3>1, StillKeepsExcuses, StillKeepsRight DEF PoolDone, Still
  <2>2. CASE r # x.rid
    <3>1. \A y : y.rid = r => (y \in t.pools <=> y \in s.pools)
      BY <1>7, <2>2
    <3>2. ToDoPool(r) \/ ToSetPool(s.id, r) => PoolDone(t, r)'
      BY <1>7, <2>2 DEF PoolDone, SameSubnet
    <3> QED
      BY <1>7, <3>1, <3>2, EditedPool DEF SameSubnet, StaysOverlooked
  <2> QED
    BY <2>1, <2>2
<1>8. ASSUME NEW b \in Backend, NEW t \in work'[b]
      PROVE  \E s \in work[b] :
               /\ SameSubnet(s, t)
               /\ \A r \in RangeId : PoolDone(s, r) => PoolDone(t, r)'
               /\ \A i \in IpId : ResaDone(s, i) => ResaDone(t, i)'
               /\ LawfulResas(s) /\ LawfulPools(s) => LawfulResas(t) /\ LawfulPools(t)
  <2>1. CASE b # d
    <3>1. t \in work[b] /\ SameSubnet(t, t)
      BY <1>1, <1>8, <2>1 DEF SameSubnet
    <3> QED
      BY <1>5, <1>6, <2>1, <3>1
  <2>2. CASE b = d
    <3>1. PICK s \in work[d] :
             /\ SameSubnet(s, t) /\ t.resas = s.resas
             /\ s.id # pid => t = s
             /\ s.id = pid => t.pools = {y \in s.pools : y.rid # x.rid} \cup {x}
      BY <1>1, <1>2, <1>8, <2>2
    <3>2. t \in c
      BY <1>1, <1>8, <2>2
    <3>3. \A r \in RangeId : PoolDone(s, r) => PoolDone(t, r)'
      <4>1. CASE s.id # pid
        BY <1>5, <3>1, <4>1
      <4>2. CASE s.id = pid
        BY <1>7, <3>1, <3>2, <4>2
      <4> QED
        BY <4>1, <4>2
    <3>4. LawfulResas(s) /\ LawfulPools(s) => LawfulResas(t) /\ LawfulPools(t)
      <4>1. CASE s.id # pid
        BY <3>1, <4>1
      <4>2. CASE s.id = pid
        <5>1. x.lo \in PointIn[t.net] /\ TracksPool(x)
          BY <1>4, <3>1, <3>2, <4>2 DEF SameSubnet, KnownPool
        <5> QED
          BY <3>1, <4>2, <5>1 DEF LawfulResas, LawfulPools, SameSubnet
      <4> QED
        BY <4>1, <4>2
    <3> QED
      BY <1>6, <2>2, <3>1, <3>3, <3>4
  <2> QED
    BY <2>1, <2>2
<1>9. \A b \in Backend : /\ \A s \in work[b] : HasSubnet(work'[b], s.id)
                         /\ \A t, u \in work'[b] : t.id = u.id => t = u
  BY <1>1, <1>3 DEF HasSubnet, Lawful
<1> QED
  BY <1>8, <1>9, ItemsEdited

\* A reservation that no server has any more, when NetBox wants none.
LEMMA DroppedEverywhere ==
    ASSUME Inv, InStep, Busy, Still, UNCHANGED <<missed, overlooked>>, NEW i,
           \A b \in Backend : work'[b] = WithoutResas(work[b], {i}),
           LateResa(i) \/ ~nb.ip[i].on \/ Hw(i) = NoMac,
           \A p : ~ToRead(p),
           \A p, j : ToDoResa(j) \/ ToSetResa(p, j) =>
               ToDoResa(j)' \/ ToSetResa(p, j)' \/ j = i,
           \A p, r : ToDoPool(r) \/ ToSetPool(p, r) => ToDoPool(r)' \/ ToSetPool(p, r)'
    PROVE  WorkRight' /\ WorkLawful'
<1>1. \A b \in Backend : work[b] \in Conf /\ Lawful(work[b])
  BY DEF Inv, TypeOK, InStep, WorkLawful
<1>2. ASSUME NEW b \in Backend, NEW t \in work'[b]
      PROVE  \E s \in work[b] :
               /\ SameSubnet(s, t)
               /\ \A j \in IpId : ResaDone(s, j) => ResaDone(t, j)'
               /\ \A r \in RangeId : PoolDone(s, r) => PoolDone(t, r)'
               /\ LawfulResas(s) /\ LawfulPools(s) => LawfulResas(t) /\ LawfulPools(t)
  <2>1. PICK s \in work[b] : /\ SameSubnet(s, t) /\ t.pools = s.pools
                             /\ t.resas = {x \in s.resas : x.nid \notin {i}}
    BY <1>1, <1>2, WithoutResasShape
  <2>2. ASSUME NEW j \in IpId, ResaDone(s, j)
        PROVE  ResaDone(t, j)'
    <3>1. CASE j = i
      <4>1. LateResa(i) \/ RightResa(t, i)
        BY <2>1 DEF RightResa, WantsResa
      <4> QED
        BY <3>1, <4>1, StillKeepsExcuses, StillKeepsRight DEF ResaDone, Still
    <3>2. CASE j # i
      <4>1. \A x : x.nid = j => (x \in t.resas <=> x \in s.resas)
        BY <2>1, <3>2
      <4>2. ToDoResa(j) \/ ToSetResa(s.id, j) => ResaDone(t, j)'
        BY <2>1, <3>2 DEF ResaDone, SameSubnet
      <4> QED
        BY <2>1, <2>2, <4>1, <4>2, EditedResa DEF SameSubnet, StaysOverlooked
    <3> QED
      BY <3>1, <3>2
  <2>3. ASSUME NEW r \in RangeId, PoolDone(s, r)
        PROVE  PoolDone(t, r)'
    <3>1. ToDoPool(r) \/ ToSetPool(s.id, r) => PoolDone(t, r)'
      BY <2>1 DEF PoolDone, SameSubnet
    <3> QED
      BY <2>1, <2>3, <3>1, EditedPool DEF SameSubnet, StaysOverlooked
  <2>4. LawfulResas(s) /\ LawfulPools(s) => LawfulResas(t) /\ LawfulPools(t)
    BY <2>1 DEF LawfulResas, LawfulPools, SameSubnet
  <2> QED
    BY <2>1, <2>2, <2>3, <2>4
<1>3. \A b \in Backend : /\ \A s \in work[b] : HasSubnet(work'[b], s.id)
                         /\ \A t, u \in work'[b] : t.id = u.id => t = u
  BY <1>1, WithoutResasShape DEF HasSubnet
<1> QED
  BY <1>2, <1>3, ItemsEdited

\* The reservations of a subnet made anew; one that fails is missed.
LEMMA AddResaInStep ==
    ASSUME Inv, InStep, AddResa
    PROVE  InStep'
<1> DEFINE d == cur.backend
<1>1. PICK x \in items :
        /\ MacOf(x) # NoMac
        /\ AddOrLog(x, Named("ipaddress", x.nid),
               ResaErrors(work[d], cur.id, ResaFor(x)), PutResa(work[d], cur.id, ResaFor(x)))
  BY DEF AddResa, Named
<1> DEFINE y == ResaFor(x)
<1>2. /\ pc = "resas" /\ pc' = "resas" /\ Busy /\ Busy' /\ Rebuilding /\ Rebuilding'
      /\ Still /\ UNCHANGED <<overlooked, prefs, item, ids, cur, offset, seen, ev, at>>
      /\ items' = items \ {x} /\ x \in Listing /\ KnownAddress(x)
      /\ offset > 0 => x.nid \in seen
      /\ missed \subseteq missed' /\ cur \in Prefs /\ d \in Backend
  BY <1>1 DEF AddResa, AddOrLog, Step, Along, Quiet, Still, Busy, Rebuilding, pages,
              Inv, HandlerOK, InStep, ItemsKnown, Prefs
<1>3. y \in ResaItem /\ KnownResa(y) /\ y.nid = x.nid
  <2>1. y \in ResaItem /\ y.nid = x.nid /\ y.ip = x.ip
    BY <1>1, <1>2, ListingType DEF Inv, TypeOK
  <2> QED
    BY <1>2, <2>1 DEF KnownAddress, KnownResa, TracksResa, ResaOf
<1> HIDE DEF y
<1>4. /\ \A p : ~ToRead(p)
      /\ \A i : ToDoResa(i) => ToDoResa(i)'
      /\ \A p, i : ToSetResa(p, i) => ToSetResa(p, i)' \/ (p = cur.id /\ i = x.nid)
      /\ \A r : ~ToDoPool(r)
      /\ \A p, r : ToSetPool(p, r) => ToSetPool(p, r)'
  BY <1>2 DEF ToRead, ToDoResa, AboutIps, ToSetResa, ToDoPool, ToSetPool, InHand
<1>5. PICK s \in work[d] : /\ s.id = cur.id /\ s.net = cur.net /\ s.pools = {}
                           /\ offset > 0 => \A z \in s.resas : z.nid \in seen
  BY <1>2 DEF InStep, CurKnown
<1>6. Known(cur)' /\ \A pr \in prefs' : pr.id # cur'.id
  BY <1>2, StillKeepsKnown DEF InStep, CurKnown
<1>7. ASSUME Commit(d, PutResa(work[d], cur.id, y)) /\ UNCHANGED missed
      PROVE  WorkRight' /\ WorkLawful' /\ CurKnown' /\ Staging
  <2>1. \A b \in Backend : \A t \in work[b] : t.id = cur.id => b = d \/ Hard(t.id)
    BY <1>2, CurSubnet
  <2>2. WorkRight' /\ WorkLawful'
    BY <1>2, <1>3, <1>4, <1>7, <2>1, PutResaDone
  <2>3. work[d] \in Conf /\ work'[d] = PutResa(work[d], cur.id, y)
    BY <1>2, <1>7 DEF Commit, Inv, TypeOK
  <2>4. \E t \in work'[d] : /\ t.id = cur.id /\ t.net = cur.net /\ t.pools = {}
                            /\ offset > 0 => \A z \in t.resas : z.nid \in seen
    <3>1. PICK t \in work'[d] : t.id = s.id
      BY <2>3, PutResaShape
    <3>2. PICK u \in work[d] :
            /\ SameSubnet(u, t) /\ t.pools = u.pools
            /\ u.id = cur.id => t.resas = {z \in u.resas : z.nid # y.nid} \cup {y}
      BY <2>3, PutResaShape
    <3>3. u = s
      <4>1. Lawful(work[d])
        BY <1>2 DEF InStep, WorkLawful
      <4> QED
        BY <3>1, <3>2, <4>1 DEF Lawful, SameSubnet
    <3> QED
      BY <1>2, <1>3, <1>5, <3>2, <3>3 DEF SameSubnet
  <2>5. CurKnown'
    BY <1>2, <1>6, <2>4 DEF CurKnown
  <2>6. Staging
    BY <1>2, <1>7, EditsStage
  <2> QED
    BY <2>2, <2>5, <2>6
<1>8. ASSUME missed' = missed \cup {Named("ipaddress", x.nid)} /\ UNCHANGED apps
      PROVE  WorkRight' /\ WorkLawful' /\ CurKnown' /\ Staging
  <2>1. LateResa(x.nid)'
    BY <1>8 DEF LateResa, Late, Told
  <2>2. WorkRight' /\ WorkLawful'
    BY <1>2, <1>4, <1>8, <2>1, StillKeepsWork DEF InStep, ResaDone, PoolDone, apps
  <2>3. CurKnown'
    BY <1>2, <1>5, <1>6, <1>8 DEF CurKnown, apps
  <2>4. Staging
    BY <1>8, EditsStage
  <2> QED
    BY <2>2, <2>3, <2>4
<1>9. WorkRight' /\ WorkLawful' /\ CurKnown' /\ Staging
  BY <1>1, <1>7, <1>8 DEF AddOrLog, y
<1>10. LiveRight' /\ LiveLawful'
  BY <1>2, StillKeepsLive DEF InStep, StaysOverlooked
<1>11. PrefsKnown' /\ ItemsKnown'
  BY <1>2, StillKeepsKnown DEF InStep, PrefsKnown, ItemsKnown, AboutIps
<1>12. Looping'
  BY <1>2, <1>9, StillKeepsLooping DEF InStep, Looping, AboutIps
<1> QED
  BY <1>9, <1>10, <1>11, <1>12 DEF InStep

LEMMA DropBareInStep ==
    ASSUME Inv, InStep, DropBare
    PROVE  InStep'
<1>1. PICK x \in items : /\ MacOf(x) = NoMac
                         /\ Broadcast([b \in Backend |-> DropResa(work[b], x.nid)])
                         /\ items' = items \ {x}
  BY DEF DropBare
<1>2. /\ pc = "resas" /\ pc' = "resas" /\ Busy /\ Busy' /\ Rebuilding /\ Rebuilding'
      /\ Still /\ UNCHANGED <<overlooked, missed, prefs, item, ids, cur, offset, seen, ev, at>>
      /\ x \in Listing /\ KnownAddress(x) /\ cur \in Prefs /\ cur.backend \in Backend
  BY <1>1 DEF DropBare, Step, Along, Quiet, Still, Busy, Rebuilding, pages,
              Inv, HandlerOK, InStep, ItemsKnown, Prefs
<1>3. \A b \in Backend : /\ work'[b] = WithoutResas(work[b], {x.nid})
                         /\ work[b] \in Conf
  BY <1>1 DEF Broadcast, DropResa, WithoutResas, Inv, TypeOK
<1>4. LateResa(x.nid) \/ ~nb.ip[x.nid].on \/ Hw(x.nid) = NoMac
  BY <1>1, <1>2 DEF KnownAddress, Hw
<1>5. /\ \A p : ~ToRead(p)
      /\ \A i : ToDoResa(i) => ToDoResa(i)'
      /\ \A p, i : ToSetResa(p, i) => ToSetResa(p, i)' \/ i = x.nid
      /\ \A r : ~ToDoPool(r)
      /\ \A p, r : ToSetPool(p, r) => ToSetPool(p, r)'
  BY <1>1, <1>2 DEF ToRead, ToDoResa, AboutIps, ToSetResa, ToDoPool, ToSetPool, InHand
<1>6. WorkRight' /\ WorkLawful'
  BY <1>2, <1>3, <1>4, <1>5, DroppedEverywhere
<1>7. CurKnown'
  <2>1. PICK s \in work[cur.backend] :
          /\ s.id = cur.id /\ s.net = cur.net /\ s.pools = {}
          /\ offset > 0 => \A z \in s.resas : z.nid \in seen
    BY <1>2 DEF InStep, CurKnown
  <2>2. PICK t \in work'[cur.backend] : /\ t.id = s.id /\ t.net = s.net /\ t.pools = s.pools
                                        /\ t.resas \subseteq s.resas
    BY <1>2, <1>3, WithoutResasShape
  <2>3. Known(cur)' /\ \A pr \in prefs' : pr.id # cur'.id
    BY <1>2, StillKeepsKnown DEF InStep, CurKnown
  <2> QED
    BY <1>2, <2>1, <2>2, <2>3 DEF CurKnown
<1>8. LiveRight' /\ LiveLawful'
  BY <1>2, StillKeepsLive DEF InStep, StaysOverlooked
<1>9. PrefsKnown' /\ ItemsKnown'
  BY <1>1, <1>2, StillKeepsKnown DEF InStep, PrefsKnown, ItemsKnown, AboutIps
<1>10. Looping'
  BY <1>1, <1>2, EditsStage, StillKeepsLooping DEF InStep, Looping, AboutIps
<1> QED
  BY <1>6, <1>7, <1>8, <1>9, <1>10 DEF InStep

LEMMA AddPoolInStep ==
    ASSUME Inv, InStep, AddPool
    PROVE  InStep'
<1> DEFINE d == cur.backend
<1>1. PICK x \in items :
        AddOrLog(x, Named("iprange", x.rid),
            PoolErrors(work[d], cur.id, x), PutPool(work[d], cur.id, x))
  BY DEF AddPool, Named
<1>2. /\ pc = "pools" /\ pc' = "pools" /\ Busy /\ Busy' /\ Rebuilding /\ Rebuilding'
      /\ Still /\ UNCHANGED <<overlooked, prefs, item, ids, cur, ev, at>>
      /\ items' = items \ {x} /\ x \in PoolItem /\ KnownPool(x)
      /\ missed \subseteq missed' /\ cur \in Prefs /\ d \in Backend
  BY <1>1 DEF AddPool, AddOrLog, Step, Along, Quiet, Still, Busy, Rebuilding,
              Inv, HandlerOK, InStep, ItemsKnown, Prefs
<1>3. /\ \A p : ~ToRead(p)
      /\ \A i : ToDoResa(i) => ToDoResa(i)'
      /\ \A p, i : ToSetResa(p, i) => ToSetResa(p, i)'
      /\ \A r : ~ToDoPool(r)
      /\ \A p, r : ToSetPool(p, r) => ToSetPool(p, r)' \/ (p = cur.id /\ r = x.rid)
  BY <1>2 DEF ToRead, ToDoResa, AboutIps, ToSetResa, ToDoPool, ToSetPool, InHand
<1>4. ASSUME Commit(d, PutPool(work[d], cur.id, x)) /\ UNCHANGED missed
      PROVE  WorkRight' /\ WorkLawful' /\ CurKnown' /\ Staging
  <2>1. \A b \in Backend : \A s \in work[b] : s.id = cur.id => b = d \/ Hard(s.id)
    BY <1>2, CurSubnet
  <2>2. WorkRight' /\ WorkLawful'
    BY <1>2, <1>3, <1>4, <2>1, PutPoolDone
  <2>3. \E s \in work[d] : s.id = cur.id /\ s.net = cur.net
    BY <1>2 DEF InStep, CurKnown
  <2>4. \E t \in work'[d] : t.id = cur.id /\ t.net = cur.net
    <3>1. work[d] \in Conf /\ work'[d] = PutPool(work[d], cur.id, x)
      BY <1>2, <1>4 DEF Commit, Inv, TypeOK
    <3> QED
      BY <2>3, <3>1, PutPoolShape
  <2>5. CurKnown'
    BY <1>2, <2>4, StillKeepsKnown DEF InStep, CurKnown
  <2>6. Staging
    BY <1>2, <1>4, EditsStage
  <2> QED
    BY <2>2, <2>5, <2>6
<1>5. ASSUME missed' = missed \cup {Named("iprange", x.rid)} /\ UNCHANGED apps
      PROVE  WorkRight' /\ WorkLawful' /\ CurKnown' /\ Staging
  <2>1. LatePool(x.rid)'
    BY <1>5 DEF LatePool, Late, Told
  <2>2. WorkRight' /\ WorkLawful'
    BY <1>2, <1>3, <1>5, <2>1, StillKeepsWork DEF InStep, ResaDone, PoolDone, apps
  <2>3. CurKnown'
    BY <1>2, <1>5, StillKeepsKnown DEF InStep, CurKnown, apps
  <2>4. Staging
    BY <1>5, EditsStage
  <2> QED
    BY <2>2, <2>3, <2>4
<1>6. WorkRight' /\ WorkLawful' /\ CurKnown' /\ Staging
  BY <1>1, <1>4, <1>5 DEF AddOrLog
<1>7. LiveRight' /\ LiveLawful'
  BY <1>2, StillKeepsLive DEF InStep, StaysOverlooked
<1>8. PrefsKnown' /\ ItemsKnown'
  BY <1>2, StillKeepsKnown DEF InStep, PrefsKnown, ItemsKnown, AboutIps
<1>9. Looping'
  BY <1>2, <1>6, StillKeepsLooping DEF InStep, Looping, AboutIps
<1> QED
  BY <1>6, <1>7, <1>8, <1>9 DEF InStep

\* An address or a range that is gone leaves every server.
LEMMA DeleteIpInStep ==
    ASSUME Inv, InStep, DeleteIp
    PROVE  InStep'
<1>1. PICK i \in ids : /\ ~nb.ip[i].on
                       /\ Broadcast([b \in Backend |-> DropResa(work[b], i)])
                       /\ NextObject(ids \ {i})
  BY DEF DeleteIp
<1>2. /\ pc = "read" /\ Busy /\ Over(ids \ {i}) /\ UNCHANGED overlooked
      /\ prefs = {} /\ ev \in Event /\ AboutIps
      /\ \A b \in Backend : work'[b] = WithoutResas(work[b], {i})
  <2>1. pc = "read" /\ Busy /\ Over(ids \ {i}) /\ UNCHANGED overlooked /\ AboutIps
    BY <1>1 DEF DeleteIp, NextObject, Busy, AboutIps
  <2>2. prefs = {} /\ ev \in Event
    BY <2>1 DEF Inv, HandlerOK, InStep, PrefsKnown, Rebuilding
  <2>3. \A b \in Backend : work'[b] = WithoutResas(work[b], {i})
    BY <1>1 DEF Broadcast, DropResa, WithoutResas
  <2> QED
    BY <2>1, <2>2, <2>3
<1>3. Staging
  BY <1>1, EditsStage
<1>4. /\ Still /\ UNCHANGED <<missed, ev>> /\ Busy' /\ ids' = ids \ {i}
      /\ PrefsKnown' /\ CurKnown' /\ ItemsKnown' /\ Looping'
  BY <1>2, <1>3, OverInStep
<1>5. /\ \A p : ~ToRead(p)
      /\ \A p, j : ~ToSetResa(p, j)
      /\ \A r : ~ToDoPool(r)
      /\ \A p, r : ~ToSetPool(p, r)
      /\ \A j : ToDoResa(j) => ToDoResa(j)' \/ j = i
  BY <1>2, <1>4
  DEF ToDoResa, AboutIps, ToRead, Named, ToSetResa, ToDoPool, ToSetPool, InHand
<1>6. WorkRight' /\ WorkLawful'
  BY <1>1, <1>2, <1>4, <1>5, DroppedEverywhere
<1>7. LiveRight' /\ LiveLawful'
  BY <1>2, <1>4, StillKeepsLive DEF InStep, StaysOverlooked
<1> QED
  BY <1>4, <1>6, <1>7 DEF InStep

LEMMA DeleteBareInStep ==
    ASSUME Inv, InStep, DeleteBare
    PROVE  InStep'
<1>1. /\ pc = "mac" /\ Busy /\ Over(ids) /\ UNCHANGED overlooked
      /\ prefs = {} /\ ev \in Event /\ AboutIps /\ MacOf(item) = NoMac
      /\ Broadcast([b \in Backend |-> DropResa(work[b], item.nid)])
      /\ KnownAddress(item)
  BY ItemTypes, NoItemAssumption
  DEF DeleteBare, NextObject, Busy, Rebuilding, AboutIps, FitsAddress, Inv, HandlerOK,
      InStep, PrefsKnown, ItemsKnown
<1>2. \A b \in Backend : work'[b] = WithoutResas(work[b], {item.nid})
  BY <1>1 DEF Broadcast, DropResa, WithoutResas
<1>3. Staging
  BY <1>1, EditsStage
<1>4. /\ Still /\ UNCHANGED <<missed, ev>> /\ Busy' /\ ids' = ids
      /\ PrefsKnown' /\ CurKnown' /\ ItemsKnown' /\ Looping'
  BY <1>1, <1>3, OverInStep
<1>5. /\ \A p : ~ToRead(p)
      /\ \A p, j : ~ToSetResa(p, j)
      /\ \A r : ~ToDoPool(r)
      /\ \A p, r : ~ToSetPool(p, r)
      /\ \A j : ToDoResa(j) => ToDoResa(j)' \/ j = item.nid
  BY <1>1, <1>4
  DEF ToDoResa, AboutIps, ToRead, Named, ToSetResa, ToDoPool, ToSetPool, InHand
<1>6. LateResa(item.nid) \/ ~nb.ip[item.nid].on \/ Hw(item.nid) = NoMac
  BY <1>1 DEF KnownAddress, Hw
<1>7. WorkRight' /\ WorkLawful'
  BY <1>1, <1>2, <1>4, <1>5, <1>6, DroppedEverywhere
<1>8. LiveRight' /\ LiveLawful'
  BY <1>1, <1>4, StillKeepsLive DEF InStep, StaysOverlooked
<1> QED
  BY <1>4, <1>7, <1>8 DEF InStep

LEMMA DeleteRangeInStep ==
    ASSUME Inv, InStep, DeleteRange
    PROVE  InStep'
<1> DEFINE q == ev.id
<1>1. /\ pc = "read" /\ Busy /\ Over({}) /\ UNCHANGED overlooked
      /\ prefs = {} /\ ev \in Event /\ ev.model = "iprange" /\ ~nb.range[q].on
      /\ Broadcast([b \in Backend |-> DropPool(work[b], q)])
      /\ \A b \in Backend : work'[b] = DropPool(work[b], q)
      /\ \A b \in Backend : work[b] \in Conf /\ Lawful(work[b])
  BY DEF DeleteRange, NextObject, Broadcast, Busy, Rebuilding,
         Inv, TypeOK, HandlerOK, InStep, PrefsKnown, WorkLawful
<1>2. Staging
  BY <1>1, EditsStage
<1>3. /\ Still /\ UNCHANGED <<missed, ev>> /\ Busy'
      /\ PrefsKnown' /\ CurKnown' /\ ItemsKnown' /\ Looping'
  BY <1>1, <1>2, OverInStep
<1>4. /\ \A p : ~ToRead(p)
      /\ \A i : ~ToDoResa(i)
      /\ \A p, i : ~ToSetResa(p, i)
      /\ \A p, r : ~ToSetPool(p, r)
      /\ \A r : ToDoPool(r) => r = q
  BY <1>1
  DEF ToDoResa, AboutIps, ToRead, Named, ToSetResa, ToDoPool, ToSetPool, InHand
<1>5. ASSUME NEW b \in Backend, NEW t \in work'[b]
      PROVE  \E s \in work[b] :
               /\ SameSubnet(s, t)
               /\ \A i \in IpId : ResaDone(s, i) => ResaDone(t, i)'
               /\ \A r \in RangeId : PoolDone(s, r) => PoolDone(t, r)'
               /\ LawfulResas(s) /\ LawfulPools(s) => LawfulResas(t) /\ LawfulPools(t)
  <2>1. PICK s \in work[b] : /\ SameSubnet(s, t) /\ t.resas = s.resas
                             /\ t.pools = {x \in s.pools : x.rid # q}
    BY <1>1, <1>5, DropPoolShape
  <2>2. ASSUME NEW r \in RangeId, PoolDone(s, r)
        PROVE  PoolDone(t, r)'
    <3>1. CASE r = q
      <4>1. RightPool(t, q)
        BY <1>1, <2>1 DEF RightPool, WantsPool
      <4> QED
        BY <1>3, <3>1, <4>1, StillKeepsRight DEF PoolDone, Still
    <3>2. CASE r # q
      <4>1. \A x : x.rid = r => (x \in t.pools <=> x \in s.pools)
        BY <2>1, <3>2
      <4> QED
        BY <1>1, <1>3, <1>4, <2>1, <2>2, <3>2, <4>1, EditedPool DEF SameSubnet, StaysOverlooked
    <3> QED
      BY <3>1, <3>2
  <2>3. \A i \in IpId : ResaDone(s, i) => ResaDone(t, i)'
    BY <1>1, <1>3, <1>4, <2>1, EditedResa DEF SameSubnet, StaysOverlooked
  <2>4. LawfulResas(s) /\ LawfulPools(s) => LawfulResas(t) /\ LawfulPools(t)
    BY <2>1 DEF LawfulResas, LawfulPools, SameSubnet
  <2> QED
    BY <2>1, <2>2, <2>3, <2>4
<1>6. \A b \in Backend : /\ \A s \in work[b] : HasSubnet(work'[b], s.id)
                         /\ \A t, u \in work'[b] : t.id = u.id => t = u
  BY <1>1, DropPoolShape DEF HasSubnet
<1>7. WorkRight' /\ WorkLawful'
  BY <1>1, <1>3, <1>4, <1>5, <1>6, ItemsEdited
<1>8. LiveRight' /\ LiveLawful'
  BY <1>1, <1>3, StillKeepsLive DEF InStep, StaysOverlooked
<1> QED
  BY <1>3, <1>7, <1>8 DEF InStep

\* A subnet made anew, with everything in it still to be set.
LEMMA RecreateInStep ==
    ASSUME Inv, InStep, Scope, Busy, NEW pr \in Prefs, Known(pr), Recreate(pr),
           \/ /\ ev.model = "prefix" /\ ev = Named("prefix", pr.id) /\ pc = "read"
              /\ item = NoItem /\ prefs = {}
           \/ /\ ev.model # "prefix" /\ pr \in prefs /\ pc = "set" /\ item # NoItem
              /\ ~HasSubnet(work[pr.backend], pr.id)
    PROVE  InStep'
<1> DEFINE d == pr.backend
           c == PutSubnet(work[d], pr.id, pr.net, pr.opt)
           bare == [id |-> pr.id, net |-> pr.net, opt |-> pr.opt,
                    resas |-> {}, pools |-> {}]
<1>1. CASE Raise
  BY <1>1, RaiseInStep
<1>2. CASE /\ Commit(d, c)
           /\ pc' = "addresses" /\ cur' = pr /\ prefs' = prefs \ {pr}
           /\ UNCHANGED <<ids, item, items, missed>>
           /\ Along
           /\ Forget(pr.id)
  <2>1. /\ pc' = "addresses" /\ cur' = pr /\ prefs' = prefs \ {pr} /\ Busy' /\ Rebuilding'
        /\ Still /\ UNCHANGED <<ids, item, items, missed, ev, at>>
        /\ \A p : p # pr.id => StaysOverlooked(p)
    BY <1>2 DEF Along, Quiet, Still, Busy, Rebuilding, Forget, StaysOverlooked
  <2>2. /\ d \in Backend /\ pr.id \in PrefixId
        /\ \A b \in Backend : \A t : t \in work'[b] <=>
             (t \in work[b] /\ (b # d \/ t.id # pr.id)) \/ (b = d /\ t = bare)
        /\ bare.id = pr.id /\ bare.net = pr.net /\ bare.opt = pr.opt
        /\ bare.resas = {} /\ bare.pools = {}
    BY <1>2 DEF Commit, PutSubnet, DropSubnet, Prefs, Inv, TypeOK
  <2> HIDE DEF bare, c
  <2>3. Known(pr)'
    BY <2>1, StillKeepsKnown
  <2>4. \A b \in Backend : \A s \in work[b] : s.id = pr.id => b = d \/ Hard(s.id)
    BY DEF InStep, WorkRight, WorkSubnets, SubnetDone, RightPlace, Known
  <2>5. /\ \A p : ToRead(p) => p = pr.id
        /\ \A i : ToDoResa(i) => ToDoResa(i)'
        /\ \A p, i : ToSetResa(p, i) => ToSetResa(p, i)' \/ p = pr.id
        /\ \A r : ~ToDoPool(r)
        /\ \A p, r : ToSetPool(p, r) => ToSetPool(p, r)' \/ p = pr.id
    BY <2>1
    DEF ToRead, ToDoResa, AboutIps, ToSetResa, ToDoPool, ToSetPool, InHand, Named
  \* The other subnets.
  <2>6. ASSUME NEW b \in Backend, NEW s \in work[b], b # d \/ s.id # pr.id
        PROVE  /\ SubnetDone(s, b)'
               /\ \A i \in IpId : ResaDone(s, i)'
               /\ \A r \in RangeId : PoolDone(s, r)'
    <3>1. CASE s.id = pr.id
      BY <2>1, <2>4, <2>6, <3>1, StillKeepsExcuses DEF SubnetDone, ResaDone, PoolDone
    <3>2. CASE s.id # pr.id
      <4>1. /\ ~ToRead(s.id)
            /\ \A i \in IpId : ToDoResa(i) \/ ToSetResa(s.id, i) => ResaDone(s, i)'
            /\ \A r \in RangeId : ToDoPool(r) \/ ToSetPool(s.id, r) => PoolDone(s, r)'
        BY <2>5, <3>2 DEF ResaDone, PoolDone
      <4>2. /\ SubnetDone(s, b)
            /\ \A i \in IpId : ResaDone(s, i)
            /\ \A r \in RangeId : PoolDone(s, r)
        BY DEF InStep, WorkRight, WorkSubnets, WorkResas, WorkPools
      <4> QED
        BY <2>1, <3>2, <4>1, <4>2, StillDone
    <3> QED
      BY <3>1, <3>2
  \* The subnet made anew.
  <2>7. /\ SubnetDone(bare, d)'
        /\ \A i \in IpId : ResaDone(bare, i)'
        /\ \A r \in RangeId : PoolDone(bare, r)'
    <3>1. SubnetDone(bare, d)'
      BY <2>2, <2>3 DEF SubnetDone, RightPlace, RightSettings, Known
    <3>2. \A i \in IpId : ResaDone(bare, i)'
      BY <2>1, <2>2 DEF ResaDone, ToSetResa
    <3>3. \A r \in RangeId : PoolDone(bare, r)'
      BY <2>1, <2>2 DEF PoolDone, ToSetPool
    <3> QED
      BY <3>1, <3>2, <3>3
  <2>8. WorkSubnets' /\ WorkResas' /\ WorkPools'
    BY <2>2, <2>6, <2>7 DEF WorkSubnets, WorkResas, WorkPools
  <2>9. WorkCovers'
    <3>1. ASSUME NEW b \in Backend, NEW p \in PrefixId,
                 nb.prefix[p].on, nb.prefix[p].backend = b
          PROVE  Hard(p)' \/ Soft(p)' \/ HasSubnet(work'[b], p)
      <4>1. CASE p = pr.id
        BY <2>1, <2>2, <3>1, <4>1, StillKeepsExcuses DEF Known, HasSubnet
      <4>2. CASE p # pr.id
        <5>1. Hard(p) \/ Soft(p) \/ HasSubnet(work[b], p)
          BY <2>5, <3>1, <4>2 DEF InStep, WorkRight, WorkCovers
        <5> QED
          BY <2>1, <2>2, <4>2, <5>1, StillKeepsExcuses DEF HasSubnet
      <4> QED
        BY <4>1, <4>2
    <3> QED
      BY <2>1, <3>1 DEF WorkCovers, Still
  <2>10. WorkLawful'
    <3>1. ASSUME NEW b \in Backend
          PROVE  /\ \A s, t \in work'[b] : s.id = t.id => s = t
                 /\ \A s \in work'[b] : LawfulResas(s) /\ LawfulPools(s)
      <4>1. Lawful(work[b])
        BY DEF InStep, WorkLawful
      <4>2. LawfulResas(bare) /\ LawfulPools(bare)
        BY <2>2 DEF LawfulResas, LawfulPools
      <4> QED
        BY <2>2, <4>1, <4>2 DEF Lawful
    <3>2. \A s : (LawfulResas(s) => LawfulResas(s)') /\ (LawfulPools(s) => LawfulPools(s)')
      BY <2>1, StillKeepsLawful DEF Still
    <3> QED
      BY <3>1, <3>2 DEF WorkLawful, Lawful
  <2>11. LiveRight' /\ LiveLawful'
    <3>1. ASSUME NEW b \in Backend, NEW s \in live[b], s.id = pr.id
          PROVE  Hard(s.id) \/ EvPrefix(s.id)
      <4>1. CASE ev.model = "prefix"
        BY <3>1, <4>1 DEF EvPrefix
      <4>2. CASE ev.model # "prefix" /\ ~HasSubnet(work[d], pr.id)
        <5>1. b # d
          <6>1. ASSUME b = d
                PROVE  FALSE
            <7>1. InScope(ev, live[d], work[d])
              BY <2>2 DEF Scope, WorkOK
            <7>2. ev # [model |-> "prefix", id |-> s.id]
              BY <4>2
            <7>3. \E t \in work[d] : Kept(ev, s, t)
              BY <6>1, <7>1, <7>2 DEF InScope
            <7> QED
              BY <3>1, <4>2, <7>3 DEF Kept, HasSubnet
          <6> QED
            BY <6>1
        <5>2. Hard(s.id) \/ nb.prefix[s.id].backend = d
          BY <3>1 DEF Known
        <5> QED
          BY <5>1, <5>2 DEF InStep, LiveRight, LiveSubnets, RightPlace
      <4> QED
        BY <4>1, <4>2
    <3> QED
      BY <2>1, <3>1, StillKeepsLive DEF InStep
  <2>12. PrefsKnown' /\ CurKnown'
    <3>1. \A q \in prefs' : q.id # pr.id
      BY <2>1 DEF InStep, PrefsKnown
    <3>2. \A q \in prefs' : Known(q)'
      BY <2>1, <3>1, StillKeepsKnown DEF InStep, PrefsKnown
    <3>3. PrefsKnown'
      BY <2>1, <3>2 DEF InStep, PrefsKnown
    <3>4. bare \in work'[pr.backend]
      BY <2>2
    <3>5. CurKnown'
      BY <2>1, <2>2, <2>3, <3>1, <3>4 DEF CurKnown
    <3> QED
      BY <3>3, <3>5
  <2>13. ItemsKnown'
    BY <2>1, StillKeepsKnown DEF InStep, ItemsKnown, AboutIps
  <2>14. Looping'
    <3>1. Staging
      BY <1>2, <2>2, EditsStage
    <3>2. item = NoItem => ~AboutIps
      BY DEF AboutIps
    <3> QED
      BY <2>1, <3>1, <3>2, StillKeepsLooping DEF InStep, AboutIps
  <2> QED
    BY <2>8, <2>9, <2>10, <2>11, <2>12, <2>13, <2>14 DEF InStep, WorkRight
<1> QED
  BY <1>1, <1>2 DEF Recreate

LEMMA DeletePrefixInStep ==
    ASSUME Inv, InStep, DeletePrefix
    PROVE  InStep'
<1> DEFINE q == ev.id
<1>1. /\ pc = "read" /\ Busy /\ Over({}) /\ Forget(q)
      /\ prefs = {} /\ ev \in Event /\ ev.model = "prefix" /\ ~nb.prefix[q].on
      /\ Broadcast([b \in Backend |-> DropSubnet(work[b], q)])
      /\ \A b \in Backend : work'[b] = DropSubnet(work[b], q)
      /\ \A b \in Backend : Lawful(work[b])
  BY DEF DeletePrefix, Broadcast, Busy, Rebuilding, Inv, HandlerOK, InStep,
         PrefsKnown, WorkLawful
<1>2. Staging
  BY <1>1, EditsStage
<1>3. /\ Still /\ UNCHANGED <<missed, ev>> /\ Busy'
      /\ PrefsKnown' /\ CurKnown' /\ ItemsKnown' /\ Looping'
  BY <1>1, <1>2, OverInStep
<1>4. /\ \A p : ToRead(p) => p = q
      /\ \A i : ~ToDoResa(i)
      /\ \A p, i : ~ToSetResa(p, i)
      /\ \A r : ~ToDoPool(r)
      /\ \A p, r : ~ToSetPool(p, r)
  BY <1>1
  DEF ToDoResa, AboutIps, ToRead, Named, ToSetResa, ToDoPool, ToSetPool, InHand
<1>5. ASSUME NEW b \in Backend, NEW s \in work'[b]
      PROVE  /\ SubnetDone(s, b)'
             /\ \A i \in IpId : ResaDone(s, i)'
             /\ \A r \in RangeId : PoolDone(s, r)'
  <2>1. s \in work[b] /\ s.id # q
    BY <1>1, <1>5 DEF DropSubnet
  <2>2. /\ SubnetDone(s, b)
        /\ \A i \in IpId : ResaDone(s, i)
        /\ \A r \in RangeId : PoolDone(s, r)
    BY <1>1, <2>1 DEF InStep, WorkRight, WorkSubnets, WorkResas, WorkPools
  <2> QED
    BY <1>1, <1>3, <1>4, <2>1, <2>2, StillDone DEF Forget, StaysOverlooked
<1>6. WorkSubnets' /\ WorkResas' /\ WorkPools'
  BY <1>5 DEF WorkSubnets, WorkResas, WorkPools
<1>7. WorkCovers'
  <2>1. ASSUME NEW b \in Backend, NEW p \in PrefixId,
               nb.prefix[p].on, nb.prefix[p].backend = b
        PROVE  Hard(p)' \/ Soft(p)' \/ HasSubnet(work'[b], p)
    <3>1. p # q
      BY <1>1, <2>1
    <3>2. Hard(p) \/ Soft(p) \/ HasSubnet(work[b], p)
      BY <1>1, <1>4, <2>1, <3>1 DEF InStep, WorkRight, WorkCovers
    <3> QED
      BY <1>1, <1>3, <3>1, <3>2, StillKeepsExcuses DEF HasSubnet, DropSubnet
  <2> QED
    BY <1>3, <2>1 DEF WorkCovers, Still
<1>8. WorkLawful'
  <2>1. ASSUME NEW b \in Backend
        PROVE  /\ \A s, t \in work'[b] : s.id = t.id => s = t
               /\ \A s \in work'[b] : LawfulResas(s) /\ LawfulPools(s)
    BY <1>1 DEF Lawful, DropSubnet
  <2>2. \A s : (LawfulResas(s) => LawfulResas(s)') /\ (LawfulPools(s) => LawfulPools(s)')
    BY <1>3, StillKeepsLawful DEF Still
  <2> QED
    BY <2>1, <2>2 DEF WorkLawful, Lawful
<1>9. LiveRight' /\ LiveLawful'
  <2>1. EvPrefix(q)
    BY <1>1 DEF EvPrefix, Named, Event
  <2> QED
    BY <1>1, <1>3, <2>1, StillKeepsLive DEF InStep, Forget, StaysOverlooked
<1> QED
  BY <1>3, <1>6, <1>7, <1>8, <1>9 DEF InStep, WorkRight

LEMMA UpdatePrefixInStep ==
    ASSUME Inv, InStep, Scope, UpdatePrefix
    PROVE  InStep'
<1> DEFINE pr == Pref(ev.id)
           d == pr.backend
           c == UpdateOptions(work[d], pr.id, pr.opt)
<1>1. /\ pc = "read" /\ Busy /\ ev \in Event /\ ev.model = "prefix"
      /\ prefs = {} /\ item = NoItem
      /\ nb.prefix[ev.id].on /\ nb.prefix[ev.id].backend # NoBackend
  BY DEF UpdatePrefix, Busy, Rebuilding, Inv, HandlerOK, InStep, PrefsKnown
<1>2. /\ pr \in Prefs /\ pr.id = ev.id /\ pr.id \in PrefixId /\ d \in Backend
      /\ ev = Named("prefix", pr.id)
      /\ pr.net = nb.prefix[pr.id].net /\ pr.opt = nb.prefix[pr.id].opt
      /\ d = nb.prefix[pr.id].backend
  <2>1. ev.id \in PrefixId /\ ev = Named("prefix", ev.id)
    BY <1>1 DEF Event, Named
  <2>2. pr \in Prefs /\ pr.id = ev.id
    BY <1>1, <2>1, PrefType DEF Inv, TypeOK
  <2> QED
    BY <2>1, <2>2 DEF Pref, Prefs
<1>3. \/ /\ SubnetErrors(work[d], pr.id, pr.net, TRUE) = {}
         /\ Commit(d, c) /\ NextObject({})
      \/ Raise
      \/ Recreate(pr)
  BY DEF UpdatePrefix
<1>4. Known(pr)
  BY <1>1, <1>2 DEF Known
<1>5. CASE Raise
  BY <1>1, <1>5, RaiseInStep
<1>6. CASE Recreate(pr)
  BY <1>1, <1>2, <1>4, <1>6, RecreateInStep
<1> HIDE DEF pr
<1>7. CASE /\ SubnetErrors(work[d], pr.id, pr.net, TRUE) = {}
           /\ Commit(d, c) /\ NextObject({})
  <2>1. \E s \in work[d] : s.id = pr.id /\ s.net = pr.net
    <3>1. ~("SubnetNotEqual" \in SubnetErrors(work[d], pr.id, pr.net, TRUE))
          /\ ~("SubnetNotFound" \in SubnetErrors(work[d], pr.id, pr.net, TRUE))
          /\ ~("DuplicateValue" \in SubnetErrors(work[d], pr.id, pr.net, TRUE))
      BY <1>7
    <3> QED
      BY <3>1 DEF SubnetErrors
  <2>2. /\ work[d] \in Conf /\ \A b \in Backend : Lawful(work[b])
        /\ \A b \in Backend : work'[b] = IF b = d THEN c ELSE work[b]
        /\ Over({}) /\ UNCHANGED overlooked
    BY <1>1, <1>2, <1>7 DEF Commit, NextObject, Inv, TypeOK, InStep, WorkLawful
  <2>3. \A t \in c : \E s \in work[d] :
           /\ t.id = s.id /\ t.net = s.net
           /\ t.resas = s.resas /\ t.pools = s.pools
           /\ IF s.id = pr.id THEN t.opt = pr.opt ELSE t = s
    BY <2>2, UpdateOptionsShape
  <2>4. /\ \A s \in work[d] : HasSubnet(c, s.id)
        /\ \A t, u \in c : t.id = u.id => t = u
    <3>1. work[d] \in Conf /\ Lawful(work[d])
      BY <1>2, <2>2
    <3>2. /\ \A s \in work[d] : \E t \in c : t.id = s.id
          /\ Lawful(work[d]) => \A t, u \in c : t.id = u.id => t = u
      BY <3>1, UpdateOptionsShape
    <3> HIDE DEF c
    <3> QED
      BY <3>1, <3>2 DEF HasSubnet
  <2>5. Staging
    BY <1>2, <1>7, EditsStage
  <2> HIDE DEF c
  <2>6. /\ Still /\ UNCHANGED <<missed, ev>> /\ Busy'
        /\ PrefsKnown' /\ CurKnown' /\ ItemsKnown' /\ Looping'
    BY <1>1, <2>2, <2>5, OverInStep
  <2>7. /\ \A p : ToRead(p) => p = pr.id
        /\ \A i : ~ToDoResa(i)
        /\ \A p, i : ~ToSetResa(p, i)
        /\ \A r : ~ToDoPool(r)
        /\ \A p, r : ~ToSetPool(p, r)
    BY <1>1, <1>2
    DEF ToDoResa, AboutIps, ToRead, Named, ToSetResa, ToDoPool, ToSetPool, InHand
  <2>8. \A b \in Backend : \A s \in work[b] :
           /\ SubnetDone(s, b)
           /\ \A i \in IpId : ResaDone(s, i)
           /\ \A r \in RangeId : PoolDone(s, r)
    BY <1>1 DEF InStep, WorkRight, WorkSubnets, WorkResas, WorkPools
  <2>9. ASSUME NEW b \in Backend, NEW s \in work[b], b # d \/ s.id # pr.id
        PROVE  SubnetDone(s, b)'
    <3>1. ToRead(s.id) => Hard(s.id)
      <4>1. SubnetDone(s, b) /\ (ToRead(s.id) => s.id = pr.id)
        BY <2>7, <2>8
      <4>2. s.id = pr.id => nb.prefix[s.id].backend # b
        BY <1>2, <2>9
      <4> QED
        BY <4>1, <4>2 DEF SubnetDone, RightPlace
    <3>2. Hard(s.id) => SubnetDone(s, b)'
      BY <2>6, StillKeepsExcuses DEF SubnetDone
    <3> QED
      BY <2>2, <2>6, <2>8, <3>1, <3>2, StillDone DEF StaysOverlooked
  <2>10. ASSUME NEW b \in Backend, b = d, NEW s \in work[b], NEW t,
                s.id = pr.id, t.id = s.id, t.net = s.net, t.opt = pr.opt
         PROVE  SubnetDone(t, b)'
    <3>1. s.net = pr.net
      BY <1>2, <2>1, <2>2, <2>10 DEF Lawful
    <3>2. nb' = nb /\ nb.prefix[t.id].on /\ nb.prefix[t.id].net = t.net
          /\ nb.prefix[t.id].backend = b /\ nb.prefix[t.id].opt = t.opt
      BY <1>1, <1>2, <2>6, <2>10, <3>1 DEF Still
    <3> QED
      BY <3>2 DEF SubnetDone, RightPlace, RightSettings
  <2>11. ASSUME NEW b \in Backend, NEW t \in work'[b]
         PROVE  /\ SubnetDone(t, b)'
                /\ \A i \in IpId : ResaDone(t, i)'
                /\ \A r \in RangeId : PoolDone(t, r)'
                /\ LawfulResas(t) /\ LawfulPools(t)
    <3>1. PICK s \in work[b] : /\ t.id = s.id /\ t.net = s.net
                               /\ t.resas = s.resas /\ t.pools = s.pools
                               /\ IF b = d /\ s.id = pr.id THEN t.opt = pr.opt ELSE t = s
      BY <2>2, <2>3, <2>11
    <3>2. SubnetDone(t, b)'
      <4>1. CASE b = d /\ s.id = pr.id
        BY <2>10, <3>1, <4>1
      <4>2. CASE ~(b = d /\ s.id = pr.id)
        BY <2>9, <3>1, <4>2
      <4> QED
        BY <4>1, <4>2
    <3>3. \A i \in IpId : ResaDone(t, i)'
      BY <2>2, <2>6, <2>7, <2>8, <3>1, EditedResa DEF StaysOverlooked
    <3>4. \A r \in RangeId : PoolDone(t, r)'
      BY <2>2, <2>6, <2>7, <2>8, <3>1, EditedPool DEF StaysOverlooked
    <3>5. LawfulResas(t) /\ LawfulPools(t)
      BY <2>2, <3>1 DEF Lawful, LawfulResas, LawfulPools
    <3> QED
      BY <3>2, <3>3, <3>4, <3>5
  <2>12. WorkSubnets' /\ WorkResas' /\ WorkPools'
    BY <2>11 DEF WorkSubnets, WorkResas, WorkPools
  <2>13. WorkCovers'
    <3>1. ASSUME NEW b \in Backend, NEW p \in PrefixId,
                 nb.prefix[p].on, nb.prefix[p].backend = b
          PROVE  Hard(p)' \/ Soft(p)' \/ HasSubnet(work'[b], p)
      <4>1. Hard(p) \/ Soft(p) \/ HasSubnet(work[b], p)
        <5>1. CASE ToRead(p)
          BY <1>2, <2>1, <2>7, <3>1, <5>1 DEF HasSubnet
        <5>2. CASE ~ToRead(p)
          BY <1>1, <3>1, <5>2 DEF InStep, WorkRight, WorkCovers
        <5> QED
          BY <5>1, <5>2
      <4> QED
        BY <2>2, <2>4, <2>6, <4>1, StillKeepsExcuses DEF HasSubnet
    <3> QED
      BY <2>6, <3>1 DEF WorkCovers, Still
  <2>14. WorkLawful'
    <3>1. ASSUME NEW b \in Backend
          PROVE  /\ \A s, t \in work'[b] : s.id = t.id => s = t
                 /\ \A s \in work'[b] : LawfulResas(s) /\ LawfulPools(s)
      BY <2>2, <2>4, <2>11 DEF Lawful
    <3>2. \A s : (LawfulResas(s) => LawfulResas(s)') /\ (LawfulPools(s) => LawfulPools(s)')
      BY <2>6, StillKeepsLawful DEF Still
    <3> QED
      BY <3>1, <3>2 DEF WorkLawful, Lawful
  <2>15. LiveRight' /\ LiveLawful'
    BY <1>1, <2>2, <2>6, StillKeepsLive DEF InStep, StaysOverlooked
  <2> QED
    BY <2>6, <2>12, <2>13, <2>14, <2>15 DEF InStep, WorkRight
<1> QED
  BY <1>3, <1>5, <1>6, <1>7

LEMMA SetItemInStep ==
    ASSUME Inv, InStep, Scope, SetItem
    PROVE  InStep'
<1>1. /\ pc = "set" /\ Busy /\ ev \in Event /\ Fits(ev, item) /\ item # NoItem
      /\ ~Rebuilding
  BY ItemTypes, NoItemAssumption
  DEF SetItem, Busy, Rebuilding, Inv, HandlerOK, Fits
<1>2. PICK pr \in prefs :
        \/ /\ Commit(pr.backend,
                     IF ev.model = "iprange" THEN PutPool(work[pr.backend], pr.id, item)
                     ELSE PutResa(work[pr.backend], pr.id, item))
           /\ prefs' = prefs \ {pr} /\ UNCHANGED <<pc, ids, item, cur, items, missed>>
           /\ Step
        \/ Raise
        \/ ~HasSubnet(work[pr.backend], pr.id) /\ Recreate(pr)
  BY DEF SetItem, PoolErrors, ResaErrors
<1>3. pr \in Prefs /\ pr.backend \in Backend /\ Known(pr)
  BY DEF Inv, TypeOK, Prefs, InStep, PrefsKnown
<1>4. CASE Raise
  BY <1>1, <1>4, RaiseInStep
<1>5. CASE ~HasSubnet(work[pr.backend], pr.id) /\ Recreate(pr)
  <2>1. ev.model # "prefix"
    BY <1>1 DEF Fits
  <2> QED
    BY <1>1, <1>3, <1>5, <2>1, RecreateInStep
<1>6. CASE /\ Commit(pr.backend,
                     IF ev.model = "iprange" THEN PutPool(work[pr.backend], pr.id, item)
                     ELSE PutResa(work[pr.backend], pr.id, item))
           /\ prefs' = prefs \ {pr} /\ UNCHANGED <<pc, ids, item, cur, items, missed>>
           /\ Step
  <2>1. /\ Still /\ UNCHANGED <<pc, ids, item, missed, ev, at, overlooked>> /\ Busy'
        /\ ~Rebuilding' /\ prefs' = prefs \ {pr}
    BY <1>1, <1>6 DEF Step, Along, Quiet, Still, Busy, Rebuilding
  <2>2. /\ \A p : ~ToRead(p)
        /\ \A i : ToDoResa(i) => ToDoResa(i)'
        /\ \A p, i : ToSetResa(p, i) => ToSetResa(p, i)' \/ (p = pr.id /\ i = item.nid)
        /\ \A r : ~ToDoPool(r)
        /\ \A p, r : ToSetPool(p, r) => ToSetPool(p, r)' \/ (p = pr.id /\ r = item.rid)
        /\ AboutIps => \A p, r : ~ToSetPool(p, r)
        /\ ~AboutIps => \A p, i : ~ToSetResa(p, i)
    BY <1>1, <2>1 DEF ToRead, ToDoResa, AboutIps, ToSetResa, ToDoPool, ToSetPool, InHand
  <2>3. \A b \in Backend : \A s \in work[b] : s.id = pr.id => b = pr.backend \/ Hard(s.id)
    BY <1>1, <1>3 DEF InStep, WorkRight, WorkSubnets, SubnetDone, RightPlace, Known
  <2>4. WorkRight' /\ WorkLawful'
    <3>1. CASE ev.model = "iprange"
      <4>1. item \in PoolItem /\ KnownPool(item) /\ ~AboutIps
        BY <1>1, <3>1 DEF Fits, InStep, ItemsKnown, AboutIps
      <4>2. Commit(pr.backend, PutPool(work[pr.backend], pr.id, item))
        BY <1>6, <3>1
      <4> QED
        BY <1>1, <1>3, <2>1, <2>2, <2>3, <4>1, <4>2, PutPoolDone
    <3>2. CASE ev.model # "iprange"
      <4>1. item \in ResaItem /\ KnownResa(item) /\ AboutIps
        BY <1>1, <3>2 DEF Fits, InStep, ItemsKnown, AboutIps
      <4>2. Commit(pr.backend, PutResa(work[pr.backend], pr.id, item))
        BY <1>6, <3>2
      <4> QED
        BY <1>1, <1>3, <2>1, <2>2, <2>3, <4>1, <4>2, PutResaDone
    <3> QED
      BY <3>1, <3>2
  <2>5. LiveRight' /\ LiveLawful'
    BY <1>1, <2>1, StillKeepsLive DEF InStep, StaysOverlooked
  <2>6. PrefsKnown' /\ CurKnown' /\ ItemsKnown'
    BY <1>1, <2>1, StillKeepsKnown DEF InStep, PrefsKnown, CurKnown, ItemsKnown, AboutIps
  <2>7. Looping'
    BY <1>1, <1>3, <1>6, <2>1, EditsStage, StillKeepsLooping DEF InStep
  <2> QED
    BY <2>4, <2>5, <2>6, <2>7 DEF InStep
<1> QED
  BY <1>2, <1>4, <1>5, <1>6

\* At the pushes nothing is left to do: every working copy is right.
LEMMA NothingLeftToDo ==
    ASSUME Inv, InStep, pc = "push"
    PROVE  /\ prefs = {} /\ item = NoItem
           /\ \A p : ~ToRead(p)
           /\ \A i : ~ToDoResa(i)
           /\ \A p, i : ~ToSetResa(p, i)
           /\ \A r : ~ToDoPool(r)
           /\ \A p, r : ~ToSetPool(p, r)
<1>1. prefs = {} /\ item = NoItem
  BY DEF InStep, PrefsKnown, Rebuilding, Inv, HandlerOK
<1> QED
  BY <1>1
  DEF InStep, Looping, ToRead, ToDoResa, ToSetResa, ToDoPool, ToSetPool, InHand

\* A server that gets its working copy is right, and one that does not has the
\* event in hand, or missed, for an excuse.
LEMMA PushedIsRight ==
    ASSUME Inv, InStep, pc = "push", UNCHANGED <<nb, queue, moved, overlooked>>,
           missed \subseteq missed',
           \A b \in Backend :
               \/ live'[b] = work[b]
               \/ live'[b] = live[b] /\ ((Busy' /\ ev' = ev) \/ ev \in missed')
    PROVE  LiveRight' /\ LiveLawful'
<1>1. /\ \A p : (Hard(p) => Hard(p)') /\ (Soft(p) => Soft(p)')
      /\ \A i : LateResa(i) => LateResa(i)'
      /\ \A r : LatePool(r) => LatePool(r)'
  BY DEF Hard, Soft, LateResa, LatePool, Late, Told, Sent
<1>2. (Busy' /\ ev' = ev) \/ ev \in missed' =>
        /\ \A p : EvPrefix(p) => EvPrefix(p)' \/ Hard(p)'
        /\ \A i : EvResa(i) => EvResa(i)' \/ LateResa(i)'
        /\ \A r : EvPool(r) => EvPool(r)' \/ LatePool(r)'
  BY DEF EvPrefix, EvResa, EvPool, Hard, LateResa, LatePool, Late, Told
<1>3. \A s : /\ \A b : RightPlace(s, b) => RightPlace(s, b)'
             /\ RightSettings(s) => RightSettings(s)'
             /\ \A i : RightResa(s, i) => RightResa(s, i)'
             /\ \A r : RightPool(s, r) => RightPool(s, r)'
  BY StillKeepsRight
<1>4. Busy
  BY DEF Busy
<1>5. ASSUME NEW b \in Backend, NEW s \in live'[b]
      PROVE  \/ Hard(s.id)' \/ EvPrefix(s.id)'
             \/ RightPlace(s, b)' /\ (Soft(s.id)' \/ RightSettings(s)')
  <2>1. CASE live'[b] = work[b]
    BY <1>1, <1>3, <1>4, <1>5, <2>1, NothingLeftToDo
    DEF InStep, WorkRight, WorkSubnets, SubnetDone
  <2>2. CASE live'[b] = live[b] /\ ((Busy' /\ ev' = ev) \/ ev \in missed')
    BY <1>1, <1>2, <1>3, <1>5, <2>2 DEF InStep, LiveRight, LiveSubnets
  <2> QED
    BY <2>1, <2>2
<1>6. ASSUME NEW b \in Backend, NEW p \in PrefixId,
             nb.prefix[p].on, nb.prefix[p].backend = b
      PROVE  Hard(p)' \/ EvPrefix(p)' \/ Soft(p)' \/ HasSubnet(live'[b], p)
  <2>1. CASE live'[b] = work[b]
    BY <1>1, <1>4, <1>6, <2>1, NothingLeftToDo DEF InStep, WorkRight, WorkCovers
  <2>2. CASE live'[b] = live[b] /\ ((Busy' /\ ev' = ev) \/ ev \in missed')
    BY <1>1, <1>2, <1>6, <2>2 DEF InStep, LiveRight, LiveCovers
  <2> QED
    BY <2>1, <2>2
<1>7. ASSUME NEW b \in Backend, NEW s \in live'[b], NEW i \in IpId
      PROVE  \/ Hard(s.id)' \/ EvPrefix(s.id)' \/ Overlooked(s.id, "ipaddress", i)'
             \/ LateResa(i)' \/ EvResa(i)' \/ RightResa(s, i)'
  <2>1. CASE live'[b] = work[b]
    BY <1>1, <1>3, <1>4, <1>7, <2>1, NothingLeftToDo
    DEF InStep, WorkRight, WorkResas, ResaDone, Overlooked
  <2>2. CASE live'[b] = live[b] /\ ((Busy' /\ ev' = ev) \/ ev \in missed')
    BY <1>1, <1>2, <1>3, <1>7, <2>2 DEF InStep, LiveRight, LiveResas, Overlooked
  <2> QED
    BY <2>1, <2>2
<1>8. ASSUME NEW b \in Backend, NEW s \in live'[b], NEW r \in RangeId
      PROVE  \/ Hard(s.id)' \/ EvPrefix(s.id)' \/ Overlooked(s.id, "iprange", r)'
             \/ LatePool(r)' \/ EvPool(r)' \/ RightPool(s, r)'
  <2>1. CASE live'[b] = work[b]
    BY <1>1, <1>3, <1>4, <1>8, <2>1, NothingLeftToDo
    DEF InStep, WorkRight, WorkPools, PoolDone, Overlooked
  <2>2. CASE live'[b] = live[b] /\ ((Busy' /\ ev' = ev) \/ ev \in missed')
    BY <1>1, <1>2, <1>3, <1>8, <2>2 DEF InStep, LiveRight, LivePools, Overlooked
  <2> QED
    BY <2>1, <2>2
<1>9. LiveSubnets' /\ LiveCovers'
  BY <1>5, <1>6 DEF LiveSubnets, LiveCovers
<1>10. LiveResas' /\ LivePools'
  BY <1>7, <1>8 DEF LiveResas, LivePools
<1>11. LiveLawful'
  <2>1. \A b \in Backend : Lawful(live'[b])
    BY <1>4 DEF InStep, LiveLawful, WorkLawful
  <2>2. \A c : Lawful(c)' <=> Lawful(c)
    BY StillKeepsLawful
  <2>3. \A b \in Backend : Lawful(live[b])'
    BY <2>1, <2>2
  <2> QED
    BY <2>3 DEF LiveLawful
<1> QED
  BY <1>9, <1>10, <1>11 DEF LiveRight

\* The pushes: when the loop is over, every server runs its working copy, or a
\* line of the log says that the event went wrong.
LEMMA PushInStep ==
    ASSUME Inv, InStep, Push
    PROVE  InStep'
<1>1. PICK b \in Backend : b = BackendOrder[at]
  BY BackendAssumption DEF Inv, TypeOK
<1>2. /\ pc = "push" /\ Busy /\ UNCHANGED <<nb, queue, work, moved, overlooked>>
      /\ missed \subseteq missed' /\ (NextPush \/ (EndEvent /\ ev \in missed'))
      /\ \A c \in Backend : c # b => live'[c] = live[c] /\ staged'[c] = staged[c]
      /\ \/ ~staged[b] /\ live' = live /\ staged' = staged
         \/ live'[b] = work[b] \/ (live'[b] = live[b] /\ ev \in missed')
      /\ ~staged'[b] \/ (EndEvent /\ ev \in missed')
  <2> DEFINE pushed == [live EXCEPT ![b] = work[b]]
             done == [staged EXCEPT ![b] = FALSE]
  <2>1. /\ pc = "push" /\ Pushing /\ live' \in {live, pushed} /\ staged' \in {staged, done}
        /\ missed' \in {missed, missed \cup {ev}}
    BY <1>1 DEF Push, NextPush
  <2>2. /\ \A c \in Backend : c # b => pushed[c] = live[c] /\ done[c] = staged[c]
        /\ pushed[b] = work[b] /\ ~done[b]
    BY DEF Inv, TypeOK
  <2>3. /\ NextPush \/ (EndEvent /\ ev \in missed')
        /\ \/ ~staged[b] /\ live' = live /\ staged' = staged
           \/ live' = pushed
           \/ live' = live /\ ev \in missed'
        /\ \/ ~staged[b] /\ staged' = staged
           \/ staged' = done
           \/ EndEvent /\ ev \in missed'
    BY <1>1 DEF Push
  <2> HIDE DEF pushed, done
  <2> QED
    BY <2>1, <2>2, <2>3 DEF Pushing, Busy
<1>3. \A c \in Backend :
        ~staged'[c] => live'[c] = work[c] \/ (live'[c] = live[c] /\ ev \in missed')
  BY <1>2 DEF InStep, Looping
<1>4. \A k \in 1..(at - 1) : ~staged[BackendOrder[k]]
  BY <1>2 DEF InStep, Looping
<1>5. \A c \in Backend : live'[c] = live[c] \/ live'[c] = work[c]
  BY <1>2, <1>3
<1>6. CASE EndEvent
  <2>1. ASSUME NEW c \in Backend, ev \notin missed'
        PROVE  ~staged'[c]
    <3>1. NextPush /\ at = Len(BackendOrder)
      BY <1>2, <1>6, <2>1, BackendAssumption DEF NextPush, EndEvent, Inv, TypeOK
    <3>2. PICK k \in DOMAIN BackendOrder : BackendOrder[k] = c
      BY BackendAssumption
    <3>3. k \in 1..(at - 1) \/ k = at
      BY <3>1, <3>2, BackendAssumption DEF Inv, TypeOK
    <3> QED
      BY <1>1, <1>2, <1>4, <2>1, <3>1, <3>2, <3>3
  <2>2. LiveRight' /\ LiveLawful'
    BY <1>2, <1>3, <1>5, <2>1, PushedIsRight
  <2> QED
    BY <1>6, <2>2, NothingInHand DEF EndEvent, Busy, InStep
<1>7. CASE /\ at' = at + 1 /\ NextPush
           /\ UNCHANGED <<pc, ev, ids, item, prefs, cur, items, pages>>
  <2>1. Busy' /\ ev' = ev /\ ~Rebuilding'
    BY <1>2, <1>7 DEF Busy, Rebuilding
  <2>2. LiveRight' /\ LiveLawful'
    BY <1>2, <1>5, <2>1, PushedIsRight
  <2>3. WorkRight' /\ WorkLawful'
    <3>1. /\ \A p : (Hard(p) => Hard(p)') /\ (Soft(p) => Soft(p)')
          /\ \A i : LateResa(i) => LateResa(i)'
          /\ \A r : LatePool(r) => LatePool(r)'
      BY <1>2 DEF Hard, Soft, LateResa, LatePool, Late, Told, Sent
    <3>2. \A s : /\ \A c : RightPlace(s, c) => RightPlace(s, c)'
                 /\ RightSettings(s) => RightSettings(s)'
                 /\ \A i : RightResa(s, i) => RightResa(s, i)'
                 /\ \A r : RightPool(s, r) => RightPool(s, r)'
      BY <1>2, StillKeepsRight
    <3>3. WorkSubnets'
      BY <1>2, <3>1, <3>2, NothingLeftToDo DEF InStep, WorkRight, WorkSubnets, SubnetDone
    <3>4. WorkCovers'
      BY <1>2, <3>1, NothingLeftToDo DEF InStep, WorkRight, WorkCovers
    <3>5. WorkResas'
      BY <1>2, <3>1, <3>2, NothingLeftToDo
      DEF InStep, WorkRight, WorkResas, ResaDone, Overlooked
    <3>6. WorkPools'
      BY <1>2, <3>1, <3>2, NothingLeftToDo
      DEF InStep, WorkRight, WorkPools, PoolDone, Overlooked
    <3>7. \A c \in Backend : Lawful(work[c])'
      BY <1>2, StillKeepsLawful DEF InStep, WorkLawful
    <3> QED
      BY <3>3, <3>4, <3>5, <3>6, <3>7 DEF WorkRight, WorkLawful
  <2>4. PrefsKnown' /\ CurKnown' /\ ItemsKnown'
    BY <1>2, <1>7, <2>1, NothingLeftToDo DEF PrefsKnown, CurKnown, ItemsKnown
  <2>5. Looping'
    <3>1. \A k \in 1..(at' - 1) : ~staged'[BackendOrder[k]]
      <4>1. ASSUME NEW k \in 1..(at' - 1)
            PROVE  ~staged'[BackendOrder[k]]
        <5>1. at \in DOMAIN BackendOrder /\ k \in DOMAIN BackendOrder
              /\ BackendOrder[k] \in Backend /\ (k \in 1..(at - 1) \/ k = at)
          BY <1>7, BackendAssumption DEF Inv, TypeOK
        <5>2. ~EndEvent
          BY <1>2, <1>7 DEF EndEvent
        <5> QED
          BY <1>1, <1>2, <1>4, <5>1, <5>2
      <4> QED
        BY <4>1
    <3>2. ids' = {} \/ ~AboutIps'
      BY <1>2, <1>7 DEF InStep, Looping, AboutIps
    <3>3. \A c \in Backend : ~staged'[c] => live'[c] = work'[c] \/ ev' \in missed'
      BY <1>2, <1>3, <1>7
    <3> QED
      BY <1>2, <1>7, <2>1, <3>1, <3>2, <3>3 DEF Looping
  <2> QED
    BY <2>2, <2>3, <2>4, <2>5 DEF InStep
<1> QED
  BY <1>2, <1>6, <1>7 DEF NextPush

\* Every server runs what NetBox says, to the letter.
Exact == nb \in NetBox /\ \A b \in Backend : live[b] = Wanted(b)

\* A subnet NetBox asks for has what NetBox has in its network.
LEMMA WantedFits ==
    ASSUME nb \in NetBox, NEW b \in Backend, NEW s \in Wanted(b)
    PROVE  /\ s.id \in PrefixId /\ nb.prefix[s.id].on /\ nb.prefix[s.id].backend = b
           /\ nb.prefix[s.id].net = s.net /\ nb.prefix[s.id].opt = s.opt
           /\ \A x \in s.resas : /\ x.nid \in IpId /\ x = ResaOf(x.nid)
                                 /\ WantsResa(x.nid, s.net)
           /\ \A i \in IpId : WantsResa(i, s.net) => ResaOf(i) \in s.resas
           /\ \A x \in s.pools : /\ x.rid \in RangeId /\ x = PoolOf(x.rid)
                                 /\ WantsPool(x.rid, s.net)
           /\ \A r \in RangeId : WantsPool(r, s.net) => PoolOf(r) \in s.pools
<1>1. PICK p \in PrefixId :
        /\ nb.prefix[p].on /\ nb.prefix[p].backend = b
        /\ s = [id |-> p, net |-> nb.prefix[p].net, opt |-> nb.prefix[p].opt,
                resas |-> {ResaOf(i) : i \in {j \in IpsIn(nb.prefix[p].net) : Hw(j) # NoMac}},
                pools |-> {PoolOf(r) : r \in RangesIn(nb.prefix[p].net)}]
  BY DEF Wanted
<1>2. /\ s.id = p /\ s.net = nb.prefix[p].net /\ s.opt = nb.prefix[p].opt
      /\ s.resas = {ResaOf(i) : i \in {j \in IpsIn(nb.prefix[p].net) : Hw(j) # NoMac}}
      /\ s.pools = {PoolOf(r) : r \in RangesIn(nb.prefix[p].net)}
  BY <1>1
<1>3. \A i \in IpId : WantsResa(i, s.net) <=> i \in IpsIn(s.net) /\ Hw(i) # NoMac
  BY DEF WantsResa, IpsIn
<1>4. \A r \in RangeId : WantsPool(r, s.net) <=> r \in RangesIn(s.net)
  BY DEF WantsPool, RangesIn
<1>5. /\ \A i \in IpId : ResaOf(i).nid = i
      /\ \A r \in RangeId : PoolOf(r).rid = r
      /\ \A n : IpsIn(n) \subseteq IpId /\ RangesIn(n) \subseteq RangeId
  BY ResaOfShape DEF PoolOf, IpsIn, RangesIn
<1> QED
  BY <1>1, <1>2, <1>3, <1>4, <1>5

\* Each prefix that is there has its one subnet.
LEMMA WantedCovers ==
    ASSUME NEW b \in Backend
    PROVE  /\ \A p \in PrefixId : nb.prefix[p].on /\ nb.prefix[p].backend = b
                                    => HasSubnet(Wanted(b), p)
           /\ \A s, t \in Wanted(b) : s.id = t.id => s = t
<1> DEFINE wanted(p) ==
        [id |-> p, net |-> nb.prefix[p].net, opt |-> nb.prefix[p].opt,
         resas |-> {ResaOf(i) : i \in {j \in IpsIn(nb.prefix[p].net) : Hw(j) # NoMac}},
         pools |-> {PoolOf(r) : r \in RangesIn(nb.prefix[p].net)}]
<1>1. Wanted(b) = {wanted(p) :
          p \in {q \in PrefixId : nb.prefix[q].on /\ nb.prefix[q].backend = b}}
  BY DEF Wanted
<1>2. \A p : wanted(p).id = p
  OBVIOUS
<1> HIDE DEF wanted
<1> QED
  BY <1>1, <1>2 DEF HasSubnet

LEMMA ExactIsRight == Exact => LiveRight /\ LiveLawful
<1> SUFFICES ASSUME Exact
             PROVE  LiveRight /\ LiveLawful
  OBVIOUS
<1>1. nb \in NetBox /\ \A b \in Backend : live[b] = Wanted(b)
  BY DEF Exact
<1>2. ASSUME NEW b \in Backend, NEW s \in live[b]
      PROVE  /\ RightPlace(s, b) /\ RightSettings(s)
             /\ \A i \in IpId : RightResa(s, i)
             /\ \A r \in RangeId : RightPool(s, r)
  BY <1>1, <1>2, WantedFits DEF RightPlace, RightSettings, RightResa, RightPool
<1>3. ASSUME NEW b \in Backend, NEW s \in live[b]
      PROVE  LawfulResas(s) /\ LawfulPools(s)
  <2>1. ASSUME NEW x \in s.resas
        PROVE  x \in ResaItem /\ x.ip \in AddrIn[s.net] /\ TracksResa(x)
    <3>1. x.nid \in IpId /\ x = ResaOf(x.nid) /\ WantsResa(x.nid, s.net)
      BY <1>1, <1>3, <2>1, WantedFits
    <3>2. x \in ResaItem /\ x.ip = nb.ip[x.nid].ip
      BY <1>1, <3>1, ResaOfType, ResaOfShape DEF WantsResa
    <3> QED
      BY <3>1, <3>2 DEF WantsResa, TracksResa
  <2>2. ASSUME NEW x \in s.pools
        PROVE  x \in PoolItem /\ x.lo \in PointIn[s.net] /\ TracksPool(x)
    <3>1. x.rid \in RangeId /\ x = PoolOf(x.rid) /\ WantsPool(x.rid, s.net)
      BY <1>1, <1>3, <2>2, WantedFits
    <3>2. x \in PoolItem /\ x.lo = nb.range[x.rid].lo
      BY <1>1, <3>1, PoolOfType DEF PoolOf
    <3> QED
      BY <3>1, <3>2 DEF WantsPool, TracksPool
  <2> QED
    BY <2>1, <2>2 DEF LawfulResas, LawfulPools
<1>4. LiveLawful
  BY <1>1, <1>3, WantedCovers DEF LiveLawful, Lawful
<1>5. LiveCovers
  BY <1>1, WantedCovers DEF LiveCovers
<1> QED
  BY <1>2, <1>4, <1>5 DEF LiveRight, LiveSubnets, LiveResas, LivePools

LEMMA ExactIsRightNext == Exact' => LiveRight' /\ LiveLawful'
BY ExactIsRight, PTL

LEMMA InitInStep ==
    ASSUME Init
    PROVE  InStep
<1>1. Exact
  BY NetBoxesAssumption DEF Init, Exact
<1>2. ~Busy /\ at = 1 /\ prefs = {} /\ item = NoItem
  BY DEF Init, Idle, Busy
<1>3. WorkRight /\ WorkLawful /\ PrefsKnown /\ CurKnown /\ ItemsKnown /\ Looping
  BY <1>2 DEF Busy, Rebuilding, WorkRight, WorkSubnets, WorkCovers, WorkResas, WorkPools,
       WorkLawful, PrefsKnown, CurKnown, ItemsKnown, Looping
<1> QED
  BY <1>1, <1>3, ExactIsRight DEF InStep

\* A restart synchronises everything, and forgets what went wrong.
LEMMA RestartInStep ==
    ASSUME Inv, Restart, ~check
    PROVE  InStep'
<1>1. nb' = nb /\ \A b \in Backend : live'[b] = Wanted(b)
  BY DEF Restart
<1>2. \A b \in Backend : Wanted(b)' = Wanted(b)
  BY <1>1 DEF Wanted, IpsIn, RangesIn, ResaOf, ResaFor, PoolOf, Hw, MacOf, ListingOf
<1>3. Exact'
  BY <1>1, <1>2 DEF Exact, Inv, TypeOK
<1>4. ~Busy' /\ at' = 1 /\ prefs' = {} /\ item' = NoItem
  BY DEF Restart, Busy
<1> QED
  BY <1>3, <1>4, ExactIsRightNext, NothingInHand DEF InStep

LEMMA UnchangedInStep ==
    ASSUME Inv, InStep, UNCHANGED vars
    PROVE  InStep'
<1>1. Drift
  BY DEF vars, apps, handler, history, Drift, Late, Sent, Told, Hw, MacOf, ListingOf
<1> QED
  BY <1>1, DriftInStep DEF vars, apps

LEMMA ListenInStep ==
    ASSUME Inv, InStep, Listen
    PROVE  InStep'
<1>1. ~Busy /\ ~Busy' /\ UNCHANGED <<nb, queue, live, missed, moved, overlooked, prefs,
                                     item, at>>
      /\ item = NoItem /\ prefs = {} /\ at = 1
  BY DEF Listen, Busy, Rebuilding, history, Inv, HandlerOK, InStep, PrefsKnown, Looping
<1>2. LiveRight'
  <2>1. /\ \A p : ~EvPrefix(p) /\ (Hard(p)' <=> Hard(p)) /\ (Soft(p)' <=> Soft(p))
        /\ \A i : ~EvResa(i) /\ (LateResa(i)' <=> LateResa(i))
        /\ \A r : ~EvPool(r) /\ (LatePool(r)' <=> LatePool(r))
        /\ \A p, m, i : Overlooked(p, m, i)' <=> Overlooked(p, m, i)
    BY <1>1
    DEF EvPrefix, EvResa, EvPool, Hard, Soft, LateResa, LatePool, Late, Told, Sent, Overlooked
  <2> QED
    BY <1>1, <2>1, StillKeepsRight
    DEF InStep, LiveRight, LiveSubnets, LiveCovers, LiveResas, LivePools
<1>3. LiveLawful'
  <2>1. \A b \in Backend : Lawful(live[b])'
    BY <1>1, StillKeepsLawful DEF InStep, LiveLawful
  <2> QED
    BY <2>1 DEF LiveLawful
<1> QED
  BY <1>1, <1>2, <1>3, NothingInHand DEF InStep

\* Every step keeps the servers in step with NetBox.
LEMMA NextInStep ==
    ASSUME Inv, Scope, ~check => InStep, [Next]_vars
    PROVE  ~check' => InStep'
<1>1. check' = check
  BY DEF Next, Environment, ChangePrefix, ChangeIp, ChangeRange, ChangeMac, Changed, Lose,
         Repeat, ReloadFails, Fail, Quiet, Restart, Listener, Take, Listen, ListAddresses,
         DeletePrefix, SkipPrefix, UpdatePrefix, DeleteIp, DeleteRange, DeleteBare, ReadIp,
         ReadMac, ReadRange, QueryPrefixes, SetItem, EndItem, QueryAddresses, QueryRanges,
         AddResa, DropBare, AddPool, AddOrLog, EndRecreate, PushNothing, Push, Pushing,
         NextPush, Raise, Recreate,
         NextObject, Over, Step, Along, vars
<1> SUFFICES ASSUME ~check, InStep
             PROVE  InStep'
  BY <1>1
<1>2. CASE UNCHANGED vars
  BY <1>2, UnchangedInStep
<1>3. CASE Environment \/ ReloadFails \/ Fail \/ Restart
  BY <1>3, EnvironmentInStep, ReloadFailsInStep, FailInStep, RestartInStep
<1>4. CASE Listener
  BY <1>4, TakeInStep, ListAddressesInStep, DeletePrefixInStep, SkipPrefixInStep,
     UpdatePrefixInStep, DeleteIpInStep, DeleteRangeInStep, DeleteBareInStep, ReadIpInStep,
     ReadMacInStep, ReadRangeInStep, DropBareInStep,
     QueryPrefixesInStep, SetItemInStep, EndItemInStep, QueryAddressesInStep,
     QueryRangesInStep, AddResaInStep, AddPoolInStep, EndRecreateInStep, PushInStep,
     ListenInStep
  DEF Listener, PushNothing
<1> QED
  BY <1>2, <1>3, <1>4 DEF Next

\* What is seen of a subnet when the excused objects are left out.
Seen(s) ==
    [s EXCEPT
        !.resas = {r \in s.resas : /\ ~Excused("ipaddress", r.nid)
                       /\ ~Excused("interface", nb.ip[r.nid].iface)
                       /\ ~Overlooked(s.id, "ipaddress", r.nid)},
        !.pools = {p \in s.pools : /\ ~Excused("iprange", p.rid)
                                   /\ ~Overlooked(s.id, "iprange", p.rid)}]

LEMMA SeenAlike ==
    ASSUME Inv, LiveRight, LiveLawful, Settled, NEW b \in Backend,
           NEW s \in live[b], NEW w \in Wanted(b), s.id = w.id, ~Excused("prefix", s.id)
    PROVE  Seen(s) = Seen(w)
<1>1. s \in Subnet /\ w \in Subnet
  BY WantedType DEF Inv, TypeOK, Conf
<1>2. /\ \A p : ~Soft(p) /\ ~EvPrefix(p)
      /\ \A i : ~EvResa(i)
      /\ \A r : ~EvPool(r)
      /\ Late = Told
  BY DEF Settled, Soft, Sent, EvPrefix, EvResa, EvPool, Busy, Late
<1>3. ~Hard(s.id)
  BY DEF Excused, Hard, Told, Named
<1>4. s.net = w.net /\ s.opt = w.opt
  BY <1>2, <1>3, WantedFits
  DEF LiveRight, LiveSubnets, RightSettings, Inv, TypeOK
<1>5. ASSUME NEW i \in IpId, ~Excused("ipaddress", i),
             ~Excused("interface", nb.ip[i].iface), ~Overlooked(s.id, "ipaddress", i)
      PROVE  \A x : x.nid = i => (x \in s.resas <=> x \in w.resas)
  <2>1. RightResa(s, i)
    <3>1. ~LateResa(i)
      BY <1>2, <1>5 DEF LateResa, Excused, Told, Named
    <3> QED
      BY <1>2, <1>3, <1>5, <3>1 DEF LiveRight, LiveResas
  <2>2. /\ \A y \in w.resas : y = ResaOf(y.nid) /\ WantsResa(y.nid, w.net)
        /\ WantsResa(i, w.net) => ResaOf(i) \in w.resas
    BY WantedFits DEF Inv, TypeOK
  <2> QED
    BY <1>4, <2>1, <2>2 DEF RightResa
<1>6. ASSUME NEW r \in RangeId, ~Excused("iprange", r), ~Overlooked(s.id, "iprange", r)
      PROVE  \A x : x.rid = r => (x \in s.pools <=> x \in w.pools)
  <2>1. RightPool(s, r)
    <3>1. ~LatePool(r)
      BY <1>2, <1>6 DEF LatePool, Excused, Told, Named
    <3> QED
      BY <1>2, <1>3, <1>6, <3>1 DEF LiveRight, LivePools
  <2>2. /\ \A y \in w.pools : y = PoolOf(y.rid) /\ WantsPool(y.rid, w.net)
        /\ WantsPool(r, w.net) => PoolOf(r) \in w.pools
    BY WantedFits DEF Inv, TypeOK
  <2> QED
    BY <1>4, <2>1, <2>2 DEF RightPool
<1>7. /\ \A x \in s.resas : x.nid \in IpId
      /\ \A x \in w.resas : x.nid \in IpId
      /\ \A x \in s.pools : x.rid \in RangeId
      /\ \A x \in w.pools : x.rid \in RangeId
  BY WantedFits
  DEF LiveLawful, Lawful, LawfulResas, LawfulPools, ResaItem, PoolItem, Inv, TypeOK
<1> DEFINE plain(i) == /\ ~Excused("ipaddress", i)
                       /\ ~Excused("interface", nb.ip[i].iface)
                       /\ ~Overlooked(s.id, "ipaddress", i)
           clear(r) == ~Excused("iprange", r) /\ ~Overlooked(s.id, "iprange", r)
<1>8. /\ \A x : x \in s.resas /\ plain(x.nid) <=> x \in w.resas /\ plain(x.nid)
      /\ \A x : x \in s.pools /\ clear(x.rid) <=> x \in w.pools /\ clear(x.rid)
  BY <1>5, <1>6, <1>7
<1>9. /\ Seen(s) = [s EXCEPT !.resas = {r \in s.resas : plain(r.nid)},
                             !.pools = {p \in s.pools : clear(p.rid)}]
      /\ Seen(w) = [w EXCEPT !.resas = {r \in w.resas : plain(r.nid)},
                             !.pools = {p \in w.pools : clear(p.rid)}]
  BY DEF Seen
<1> HIDE DEF plain, clear
<1>10. /\ {r \in s.resas : plain(r.nid)} = {r \in w.resas : plain(r.nid)}
       /\ {p \in s.pools : clear(p.rid)} = {p \in w.pools : clear(p.rid)}
  BY <1>8
<1>11. Seen(s) = [id |-> s.id, net |-> s.net, opt |-> s.opt,
                  resas |-> {r \in s.resas : plain(r.nid)},
                  pools |-> {p \in s.pools : clear(p.rid)}]
  BY <1>1, <1>9 DEF Subnet
<1>12. Seen(w) = [id |-> w.id, net |-> w.net, opt |-> w.opt,
                  resas |-> {r \in w.resas : plain(r.nid)},
                  pools |-> {p \in w.pools : clear(p.rid)}]
  BY <1>1, <1>9 DEF Subnet
<1> QED
  BY <1>4, <1>10, <1>11, <1>12

LEMMA InStepSuffices ==
    ASSUME Inv, LiveRight, LiveLawful, Settled, NEW b \in Backend
    PROVE  Visible(live[b]) = Visible(Wanted(b))
<1>1. /\ Visible(live[b]) = {Seen(s) : s \in {t \in live[b] : ~Excused("prefix", t.id)}}
      /\ Visible(Wanted(b)) = {Seen(s) : s \in {t \in Wanted(b) : ~Excused("prefix", t.id)}}
  BY DEF Visible, Seen
<1>2. /\ \A p : ~Soft(p) /\ ~EvPrefix(p)
      /\ \A p : ~Excused("prefix", p) => ~Hard(p)
  BY DEF Settled, Soft, Sent, EvPrefix, Busy, Excused, Hard, Told, Named
<1>3. ASSUME NEW s \in live[b], ~Excused("prefix", s.id)
      PROVE  \E w \in Wanted(b) : w.id = s.id
  <2>1. nb.prefix[s.id].on /\ nb.prefix[s.id].backend = b /\ s.id \in PrefixId
    BY <1>2, <1>3
    DEF LiveRight, LiveSubnets, RightPlace, RightSettings, Inv, TypeOK, Conf, Subnet
  <2> QED
    BY <2>1, WantedCovers DEF HasSubnet
<1>4. ASSUME NEW w \in Wanted(b), ~Excused("prefix", w.id)
      PROVE  \E s \in live[b] : s.id = w.id
  <2>1. w.id \in PrefixId /\ nb.prefix[w.id].on /\ nb.prefix[w.id].backend = b
    BY WantedFits DEF Inv, TypeOK
  <2> QED
    BY <1>2, <1>4, <2>1 DEF LiveRight, LiveCovers, HasSubnet
<1> QED
  BY <1>1, <1>3, <1>4, SeenAlike

(***************************************************************************)
(* Once everything is handled, every server runs what NetBox says, but for *)
(* the objects whose event was lost or ended with an error in the log, for *)
(* those that left a place no event names, and, in the subnet of one       *)
(* prefix, for those that a query of prefixes, or of a page of addresses,  *)
(* left out of it: however the changes, the queries and the edits          *)
(* interleave (connector.py, sync_* and _prefix_to_subnet to               *)
(* _ipaddr_to_resa; listener.py, new_event).                               *)
(***************************************************************************)
THEOREM NoDivergenceIsSilent == Spec => []NoSilentDivergence
<1>1. Init => (~check => InStep)
  BY InitInStep
<1>2. Inv /\ Scope /\ (~check => InStep) /\ [Next]_vars => (~check => InStep)'
  BY NextInStep
<1>3. Inv /\ (~check => InStep) => NoSilentDivergence
  BY InStepSuffices DEF InStep, NoSilentDivergence
<1> QED
  BY <1>1, <1>2, <1>3, InvHolds, ScopeHolds, PTL DEF Spec
=============================================================================

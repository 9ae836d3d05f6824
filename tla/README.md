# Formal models of netbox-kea-dhcp

`netbox-kea-dhcp` keeps the DHCP configuration of one or more Kea servers, and
the DNS-update domains of Kea's D2 daemon, equal to what NetBox says.  At startup
it rebuilds everything; afterwards it listens for NetBox webhooks and applies one
object at a time.  This directory holds TLA+ modules translated from its code
(`src/src/netboxkea`), the TLC configurations that check them on small instances
and the theorems that TLAPS proves for all instances.

## 1. The system

| Component | State it keeps | Operations | Hard parts | What makes it correct |
|---|---|---|---|---|
| `DHCP4App` (`kea/app.py`) | `conf` (working copy), `commit_conf`, `_has_commit`, `auto_commit` | `pull`, `commit`, `push`; set/update/delete of subnets, pools, reservations; lease eviction | rejected and unanswered commands, rollback, eviction before the change is known to go through, config-set without config-write | no duplicates, only accepted configurations staged, items of others kept, lease gone before an address is given to another MAC |
| `DHCP4API` (`kea/api.py`) | an HTTP session | one method per Kea command | a command may be done although its answer is lost | three outcomes told apart |
| `DHCP4CB` (`kea/cb.py`) | as `DHCP4App`, and `_pending_lease_dels` | `pull` from SQL; `push` = transaction, then host reservations call by call, then evictions | two stores without a common transaction, failed calls skipped, rows of other tools | rows of others kept, nothing dropped, exact without failures |
| `Connector.sync_all` (`connector.py`) | counters per backend, `unknown` | wipe, rebuild each prefix, retry, abort or push | a backend that must not be pushed, retries after lost answers, one backend disturbing another | a live configuration is replaced only by one that is justified |
| `Connector` events, `WebhookListener` | none of their own | pull every backend, apply one object, push every backend | an object read before NetBox changes it again, handlers that call each other to make a missing subnet anew, webhooks lost or repeated, exceptions half way | the servers end up with what NetBox says; an event changes nothing it does not name |
| `DdnsManager` (`ddns.py`) | none; reads D2 and NetBox each time | `sync` | paging over a changing list, key known only to D2, D2 restarts | D2 has the enabled zones, each with its key |
| `LeasePoller`, `/lease/`, `NetboxApp` | none | reflect leases into NetBox | poller threads and listener thread read and write the same addresses, request by request; calls of the hook late, lost, out of order | reflected addresses follow the leases, those of people stay |
| `FileAPI` | the file's content | the same interface as `DHCP4API` | hands out its own object | - |
| `run()` (`entry_point.py`) | - | full sync, D2 sync, first polls, listen | an exception of `sync_all` ends the process, one of the others does not | - |

Interactions: `run()` calls `Connector.sync_all()` before anything listens; then
bottle's single-threaded server calls `new_event`, which pulls every backend,
calls one `sync_*` method and pushes every backend.  The `Connector` calls the
backends and NetBox synchronously.  Only the lease pollers run in other threads,
with NetBox clients of their own.  Shared state lives outside: Kea's running and
saved configuration, its database and hosts table, D2's configuration, NetBox.

`PROJECT.json` lists the components with their status, and the hazards of the
code at the lines where they bite, with the properties that watch them.

## 2. The modules

| Module | Models | Checked by | Proved in |
|---|---|---|---|
| `KeaConf` | the configuration and the edits of `DHCP4App` as operators, and Kea's verdict | through the others | `KeaConfProofs` (lemmas) |
| `StagedConfig` | abstract specification: a private copy, a staged version, a server with a live and a durable copy | refined by `KeaApp` | |
| `KeaApp` | `DHCP4App` over `DHCP4API`, with crashes, restarts and an administrator | `MCKeaApp` | `KeaAppProofs` |
| `FullSync` | `Connector.sync_all` over several `DHCP4App`s | `MCFullSync` | `FullSyncProofs` (types), `FullSyncPushProofs` (the rest of its safety) |
| `EventSync` | the webhook listener and the event handlers of `Connector` over a NetBox that changes | `MCEventSync` | `EventSyncProofs` |
| `LeaseReflect` | `LeasePoller`, `/lease/` and the `NetboxApp` methods they use | `MCLeaseReflect` | `LeaseReflectProofs` |
| `KeaCB` | `DHCP4CB`: database, hosts table, evictions | `MCKeaCB` | `KeaCBProofs` |
| `Ddns` | `DdnsManager.sync`, D2, zones and their webhooks | `MCDdns` | `DdnsProofs` |

### KeaConf

A configuration is a set of subnets `[id, net, opt, resas, pools]`.  The lists of
the code are sets: items are found by key, and the order of a list decides only
which of two errors is raised (`SubnetErrors` returns the set of errors that some
order raises).  `opt` is everything in a subnet besides its address, reservations
and pools; addresses of reservations are values, pools are intervals of integers
because `set_pool` compares them.  `NoId` is the `None` that `pull()` stores in
items NetBox does not own.  `KeaAccepts` is external: Kea refuses duplicates,
overlapping pools and the settings in `BadOpt`.

### KeaApp

One action per method; the variables are the attributes of the object, and
`running` and `saved` on the server.  A setter is `Edit(errors, c)`: it raises,
leaving everything, or leaves `c` in `conf`, and then the `_autocommit` decorator
commits (`AfterEdit`, `CommitOf`).  `commit()` has three results: recorded;
rejected (`KeaCmdError`), rolled back to `commit_conf`; no usable answer
(`KeaServerError`), which the code lets through with nothing rolled back.
`set_reservation` and `del_resa` delete leases first, and any of these calls may
fail (`EvictionFails`).  `push()` is two actions, `PushSet` (config-set) and
`PushWrite` (config-write), because the process can die, Kea restart, or someone
change Kea between them.  `base`, `wiped`, `evicted` and `edits` are history and
bounds; no action of the program reads them.

### FullSync

One step per command to a server or item of the loop, `pc` saying where
`sync_all` is.  Each backend has the variables of `KeaApp`.  The first loop
(`Wipe`) commits an empty configuration; `StartPrefix`, `SetReservation`,
`BroadcastDelResa`, `SetPool` and `EndPrefix` follow `_prefix_to_subnet` and the
two `try` statements; `Retry` is the second try with auto-commit on; `EndLoop`
chooses among abort (`Discard`), check mode and `Push`.  `BroadcastDelResa` is
the address without MAC, whose deletion goes to every backend and commits on
those with auto-commit on.  A `KeaServerError` is a `Lost` answer; an error that
leaves `sync_all` ends the process (`Die`).  The items of a prefix are taken in
any order, addresses before ranges as in the code.  NetBox is fixed during the
synchronisation, and `push()` is one step: `KeaApp` has its two commands.

### EventSync

NetBox (`nb`) is what its queries return: prefixes, addresses, ranges, the MAC
of each interface, each object with a switch `on` for the query filter.
`ChangePrefix`, `ChangeIp`, `ChangeRange` and `ChangeMac` change one object and
queue its webhook; `Lose` and `Repeat` are what delivery may do to it.  `Take`
is `new_event` up to the handler: every backend is pulled into its working copy
`work`.  The handler then goes on through the steps of `sync_prefix`,
`sync_ipaddress`, `sync_iprange` and `sync_interface`, one per answer of NetBox
(`ReadIp`, `ReadMac`, `QueryPrefixes`, `ListAddresses`, ...) or per item
(`SetItem`, `AddResa`, `AddPool`), so that NetBox may change between any two of
them; what it has in hand is `item`, `prefs`, `cur` and `items`.  An address names
its interface, whose MAC is a request of its own (`_get_nested`, `connector.py:14-17`):
`ReadIp` and `ReadMac`, or in a subnet made anew `QueryAddresses` and `AddResa`
or `DropBare`.  The addresses of such a subnet come page by page (`QueryAddresses`,
`Page`, `More`), the next page being asked for when the items of the last are set,
as pynetbox does; a page is the addresses whose place in the list, the number of
addresses before them, lies in it, so that one that leaves the list moves others
to a page already read.  The other lists fit in one answer.  A missing subnet is made
anew in the middle of an address or a range (`Recreate`), which makes the
handlers call each other.  `Push` is the loop over the backends at the end;
`Fail` is an exception, which nobody retries; `Restart` is a new process, whose
full synchronisation leaves what `FullSync` proves it to (its guard `Sound` says
that NetBox then has nothing that Kea refuses; then `CleanPushIsExact` of
`FullSync` says that a pushed server has exactly NetBox's content, which is also
where `Init` starts).  The handlers of devices,
virtual machines and their interfaces differ from `sync_interface` in the query
that lists the addresses and are not repeated.  One RQ worker sends NetBox's
webhooks, so the queue is first in, first out.

History says where the code does not promise convergence.  `missed` holds the
events that were lost or ended with an error in the log; `moved` the objects that
left a network or a server (the webhook names only the new place).  `overlooked`
holds pairs of a prefix and an address or range that a query left out of the
prefix's subnet: the query for the prefixes of the item did not return the prefix,
which was filtered out or elsewhere, while a backend had its subnet (when the
prefix is back, `update_subnet` keeps what is there, `connector.py:262`); or a page
of the subnet's addresses skipped it because the list got shorter
(`connector.py:270`).  A pair is dropped by the next event of the item and by
whatever deletes the subnet or makes it anew (`Repair`, `Forget`), and it excuses
the item in that subnet only.

### LeaseReflect

`nb` is the set of NetBox addresses, `lease` the servers' leases.  A poller of one
source goes through `Fetch` (lease4-get-page after its cursor), `List` (its own
records, page by page of NetBox's list: `Place`, `ListPage`), for each lease `Find` and `Write` (the two requests of `upsert_dhcp_ip`),
and `Delete` for the records whose lease is gone; `Gone` is a request for a record
that is no longer there, `PollFails` any exception: the pass ends and the next
starts over.  The listener takes the calls of the hook script in any order
(`TakeCall`, `WriteCall`, `DeleteCall`), or not at all (`LoseCall`).  All requests
of all threads interleave.  A record that leaves the list between two pages of a
pass, deleted or given another status, moves those after it onto the page before,
which nobody asks for again: the pass takes one of them for missing (it then
writes it again) or does not delete it.  `Disturbs` and `ListKept` say so of the
history variable `clean`; the next pass lists everything anew.  `Claim` is a person who takes a record over.  `mine`
is history: the records people made or took over, unless a thread already had
them in hand (`InHand`): between two requests there is no way to notice.

### KeaCB

The backend with a control URL.  `Pull` reads subnets and rows; the edits are those of `DHCP4App`, with a
`commit()` that checks nothing and an eviction that only remembers the address
(`Stage`).  `push()` is `PushDb` (one transaction), `Fetch` (read the hosts table
and decide everything), `DelRow` and `AddRow` (one call each, all deletions
first) and `FlushEvictions`.  The code compares dictionaries by (subnet, NetBox
id): `Dictionaries` is every way to build one, since SQL promises no order.
`AddForeign` is another tool writing to the table.  `disturbed` is history for
`PushIsExact`: a call failed, a row was in the way, or the table had two rows for
one NetBox id from the start, which the code's dictionaries cannot tell apart.  Equal reservations of one
subnet are one here; the database's options are one value.

### Ddns

`GetConfig`, `ReadPage` (one page, by offset, of a list that may change between
pages) and `SetConfig` are the requests of `sync()`; a page is the enabled zones
whose place in the list, the number of enabled ones before them, lies in it; `Toggle` is a zone changed
in NetBox, whose webhook is sent once and may be lost; `Fail` is a failed request
(nobody retries), `Restart` the daemon's, `D2Restart` D2's, which forgets what
config-set gave it because `sync()` sends no config-write.

## 3. What the runs check

| Run | Result | Question |
|---|---|---|
| `kea_app` | holds, 1.28 million states | Under any three edits, with every failure of every command, crashes, restarts and changes by hand: no duplicates in any copy (`ConfConsistent`), only accepted configurations staged (`CommitAccepted`), items of others kept (`ForeignKept`), evictions before hand-overs (`HandOver`), and `KeaApp` implements `StagedConfig` (`StagedSpec`) |
| `pools_overlap` | **violated** | Does `set_pool` keep the pools of a subnet disjoint?  No: a new pool that contains an old one passes, because only the ends of the new one are compared (`app.py:207`) |
| `eviction` | **violated** | Is a lease deleted only when its reservation is replaced or removed?  No: it is deleted before the duplicate check and the commit (`app.py:240`) |
| `full_sync` | holds, 105 thousand states | For 52 contents of NetBox, with three lost answers or a crash anywhere: a server is replaced only when justified (`PushJustified`), what counts as succeeded is whole there (`SucceededIsWhole`), nothing stays staged (`NothingStaged`), `sync_all` ends (`Terminates`); without lost answers only faulty prefixes fail (`OnlyFaultyFails`), they stay out (`FailedStaysOut`), and a server with no faulty prefix has exactly what NetBox says (`CleanPushIsExact`) |
| `event_sync` | holds, 1.04 million states | Three changes in NetBox at any point of the handlers, and a lost, repeated or failing event, or a restart: once all is handled the servers run what NetBox says, but for the objects whose event was lost or logged an error and, silently, for objects that left a place (`moved`) and, in the subnet of one prefix, an address or range that a query left out of it (`overlooked`: its prefixes were asked for while the prefix was gone or elsewhere, or the list of a new subnet's addresses got shorter between two pages), until its own next event or until the subnet is deleted or made anew (`NoSilentDivergence`); a push changes only what its event names and the subnets its handler found missing (`FocusedPush`); the handlers end (`Settles`) |
| `event_moved` | **violated** | Do the events suffice to follow NetBox (`src/README.md:31-32`)?  No, with a single change and no fault: an address that moves out of a nested prefix keeps its reservation in the subnet it left |
| `lease_reflect` | holds, 366 thousand states | Two pollers and the listener on the same records, while leases change, calls overtake each other and a request fails: records of people stay (`PeopleKept`), a pass that nothing disturbed, and during which no record left NetBox's list between two pages, leaves exactly the leases (`PassIsExact`), and the records come to follow the leases (`EventuallyReflected`) |
| `kea_cb` | holds, 1.63 million states | Rows of other tools are kept (`ForeignRowsKept`), a push without failure drops nothing that is to be kept (`NothingDropped`), an undisturbed one is exact (`PushIsExact`), deferred evictions still happen (`HandOver`) |
| `cb_converge` | **violated** | Does the next full synchronisation repair what a failed call left (`cb.py:274`)?  No: two rows for one NetBox address stay |
| `cb_blocked` | **violated** | Are the additions of blocked addresses skipped (`cb.py:303`)?  Not in another subnet, where the address then has two rows |
| `ddns` | holds, 29 thousand states | When nothing is under way and nothing was lost, D2 has exactly the enabled zones (`QuiescentExact`), and it gets there (`Settles`); a key is lost only if D2 was once left without a domain (`KeyKeptUnlessEmptied`) |
| `ddns_key` | **violated** | Does every domain have the bootstrap key (`ddns.py:6`)?  No: after all zones were disabled the next ones get none |

With lost answers `FailedStaysOut`, `OnlyFaultyFails` and `CleanPushIsExact` are
not true of the code: a commit without an answer leaves the working copy as it is, and the next
prefix's commit takes it along.  The properties state the condition.

Seen in `lease_reflect` and not against its properties: a record the hook wrote is
deleted only by a call of the hook, so a lost "del" leaves it (the runs excuse
the addresses of `Hooked` where that matters); a poller and the hook may both
find nothing and make two records for one lease; where people made two records
with the status dhcp for one address, `upsert_dhcp_ip` writes whichever NetBox
lists first (`netbox.py:60`), once the one and once the other (the excuse
`Doubled`); and a record that people gave
the status dhcp as a /32 is adopted by the first lease of its address and
deleted with it, although `netbox.py:48-49` says that only reflected addresses
are.  The last is listed as a hazard without property, with this note.

Every property of a passing run has a mutant in `PROJECT.json`: a plausible bug
in one mapped definition, kept beside it in the module, under which TLC finds the
property violated.

### Bounds

- `kea_app`: two prefixes, networks, NetBox addresses, MACs and addresses, one
  range, pools inside three points (so that one can contain, cross or avoid
  another), three edits or outside changes between them, and any number of
  pulls, commits, pushes, crashes and restarts.  Duplicates, moves and swaps need
  two objects; a rollback over an uncommitted edit needs three edits.
- `full_sync`: two backends, so that a guard of one can be confused with the
  other's, up to three prefixes from kinds that provoke each error, three lost
  answers: the commit of a prefix, of its second try, and one elsewhere.
- `kea_cb`: two subnets, NetBox addresses, MACs and addresses; three edits, one
  failed call (four edits in `cb_converge`).  An exchange of addresses, and an
  address blocked in one subnet and changed in the other, both fit.
- `event_sync`: two servers; a prefix and one nested in it, which can be turned
  off, widened to the outer network, tagged for the other server or for none, or
  given settings Kea refuses; two addresses of one interface and a range, in one
  or both prefixes; three changes and one fault.  A race needs a change before
  the handler and one in it; the third makes the excuses end.
  Lists of one address per page: both addresses of the outer prefix then come in
  two pages, with changes between them.
- `lease_reflect`: two sources, of one and of two addresses, two clients; pages of
  one lease and lists of one record per page; one address with a hook, two changes
  of leases, one fault; people's record with the status dhcp on one address and
  another record of theirs on the next; no leases at first.  A pass over two pages
  of each kind with a change between them, and an "add" and a "del" out of order,
  fit.
- `ddns`: three zones in pages of one, three changes, two faults.

### Fairness

`FullSync` assumes weak fairness of `Step`: one thread runs `sync_all`, and
`DHCP4API` gives each request a timeout, so every call returns or raises.  `Ddns`
assumes weak fairness of `Sync`: the listener serves the events it has, and its
requests have timeouts.  `EventSync` assumes weak fairness of `Listener`, and
`LeaseReflect` of each poller thread and of the listener, for the same reason:
the loops never stop and every request returns or raises.  Nothing is assumed of changes, faults or restarts.
Deadlock is checked where the system runs for ever (`KeaApp`, `KeaCB`); in
`FullSync` the end is the end of `sync_all`, in `Ddns`, `EventSync` and `LeaseReflect`
that of the bounded changes.

## 4. What is proved

The proofs hold for any sets of prefixes, addresses, pools, zones and any bounds,
from the assumptions named in the modules: `NoId` is no NetBox id, points are
integers, Kea starts with a configuration that is consistent and accepted
(`StartAssumption`), the hosts table starts with unique keys
(`StartHostsAssumption`), D2's file has a domain with the key (`BootAssumption`),
NetBox's ranges end where they start or after and its ids are unique in a prefix
(`NetBoxesAssumption` of `FullSync`), the ids of its addresses are unique
(`RecordsAssumption` of `LeaseReflect`), NetBox lists zones in a finite order
(`OrderAssumption`) and finitely many addresses in pages of at least one
(`ListAssumption`), and `None` is no object in hand (`NoItemAssumption`).
What is external is assumed as modelled: Kea refuses what `KeaAccepts` refuses,
and an administrator adds items one at a time through Kea.

- `KeaAppProofs`.  The invariant
  `Inv == TypeOK /\ ConfConsistent /\ CommitAccepted /\ ServerAccepted` is
  inductive.  `ConfConsistent` alone is not: a pull copies the server, so the
  server's copies must be consistent too; they get theirs from `commit_conf`,
  from an administrator whose changes Kea checked, or from each other, and
  `ServerAccepted` carries that through restarts.  `KeaConfProofs` has one lemma
  per edit: it keeps the type and, if its check raised nothing, consistency.
  From `Inv` follow `TypeCorrect`, `NoDuplicates` and `StagedIsAccepted`.
- `ForeignItemsSurvive` (`ForeignKept`) and `LeaseGoesFirst` (`HandOver`) are
  inductive relative to `Inv`: each edit is shown to keep, in every subnet it
  neither replaces nor deletes, the items of others and the holders it does not
  evict.  Both relate the working copy and the staged one to what was pulled.
- `ImplementsStaged`: `Spec => StagedSpec`.  The mapping is `running`, `saved`,
  `base`, `conf`, and `{commit_conf}` while `_has_commit`; every
  edit and `commit` is an `Edit`, `Pull` a `Reload`, `PushSet` a `Publish` or
  `Forget`, `PushWrite` a `Persist`, a `Forget` or a stutter, `Crash` a `Forget`,
  `KeaRestart` a `Restart`, `AdminEdit` an `Outside`.
- `KeaCBProofs`: `CbTypes`, `ForeignRowsNeverTouched`, `NothingIsDropped`,
  `UndisturbedPushIsExact` and `AddressesAreHandedOver`, every property of the run.
  reservation-del names a subnet and an address, so the invariant `KInv` for the
  rows of others says that what is still to be deleted is in the table and
  NetBox's, and that addresses are unique in a subnet of the table.  The other
  three follow `Heading`, what the table will hold once every call still to make
  has succeeded: the comparison fixes it and no successful call changes it.
  `NothingDropped` says of `Heading` that no key the push found and wants is
  missing (`DInv`).  For `PushIsExact` that is not inductive: a row of the new
  configuration must not be among those still to delete (`OnItsWay`).  For
  `HandOver` (`HInv`) every holder that was pulled is followed through the working
  copy, the commit, the staged evictions and the table; where a call is bound to
  be refused (`DoomedBy`) the push will count as failed.
- `DdnsProofs`: `DdnsTypes`, `KeySurvives` and `QuietMeansExact`.  Every domain of
  D2, and of what a running sync read, has the key, or D2 was once given no
  domain.  While no event waits and nothing was lost, nothing was toggled since
  the sync began, so its pages are of one list (`PagesOK`); a toggle in between
  leaves an event, and its sync starts over.

- `FullSyncProofs` and `FullSyncPushProofs`: `FullSyncTypes`, `PushesAreJustified`,
  `SucceededAreWhole`, `OnlyFaultyPrefixesFail`, `FailedStayOut`,
  `CleanPushesAreExact` and `NothingIsStaged`, that is, every safety property of the run, for any NetBox,
  any servers and any number of lost answers.  The properties speak of what was
  pushed, long after the steps that decide it, so the invariant `Safe` follows a
  prefix on its way: `Sound(b, c)` says that configuration `c` of backend `b` has
  only subnets of prefixes the loop has come to, at NetBox's addresses, and has
  each one counted as succeeded whole.  It holds of the working copy and of the
  last commit during the loop (`AppsOK`), of what waits (`StagedOK`), and of what
  was pushed (`LiveOK`).  `HereOK` is about the prefix in work: it has all items
  that clash with nothing else, or they are still to come (`Filled`); on the
  second try the working copy is the last commit, which is why a rejected item
  costs only itself.  A lemma shows that an item that clashes with no other
  passes both the check of the code and Kea's (`ClearResa`, `ClearPool`).
  `Allowed` leaves failed prefixes out as long as no answer was lost; with a
  lost answer one may stay in the working copy, as said above.
  `CleanPushesAreExact` needs one thing more, that what waits and what was pushed
  is accepted by Kea (`AcceptedOK`), so that a server has one subnet for a prefix.
- `EventSyncProofs`: `EventTypes`, `PushesAreFocused` (`FocusedPush`) and
  `NoDivergenceIsSilent` (`NoSilentDivergence`).  From the pull to the last push the
  working copy of a backend differs from what the server runs only in what the
  event names (`Scope`), whatever NetBox answers in between; a rejected edit goes
  back to a copy of which that is true as well.

  `NoSilentDivergence` speaks of the moments when nothing is under way, and the
  differences it excludes can arise long before.  The invariant `InStep` says of
  every state which differences between NetBox and a server there may be:
  - `LiveRight`: each subnet, reservation and pool a server runs, or lacks, is as
    NetBox has it, or an event on its way (`Soft`, `LateResa`, `LatePool`) or the
    one in hand (`EvPrefix`, ...) is about it, or it is excused (`Hard`, `overlooked`).
    An event for the settings of a prefix excuses the settings only, one that was
    missed excuses the prefix.
  - `WorkRight`: the same of the working copies, where the event in hand excuses
    only what the handler has still to do in the place it is at (`ToRead`,
    `ToDoResa`, `ToSetResa`, ...).  At the pushes nothing is left to do, which is
    why what is pushed is right.
  - `Known`, `KnownResa`, `KnownPool`: what the handler read and holds is still
    what NetBox has, or an event on its way, or an excuse, says that it is not.
    Of a subnet made anew, an address that no page has shown is still to be set as
    long as there is another page; the last one shows it, or its place is before
    the offset, and then it is `overlooked`.
  - `Lawful`: an item of a subnet is in its network, and so is NetBox's object, or
    it has moved; without this a query by the new address would not find the
    subnets that hold the old one.
  - `Looping`: a server with nothing staged runs its working copy, or its push
    went wrong and the event is missed.

  Two things make it inductive.  NetBox's changes are `Drift`: whatever they touch
  is told of, so that they turn what was right into what is excused, for the
  servers and for the handler alike (`DriftInStep`).  And within an event, what was
  done stays done (`StillDone`), so that each step has to account only for what it
  takes off the handler's list; `Recreate` needs `Scope` for that, since a subnet
  made anew must not hide what the event had set before.
- `LeaseReflectProofs`: `LeaseTypes`, `PeopleAreKept` (`PeopleKept`) and
  `PassesAreExact` (`PassIsExact`).  The invariant `Separate`: ids are unique, a
  record of `mine` is in NetBox, is not one the queries find, and no thread holds
  its id; what a poller will delete are ids of records it found itself.  A pass is
  exact because the threads, though they share all records, work on addresses of
  their own (`Placed`): what a pass has read stays true while others write.  Of
  the list the invariant says that an own record no page has shown yet has its
  place on a page to come (`RestOfList`): places only grow as long as no record
  leaves the list, which needs that the records are finitely many.
  `CleanOK` says what an undisturbed pass still has to do at each of its places,
  and that it is all there is to do; `Singles` that a poller's address never has
  two records.

So every invariant and action property of the passing runs is a theorem.  Only
model-checked is liveness (`Terminates`, both `Settles`, `EventuallyReflected`),
which is beyond the proof system, as is ENABLED.  The properties of the runs that
find a violation are not true.

## 5. What is not modelled, and the plan

Not modelled for good: option parsing (`config.py`), logging, packaging, the
listener's request validation: they keep no state that a later step changes.
`FileAPI` stands in for Kea in tests, with one caller and no failures; the only
thing it does differently is that it hands out its own dictionary, so that edits
of the working copy show in it before commit and push.
Of the mapping of NetBox attributes to DHCP items only the choice of the first
non-null attribute is modelled (`MacOf` in `EventSync`), where it decides whether an
address has a reservation; the rest is conversion of data.  `DHCP4CB` is modelled
with a control URL; the options and columns of its database that the code does
not know are left out.  Of `run()` the order of the first synchronisations is in
`FullSync` and `Ddns`, building objects from options is not.

Some hazards of `PROJECT.json` the properties excuse and do not catch, because the
code does go wrong there: an item that a query left out of a subnet
(`connector.py:262`, `connector.py:270`), zone events that are lost or fail
(`listener.py:60`), a webhook sent before the listener listens
(`entry_point.py:120`), a restart of D2 (`ddns.py:89`), an eviction lost in a crash
(`cb.py:253`).  Their notes say until when.  Of paging, the zones, the leases,
the list of reflected records and the addresses of a subnet made anew are
modelled; prefixes around an object, the addresses of an interface and the ranges
of a subnet are one answer each.

Webhooks that arrive out of order are not in `event_sync`: with them the last
handler to run may have read the older state of an object, and the code has
nothing against it.  An exchange of MACs between two addresses ends in an error in
the log (`DuplicateValue`) and is in `missed`.

Next: the convergence of `DHCP4CB` under the condition that makes it true (no
failed call since the table had unique keys), and an abstract specification of
the event handling that `EventSync` implements.

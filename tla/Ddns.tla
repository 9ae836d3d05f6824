-------------------------------- MODULE Ddns --------------------------------
(***************************************************************************)
(* DdnsManager (ddns.py): the domains of kea-dhcp-ddns (D2) are derived    *)
(* from the NetBox zones flagged ddns_enabled, at startup and at each      *)
(* event about a zone.  D2's TSIG key is configured in D2 only: sync()     *)
(* takes it from the first domain D2 has and gives it to all of them.      *)
(*                                                                         *)
(* A sync is a read of D2's configuration, a read of the zones page by     *)
(* page, and a write; zones, D2 and the process may change in between.     *)
(***************************************************************************)
EXTENDS Integers, Sequences, FiniteSets

CONSTANTS
    ZoneOrder,      \* all zones, in the order NetBox lists them
    ReverseZone,    \* those under .arpa
    PageSize,       \* zones NetBox returns at most per request
    Key, NoKey,     \* key-name and dns-servers of a domain, or none
    Boot,           \* zones of the domains in D2's own configuration file
    SyncAtStart,    \* the option full_sync_at_startup
    MaxToggles,     \* bound on the changes in NetBox
    MaxFaults       \* bound on failures and restarts

Zone == {ZoneOrder[i] : i \in DOMAIN ZoneOrder}
Domain == [zone : Zone, key : {Key, NoKey}]

ASSUME OrderAssumption == ZoneOrder \in Seq(Zone)
ASSUME ZonesAssumption == ReverseZone \subseteq Zone /\ Boot \subseteq Zone
ASSUME BootAssumption == Boot # {}
ASSUME KeyAssumption == Key # NoKey
ASSUME DdnsBoundsAssumption ==
    /\ PageSize \in Nat \ {0}
    /\ SyncAtStart \in BOOLEAN
    /\ MaxToggles \in Nat /\ MaxFaults \in Nat

VARIABLES
    enabled,        \* NetBox: the active zones with ddns_enabled
    events,         \* zone events on their way to the listener
    d2,             \* the domains D2 has
    pc,             \* "idle", or the next request of a sync
    cfg,            \* what config-get returned
    names, pos,     \* zones read so far, and the offset of the next page
    toggles, faults,
    spoiled,        \* history: something went wrong since a sync last began
    emptied         \* history: D2 was once given no domain at all

vars == <<enabled, events, d2, pc, cfg, names, pos, toggles, faults, spoiled,
          emptied>>

\* The domains of D2's configuration file.
BootDomains == {[zone |-> z, key |-> Key] : z \in Boot}

Init ==
    /\ enabled \in SUBSET Zone
    /\ events = 0
    /\ d2 = BootDomains
    /\ pc = IF SyncAtStart THEN "get" ELSE "idle"
    /\ cfg = {} /\ names = {} /\ pos = 0
    /\ toggles = 0 /\ faults = 0
    /\ spoiled = ~SyncAtStart
    /\ emptied = FALSE

\* Mutant: an event is handled that nobody sent.
StartSyncSpurious ==
    /\ pc = "idle"
    /\ events' = events - 1
    /\ pc' = "get"
    /\ spoiled' = FALSE
    /\ UNCHANGED <<enabled, d2, cfg, names, pos, toggles, faults, emptied>>

\* The listener takes an event: sync_zone.
StartSync ==
    /\ pc = "idle" /\ events > 0
    /\ events' = events - 1
    /\ pc' = "get"
    /\ spoiled' = FALSE
    /\ UNCHANGED <<enabled, d2, cfg, names, pos, toggles, faults, emptied>>

GetConfig ==
    /\ pc = "get"
    /\ cfg' = d2
    /\ names' = {} /\ pos' = 0
    /\ pc' = "zones"
    /\ UNCHANGED <<enabled, events, d2, toggles, faults, spoiled, emptied>>

\* What NetBox lists, by its places in the order of all zones, and what it
\* lists before the place i.
Listed == {i \in DOMAIN ZoneOrder : ZoneOrder[i] \in enabled}
Before(i) == {j \in Listed : j < i}

\* A page: limit and offset count the zones that are listed.
Page(from) ==
    {ZoneOrder[i] : i \in {k \in Listed :
        Cardinality(Before(k)) \in from..(from + PageSize - 1)}}

\* The page has a link to a next one.
More(from) == from + PageSize < Cardinality(Listed)

\* Mutant: the link to the next page is not followed.
ReadFirstPage ==
    /\ pc = "zones"
    /\ names' = Page(0)
    /\ pc' = "set"
    /\ UNCHANGED <<enabled, events, d2, cfg, pos, toggles, faults, spoiled,
                   emptied>>

\* Mutant: the same page is asked for again.
ReadSamePage ==
    /\ pc = "zones"
    /\ names' = names \cup Page(0)
    /\ pc' = IF More(0) THEN pc ELSE "set"
    /\ UNCHANGED <<enabled, events, d2, cfg, pos, toggles, faults, spoiled,
                   emptied>>

\* _zone_names: pages by offset, of a list that may change between two pages.
ReadPage ==
    /\ pc = "zones"
    /\ names' = names \cup Page(pos)
    /\ pos' = IF More(pos) THEN pos + PageSize ELSE 0
    /\ pc' = IF More(pos) THEN pc ELSE "set"
    /\ UNCHANGED <<enabled, events, d2, cfg, toggles, faults, spoiled, emptied>>

\* Mutant: only the forward domains are looked at for the key.
KeyOfForward(domains) ==
    IF \E d \in domains : d.zone \notin ReverseZone /\ d.key = Key THEN Key ELSE NoKey

(***************************************************************************)
(* The key of the first domain, forward ones first.  All domains of D2     *)
(* have the same one: those of its file do, and a sync gives one to all.   *)
(***************************************************************************)
KeyOf(domains) == IF \E d \in domains : d.key = Key THEN Key ELSE NoKey

Derived == {[zone |-> z, key |-> KeyOf(cfg)] : z \in names}

SetConfig ==
    /\ pc = "set"
    /\ d2' = Derived
    /\ emptied' = (emptied \/ Derived = {})
    /\ pc' = "idle"
    /\ cfg' = {} /\ names' = {}
    /\ UNCHANGED <<enabled, events, pos, toggles, faults, spoiled>>

-----------------------------------------------------------------------------
(* What may go wrong, and the world. *)

Fault == faults < MaxFaults /\ faults' = faults + 1

(***************************************************************************)
(* A request fails, or one to Kea before it (new_event reloads the DHCP    *)
(* configuration first): the event ends with an exception that nobody      *)
(* retries.  A config-set without an answer may have been done.            *)
(***************************************************************************)
Fail ==
    /\ pc # "idle"
    /\ Fault
    /\ \/ UNCHANGED <<d2, emptied>>
       \/ pc = "set" /\ d2' = Derived /\ emptied' = (emptied \/ Derived = {})
    /\ pc' = "idle" /\ cfg' = {} /\ names' = {} /\ pos' = 0
    /\ spoiled' = TRUE
    /\ UNCHANGED <<enabled, events, toggles>>

\* The process ends and starts again; webhooks may find nobody meanwhile.
Restart ==
    /\ Fault
    /\ events' \in 0..events
    /\ pc' = IF SyncAtStart THEN "get" ELSE "idle"
    /\ cfg' = {} /\ names' = {} /\ pos' = 0
    /\ spoiled' = ~SyncAtStart
    /\ UNCHANGED <<enabled, d2, toggles, emptied>>

\* sync() sends no config-write: D2 comes back with the domains of its file.
D2Restart ==
    /\ Fault
    /\ d2' = BootDomains
    /\ spoiled' = TRUE
    /\ UNCHANGED <<enabled, events, pc, cfg, names, pos, toggles, emptied>>

\* A zone is enabled or disabled in NetBox, which sends a webhook once.
Toggle(z) ==
    /\ toggles < MaxToggles
    /\ toggles' = toggles + 1
    /\ enabled' = IF z \in enabled THEN enabled \ {z} ELSE enabled \cup {z}
    /\ \/ events' = events + 1 /\ UNCHANGED <<spoiled, faults>>
       \/ Fault /\ spoiled' = TRUE /\ UNCHANGED events
    /\ UNCHANGED <<d2, pc, cfg, names, pos, emptied>>

Sync == StartSync \/ GetConfig \/ ReadPage \/ SetConfig

Next ==
    \/ Sync
    \/ Fail \/ Restart \/ D2Restart
    \/ \E z \in Zone : Toggle(z)

Spec == Init /\ [][Next]_vars

\* The listener serves the events it has, and a request ends or fails.
FairSpec == Spec /\ WF_vars(Sync)

-----------------------------------------------------------------------------
(* Properties. *)

TypeOK ==
    /\ enabled \subseteq Zone /\ names \subseteq Zone
    /\ events \in Nat /\ pos \in Nat
    /\ d2 \subseteq Domain /\ cfg \subseteq Domain
    /\ pc \in {"idle", "get", "zones", "set"}
    /\ toggles \in 0..MaxToggles /\ faults \in 0..MaxFaults
    /\ spoiled \in BOOLEAN /\ emptied \in BOOLEAN

ZonesOf(domains) == {d.zone : d \in domains}

(***************************************************************************)
(* When no sync runs, no event waits, and nothing was lost since the last  *)
(* sync began, D2 has exactly the enabled zones: a zone toggled between    *)
(* two pages, or after the last one, is caught up by its own event.        *)
(***************************************************************************)
QuiescentExact ==
    pc = "idle" /\ events = 0 /\ ~spoiled => ZonesOf(d2) = enabled

\* A domain has lost its key only if D2 was once left without any domain.
KeyKeptUnlessEmptied == emptied \/ \A d \in d2 : d.key = Key

(***************************************************************************)
(* The module's docstring: the key and the dns-server "are reused from     *)
(* D2's existing (bootstrap) config", so every domain of D2 has them.      *)
(***************************************************************************)
KeyKept == \A d \in d2 : d.key = Key

\* Changes stop, events are served: D2 settles on the enabled zones for good,
\* or something was lost and no event came after it.
Settles == <>[](spoiled \/ ZonesOf(d2) = enabled)
=============================================================================

----------------------------- MODULE DdnsProofs -----------------------------
(***************************************************************************)
(* The domains of D2 and their key, for any zones, any page size and any   *)
(* number of changes and failures.  The invariant for the key speaks of    *)
(* the configuration a sync has read as well, which it writes back later,  *)
(* whatever D2 has by then; the one for the domains of the pages read so   *)
(* far.                                                                    *)
(***************************************************************************)
EXTENDS Ddns, FiniteSetTheorems, TLAPS

AllKeyed(domains) == domains # {} /\ \A d \in domains : d.key = Key

KeyInv ==
    /\ pc \in {"idle", "get", "zones", "set"}
    /\ emptied \in BOOLEAN
    /\ ~emptied => AllKeyed(d2)
    /\ ~emptied /\ pc \in {"zones", "set"} => AllKeyed(cfg)

\* D2's own file has a domain, and all its domains have the key.
LEMMA BootKeyed == AllKeyed(BootDomains)
<1>1. PICK z \in Boot : TRUE
  BY BootAssumption
<1>2. [zone |-> z, key |-> Key] \in BootDomains
  BY <1>1 DEF BootDomains
<1>3. \A d \in BootDomains : d.key = Key
  BY DEF BootDomains
<1> QED
  BY <1>2, <1>3 DEF AllKeyed

\* What a sync writes has the key, unless it is nothing at all.
LEMMA DerivedKeyed ==
    ASSUME AllKeyed(cfg), Derived # {}
    PROVE  AllKeyed(Derived)
<1>1. KeyOf(cfg) = Key
  BY DEF AllKeyed, KeyOf
<1> QED
  BY <1>1 DEF AllKeyed, Derived

LEMMA NextKeyInv == KeyInv /\ [Next]_vars => KeyInv'
<1> SUFFICES ASSUME KeyInv, [Next]_vars PROVE KeyInv'
  OBVIOUS
<1> USE DEF KeyInv
<1>1. CASE StartSync
  BY <1>1 DEF StartSync
<1>2. CASE GetConfig
  BY <1>2 DEF GetConfig
<1>3. CASE ReadPage
  BY <1>3 DEF ReadPage
<1>4. CASE SetConfig
  <2>1. ~emptied' => AllKeyed(Derived)
    BY <1>4, DerivedKeyed DEF SetConfig
  <2> QED
    BY <1>4, <2>1 DEF SetConfig
<1>5. CASE Fail
  <2>1. CASE UNCHANGED <<d2, emptied>>
    BY <1>5, <2>1 DEF Fail
  <2>2. CASE /\ pc = "set" /\ d2' = Derived
             /\ emptied' = (emptied \/ Derived = {})
    <3>1. ~emptied' => AllKeyed(Derived)
      BY <2>2, DerivedKeyed
    <3> QED
      BY <1>5, <2>2, <3>1 DEF Fail
  <2> QED
    BY <1>5, <2>1, <2>2 DEF Fail
<1>6. CASE Restart
  BY <1>6 DEF Restart
<1>7. CASE D2Restart
  BY <1>7, BootKeyed DEF D2Restart
<1>8. ASSUME NEW z \in Zone, Toggle(z) PROVE KeyInv'
  BY <1>8 DEF Toggle
<1>9. CASE UNCHANGED vars
  BY <1>9 DEF vars
<1> QED
  BY <1>1, <1>2, <1>3, <1>4, <1>5, <1>6, <1>7, <1>8, <1>9 DEF Next, Sync

\* A domain of D2 lacks its key only after D2 was given no domain at all.
THEOREM KeySurvives == Spec => []KeyKeptUnlessEmptied
<1>1. Init => KeyInv
  BY BootKeyed DEF Init, KeyInv
<1>2. KeyInv => KeyKeptUnlessEmptied
  BY DEF KeyInv, AllKeyed, KeyKeptUnlessEmptied
<1> QED
  BY <1>1, <1>2, NextKeyInv, PTL DEF Spec

-----------------------------------------------------------------------------
(* Types. *)

LEMMA BootType == BootDomains \subseteq Domain
BY ZonesAssumption DEF BootDomains, Domain

LEMMA PageType == \A from : Page(from) \subseteq enabled
BY DEF Page, Listed

LEMMA DerivedType ==
    ASSUME names \subseteq Zone
    PROVE  Derived \subseteq Domain
BY DEF Derived, Domain, KeyOf

\* Every value the manager, D2 and NetBox can hold is one of its kind.
THEOREM DdnsTypes == Spec => []TypeOK
<1>1. Init => TypeOK
  <2> SUFFICES ASSUME Init
               PROVE  TypeOK
    OBVIOUS
  <2>1. toggles \in 0..MaxToggles /\ faults \in 0..MaxFaults
    BY DdnsBoundsAssumption DEF Init
  <2>2. spoiled \in BOOLEAN /\ emptied \in BOOLEAN
    BY DdnsBoundsAssumption DEF Init
  <2> QED
    BY <2>1, <2>2, BootType DEF Init, TypeOK
<1>2. TypeOK /\ [Next]_vars => TypeOK'
  <2> SUFFICES ASSUME TypeOK, [Next]_vars
               PROVE  TypeOK'
    OBVIOUS
  <2>0. ASSUME Fault
        PROVE  faults' \in 0..MaxFaults
    BY <2>0, DdnsBoundsAssumption DEF Fault, TypeOK
  <2>1. CASE UNCHANGED vars
    BY <2>1 DEF vars, TypeOK
  <2>2. CASE StartSync
    <3>1. events' \in Nat
      BY <2>2 DEF StartSync, TypeOK
    <3> QED
      BY <2>2, <3>1 DEF StartSync, TypeOK
  <2>3. CASE GetConfig
    BY <2>3 DEF GetConfig, TypeOK
  <2>4. CASE ReadPage
    <3>1. pos' \in Nat
      BY <2>4, DdnsBoundsAssumption DEF ReadPage, TypeOK
    <3>2. names' \subseteq Zone
      BY <2>4, PageType DEF ReadPage, TypeOK
    <3> QED
      BY <2>4, <3>1, <3>2 DEF ReadPage, TypeOK
  <2>5. CASE SetConfig
    BY <2>5, DerivedType DEF SetConfig, TypeOK
  <2>6. CASE Fail
    <3>1. /\ d2' \subseteq Domain
          /\ emptied' = emptied \/ emptied' = (emptied \/ Derived = {})
      BY <2>6, DerivedType DEF Fail, TypeOK
    <3>2. emptied' \in BOOLEAN
      BY <3>1 DEF TypeOK
    <3> QED
      BY <2>0, <2>6, <3>1, <3>2 DEF Fail, TypeOK
  <2>7. CASE Restart
    <3>1. events' \in Nat /\ spoiled' \in BOOLEAN
      BY <2>7 DEF Restart, TypeOK
    <3> QED
      BY <2>0, <2>7, <3>1 DEF Restart, TypeOK
  <2>8. CASE D2Restart
    BY <2>0, <2>8, BootType DEF D2Restart, TypeOK
  <2>9. ASSUME NEW z \in Zone, Toggle(z)
        PROVE  TypeOK'
    <3>1. toggles' \in 0..MaxToggles /\ events' \in Nat
      BY <2>9, DdnsBoundsAssumption DEF Toggle, TypeOK
    <3>2. faults' \in 0..MaxFaults /\ spoiled' \in BOOLEAN
      BY <2>0, <2>9 DEF Toggle, TypeOK
    <3> QED
      BY <2>9, <3>1, <3>2 DEF Toggle, TypeOK
  <2> QED
    BY <2>1, <2>2, <2>3, <2>4, <2>5, <2>6, <2>7, <2>8, <2>9 DEF Next, Sync
<1> QED
  BY <1>1, <1>2, PTL DEF Spec

-----------------------------------------------------------------------------
(* Pages. *)

\* The zones listed at fewer than n places from the start.
FirstZones(n) == {ZoneOrder[i] : i \in {k \in Listed : Cardinality(Before(k)) < n}}

\* A zone that is listed has fewer zones before it than there are.
LEMMA PlaceInList ==
    ASSUME NEW i \in Listed
    PROVE  /\ Cardinality(Before(i)) \in Nat /\ Cardinality(Listed) \in Nat
           /\ Cardinality(Before(i)) < Cardinality(Listed)
<1>1. DOMAIN ZoneOrder = 1..Len(ZoneOrder) /\ Len(ZoneOrder) \in Nat
  BY OrderAssumption
<1>2. IsFiniteSet(DOMAIN ZoneOrder)
  BY <1>1, FS_Interval
<1>3. IsFiniteSet(Listed)
  BY <1>2, FS_Subset DEF Listed
<1>4. /\ IsFiniteSet(Listed \ {i})
      /\ Cardinality(Listed \ {i}) = Cardinality(Listed) - 1
  BY <1>3, FS_RemoveElement
<1>5. i \in Int
  BY <1>1 DEF Listed
<1>6. Before(i) \in SUBSET (Listed \ {i})
  BY <1>5 DEF Before
<1>7. /\ IsFiniteSet(Before(i))
      /\ Cardinality(Before(i)) <= Cardinality(Listed \ {i})
  BY <1>4, <1>6, FS_Subset
<1> QED
  BY <1>3, <1>4, <1>7, FS_CardinalityType

\* A page follows on the pages before it, and the last one ends the list.
LEMMA NextPage ==
    ASSUME NEW n \in Nat
    PROVE  /\ FirstZones(n + PageSize) \subseteq FirstZones(n) \cup Page(n)
           /\ ~More(n) => FirstZones(n + PageSize) = FirstZones(Cardinality(Listed))
<1>1. PageSize \in Nat
  BY DdnsBoundsAssumption
<1>2. \A i \in Listed : Cardinality(Before(i)) < n + PageSize =>
          \/ Cardinality(Before(i)) < n
          \/ Cardinality(Before(i)) \in n..(n + PageSize - 1)
  BY <1>1, PlaceInList
<1>3. FirstZones(n + PageSize) \subseteq FirstZones(n) \cup Page(n)
  BY <1>2 DEF FirstZones, Page
<1>4. ASSUME ~More(n)
      PROVE  {k \in Listed : Cardinality(Before(k)) < n + PageSize}
                 = {k \in Listed : Cardinality(Before(k)) < Cardinality(Listed)}
  BY <1>1, <1>4, PlaceInList DEF More
<1> QED
  BY <1>3, <1>4 DEF FirstZones

\* The whole list is the enabled zones.
LEMMA WholeList ==
    ASSUME enabled \subseteq Zone
    PROVE  FirstZones(Cardinality(Listed)) = enabled
<1>1. FirstZones(Cardinality(Listed)) = {ZoneOrder[i] : i \in Listed}
  BY PlaceInList DEF FirstZones
<1>2. \A z \in enabled : \E i \in DOMAIN ZoneOrder : z = ZoneOrder[i]
  BY DEF Zone
<1> QED
  BY <1>1, <1>2 DEF Listed

\* Nothing is listed before the first zone.
LEMMA NoPage == FirstZones(0) = {}
<1>1. \A i \in Listed : ~(Cardinality(Before(i)) < 0)
  BY PlaceInList
<1> QED
  BY <1>1 DEF FirstZones

-----------------------------------------------------------------------------
(***************************************************************************)
(* QuiescentExact.  With no event waiting and nothing lost, nothing was    *)
(* toggled since the sync began, and what it has read are whole pages of   *)
(* one list.                                                               *)
(***************************************************************************)
Calm == events = 0 /\ ~spoiled

PagesOK ==
    Calm =>
        /\ pc = "idle" => ZonesOf(d2) = enabled
        /\ pc = "zones" => names \subseteq enabled /\ FirstZones(pos) \subseteq names
        /\ pc = "set" => names = enabled

LEMMA NextPagesOK ==
    ASSUME TypeOK, PagesOK, [Next]_vars
    PROVE  PagesOK'
<1>1. CASE UNCHANGED vars
  BY <1>1 DEF vars, PagesOK, Calm, FirstZones, Listed, Before
<1>2. CASE StartSync
  BY <1>2 DEF StartSync, PagesOK
<1>3. CASE GetConfig
  <2>1. names' = {} /\ pos' = 0 /\ pc' = "zones" /\ enabled' = enabled
    BY <1>3 DEF GetConfig
  <2>2. FirstZones(pos)' = {}
    BY <2>1, NoPage DEF FirstZones, Listed, Before
  <2> QED
    BY <2>1, <2>2 DEF PagesOK
<1>4. CASE ReadPage
  <2> SUFFICES ASSUME Calm'
               PROVE  PagesOK'
    BY DEF PagesOK
  <2>1. /\ enabled' = enabled /\ Calm /\ pc = "zones"
        /\ names' = names \cup Page(pos)
    BY <1>4 DEF ReadPage, Calm
  <2>2. names \subseteq enabled /\ FirstZones(pos) \subseteq names
    BY <2>1 DEF PagesOK
  <2>3. /\ names' \subseteq enabled
        /\ FirstZones(pos + PageSize) \subseteq names'
    BY <2>1, <2>2, PageType, NextPage DEF TypeOK
  <2>4. CASE More(pos)
    <3>1. FirstZones(pos)' = FirstZones(pos + PageSize)
      BY <1>4, <2>1, <2>4 DEF ReadPage, FirstZones, Listed, Before
    <3> QED
      BY <1>4, <2>1, <2>3, <2>4, <3>1 DEF ReadPage, PagesOK
  <2>5. CASE ~More(pos)
    <3>1. names' = enabled
      BY <2>3, <2>5, NextPage, WholeList DEF TypeOK
    <3> QED
      BY <1>4, <2>1, <2>5, <3>1 DEF ReadPage, PagesOK
  <2> QED
    BY <2>4, <2>5
<1>5. CASE SetConfig
  <2>1. ZonesOf(Derived) = names
    <3>1. \A z \in names : \E d \in Derived : d.zone = z
      <4>1. \A z \in names : [zone |-> z, key |-> KeyOf(cfg)] \in Derived
        BY DEF Derived
      <4>2. \A z : [zone |-> z, key |-> KeyOf(cfg)].zone = z
        OBVIOUS
      <4> QED
        BY <4>1, <4>2
    <3>2. names \subseteq ZonesOf(Derived)
      BY <3>1 DEF ZonesOf
    <3>3. ZonesOf(Derived) \subseteq names
      BY DEF ZonesOf, Derived
    <3> QED
      BY <3>2, <3>3
  <2> QED
    BY <1>5, <2>1 DEF SetConfig, PagesOK, Calm
<1>6. CASE Fail \/ D2Restart
  BY <1>6 DEF Fail, D2Restart, PagesOK, Calm
<1>7. CASE Restart
  BY <1>7 DEF Restart, PagesOK, Calm
<1>8. ASSUME NEW z \in Zone, Toggle(z)
      PROVE  PagesOK'
  BY <1>8 DEF Toggle, TypeOK, PagesOK, Calm
<1> QED
  BY <1>1, <1>2, <1>3, <1>4, <1>5, <1>6, <1>7, <1>8 DEF Next, Sync

\* Once nothing runs, nothing waits and nothing was lost, D2 has exactly the
\* enabled zones, for any number of zones and any size of a page.
THEOREM QuietMeansExact == Spec => []QuiescentExact
<1>1. Init => PagesOK
  BY DdnsBoundsAssumption DEF Init, PagesOK, Calm
<1>2. TypeOK /\ PagesOK /\ [Next]_vars => PagesOK'
  BY NextPagesOK
<1>3. PagesOK => QuiescentExact
  BY DEF PagesOK, Calm, QuiescentExact
<1> QED
  BY DdnsTypes, <1>1, <1>2, <1>3, PTL DEF Spec
=============================================================================

------------------------- MODULE LeaseReflectProofs -------------------------
(***************************************************************************)
(* For any number of sources, addresses, clients and faults, the threads   *)
(* of LeaseReflect keep their types, no record of people is written or     *)
(* deleted by a thread that did not have it in hand when it became theirs, *)
(* and a pass that nothing disturbed leaves exactly the leases.            *)
(***************************************************************************)
EXTENDS LeaseReflect, FiniteSetTheorems, FunctionTheorems, WellFoundedInduction, TLAPS

\* A poller writes for a lease it has in hand.
HandOK == \A s \in Source : pc[s] = "write" => hand[s] \in Lease

Types == TypeOK /\ HandOK

\* No thread holds the author or client of a record for the record itself.
LEMMA NoRecordIsNone == NoRecord \notin Record /\ \A s \in Source : s \in Author
BY NamesAssumption DEF Author

LEMMA UpsertedType ==
    ASSUME nb \subseteq Record, NEW old \in Record \cup {NoRecord},
           NEW by \in Author, NEW l, l.addr \in Addr, l.who \in Client,
           NEW new \in Upserted(old, by, l)
    PROVE  new \subseteq Record
<1>1. NewRid \subseteq Rid
  BY DEF NewRid
<1>2. CASE old = NoRecord
  <2>1. PICK i \in NewRid :
          new = nb \cup {[rid |-> i, addr |-> l.addr, dhcp |-> TRUE,
                          by |-> by, who |-> l.who]}
    BY <1>2 DEF Upserted
  <2>2. i \in Rid
    BY <1>1
  <2>3. [rid |-> i, addr |-> l.addr, dhcp |-> TRUE, by |-> by, who |-> l.who] \in Record
    BY <2>2 DEF Record
  <2> QED
    BY <2>1, <2>3
<1>3. CASE old # NoRecord /\ new = nb
  BY <1>3
<1>4. CASE new = {IF r.rid = old.rid THEN [r EXCEPT !.by = by, !.who = l.who]
                  ELSE r : r \in nb}
  BY <1>4 DEF Record
<1> QED
  BY <1>2, <1>3, <1>4 DEF Upserted

LEMMA DeletedType ==
    ASSUME nb \subseteq Record, NEW old
    PROVE  Deleted(old) \subseteq Record
BY DEF Deleted

LEMMA FirstMatchType ==
    ASSUME nb \subseteq Record, NEW a
    PROVE  FirstMatch(a) \subseteq Record \cup {NoRecord} /\ Matches(a) \subseteq Record
BY DEF FirstMatch, Matches

LEMMA DisturbsType ==
    ASSUME Types, NEW dis, Disturbs(dis)
    PROVE  clean' \in [Source -> BOOLEAN]
BY DEF Disturbs, Types, TypeOK

LEMMA InitTypes ==
    ASSUME Init
    PROVE  Types
<1>1. nb \subseteq Record /\ lease \in [Addr -> Client \cup {Ended, NoLease}]
  BY RecordsAssumption, LeasesAssumption DEF Init
<1>2. TypeOK
  BY <1>1, BoundsAssumption DEF Init, TypeOK
<1>3. HandOK
  BY DEF Init, HandOK
<1> QED
  BY <1>2, <1>3 DEF Types

\* Kea and people.
LEMMA EnvironmentTypes ==
    ASSUME Types, (\E a \in Addr : ChangeLease(a)) \/ LoseCall \/ Claim
    PROVE  Types'
<1>1. HandOK' /\ UNCHANGED <<poller, listener>>
  BY DEF ChangeLease, LoseCall, Claim, Types, HandOK, poller
<1>2. ASSUME lease' \in [Addr -> Client \cup {Ended, NoLease}], nb' \subseteq Record,
             calls' \subseteq Call, clean' \in [Source -> BOOLEAN],
             mine' \subseteq Record, changes' \in 0..MaxLeases, faults' \in 0..MaxFaults
      PROVE  Types'
  BY <1>1, <1>2 DEF Types, TypeOK, poller, listener
<1>3. /\ lease \in [Addr -> Client \cup {Ended, NoLease}] /\ nb \subseteq Record
      /\ calls \subseteq Call /\ clean \in [Source -> BOOLEAN] /\ mine \subseteq Record
      /\ changes \in 0..MaxLeases /\ faults \in 0..MaxFaults
  BY DEF Types, TypeOK
<1>4. Fault => faults' \in 0..MaxFaults
  BY <1>3, BoundsAssumption DEF Fault
<1>5. \A a : [clean EXCEPT ![a] = FALSE] \in [Source -> BOOLEAN]
  BY <1>3
<1>6. ASSUME NEW a \in Addr, ChangeLease(a)
      PROVE  Types'
  <2>1. PICK new \in Client \cup {Ended, NoLease} :
          /\ lease' = [lease EXCEPT ![a] = new]
          /\ calls' =
              IF a \notin Hooked THEN calls
              ELSE IF new \in Client
              THEN calls \cup {[action |-> "add", addr |-> a, who |-> new]}
              ELSE IF lease[a] \in Client
              THEN calls \cup {[action |-> "del", addr |-> a]}
              ELSE calls
    BY <1>6 DEF ChangeLease
  <2>2. calls' \subseteq Call
    BY <1>3, <2>1 DEF Call
  <2>3. lease' \in [Addr -> Client \cup {Ended, NoLease}]
    BY <1>3, <2>1
  <2>4. changes' \in 0..MaxLeases
    BY <1>3, <1>6, BoundsAssumption DEF ChangeLease
  <2>5. UNCHANGED <<nb, mine, faults>> /\ clean' = [clean EXCEPT ![Served[a]] = FALSE]
    BY <1>6 DEF ChangeLease
  <2> QED
    BY <1>2, <1>3, <1>5, <2>2, <2>3, <2>4, <2>5
<1>7. CASE LoseCall
  <2>1. calls' \subseteq Call /\ UNCHANGED <<lease, nb, clean, mine, changes>> /\ Fault
    BY <1>3, <1>7 DEF LoseCall
  <2> QED
    BY <1>2, <1>3, <1>4, <2>1
<1>8. CASE Claim
  <2>1. PICK r \in nb :
          LET own == [r EXCEPT !.dhcp = FALSE, !.by = People]
          IN  /\ nb' = (nb \ {r}) \cup {own}
              /\ mine' = IF r.rid \in InHand THEN mine ELSE mine \cup {own}
              /\ Disturbs({Served[r.addr]})
    BY <1>8 DEF Claim
  <2>2. [r EXCEPT !.dhcp = FALSE, !.by = People] \in Record
    BY <1>3 DEF Record, Author
  <2>3. nb' \subseteq Record /\ mine' \subseteq Record
    BY <1>3, <2>1, <2>2
  <2>4. Fault /\ UNCHANGED <<lease, calls, changes>>
    BY <1>8 DEF Claim
  <2> QED
    BY <1>2, <1>3, <1>4, <2>1, <2>3, <2>4, DisturbsType
<1> QED
  BY <1>6, <1>7, <1>8

\* The pollers.
LEMMA SleepTypes ==
    ASSUME Types, NEW s \in Source, Sleep(s), nb' \subseteq Record,
           clean' \in [Source -> BOOLEAN], faults' \in 0..MaxFaults, Others(s)
    PROVE  Types'
<1>1. TypeOK'
  BY DEF Types, TypeOK, Sleep, Others, listener
<1>2. HandOK'
  BY DEF Types, TypeOK, HandOK, Sleep
<1> QED
  BY <1>1, <1>2 DEF Types

LEMMA AbandonTypes ==
    ASSUME Types, NEW s \in Source, Abandon(s), nb' \subseteq Record,
           faults' \in 0..MaxFaults
    PROVE  Types'
<1>1. clean' \in [Source -> BOOLEAN]
  BY DisturbsType DEF Abandon
<1> QED
  BY <1>1, SleepTypes DEF Abandon

LEMMA FetchTypes ==
    ASSUME Types, NEW s \in Source, Fetch(s)
    PROVE  Types'
<1> USE DEF Types, TypeOK
<1> DEFINE read == {[addr |-> a, who |-> lease[a]] :
                       a \in {b \in Page(s) : lease[b] # Ended}}
<1>1. Page(s) \subseteq Addr
  BY DEF Page, Rest
<1>2. \A a \in {b \in Page(s) : lease[b] # Ended} : a \in Addr /\ lease[a] \in Client
  BY DEF Page, Rest
<1>3. active' \in [Source -> SUBSET Lease]
  <2>1. active' = [active EXCEPT ![s] = @ \cup read]
    BY DEF Fetch
  <2>2. read \subseteq Lease
    BY <1>2 DEF Lease
  <2> HIDE DEF read
  <2> QED
    BY <2>1, <2>2
<1>4. /\ cursor' \in [Source -> Addr \cup {0}]
      /\ pc' \in [Source -> {"sleep", "fetch", "list", "upsert", "write"}]
      /\ pc'[s] # "write" /\ \A t \in Source \ {s} : pc'[t] = pc[t]
  BY <1>1 DEF Fetch
<1>5. clean' \in [Source -> BOOLEAN]
  BY DEF Fetch, NoCalls
<1>6. UNCHANGED <<nb, listed, todo, current, hand, found, faults, lease, calls, call,
                  target, mine, changes>>
  BY DEF Fetch, Others, listener
<1>7. TypeOK'
  BY <1>3, <1>4, <1>5, <1>6
<1>8. HandOK'
  BY <1>4, <1>6 DEF HandOK
<1> QED
  BY <1>7, <1>8

LEMMA ListTypes ==
    ASSUME Types, NEW s \in Source, List(s)
    PROVE  Types'
<1> USE DEF Types, TypeOK
<1> DEFINE read == current[s] \cup (Own(s) \cap ListPage(listed[s]))
<1>1. read \subseteq Record
  BY DEF Own
<1>2. /\ todo' \in [Source -> SUBSET Lease] /\ current' \in [Source -> SUBSET Record]
      /\ active' \in [Source -> SUBSET Lease] /\ listed' \in [Source -> Nat]
      /\ pc' \in [Source -> {"sleep", "fetch", "list", "upsert", "write"}]
  <2>1. CASE More(listed[s])
    <3>1. /\ current' = [current EXCEPT ![s] = read]
          /\ listed' = [listed EXCEPT ![s] = @ + ListLimit]
          /\ UNCHANGED <<pc, active, todo>>
      BY <2>1 DEF List
    <3>2. listed[s] + ListLimit \in Nat
      BY PageAssumption
    <3> HIDE DEF read
    <3> QED
      BY <1>1, <3>1, <3>2
  <2>2. CASE ~More(listed[s])
    <3>1. PICK kept \in OnePerAddress(read) :
            /\ todo' = [todo EXCEPT ![s] = {l \in active[s] :
                   ~\E r \in kept : r.addr = l.addr /\ r.who = l.who}]
            /\ current' = [current EXCEPT ![s] =
                   {r \in kept : ~\E l \in active[s] : l.addr = r.addr}]
      BY <2>2 DEF List
    <3>2. /\ listed' = [listed EXCEPT ![s] = 0]
          /\ active' = [active EXCEPT ![s] = {}] /\ pc' = [pc EXCEPT ![s] = "upsert"]
      BY <2>2 DEF List
    <3> HIDE DEF read
    <3>3. kept \subseteq Record
      BY <1>1 DEF OnePerAddress
    <3> QED
      BY <3>1, <3>2, <3>3
  <2> QED
    BY <2>1, <2>2
<1>3. UNCHANGED <<nb, cursor, hand, found, clean, faults, lease, calls, call, target,
                  mine, changes>>
  BY DEF List, Others, listener
<1>4. pc'[s] # "write" /\ \A t \in Source \ {s} : pc'[t] = pc[t]
  BY DEF List
<1>5. TypeOK'
  BY <1>2, <1>3
<1>6. HandOK'
  BY <1>3, <1>4 DEF HandOK
<1> QED
  BY <1>5, <1>6

LEMMA FindTypes ==
    ASSUME Types, NEW s \in Source, Find(s)
    PROVE  Types'
<1> USE DEF Types, TypeOK
<1>1. PICK l \in todo[s], r \in Record \cup {NoRecord} :
        /\ todo' = [todo EXCEPT ![s] = @ \ {l}]
        /\ hand' = [hand EXCEPT ![s] = l]
        /\ found' = [found EXCEPT ![s] = r]
  BY FirstMatchType DEF Find
<1>2. /\ pc' = [pc EXCEPT ![s] = "write"]
      /\ UNCHANGED <<nb, cursor, active, listed, current, clean, faults, lease, calls,
                     call, target, mine, changes>>
  BY DEF Find, Others, listener
<1>3. l \in Lease
  OBVIOUS
<1>4. TypeOK'
  BY <1>1, <1>2, <1>3
<1>5. HandOK'
  BY <1>1, <1>2, <1>3 DEF HandOK
<1> QED
  BY <1>4, <1>5

LEMMA WriteTypes ==
    ASSUME Types, NEW s \in Source, Write(s)
    PROVE  Types'
<1> USE DEF Types, TypeOK
<1>1. hand[s].addr \in Addr /\ hand[s].who \in Client
  BY DEF Write, HandOK, Lease
<1>2. nb' \subseteq Record
  BY <1>1, UpsertedType, NoRecordIsNone DEF Write
<1>3. /\ pc' = [pc EXCEPT ![s] = "upsert"]
      /\ hand' = [hand EXCEPT ![s] = NoRecord]
      /\ found' = [found EXCEPT ![s] = NoRecord]
      /\ UNCHANGED <<cursor, active, listed, todo, current, faults, lease, calls, call,
                     target, mine, changes>>
      /\ clean' \in [Source -> BOOLEAN]
  BY DisturbsType DEF Write, Others, listener
<1>4. TypeOK'
  BY <1>2, <1>3
<1>5. HandOK'
  BY <1>3 DEF HandOK
<1> QED
  BY <1>4, <1>5

LEMMA DeleteTypes ==
    ASSUME Types, NEW s \in Source, Delete(s)
    PROVE  Types'
<1> USE DEF Types, TypeOK
<1>1. PICK r \in current[s] : nb' = Deleted(r) /\ current' = [current EXCEPT ![s] = @ \ {r}]
  BY DEF Delete
<1>2. /\ UNCHANGED <<pc, cursor, active, listed, todo, hand, found, faults, lease, calls,
                     call, target, mine, changes>>
      /\ clean' \in [Source -> BOOLEAN]
  BY DisturbsType DEF Delete, Others, listener
<1>3. TypeOK'
  BY <1>1, <1>2, DeletedType
<1>4. HandOK'
  BY <1>2 DEF HandOK
<1> QED
  BY <1>3, <1>4

LEMMA PollFailsTypes ==
    ASSUME Types, NEW s \in Source, PollFails(s)
    PROVE  Types'
<1>1. nb' \subseteq Record
  <2>1. CASE UNCHANGED nb
    BY <2>1 DEF Types, TypeOK
  <2>2. CASE pc[s] = "write" /\ nb' \in Upserted(found[s], s, hand[s])
    <3>1. hand[s].addr \in Addr /\ hand[s].who \in Client
      BY <2>2 DEF Types, HandOK, Lease
    <3> QED
      BY <2>2, <3>1, UpsertedType, NoRecordIsNone DEF Types, TypeOK
  <2>3. CASE \E r \in current[s] : nb' = Deleted(r)
    BY <2>3, DeletedType DEF Types, TypeOK
  <2> QED
    BY <2>1, <2>2, <2>3 DEF PollFails
<1>2. faults' \in 0..MaxFaults
  BY BoundsAssumption DEF PollFails, Fault, Types, TypeOK
<1> QED
  BY <1>1, <1>2, AbandonTypes DEF PollFails

LEMMA PollTypes ==
    ASSUME Types, NEW s \in Source, Poll(s) \/ PollFails(s)
    PROVE  Types'
<1>1. CASE Gone(s)
  BY <1>1, AbandonTypes DEF Gone, Types, TypeOK
<1>2. CASE EndPass(s)
  BY <1>2, SleepTypes DEF EndPass, Types, TypeOK
<1> QED
  BY <1>1, <1>2, FetchTypes, ListTypes, FindTypes, WriteTypes, DeleteTypes,
     PollFailsTypes
  DEF Poll

\* The listener.
LEMMA ListenTypes ==
    ASSUME Types, Listen \/ CallFails
    PROVE  Types'
<1> USE DEF Types, TypeOK
<1>1. /\ HandOK' /\ UNCHANGED <<lease, poller, mine, changes>>
      /\ clean' \in [Source -> BOOLEAN]
  BY DisturbsType
  DEF Listen, TakeCall, WriteCall, DeleteCall, EndDeletes, CallGone, CallFails,
      Aside, poller, HandOK
<1>2. /\ call' \in Call \cup {NoRecord} /\ calls' \subseteq Call
      /\ target' \subseteq Record \cup {NoRecord}
  BY FirstMatchType
  DEF Listen, TakeCall, WriteCall, DeleteCall, EndDeletes, CallGone, CallFails, EndCall
<1>3. faults' \in 0..MaxFaults
  BY BoundsAssumption
  DEF Listen, TakeCall, WriteCall, DeleteCall, EndDeletes, CallGone, CallFails, Fault
<1>4. nb' \subseteq Record
  <2>1. ASSUME NEW r \in target, call # NoRecord, call.action = "add",
               nb' \in Upserted(r, Hook, call)
        PROVE  nb' \subseteq Record
    <3>1. call.addr \in Addr /\ call.who \in Client
      BY <2>1 DEF Call
    <3>2. Hook \in Author
      BY DEF Author
    <3> QED
      BY <2>1, <3>1, <3>2, UpsertedType
  <2>2. \A r : Deleted(r) \subseteq Record
    BY DeletedType
  <2> QED
    BY <2>1, <2>2
    DEF Listen, TakeCall, WriteCall, DeleteCall, EndDeletes, CallGone, CallFails
<1>5. TypeOK'
  BY <1>1, <1>2, <1>3, <1>4 DEF poller
<1> QED
  BY <1>1, <1>5

LEMMA NextTypes ==
    ASSUME Types, [Next]_vars
    PROVE  Types'
<1>1. CASE UNCHANGED vars
  <2>1. TypeOK'
    BY <1>1 DEF vars, poller, listener, Types, TypeOK
  <2>2. HandOK'
    BY <1>1 DEF vars, poller, Types, HandOK
  <2> QED
    BY <2>1, <2>2 DEF Types
<1> QED
  BY <1>1, EnvironmentTypes, PollTypes, ListenTypes DEF Next

LEMMA TypesHold == Spec => []Types
<1>1. Init => Types
  BY InitTypes
<1>2. Types /\ [Next]_vars => Types'
  BY NextTypes
<1> QED
  BY <1>1, <1>2, PTL DEF Spec

\* Every variable of the pollers and the listener keeps its type
\* (lease_poller.py, listener.py).
THEOREM LeaseTypes == Spec => []TypeOK
<1>1. Types => TypeOK
  BY DEF Types
<1> QED
  BY <1>1, TypesHold, PTL

-----------------------------------------------------------------------------
(***************************************************************************)
(* The threads write by id, and the queries find records with the status   *)
(* dhcp only.  So it takes an id that is held while the record it names    *)
(* changes hands; and ids are not used again.                              *)
(***************************************************************************)

\* A thread holds the id i.
Held(i) ==
    \/ \E s \in Source : \E r \in current[s] : i = r.rid
    \/ \E s \in Source : found[s] # NoRecord /\ i = found[s].rid
    \/ \E r \in target : r # NoRecord /\ i = r.rid

LEMMA HeldIsInHand == \A i : i \in InHand <=> Held(i)
<1>1. \A r : r \in UNION {current[s] : s \in Source} <=> \E s \in Source : r \in current[s]
  OBVIOUS
<1> QED
  BY <1>1 DEF InHand, Held

UniqueIds == \A q, r \in nb : q.rid = r.rid => q = r

TheirsOK == \A r \in mine : r \in nb /\ ~r.dhcp /\ ~Held(r.rid)

Separate == UniqueIds /\ TheirsOK

\* The listener deletes records it has found.
DeletesOK == call # NoRecord /\ call.action = "del" => target \subseteq Record

LEMMA DeletesHold == Spec => []DeletesOK
<1>1. Init => DeletesOK
  BY DEF Init, DeletesOK
<1>2. Types /\ DeletesOK /\ [Next]_vars => DeletesOK'
  <2> SUFFICES ASSUME Types, DeletesOK, [Next]_vars
               PROVE  DeletesOK'
    OBVIOUS
  <2>1. CASE TakeCall
    <3>1. nb \subseteq Record
      BY DEF Types, TypeOK
    <3>2. call'.action = "del" => target' = Matches(call'.addr)
      BY <2>1, <3>1 DEF TakeCall, Types, TypeOK, Call
    <3> QED
      BY <3>1, <3>2, FirstMatchType DEF DeletesOK
  <2>2. CASE WriteCall \/ DeleteCall \/ EndDeletes \/ CallGone \/ CallFails
    <3>1. call' = NoRecord \/ (UNCHANGED call /\ target' \subseteq target)
      BY <2>2 DEF WriteCall, DeleteCall, EndDeletes, CallGone, CallFails, EndCall
    <3> QED
      BY <3>1 DEF DeletesOK
  <2>3. ASSUME NEW s \in Source, Poll(s) \/ PollFails(s)
        PROVE  UNCHANGED listener
    BY <2>3 DEF Poll, Fetch, List, Find, Write, Delete, Gone, EndPass, PollFails,
                Abandon, Others
  <2>4. CASE (\E a \in Addr : ChangeLease(a)) \/ LoseCall \/ Claim \/ UNCHANGED vars
    <3>1. UNCHANGED listener
      BY <2>4 DEF ChangeLease, LoseCall, Claim, vars
    <3> QED
      BY <3>1 DEF listener, DeletesOK
  <2> QED
    BY <2>1, <2>2, <2>3, <2>4 DEF Next, Listen, listener, DeletesOK
<1> QED
  BY <1>1, <1>2, TypesHold, PTL DEF Spec

\* What a poller has listed is what it had, and records of its own.
LEMMA ListReads ==
    ASSUME Types, NEW s \in Source, List(s)
    PROVE  /\ current'[s] \subseteq current[s] \cup Own(s)
           /\ todo'[s] \subseteq active[s] \cup todo[s]
<1> USE DEF Types, TypeOK
<1> DEFINE read == current[s] \cup (Own(s) \cap ListPage(listed[s]))
<1>1. CASE More(listed[s])
  BY <1>1 DEF List
<1>2. CASE ~More(listed[s])
  <2>1. PICK kept \in OnePerAddress(read) :
          /\ todo' = [todo EXCEPT ![s] = {l \in active[s] :
                 ~\E r \in kept : r.addr = l.addr /\ r.who = l.who}]
          /\ current' = [current EXCEPT ![s] =
                 {r \in kept : ~\E l \in active[s] : l.addr = r.addr}]
    BY <1>2 DEF List
  <2>2. kept \subseteq read
    BY DEF OnePerAddress
  <2> QED
    BY <2>1, <2>2
<1> QED
  BY <1>1, <1>2

\* Nothing is held but what was, or what a query has just found.
LEMMA QueryKeepsSeparate ==
    ASSUME Separate, UNCHANGED <<nb, mine>>,
           \A i : Held(i)' => Held(i) \/ \E r \in nb : r.dhcp /\ r.rid = i
    PROVE  Separate'
BY DEF Separate, UniqueIds, TheirsOK

\* A write is to a held id, or to a new one.
LEMMA UpsertKeepsSeparate ==
    ASSUME Types, Separate, NEW old, old # NoRecord => Held(old.rid),
           NEW by, NEW l, nb' \in Upserted(old, by, l),
           UNCHANGED mine, \A i : Held(i)' => Held(i)
    PROVE  Separate'
<1>1. CASE UNCHANGED nb
  BY <1>1 DEF Separate, UniqueIds, TheirsOK
<1>2. CASE old = NoRecord
  <2>1. PICK i \in NewRid :
          nb' = nb \cup {[rid |-> i, addr |-> l.addr, dhcp |-> TRUE,
                          by |-> by, who |-> l.who]}
    BY <1>2 DEF Upserted
  <2> DEFINE new == [rid |-> i, addr |-> l.addr, dhcp |-> TRUE, by |-> by, who |-> l.who]
  <2>2. i \notin Rids
    BY DEF NewRid
  <2>3. \A r \in nb : r.rid # i
    BY <2>2 DEF Rids
  <2>4. new.rid = i /\ nb' = nb \cup {new}
    BY <2>1
  <2> HIDE DEF new
  <2>5. UniqueIds'
    BY <2>3, <2>4 DEF Separate, UniqueIds
  <2>6. TheirsOK'
    BY <2>4 DEF Separate, TheirsOK
  <2> QED
    BY <2>5, <2>6 DEF Separate
<1>3. CASE /\ old # NoRecord
           /\ nb' = {IF r.rid = old.rid THEN [r EXCEPT !.by = by, !.who = l.who]
                     ELSE r : r \in nb}
  <2> DEFINE f == [r \in nb |-> IF r.rid = old.rid
                                THEN [r EXCEPT !.by = by, !.who = l.who] ELSE r]
  <2>1. nb' = {f[r] : r \in nb}
    BY <1>3
  <2>2. \A r \in nb : f[r].rid = r.rid /\ (r.rid # old.rid => f[r] = r)
    BY DEF Types, TypeOK, Record
  <2> HIDE DEF f
  <2>3. UniqueIds'
    BY <2>1, <2>2 DEF Separate, UniqueIds
  <2>4. TheirsOK'
    BY <1>3, <2>1, <2>2 DEF Separate, TheirsOK
  <2> QED
    BY <2>3, <2>4 DEF Separate
<1> QED
  BY <1>1, <1>2, <1>3 DEF Upserted

LEMMA DeleteKeepsSeparate ==
    ASSUME Separate, NEW old, Held(old.rid), nb' = Deleted(old),
           UNCHANGED mine, \A i : Held(i)' => Held(i)
    PROVE  Separate'
BY DEF Separate, UniqueIds, TheirsOK, Deleted

\* Leases change, calls get lost, people take a record over.
LEMMA EnvironmentSeparate ==
    ASSUME Types, Separate, (\E a \in Addr : ChangeLease(a)) \/ LoseCall \/ Claim
    PROVE  Separate'
<1>1. \A i : Held(i)' <=> Held(i)
  BY DEF ChangeLease, LoseCall, Claim, poller, listener, Held
<1>2. CASE UNCHANGED <<nb, mine>>
  BY <1>1, <1>2, QueryKeepsSeparate
<1>3. CASE Claim
  <2> DEFINE own(r) == [r EXCEPT !.dhcp = FALSE, !.by = People]
  <2>1. PICK r \in nb :
          /\ r.dhcp
          /\ nb' = (nb \ {r}) \cup {own(r)}
          /\ \/ mine' = mine
             \/ r.rid \notin InHand /\ mine' = mine \cup {own(r)}
    BY <1>3 DEF Claim
  <2>2. own(r).rid = r.rid /\ own(r).dhcp = FALSE
    BY DEF Types, TypeOK, Record
  <2> HIDE DEF own
  <2>3. nb' = (nb \ {r}) \cup {own(r)}
    BY <2>1
  <2>4. mine' = mine \/ (mine' = mine \cup {own(r)} /\ ~Held(own(r).rid))
    <3>1. r.rid \notin InHand => ~Held(r.rid)
      BY HeldIsInHand
    <3>2. own(r).rid = r.rid
      BY <2>2
    <3>3. r.rid \notin InHand => ~Held(own(r).rid)
      BY <3>1, <3>2
    <3> QED
      BY <2>1, <3>3
  <2>5. UniqueIds'
    BY <2>2, <2>3 DEF Separate, UniqueIds
  <2>6. TheirsOK'
    BY <1>1, <2>1, <2>2, <2>3, <2>4 DEF Separate, TheirsOK
  <2> QED
    BY <2>5, <2>6 DEF Separate
<1> QED
  BY <1>2, <1>3 DEF ChangeLease, LoseCall

\* A pass that ends holds less.
LEMMA SleepHeld ==
    ASSUME Types, NEW s \in Source, Sleep(s), UNCHANGED listener
    PROVE  \A i : Held(i)' => Held(i)
BY DEF Sleep, listener, Held, Types, TypeOK

LEMMA PollSeparate ==
    ASSUME Types, Separate, NEW s \in Source, Poll(s) \/ PollFails(s)
    PROVE  Separate'
<1>1. UNCHANGED <<mine, target>>
  BY DEF Poll, Fetch, List, Find, Write, Delete, Gone, EndPass, PollFails, Abandon,
         Others, listener
<1>2. current \in [Source -> SUBSET Record] /\ found \in [Source -> Record \cup {NoRecord}]
  BY DEF Types, TypeOK
<1>3. CASE Fetch(s)
  BY <1>3, QueryKeepsSeparate DEF Fetch, Others, listener, Held
<1>4. CASE List(s)
  <2>1. current'[s] \subseteq current[s] \cup Own(s)
    BY <1>2, <1>4, ListReads
  <2>2. \A r \in Own(s) : r \in nb /\ r.dhcp
    BY DEF Own
  <2>3. UNCHANGED <<nb, found>>
    BY <1>4 DEF List
  <2>4. \A t \in Source : \A r \in current'[t] : r \in current[t] \/ r \in Own(s)
    BY <1>2, <1>4, <2>1 DEF List
  <2>5. \A i : Held(i)' => Held(i) \/ \E r \in nb : r.dhcp /\ r.rid = i
    BY <1>1, <2>2, <2>3, <2>4 DEF Held
  <2> QED
    BY <1>1, <2>3, <2>5, QueryKeepsSeparate
<1>5. CASE Find(s)
  <2>1. PICK l \in todo[s] :
          \E r \in FirstMatch(l.addr) : found' = [found EXCEPT ![s] = r]
    BY <1>5 DEF Find
  <2>2. PICK r \in FirstMatch(l.addr) : found' = [found EXCEPT ![s] = r]
    BY <2>1
  <2>3. r # NoRecord => r \in nb /\ r.dhcp
    BY DEF FirstMatch, Matches
  <2>4. UNCHANGED <<nb, current>>
    BY <1>5 DEF Find
  <2>5. \A t \in Source : found'[t] = found[t] \/ found'[t] = r
    BY <1>2, <2>2
  <2>6. \A i : Held(i)' => Held(i) \/ \E q \in nb : q.dhcp /\ q.rid = i
    BY <1>1, <2>3, <2>4, <2>5 DEF Held
  <2> QED
    BY <1>1, <2>4, <2>6, QueryKeepsSeparate
<1>6. found[s] # NoRecord => Held(found[s].rid)
  BY DEF Held
<1>7. CASE Write(s)
  <2>1. /\ nb' \in Upserted(found[s], s, hand[s]) /\ UNCHANGED current
        /\ found' = [found EXCEPT ![s] = NoRecord]
    BY <1>7 DEF Write
  <2>2. \A t \in Source : found'[t] = found[t] \/ found'[t] = NoRecord
    BY <1>2, <2>1
  <2>3. \A i : Held(i)' => Held(i)
    BY <1>1, <2>1, <2>2 DEF Held
  <2> QED
    BY <1>1, <1>6, <2>1, <2>3, UpsertKeepsSeparate
<1>8. \A r \in current[s] : r # NoRecord /\ Held(r.rid)
  BY <1>2, NoRecordIsNone DEF Held
<1>9. CASE Delete(s)
  <2>1. PICK r \in current[s] : nb' = Deleted(r) /\ current' = [current EXCEPT ![s] = @ \ {r}]
    BY <1>9 DEF Delete
  <2>2. UNCHANGED found
    BY <1>9 DEF Delete
  <2>3. \A t \in Source : current'[t] \subseteq current[t]
    BY <1>2, <2>1
  <2>4. \A i : Held(i)' => Held(i)
    BY <1>1, <2>2, <2>3 DEF Held
  <2> QED
    BY <1>1, <1>8, <2>1, <2>4, DeleteKeepsSeparate
<1>10. CASE Gone(s) \/ EndPass(s)
  <2>1. Sleep(s) /\ UNCHANGED <<nb, mine, listener>>
    BY <1>10 DEF Gone, EndPass, Abandon, Others
  <2> QED
    BY <2>1, SleepHeld, QueryKeepsSeparate
<1>11. CASE PollFails(s)
  <2>1. \A i : Held(i)' => Held(i)
    BY <1>11, SleepHeld DEF PollFails, Abandon, Others
  <2>2. CASE UNCHANGED nb
    BY <1>1, <2>1, <2>2, QueryKeepsSeparate
  <2>3. CASE nb' \in Upserted(found[s], s, hand[s])
    BY <1>1, <1>6, <2>1, <2>3, UpsertKeepsSeparate
  <2>4. CASE \E r \in current[s] : nb' = Deleted(r)
    BY <1>1, <1>8, <2>1, <2>4, DeleteKeepsSeparate
  <2> QED
    BY <1>11, <2>2, <2>3, <2>4 DEF PollFails
<1> QED
  BY <1>3, <1>4, <1>5, <1>7, <1>9, <1>10, <1>11 DEF Poll

LEMMA ListenSeparate ==
    ASSUME Types, Separate, DeletesOK, Listen \/ CallFails
    PROVE  Separate'
<1>1. UNCHANGED <<mine, current, found>>
  BY DEF Listen, TakeCall, WriteCall, DeleteCall, EndDeletes, CallGone, CallFails,
         Aside, poller
<1>2. CASE TakeCall
  <2>1. \A r \in target' : r # NoRecord => r \in nb /\ r.dhcp
    BY <1>2 DEF TakeCall, FirstMatch, Matches
  <2>2. UNCHANGED nb
    BY <1>2 DEF TakeCall
  <2>3. \A i : Held(i)' => Held(i) \/ \E r \in nb : r.dhcp /\ r.rid = i
    BY <1>1, <2>1 DEF Held
  <2> QED
    BY <1>1, <2>2, <2>3, QueryKeepsSeparate
<1>3. CASE ~TakeCall
  <2>1. target' \subseteq target
    BY <1>3 DEF Listen, WriteCall, DeleteCall, EndDeletes, CallGone, CallFails, EndCall
  <2>2. \A i : Held(i)' => Held(i)
    BY <1>1, <2>1 DEF Held
  <2>3. CASE UNCHANGED nb
    BY <1>1, <2>2, <2>3, QueryKeepsSeparate
  <2>4. \A r \in target : r # NoRecord => Held(r.rid)
    BY DEF Held
  <2>5. CASE \E r \in target : nb' \in Upserted(r, Hook, call)
    BY <1>1, <2>2, <2>4, <2>5, UpsertKeepsSeparate
  <2>6. CASE \E r \in target : r # NoRecord /\ nb' = Deleted(r)
    BY <1>1, <2>2, <2>4, <2>6, DeleteKeepsSeparate
  <2>7. call # NoRecord /\ call.action = "del" => NoRecord \notin target
    BY NoRecordIsNone DEF DeletesOK
  <2> QED
    BY <1>3, <2>3, <2>5, <2>6, <2>7
    DEF Listen, WriteCall, DeleteCall, EndDeletes, CallGone, CallFails
<1> QED
  BY <1>2, <1>3

LEMMA SeparateHolds == Spec => []Separate
<1>1. Init => Separate
  <2>1. ASSUME Init
        PROVE  UniqueIds /\ (\A i : ~Held(i)) /\ (\A r \in mine : r \in nb /\ ~r.dhcp)
    BY <2>1, RecordsAssumption DEF Init, UniqueIds, Held
  <2> QED
    BY <2>1 DEF Separate, TheirsOK
<1>2. Types /\ DeletesOK /\ Separate /\ [Next]_vars => Separate'
  <2>1. ASSUME Separate, UNCHANGED vars
        PROVE  Separate'
    BY <2>1 DEF vars, poller, listener, Separate, UniqueIds, TheirsOK, Held
  <2> QED
    BY <2>1, EnvironmentSeparate, PollSeparate, ListenSeparate DEF Next
<1> QED
  BY <1>1, <1>2, TypesHold, DeletesHold, PTL DEF Spec

(***************************************************************************)
(* A record that people made, or took over while no thread had it in hand, *)
(* stays as it is: under every interleaving of the pollers' requests with  *)
(* the listener's, and whatever requests fail (netbox.py, upsert_dhcp_ip   *)
(* and delete_dhcp_ip; lease_poller.py).                                   *)
(***************************************************************************)
THEOREM PeopleAreKept == Spec => []PeopleKept
<1>1. Separate => PeopleKept
  BY DEF Separate, TheirsOK, PeopleKept
<1> QED
  BY <1>1, SeparateHolds, PTL

-----------------------------------------------------------------------------
(* NetBox has finitely many records, so each has a place in its list. *)

Finite == IsFiniteSet(nb)

LEMMA UpsertedFinite ==
    ASSUME Finite, NEW old, NEW by, NEW l, NEW new \in Upserted(old, by, l)
    PROVE  IsFiniteSet(new)
<1>1. CASE new = nb
  BY <1>1 DEF Finite
<1>2. CASE \E x : new = nb \cup {x}
  BY <1>2, FS_AddElement DEF Finite
<1>3. CASE new = {IF r.rid = old.rid THEN [r EXCEPT !.by = by, !.who = l.who]
                  ELSE r : r \in nb}
  <2> DEFINE f == [r \in nb |-> IF r.rid = old.rid
                                THEN [r EXCEPT !.by = by, !.who = l.who] ELSE r]
  <2>1. new = {f[r] : r \in nb}
    BY <1>3
  <2>2. new \in SUBSET new /\ f \in Surjection(nb, new)
    BY <2>1, Fun_IsSurj
  <2> HIDE DEF f
  <2> QED
    BY <2>2, FS_Surjection DEF Finite
<1> QED
  BY <1>1, <1>2, <1>3 DEF Upserted

LEMMA DeletedFinite ==
    ASSUME Finite, NEW old
    PROVE  IsFiniteSet(Deleted(old))
BY FS_Subset DEF Finite, Deleted

LEMMA FiniteHolds == Spec => []Finite
<1>1. Init => Finite
  BY RecordsAssumption DEF Init, Finite
<1>2. Finite /\ [Next]_vars => Finite'
  <2> SUFFICES ASSUME Finite, [Next]_vars
               PROVE  IsFiniteSet(nb')
    BY DEF Finite
  <2>1. CASE UNCHANGED nb
    BY <2>1 DEF Finite
  <2>2. CASE Claim
    <3>1. PICK r \in nb : nb' = (nb \ {r}) \cup {[r EXCEPT !.dhcp = FALSE, !.by = People]}
      BY <2>2 DEF Claim
    <3>2. IsFiniteSet(nb \ {r})
      BY FS_Subset DEF Finite
    <3> QED
      BY <3>1, <3>2, FS_AddElement
  <2>3. ASSUME NEW s \in Source, Poll(s) \/ PollFails(s)
        PROVE  IsFiniteSet(nb')
    BY <2>1, <2>3, UpsertedFinite, DeletedFinite
    DEF Poll, Fetch, List, Find, Write, Delete, Gone, EndPass, PollFails
  <2>4. CASE Listen \/ CallFails
    BY <2>1, <2>4, UpsertedFinite, DeletedFinite
    DEF Listen, TakeCall, WriteCall, DeleteCall, EndDeletes, CallGone, CallFails
  <2> QED
    BY <2>1, <2>2, <2>3, <2>4 DEF Next, ChangeLease, LoseCall, vars
<1> QED
  BY <1>1, <1>2, PTL DEF Spec

\* The ids of the records before r.
Before(n, r) ==
    {q.rid : q \in {d \in n : d.dhcp
        /\ (d.addr < r.addr \/ (d.addr = r.addr /\ d.rid < r.rid))}}

LEMMA BeforeFinite ==
    ASSUME NEW n, IsFiniteSet(n), NEW r
    PROVE  IsFiniteSet(Before(n, r)) /\ Cardinality(Before(n, r)) \in Nat
<1> DEFINE first == {d \in n : d.dhcp
                       /\ (d.addr < r.addr \/ (d.addr = r.addr /\ d.rid < r.rid))}
           f == [d \in first |-> d.rid]
<1>1. IsFiniteSet(first)
  BY FS_Subset
<1>2. Before(n, r) = {f[d] : d \in first}
  BY DEF Before
<1> HIDE DEF first
<1>3. f \in Surjection(first, Before(n, r))
  BY <1>2, Fun_IsSurj
<1>4. IsFiniteSet(Before(n, r))
  BY <1>1, <1>3, FS_Surjection
<1> QED
  BY <1>4, FS_CardinalityType

LEMMA PlaceIsNatural ==
    ASSUME Finite, NEW r
    PROVE  Place(r) \in Nat
BY BeforeFinite DEF Finite, Place, Before

\* As long as no record leaves the list, none moves up in it.
LEMMA PlaceGrows ==
    ASSUME Finite', ListKept, NEW r
    PROVE  Place(r) <= Place(r)'
<1>1. \A i \in Before(nb, r) : i \in Before(nb', r)
  <2> SUFFICES ASSUME NEW d \in nb, d.dhcp,
                      d.addr < r.addr \/ (d.addr = r.addr /\ d.rid < r.rid)
               PROVE  d.rid \in Before(nb', r)
    BY DEF Before
  <2>1. PICK q \in nb' : q.dhcp /\ q.rid = d.rid /\ q.addr = d.addr
    BY DEF ListKept
  <2> QED
    BY <2>1 DEF Before
<1>2. IsFiniteSet(Before(nb', r))
  BY BeforeFinite DEF Finite
<1>3. Cardinality(Before(nb, r)) <= Cardinality(Before(nb', r))
  BY <1>1, <1>2, FS_Subset
<1> QED
  BY <1>3 DEF Place, Before

-----------------------------------------------------------------------------
(***************************************************************************)
(* PassIsExact.  The threads share records by id only, but each of them    *)
(* works on addresses of its own: a poller on those its server leases, the *)
(* listener on those with a hook.  Placed says so of every record, lease,  *)
(* call and id they hold; so what a pass has read stays true while other   *)
(* threads write.                                                          *)
(***************************************************************************)

\* An id that is held names a record of the address it was read for.
NamesSame(n, q) == \A r \in n : r.rid = q.rid => r.addr = q.addr

RecordsPlaced ==
    \A r \in nb : /\ r.by \in Source => Served[r.addr] = r.by
                  /\ r.by = Hook => r.addr \in Hooked

CallsPlaced == \A c \in calls \cup ({call} \ {NoRecord}) : c.addr \in Hooked

TargetPlaced ==
    \A r \in target \ {NoRecord} :
        r.addr = call.addr /\ NamesSame(nb, r)

PollerPlaced(s) ==
    /\ \A l \in active[s] \cup todo[s] : Served[l.addr] = s
    /\ pc[s] = "write" => Served[hand[s].addr] = s
    /\ found[s] # NoRecord =>
           /\ pc[s] = "write" /\ found[s].dhcp
           /\ found[s].addr = hand[s].addr /\ NamesSame(nb, found[s])
    /\ \A r \in current[s] : Served[r.addr] = s /\ NamesSame(nb, r)
    /\ pc[s] \in {"sleep", "fetch"} => current[s] = {} /\ listed[s] = 0
    /\ pc[s] = "sleep" => todo[s] = {} /\ active[s] = {} /\ cursor[s] = 0

Placed ==
    /\ RecordsPlaced /\ CallsPlaced /\ TargetPlaced
    /\ \A s \in Source : PollerPlaced(s)

\* Where only a poller writes there is at most one record to find, and none
\* when the poller has found none.
Single(a) ==
    /\ \A q, r \in Matches(a) : q = r
    /\ \A s \in Source :
           pc[s] = "write" /\ found[s] = NoRecord /\ hand[s].addr = a =>
               Matches(a) = {}

Plain == Addr \ (Hooked \cup Doubled)
Singles == \A a \in Plain : Single(a)

\* The active leases of s up to the address n.
LeasesUpTo(s, n) ==
    {[addr |-> a, who |-> lease[a]] :
        a \in {b \in Addr : Served[b] = s /\ lease[b] \in Client /\ b <= n}}

ActiveLeases(s) ==
    {[addr |-> a, who |-> lease[a]] :
        a \in {b \in Addr : Served[b] = s /\ lease[b] \in Client}}

\* What an undisturbed pass still has to do is all there is to do.
RestOfPass(s) ==
    /\ \A l \in todo[s] : lease[l.addr] = l.who
    /\ pc[s] = "write" => lease[hand[s].addr] = hand[s].who
    /\ \A r \in current[s] : lease[r.addr] \notin Client
    /\ \A a \in Addr : Served[a] = s /\ lease[a] \in Client =>
           \/ \E r \in Own(s) : r.addr = a /\ r.who = lease[a]
           \/ \E l \in todo[s] : l.addr = a
           \/ pc[s] = "write" /\ hand[s].addr = a
    /\ \A a \in Plain : Served[a] = s /\ lease[a] \notin Client =>
           \A r \in Matches(a) : r.by # People => r \in current[s]

\* Between two pages of the list: what is not read yet is still to come.
RestOfList(s) ==
    /\ current[s] \subseteq Own(s)
    /\ \A r \in Own(s) : r \in current[s] \/ Place(r) >= listed[s]

CleanPass(s) ==
    /\ NoCalls(s)
    /\ pc[s] = "fetch" => active[s] = LeasesUpTo(s, cursor[s])
    /\ pc[s] = "list" => active[s] = ActiveLeases(s) /\ RestOfList(s)
    /\ found[s] # NoRecord => found[s] \in nb
    /\ pc[s] \in {"sleep", "upsert", "write"} => RestOfPass(s)

CleanOK == \A s \in Source : clean[s] => CleanPass(s)
-----------------------------------------------------------------------------
(* What the writes do, and where. *)

\* Every id that is held names in n what it names in nb.
KeepsNames(n) ==
    \A r \in n : Held(r.rid) => \E q \in nb : q.rid = r.rid /\ q.addr = r.addr

\* A write for the lease l is at its address, and of the author's.
LEMMA UpsertedAt ==
    ASSUME nb \subseteq Record, NEW old \in Record \cup {NoRecord},
           NEW by \in Author, NEW l, l.addr \in Addr, l.who \in Client,
           old # NoRecord => old.addr = l.addr /\ NamesSame(nb, old),
           NEW new \in Upserted(old, by, l)
    PROVE  /\ \A r \in nb : r.addr # l.addr => r \in new
           /\ \A r \in new : r \in nb \/ (r.addr = l.addr /\ r.by = by)
           /\ KeepsNames(new)
<1>1. CASE new = nb
  BY <1>1 DEF KeepsNames
<1>2. CASE old = NoRecord
  <2>1. PICK i \in NewRid :
          new = nb \cup {[rid |-> i, addr |-> l.addr, dhcp |-> TRUE,
                          by |-> by, who |-> l.who]}
    BY <1>2 DEF Upserted
  <2>2. ~Held(i)
    BY HeldIsInHand DEF NewRid
  <2> DEFINE r0 == [rid |-> i, addr |-> l.addr, dhcp |-> TRUE, by |-> by, who |-> l.who]
  <2>3. new = nb \cup {r0} /\ r0.rid = i /\ r0.addr = l.addr /\ r0.by = by
    BY <2>1
  <2> HIDE DEF r0
  <2> QED
    BY <2>2, <2>3 DEF KeepsNames
<1>3. CASE /\ old # NoRecord
           /\ new = {IF r.rid = old.rid THEN [r EXCEPT !.by = by, !.who = l.who]
                     ELSE r : r \in nb}
  <2> DEFINE f == [r \in nb |-> IF r.rid = old.rid
                                THEN [r EXCEPT !.by = by, !.who = l.who] ELSE r]
  <2>1. new = {f[r] : r \in nb}
    BY <1>3
  <2>2. \A r \in nb : /\ f[r].rid = r.rid /\ f[r].addr = r.addr
                      /\ r.rid # old.rid => f[r] = r
                      /\ r.rid = old.rid => f[r].by = by
    BY DEF Record
  <2>3. \A r \in nb : r.rid = old.rid => r.addr = l.addr
    BY <1>3 DEF NamesSame
  <2> HIDE DEF f
  <2> QED
    BY <2>1, <2>2, <2>3 DEF KeepsNames
<1> QED
  BY <1>1, <1>2, <1>3 DEF Upserted

\* It leaves the record of the lease, unless the one to update is no more.
LEMMA UpsertedIsDone ==
    ASSUME nb \subseteq Record, NEW old \in Record \cup {NoRecord},
           NEW by \in Author, NEW l, l.addr \in Addr, l.who \in Client,
           old # NoRecord => old \in nb /\ old.dhcp /\ old.addr = l.addr,
           NEW new \in Upserted(old, by, l)
    PROVE  \E r \in new : r.addr = l.addr /\ r.dhcp /\ r.by = by /\ r.who = l.who
<1>1. CASE old # NoRecord /\ new = nb /\ old.by = by /\ old.who = l.who
  BY <1>1
<1>2. CASE old = NoRecord
  <2>1. PICK i \in NewRid :
          new = nb \cup {[rid |-> i, addr |-> l.addr, dhcp |-> TRUE,
                          by |-> by, who |-> l.who]}
    BY <1>2 DEF Upserted
  <2> DEFINE r0 == [rid |-> i, addr |-> l.addr, dhcp |-> TRUE, by |-> by, who |-> l.who]
  <2>2. r0 \in new /\ r0.addr = l.addr /\ r0.dhcp /\ r0.by = by /\ r0.who = l.who
    BY <2>1
  <2> QED
    BY <2>2
<1>3. CASE /\ old # NoRecord
           /\ new = {IF r.rid = old.rid THEN [r EXCEPT !.by = by, !.who = l.who]
                     ELSE r : r \in nb}
  <2> DEFINE r0 == [old EXCEPT !.by = by, !.who = l.who]
  <2>1. r0 \in new
    BY <1>3
  <2>2. r0.addr = l.addr /\ r0.dhcp /\ r0.by = by /\ r0.who = l.who
    BY <1>3 DEF Record
  <2> HIDE DEF r0
  <2> QED
    BY <2>1, <2>2
<1> QED
  BY <1>1, <1>2, <1>3 DEF Upserted

\* It adds to an address only what was not there.
LEMMA UpsertedSingle ==
    ASSUME nb \subseteq Record, NEW old, NEW by \in Author, NEW l,
           \A q, r \in Matches(l.addr) : q = r,
           old = NoRecord => Matches(l.addr) = {},
           NEW new \in Upserted(old, by, l), NEW q \in new, NEW r \in new,
           q.addr = l.addr, r.addr = l.addr, q.dhcp, r.dhcp
    PROVE  q = r
<1>1. CASE new = nb
  BY <1>1 DEF Matches
<1>2. CASE old = NoRecord
  <2>1. PICK i \in NewRid :
          new = nb \cup {[rid |-> i, addr |-> l.addr, dhcp |-> TRUE,
                          by |-> by, who |-> l.who]}
    BY <1>2 DEF Upserted
  <2>2. q \notin nb /\ r \notin nb
    BY <1>2 DEF Matches
  <2> QED
    BY <2>1, <2>2
<1>3. CASE new = {IF p.rid = old.rid THEN [p EXCEPT !.by = by, !.who = l.who]
                  ELSE p : p \in nb}
  <2> DEFINE f == [p \in nb |-> IF p.rid = old.rid
                                THEN [p EXCEPT !.by = by, !.who = l.who] ELSE p]
  <2>1. new = {f[p] : p \in nb}
    BY <1>3
  <2>2. \A p \in nb : f[p].addr = p.addr /\ f[p].dhcp = p.dhcp
    BY DEF Record
  <2> HIDE DEF f
  <2>3. PICK q0 \in nb, r0 \in nb : q = f[q0] /\ r = f[r0]
    BY <2>1
  <2>4. q0 \in Matches(l.addr) /\ r0 \in Matches(l.addr)
    BY <2>2, <2>3 DEF Matches
  <2> QED
    BY <2>3, <2>4
<1> QED
  BY <1>1, <1>2, <1>3 DEF Upserted

LEMMA DeletedAt ==
    ASSUME NEW q, NamesSame(nb, q)
    PROVE  /\ \A r \in nb : r.addr # q.addr => r \in Deleted(q)
           /\ Deleted(q) \subseteq nb
           /\ KeepsNames(Deleted(q))
BY DEF Deleted, NamesSame, KeepsNames

\* What a claim does: one record of an address is of people, and not dhcp.
LEMMA ClaimedAt ==
    ASSUME Types, Claim
    PROVE  \E p \in nb :
             /\ Disturbs({Served[p.addr]})
             /\ \A r \in nb : r.addr # p.addr => r \in nb'
             /\ \A r \in nb' : \/ r \in nb
                               \/ r.addr = p.addr /\ r.by = People /\ ~r.dhcp
             /\ KeepsNames(nb')
<1> DEFINE own(p) == [p EXCEPT !.dhcp = FALSE, !.by = People]
<1>1. PICK p \in nb : /\ nb' = (nb \ {p}) \cup {own(p)}
                      /\ Disturbs({Served[p.addr]})
  BY DEF Claim
<1>2. /\ own(p).rid = p.rid /\ own(p).addr = p.addr
      /\ own(p).by = People /\ own(p).dhcp = FALSE
  BY DEF Types, TypeOK, Record
<1> HIDE DEF own
<1>3. nb' = (nb \ {p}) \cup {own(p)}
  BY <1>1
<1>4. KeepsNames(nb')
  BY <1>2, <1>3 DEF KeepsNames
<1> QED
  BY <1>1, <1>2, <1>3, <1>4

-----------------------------------------------------------------------------
(* Every thread keeps to its own addresses. *)

\* s is where it was.
Idle(s) ==
    /\ pc'[s] = pc[s] /\ cursor'[s] = cursor[s] /\ active'[s] = active[s]
    /\ listed'[s] = listed[s] /\ todo'[s] = todo[s] /\ current'[s] = current[s]
    /\ hand'[s] = hand[s] /\ found'[s] = found[s]

LEMMA NamesKept ==
    ASSUME NEW n, KeepsNames(n), NEW q, Held(q.rid), NamesSame(nb, q)
    PROVE  NamesSame(n, q)
BY DEF KeepsNames, NamesSame

LEMMA IdlePlaced ==
    ASSUME Types, NEW s \in Source, PollerPlaced(s), KeepsNames(nb'), Idle(s)
    PROVE  PollerPlaced(s)'
<1>1. found[s] # NoRecord => NamesSame(nb', found[s])
  BY NamesKept DEF PollerPlaced, Held
<1>2. \A r \in current[s] : NamesSame(nb', r)
  BY NamesKept DEF PollerPlaced, Held
<1> QED
  BY <1>1, <1>2 DEF PollerPlaced, Idle

LEMMA TargetKept ==
    ASSUME TargetPlaced, KeepsNames(nb'), target' \subseteq target,
           call' = call \/ target' = {}
    PROVE  TargetPlaced'
<1>1. \A r \in target \ {NoRecord} : NamesSame(nb', r)
  BY NamesKept DEF TargetPlaced, Held
<1> QED
  BY <1>1 DEF TargetPlaced

LEMMA SleepPlaced ==
    ASSUME Types, NEW s \in Source, Sleep(s)
    PROVE  PollerPlaced(s)'
BY DEF Types, TypeOK, Sleep, PollerPlaced

\* Nothing is read in a step of the environment, and no record gets a marker.
LEMMA EnvironmentPlaced ==
    ASSUME Types, Placed, (\E a \in Addr : ChangeLease(a)) \/ LoseCall \/ Claim
    PROVE  Placed'
<1>1. UNCHANGED <<poller, listener>>
  BY DEF ChangeLease, LoseCall, Claim
<1>2. KeepsNames(nb') /\ RecordsPlaced'
  <2>1. CASE UNCHANGED nb
    BY <2>1 DEF KeepsNames, Placed, RecordsPlaced
  <2>2. CASE Claim
    BY <2>2, ClaimedAt, NamesAssumption DEF Placed, RecordsPlaced
  <2> QED
    BY <2>1, <2>2 DEF ChangeLease, LoseCall
<1>3. CallsPlaced'
  <2>1. \A c \in calls' : c \in calls \/ c.addr \in Hooked
    <3>1. ASSUME NEW a \in Addr, ChangeLease(a)
          PROVE  \A c \in calls' : c \in calls \/ c.addr \in Hooked
      BY <3>1 DEF ChangeLease
    <3> QED
      BY <3>1 DEF LoseCall, Claim
  <2> QED
    BY <1>1, <2>1 DEF Placed, CallsPlaced, listener
<1>4. TargetPlaced'
  BY <1>1, <1>2, TargetKept DEF Placed, listener
<1>5. ASSUME NEW s \in Source
      PROVE  PollerPlaced(s)'
  BY <1>1, <1>2, IdlePlaced DEF Placed, poller, Idle
<1> QED
  BY <1>2, <1>3, <1>4, <1>5 DEF Placed

\* A step of a poller concerns nobody else.
LEMMA OthersIdle ==
    ASSUME Types, NEW s \in Source, Poll(s) \/ PollFails(s)
    PROVE  /\ \A t \in Source \ {s} : /\ Idle(t)
                                      /\ clean'[t] => clean[t] /\ (Between(t) => ListKept)
           /\ Others(s)
<1> USE DEF Types, TypeOK
<1>0. UNCHANGED nb => ListKept
  BY DEF ListKept
<1> DEFINE C(t) == clean'[t] => clean[t] /\ (Between(t) => ListKept)
<1>a. ASSUME NEW dis, Disturbs(dis), NEW t \in Source
      PROVE  C(t)
  BY <1>a DEF Disturbs
<1>b. ASSUME UNCHANGED nb, NEW t \in Source, clean'[t] = clean[t]
      PROVE  C(t)
  BY <1>0, <1>b
<1> HIDE DEF C
<1>1. CASE Fetch(s)
  <2>1. UNCHANGED nb /\ \A t \in Source \ {s} : Idle(t) /\ clean'[t] = clean[t]
    BY <1>1 DEF Fetch, Idle
  <2> QED
    BY <1>1, <1>b, <2>1 DEF Fetch, C
<1>2. CASE List(s)
  <2>1. UNCHANGED <<nb, clean>> /\ \A t \in Source \ {s} : Idle(t)
    BY <1>2 DEF List, Idle
  <2> QED
    BY <1>2, <1>b, <2>1 DEF List, C
<1>3. CASE Find(s)
  <2>1. UNCHANGED <<nb, clean>> /\ \A t \in Source \ {s} : Idle(t)
    BY <1>3 DEF Find, Idle
  <2> QED
    BY <1>3, <1>b, <2>1 DEF Find, C
<1>4. CASE Write(s)
  <2>1. Disturbs({}) /\ \A t \in Source \ {s} : Idle(t)
    BY <1>4 DEF Write, Idle
  <2> QED
    BY <1>4, <1>a, <2>1 DEF Write, C
<1>5. CASE Delete(s)
  <2>1. Disturbs({}) /\ \A t \in Source \ {s} : Idle(t)
    BY <1>5 DEF Delete, Idle
  <2> QED
    BY <1>5, <1>a, <2>1 DEF Delete, C
<1>6. CASE EndPass(s)
  <2>1. UNCHANGED <<nb, clean>> /\ \A t \in Source \ {s} : Idle(t)
    BY <1>6 DEF EndPass, Sleep, Idle
  <2> QED
    BY <1>6, <1>b, <2>1 DEF EndPass, C
<1>7. CASE Abandon(s)
  <2>1. Disturbs({s}) /\ \A t \in Source \ {s} : Idle(t)
    BY <1>7 DEF Abandon, Sleep, Idle
  <2> QED
    BY <1>7, <1>a, <2>1 DEF Abandon, C
<1> QED
  BY <1>1, <1>2, <1>3, <1>4, <1>5, <1>6, <1>7 DEF Poll, Gone, PollFails

\* What a poller may do to the records.
LEMMA PollerWrites ==
    ASSUME Types, Placed, NEW s \in Source, Poll(s) \/ PollFails(s)
    PROVE  \/ UNCHANGED nb
           \/ /\ pc[s] = "write" /\ nb' \in Upserted(found[s], s, hand[s])
              /\ Write(s) \/ Sleep(s)
           \/ \E r \in current[s] : nb' = Deleted(r)
BY DEF Poll, Fetch, List, Find, Write, Delete, Gone, EndPass, PollFails, Abandon

LEMMA WriteIsOwn ==
    ASSUME Types, Placed, NEW s \in Source, pc[s] = "write"
    PROVE  /\ found[s] \in Record \cup {NoRecord} /\ s \in Author /\ nb \subseteq Record
           /\ hand[s].addr \in Addr /\ hand[s].who \in Client /\ Served[hand[s].addr] = s
           /\ found[s] # NoRecord =>
                  found[s].addr = hand[s].addr /\ NamesSame(nb, found[s])
BY NoRecordIsNone DEF Types, TypeOK, HandOK, Lease, Placed, PollerPlaced

LEMMA PollerWritesAtOwn ==
    ASSUME Types, Placed, NEW s \in Source, Poll(s) \/ PollFails(s)
    PROVE  /\ KeepsNames(nb')
           /\ \A r \in nb : Served[r.addr] # s => r \in nb'
           /\ \A r \in nb' : r \in nb \/ (Served[r.addr] = s /\ r.by = s)
<1>1. CASE UNCHANGED nb
  BY <1>1 DEF KeepsNames
<1>2. CASE pc[s] = "write" /\ nb' \in Upserted(found[s], s, hand[s])
  BY <1>2, WriteIsOwn, UpsertedAt
<1>3. ASSUME NEW r \in current[s], nb' = Deleted(r)
      PROVE  /\ KeepsNames(nb') /\ nb' \subseteq nb
             /\ \A q \in nb : Served[q.addr] # s => q \in nb'
  <2>1. NamesSame(nb, r) /\ Served[r.addr] = s
    BY DEF Placed, PollerPlaced
  <2> QED
    BY <1>3, <2>1, DeletedAt
<1> QED
  BY <1>1, <1>2, <1>3, PollerWrites

LEMMA OwnPlaced ==
    ASSUME Types, Separate, Placed, NEW s \in Source, Poll(s) \/ PollFails(s)
    PROVE  PollerPlaced(s)'
<1> USE DEF Types, TypeOK
<1> DEFINE P == PollerPlaced(s)
<1>1. P
  BY DEF Placed
<1>2. KeepsNames(nb')
  BY PollerWritesAtOwn
<1>3. \A r \in current[s] : NamesSame(nb', r)
  BY <1>1, <1>2, NamesKept DEF PollerPlaced, Held
<1>4. CASE Fetch(s)
  <2> DEFINE read == {[addr |-> a, who |-> lease[a]] :
                         a \in {b \in Page(s) : lease[b] # Ended}}
  <2>0. \A l \in read : Served[l.addr] = s
    <3>1. \A a \in Page(s) : Served[a] = s
      BY DEF Page, Rest
    <3> HIDE DEF Types, TypeOK
    <3> QED
      BY <3>1
  <2>1. active'[s] = active[s] \cup read
    <3>1. active' = [active EXCEPT ![s] = @ \cup read]
      BY <1>4 DEF Fetch
    <3> QED
      BY <3>1
  <2>2. /\ pc'[s] \in {"fetch", "list"} /\ pc[s] # "write"
        /\ pc[s] \in {"sleep", "fetch"} /\ UNCHANGED <<listed, todo, current, found>>
    BY <1>4 DEF Fetch
  <2> HIDE DEF read
  <2> QED
    BY <1>1, <1>3, <2>0, <2>1, <2>2 DEF PollerPlaced
<1>5. CASE List(s)
  <2>1. /\ todo'[s] \subseteq active[s] \cup todo[s]
        /\ current'[s] \subseteq current[s] \cup Own(s)
    BY <1>5, ListReads
  <2>2. active'[s] \subseteq active[s] /\ pc'[s] \in {"list", "upsert"}
    BY <1>5 DEF List
  <2>3. pc[s] # "write" /\ UNCHANGED <<nb, found>>
    BY <1>5 DEF List
  <2>4. \A r \in Own(s) : Served[r.addr] = s /\ NamesSame(nb, r)
    BY DEF Own, Placed, RecordsPlaced, Separate, UniqueIds, NamesSame
  <2> QED
    BY <1>1, <2>1, <2>2, <2>3, <2>4 DEF PollerPlaced
<1>6. CASE Find(s)
  <2>0. PICK l \in todo[s] : \E r \in FirstMatch(l.addr) :
        /\ todo' = [todo EXCEPT ![s] = @ \ {l}]
        /\ hand' = [hand EXCEPT ![s] = l]
        /\ found' = [found EXCEPT ![s] = r]
    BY <1>6 DEF Find
  <2>1. PICK r \in FirstMatch(l.addr) :
        /\ todo' = [todo EXCEPT ![s] = @ \ {l}]
        /\ hand' = [hand EXCEPT ![s] = l]
        /\ found' = [found EXCEPT ![s] = r]
    BY <2>0
  <2>2. r # NoRecord => r.dhcp /\ r.addr = l.addr /\ NamesSame(nb, r)
    BY DEF FirstMatch, Matches, Separate, UniqueIds, NamesSame
  <2>3. pc'[s] = "write" /\ UNCHANGED <<nb, active, current>>
    BY <1>6 DEF Find
  <2>4. /\ todo'[s] = todo[s] \ {l} /\ hand'[s] = l /\ found'[s] = r
        /\ Served[l.addr] = s
    BY <1>1, <2>1 DEF PollerPlaced
  <2> QED
    BY <1>1, <2>2, <2>3, <2>4 DEF PollerPlaced
<1>7. CASE Write(s)
  <2>1. /\ pc'[s] = "upsert" /\ found'[s] = NoRecord
        /\ UNCHANGED <<active, todo, current>>
    BY <1>7 DEF Write
  <2> QED
    BY <1>1, <1>3, <2>1 DEF PollerPlaced
<1>8. CASE Delete(s)
  <2>1. /\ current'[s] \subseteq current[s] /\ pc'[s] = "upsert"
        /\ UNCHANGED <<pc, active, todo, found, hand>>
    BY <1>8 DEF Delete
  <2> QED
    BY <1>1, <1>3, <2>1 DEF PollerPlaced
<1>9. CASE Gone(s) \/ EndPass(s) \/ PollFails(s)
  BY <1>9, SleepPlaced DEF Gone, EndPass, PollFails, Abandon
<1> QED
  BY <1>4, <1>5, <1>6, <1>7, <1>8, <1>9 DEF Poll

LEMMA PollPlaced ==
    ASSUME Types, Separate, Placed, NEW s \in Source, Poll(s) \/ PollFails(s)
    PROVE  Placed'
<1>1. KeepsNames(nb')
  BY PollerWritesAtOwn
<1>2. RecordsPlaced'
  BY PollerWritesAtOwn, NamesAssumption DEF Placed, RecordsPlaced
<1>3. UNCHANGED <<calls, call, target>>
  BY OthersIdle DEF Others, listener
<1>4. CallsPlaced' /\ TargetPlaced'
  BY <1>1, <1>3, TargetKept DEF Placed, CallsPlaced
<1>5. \A t \in Source : PollerPlaced(t)'
  BY <1>1, OthersIdle, IdlePlaced, OwnPlaced DEF Placed
<1> QED
  BY <1>2, <1>4, <1>5 DEF Placed

\* What the listener may do to the records.
LEMMA ListenerWrites ==
    ASSUME Types, Placed, DeletesOK, Listen \/ CallFails
    PROVE  \/ UNCHANGED nb
           \/ /\ call # NoRecord
              /\ KeepsNames(nb')
              /\ \A r \in nb : r.addr # call.addr => r \in nb'
              /\ \A r \in nb' : r \in nb \/ (r.addr = call.addr /\ r.by = Hook)
<1>1. ASSUME call # NoRecord, call.action = "add", NEW r \in target,
             nb' \in Upserted(r, Hook, call)
      PROVE  /\ KeepsNames(nb')
             /\ \A q \in nb : q.addr # call.addr => q \in nb'
             /\ \A q \in nb' : q \in nb \/ (q.addr = call.addr /\ q.by = Hook)
  <2>1. call.addr \in Addr /\ call.who \in Client
    BY <1>1 DEF Types, TypeOK, Call
  <2>2. Hook \in Author /\ nb \subseteq Record /\ r \in Record \cup {NoRecord}
    BY DEF Author, Types, TypeOK
  <2>3. r # NoRecord => r.addr = call.addr /\ NamesSame(nb, r)
    BY DEF Placed, TargetPlaced
  <2> QED
    BY <1>1, <2>1, <2>2, <2>3, UpsertedAt
<1>2. ASSUME call # NoRecord, call.action = "del", NEW r \in target, nb' = Deleted(r)
      PROVE  /\ KeepsNames(nb')
             /\ \A q \in nb : q.addr # call.addr => q \in nb'
             /\ nb' \subseteq nb
  <2>1. r # NoRecord
    BY <1>2, NoRecordIsNone DEF DeletesOK
  <2>2. r.addr = call.addr /\ NamesSame(nb, r)
    BY <2>1 DEF Placed, TargetPlaced
  <2> QED
    BY <1>2, <2>2, DeletedAt
<1> QED
  BY <1>1, <1>2
  DEF Listen, TakeCall, WriteCall, DeleteCall, EndDeletes, CallGone, CallFails

LEMMA ListenPlaced ==
    ASSUME Types, Separate, Placed, DeletesOK, Listen \/ CallFails
    PROVE  Placed'
<1>1. UNCHANGED poller
  BY DEF Listen, TakeCall, WriteCall, DeleteCall, EndDeletes, CallGone, CallFails, Aside
<1>2. KeepsNames(nb')
  BY ListenerWrites DEF KeepsNames
<1>3. call # NoRecord => call.addr \in Hooked
  BY DEF Placed, CallsPlaced
<1>4. RecordsPlaced'
  BY <1>3, ListenerWrites, NamesAssumption DEF Placed, RecordsPlaced
<1>5. CallsPlaced'
  BY DEF Placed, CallsPlaced, Listen, TakeCall, WriteCall, DeleteCall, EndDeletes,
         CallGone, CallFails, EndCall
<1>6. TargetPlaced'
  <2>1. CASE TakeCall
    <3>1. UNCHANGED nb
      BY <2>1 DEF TakeCall
    <3>2. \A r \in target' \ {NoRecord} : r \in Matches(call'.addr)
      BY <2>1 DEF TakeCall, FirstMatch
    <3> QED
      BY <3>1, <3>2 DEF TargetPlaced, Matches, Separate, UniqueIds, NamesSame
  <2>2. CASE ~TakeCall
    <3>1. target' \subseteq target /\ (call' = call \/ target' = {})
      BY <2>2
      DEF Listen, WriteCall, DeleteCall, EndDeletes, CallGone, CallFails, EndCall
    <3> QED
      BY <1>2, <3>1, TargetKept DEF Placed
  <2> QED
    BY <2>1, <2>2
<1>7. \A s \in Source : PollerPlaced(s)'
  BY <1>1, <1>2, IdlePlaced DEF Placed, poller, Idle
<1> QED
  BY <1>4, <1>5, <1>6, <1>7 DEF Placed

LEMMA PlacedHolds == Spec => []Placed
<1>1. Init => Placed
  <2> SUFFICES ASSUME Init
               PROVE  Placed
    OBVIOUS
  <2>1. RecordsPlaced
    BY RecordsAssumption, NamesAssumption DEF Init, RecordsPlaced
  <2>2. CallsPlaced /\ TargetPlaced
    BY DEF Init, CallsPlaced, TargetPlaced
  <2>3. \A s \in Source : PollerPlaced(s)
    BY DEF Init, PollerPlaced
  <2> QED
    BY <2>1, <2>2, <2>3 DEF Placed
<1>2. Types /\ DeletesOK /\ Separate /\ Placed /\ [Next]_vars => Placed'
  <2> SUFFICES ASSUME Types, DeletesOK, Separate, Placed, [Next]_vars
               PROVE  Placed'
    OBVIOUS
  <2>1. CASE UNCHANGED vars
    <3>1. UNCHANGED <<nb, calls, pc, cursor, active, listed, todo, current, hand, found,
                    call, target>>
      BY <2>1 DEF vars, poller, listener
    <3>2. RecordsPlaced' /\ CallsPlaced' /\ TargetPlaced'
      BY <3>1 DEF Placed, RecordsPlaced, CallsPlaced, TargetPlaced
    <3>3. \A s \in Source : PollerPlaced(s)'
      BY <3>1 DEF Placed, PollerPlaced
    <3> QED
      BY <3>2, <3>3 DEF Placed
  <2> QED
    BY <2>1, EnvironmentPlaced, PollPlaced, ListenPlaced DEF Next
<1> QED
  BY <1>1, <1>2, TypesHold, DeletesHold, SeparateHolds, PTL DEF Spec

-----------------------------------------------------------------------------
(* At a plain address there is at most one record to find. *)

LEMMA MatchesShrink ==
    ASSUME NEW a, \A r \in nb' : r.addr = a /\ r.dhcp => r \in nb
    PROVE  Matches(a)' \subseteq Matches(a)
BY DEF Matches

\* Fewer records and no poller that has found none anew.
LEMMA SingleShrinks ==
    ASSUME NEW a, Single(a), Matches(a)' \subseteq Matches(a),
           \A s \in Source :
               pc'[s] = "write" /\ found'[s] = NoRecord /\ hand'[s].addr = a =>
                   \/ Matches(a) = {}
                   \/ pc[s] = "write" /\ found[s] = NoRecord /\ hand[s].addr = a
    PROVE  Single(a)'
BY DEF Single

LEMMA EnvironmentSingle ==
    ASSUME Types, NEW a \in Plain, Single(a),
           (\E b \in Addr : ChangeLease(b)) \/ LoseCall \/ Claim
    PROVE  Single(a)'
<1>1. UNCHANGED poller
  BY DEF ChangeLease, LoseCall, Claim
<1>2. \A r \in nb' : r.addr = a /\ r.dhcp => r \in nb
  BY ClaimedAt DEF ChangeLease, LoseCall
<1> QED
  BY <1>1, <1>2, MatchesShrink, SingleShrinks DEF poller

LEMMA ListenSingle ==
    ASSUME Types, Placed, DeletesOK, NEW a \in Plain, Single(a), Listen \/ CallFails
    PROVE  Single(a)'
<1>1. UNCHANGED poller
  BY DEF Listen, TakeCall, WriteCall, DeleteCall, EndDeletes, CallGone, CallFails, Aside
<1>2. call # NoRecord => call.addr # a
  BY DEF Placed, CallsPlaced, Plain
<1>3. \A r \in nb' : r.addr = a /\ r.dhcp => r \in nb
  BY <1>2, ListenerWrites
<1> QED
  BY <1>1, <1>3, MatchesShrink, SingleShrinks DEF poller

LEMMA PollSingle ==
    ASSUME Types, Placed, NEW a \in Plain, Single(a), NEW s \in Source,
           Poll(s) \/ PollFails(s)
    PROVE  Single(a)'
<1>1. \A t \in Source \ {s} : pc'[t] = pc[t] /\ found'[t] = found[t] /\ hand'[t] = hand[t]
  BY OthersIdle DEF Idle
<1>2. CASE UNCHANGED nb
  <2>1. /\ pc'[s] = "write" /\ found'[s] = NoRecord /\ hand'[s].addr = a
        => Matches(a) = {}
    <3>1. CASE Find(s)
      <4>1. PICK l \in todo[s] : \E r \in FirstMatch(l.addr) :
              /\ hand' = [hand EXCEPT ![s] = l]
              /\ found' = [found EXCEPT ![s] = r]
        BY <3>1 DEF Find
      <4>2. PICK r \in FirstMatch(l.addr) :
              /\ hand' = [hand EXCEPT ![s] = l]
              /\ found' = [found EXCEPT ![s] = r]
        BY <4>1
      <4>3. hand'[s] = l /\ found'[s] = r
        BY <4>2 DEF Types, TypeOK
      <4>4. Matches(l.addr) # {} => NoRecord \notin FirstMatch(l.addr)
        BY NoRecordIsNone DEF FirstMatch, Matches, Types, TypeOK
      <4> QED
        BY <4>3, <4>4
    <3>2. CASE ~Find(s)
      <4>1. pc'[s] # "write"
        BY <3>2 DEF Poll, Fetch, List, Write, Delete, Gone, EndPass, PollFails, Abandon,
                    Sleep, Types, TypeOK
      <4> QED
        BY <4>1
    <3> QED
      BY <3>1, <3>2
  <2>2. Matches(a)' \subseteq Matches(a)
    BY <1>2 DEF Matches
  <2> QED
    BY <1>1, <2>1, <2>2, SingleShrinks
<1>3. CASE /\ pc[s] = "write" /\ nb' \in Upserted(found[s], s, hand[s])
           /\ Write(s) \/ Sleep(s)
  <2>1. pc'[s] # "write"
    BY <1>3 DEF Write, Sleep, Types, TypeOK
  <2>2. CASE hand[s].addr # a
    <3>1. \A r \in nb' : r.addr = a /\ r.dhcp => r \in nb
      BY <1>3, <2>2, WriteIsOwn, UpsertedAt
    <3> QED
      BY <1>1, <2>1, <3>1, MatchesShrink, SingleShrinks
  <2>3. CASE hand[s].addr = a
    <3>1. /\ \A q, r \in Matches(hand[s].addr) : q = r
          /\ found[s] = NoRecord => Matches(hand[s].addr) = {}
      BY <1>3, <2>3 DEF Single
    <3>2. nb \subseteq Record /\ s \in Author
      BY <1>3, WriteIsOwn
    <3>3. \A q, r \in Matches(a)' : q = r
      <4>1. \A q, r \in nb' : /\ q.addr = hand[s].addr /\ r.addr = hand[s].addr
                              /\ q.dhcp /\ r.dhcp
                              => q = r
        BY <1>3, <3>1, <3>2, UpsertedSingle
      <4> QED
        BY <2>3, <4>1 DEF Matches
    <3>4. \A t \in Source : pc'[t] = "write" => hand'[t].addr # a
      <4>1. Served[a] = s
        BY <1>3, <2>3, WriteIsOwn
      <4> QED
        BY <1>1, <2>1, <4>1, WriteIsOwn
    <3> QED
      BY <3>3, <3>4 DEF Single
  <2> QED
    BY <2>2, <2>3
<1>4. CASE \E r \in current[s] : nb' = Deleted(r)
  <2>1. CASE UNCHANGED nb
    BY <1>2, <2>1
  <2>2. CASE ~UNCHANGED nb
    <3>1. pc'[s] # "write"
      BY <2>2 DEF Poll, Fetch, List, Find, Write, Delete, Gone, EndPass, PollFails,
                  Abandon, Sleep, Types, TypeOK
    <3>2. Matches(a)' \subseteq Matches(a)
      BY <1>4 DEF Matches, Deleted
    <3> QED
      BY <1>1, <3>1, <3>2, SingleShrinks
  <2> QED
    BY <2>1, <2>2
<1> QED
  BY <1>2, <1>3, <1>4, PollerWrites

LEMMA SinglesHold == Spec => []Singles
<1>1. Init => Singles
  <2> SUFFICES ASSUME Init, NEW a \in Plain
               PROVE  Single(a)
    BY DEF Singles
  <2>1. \A q, r \in Matches(a) : q = r
    BY DEF Init, Matches, Plain, Doubled
  <2>2. \A s \in Source : pc[s] # "write"
    BY DEF Init
  <2> QED
    BY <2>1, <2>2 DEF Single
<1>2. Types /\ DeletesOK /\ Placed /\ Singles /\ [Next]_vars => Singles'
  <2> SUFFICES ASSUME Types, DeletesOK, Placed, Singles, [Next]_vars, NEW a \in Plain
               PROVE  Single(a)'
    BY DEF Singles
  <2>1. Single(a)
    BY DEF Singles
  <2>2. CASE UNCHANGED vars
    BY <2>1, <2>2 DEF vars, poller, Single, Matches
  <2> QED
    BY <2>1, <2>2, EnvironmentSingle, PollSingle, ListenSingle DEF Next
<1> QED
  BY <1>1, <1>2, TypesHold, DeletesHold, PlacedHolds, PTL DEF Spec

-----------------------------------------------------------------------------
(* A page is the next leases, and a short one is the last. *)

LEMMA LeastNatural ==
    ASSUME NEW T \in SUBSET Nat, T # {}
    PROVE  \E m \in T : \A n \in T : m <= n
<1>1. \E m \in T : \A n \in T : ~(<<n, m>> \in OpToRel(<, Nat))
  BY NatLessThanWellFounded, WFMin
<1>2. \A m, n \in Nat : <<n, m>> \in OpToRel(<, Nat) <=> n < m
  BY DEF OpToRel
<1>3. PICK m \in T : \A n \in T : ~(n < m)
  BY <1>1, <1>2
<1> QED
  BY <1>3

LEMMA RestIsFinite ==
    ASSUME NEW s
    PROVE  Rest(s) \subseteq Nat /\ IsFiniteSet(Rest(s))
BY AddrAssumption, FS_Subset DEF Rest

\* What comes before a lease of the page is on the page.
LEMMA PageIsNext ==
    ASSUME NEW s, NEW last \in Page(s), NEW a \in Rest(s), a <= last
    PROVE  a \in Page(s)
<1> DEFINE before(x) == {b \in Rest(s) : b < x}
<1>1. last \in Rest(s) /\ Cardinality(before(last)) < PageLimit
  BY DEF Page
<1>2. before(a) \subseteq before(last)
  BY <1>1, RestIsFinite
<1>3. IsFiniteSet(before(last))
  BY RestIsFinite, FS_Subset
<1>4. /\ Cardinality(before(a)) <= Cardinality(before(last))
      /\ IsFiniteSet(before(a))
  BY <1>2, <1>3, FS_Subset
<1>5. Cardinality(before(a)) \in Nat /\ Cardinality(before(last)) \in Nat
  BY <1>3, <1>4, FS_CardinalityType
<1> HIDE DEF before
<1>6. Cardinality(before(a)) < PageLimit
  BY <1>1, <1>4, <1>5, PageAssumption
<1> QED
  BY <1>6 DEF Page, before

LEMMA ShortPageIsLast ==
    ASSUME NEW s, Cardinality(Page(s)) < PageLimit
    PROVE  Page(s) = Rest(s)
<1>1. Page(s) \subseteq Rest(s)
  BY DEF Page
<1>2. ASSUME Rest(s) \ Page(s) # {}
      PROVE  FALSE
  <2>1. PICK m \in Rest(s) \ Page(s) : \A n \in Rest(s) \ Page(s) : m <= n
    BY <1>2, RestIsFinite, LeastNatural
  <2> DEFINE before == {b \in Rest(s) : b < m}
  <2>2. before \subseteq Page(s)
    BY <2>1, RestIsFinite
  <2>3. IsFiniteSet(Page(s))
    BY <1>1, RestIsFinite, FS_Subset
  <2>4. IsFiniteSet(before) /\ Cardinality(before) <= Cardinality(Page(s))
    BY <2>2, <2>3, FS_Subset
  <2>5. Cardinality(before) \in Nat /\ Cardinality(Page(s)) \in Nat
    BY <2>3, <2>4, FS_CardinalityType
  <2>6. ~(Cardinality(before) < PageLimit)
    BY <2>1 DEF Page
  <2> HIDE DEF before
  <2> QED
    BY <2>4, <2>5, <2>6, PageAssumption
<1> QED
  BY <1>1, <1>2

-----------------------------------------------------------------------------
(* What a clean pass has read stays true. *)

\* The records at the addresses of s are as they were.
SameRecords(s) == \A r : Served[r.addr] = s => (r \in nb' <=> r \in nb)

SameLeases(s) == \A a \in Addr : Served[a] = s => lease'[a] = lease[a]

LEMMA CleanFrame ==
    ASSUME Types, Placed, Placed', Finite, Finite', NEW s \in Source, CleanPass(s),
           NoCalls(s)', Idle(s), SameRecords(s), SameLeases(s),
           Between(s) => ListKept
    PROVE  CleanPass(s)'
<1> USE DEF Types, TypeOK
<1>1. \A n : LeasesUpTo(s, n)' = LeasesUpTo(s, n)
  <2>1. \A n : {b \in Addr : Served[b] = s /\ lease'[b] \in Client /\ b <= n}
               = {b \in Addr : Served[b] = s /\ lease[b] \in Client /\ b <= n}
    BY DEF SameLeases
  <2> QED
    BY <2>1 DEF LeasesUpTo, SameLeases
<1>2. ActiveLeases(s)' = ActiveLeases(s)
  <2>1. {b \in Addr : Served[b] = s /\ lease'[b] \in Client}
        = {b \in Addr : Served[b] = s /\ lease[b] \in Client}
    BY DEF SameLeases
  <2> QED
    BY <2>1 DEF ActiveLeases, SameLeases
<1>3. found[s] # NoRecord => (found[s] \in nb => found[s] \in nb')
  BY WriteIsOwn DEF SameRecords, Placed, PollerPlaced
<1>4. /\ \A l \in todo[s] : l.addr \in Addr /\ Served[l.addr] = s
      /\ pc[s] = "write" => hand[s].addr \in Addr /\ Served[hand[s].addr] = s
      /\ \A r \in current[s] : r.addr \in Addr /\ Served[r.addr] = s
  BY WriteIsOwn DEF Placed, PollerPlaced, Lease, Record
<1>5. \A a \in Addr : Served[a] = s => Matches(a)' = Matches(a)
  BY DEF SameRecords, Matches
<1>6. \A r : r \in Own(s) /\ Served[r.addr] = s => r \in Own(s)'
  BY DEF SameRecords, Own
<1>8. ASSUME pc[s] = "list", RestOfList(s)
      PROVE  RestOfList(s)'
  <2>1. \A r \in Own(s) : r.addr \in Addr /\ Served[r.addr] = s
    BY DEF Own, Placed, RecordsPlaced, Record
  <2>2. \A r \in Own(s)' : r \in Own(s)
    <3>1. \A r \in Own(s)' : r \in nb' /\ r.dhcp /\ r.by = s /\ Served[r.addr] = s
      BY DEF Own, Placed, RecordsPlaced
    <3> QED
      BY <3>1 DEF Own, SameRecords
  <2>3. current'[s] = current[s] /\ listed'[s] = listed[s] /\ listed[s] \in Nat
    BY DEF Idle
  <2>4. ASSUME NEW r \in Own(s), Place(r) >= listed[s]
        PROVE  Place(r)' >= listed[s]
    <3>1. Place(r) \in Nat /\ Place(r)' \in Nat
      BY PlaceIsNatural, BeforeFinite DEF Finite, Place, Before
    <3>2. CASE listed[s] = 0
      BY <3>1, <3>2
    <3>3. CASE listed[s] # 0
      <4>1. Place(r) <= Place(r)'
        BY <1>8, <2>3, <3>3, PlaceGrows DEF Between
      <4> HIDE DEF Types, TypeOK
      <4> QED
        BY <2>3, <2>4, <3>1, <4>1
    <3> QED
      BY <3>2, <3>3
  <2> QED
    BY <1>6, <1>8, <2>1, <2>2, <2>3, <2>4 DEF RestOfList
<1>7. ASSUME RestOfPass(s)
      PROVE  RestOfPass(s)'
  <2>1. \A l \in todo'[s] : lease'[l.addr] = l.who
    BY <1>4, <1>7 DEF RestOfPass, SameLeases, Idle
  <2>2. pc'[s] = "write" => lease'[hand'[s].addr] = hand'[s].who
    BY <1>4, <1>7 DEF RestOfPass, SameLeases, Idle
  <2>3. \A r \in current'[s] : lease'[r.addr] \notin Client
    BY <1>4, <1>7 DEF RestOfPass, SameLeases, Idle
  <2>4. ASSUME NEW a \in Addr, Served[a] = s, lease'[a] \in Client
        PROVE  \/ \E r \in Own(s)' : r.addr = a /\ r.who = lease'[a]
               \/ \E l \in todo'[s] : l.addr = a
               \/ pc'[s] = "write" /\ hand'[s].addr = a
    BY <1>6, <1>7, <2>4 DEF RestOfPass, SameLeases, Idle
  <2>5. ASSUME NEW a \in Plain, Served[a] = s, lease'[a] \notin Client
        PROVE  \A r \in Matches(a)' : r.by # People => r \in current'[s]
    BY <1>5, <1>7, <2>5 DEF RestOfPass, SameLeases, Idle, Plain
  <2> QED
    BY <2>1, <2>2, <2>3, <2>4, <2>5 DEF RestOfPass
<1> QED
  BY <1>1, <1>2, <1>3, <1>7, <1>8 DEF CleanPass, Idle

\* An address of a clean source rests while leases change and people claim.
LEMMA EnvironmentClean ==
    ASSUME Types, Placed, Placed', Finite, Finite', CleanOK, NEW s \in Source, clean'[s],
           (\E a \in Addr : ChangeLease(a)) \/ LoseCall \/ Claim
    PROVE  CleanPass(s)'
<1>1. Idle(s) /\ UNCHANGED <<call, target>>
  BY DEF ChangeLease, LoseCall, Claim, poller, listener, Idle
<1>2. CASE \E a \in Addr : ChangeLease(a)
  <2>1. PICK a \in Addr : ChangeLease(a)
    BY <1>2
  <2>2. Served[a] # s /\ clean[s]
    BY <2>1, ServedAssumption DEF ChangeLease, Types, TypeOK
  <2>3. SameLeases(s) /\ SameRecords(s) /\ ListKept
    BY <2>1, <2>2 DEF ChangeLease, SameLeases, SameRecords, ListKept, Types, TypeOK
  <2>4. \A c \in calls' : c \in calls \/ c.addr = a
    BY <2>1 DEF ChangeLease
  <2>5. CleanPass(s)
    BY <2>2 DEF CleanOK
  <2>6. NoCalls(s)'
    BY <1>1, <2>2, <2>4, <2>5 DEF CleanPass, NoCalls
  <2> QED
    BY <1>1, <2>3, <2>5, <2>6, CleanFrame
<1>3. CASE LoseCall
  <2>1. UNCHANGED <<lease, nb, clean>> /\ calls' \subseteq calls
    BY <1>3 DEF LoseCall
  <2>2. CleanPass(s)
    BY <2>1 DEF CleanOK
  <2>3. NoCalls(s)'
    BY <1>1, <2>1, <2>2 DEF CleanPass, NoCalls
  <2> QED
    BY <1>1, <2>1, <2>2, <2>3, CleanFrame DEF SameLeases, SameRecords, ListKept
<1>4. CASE Claim
  <2>1. PICK p \in nb :
             /\ Disturbs({Served[p.addr]})
             /\ \A r \in nb : r.addr # p.addr => r \in nb'
             /\ \A r \in nb' : r \in nb \/ r.addr = p.addr
    BY <1>4, ClaimedAt
  <2>2. p.addr \in Addr
    BY DEF Types, TypeOK, Record
  <2>3. Served[p.addr] # s /\ clean[s] /\ (Between(s) => ListKept)
    BY <2>1 DEF Disturbs
  <2>4. CleanPass(s)
    BY <2>3 DEF CleanOK
  <2>5. UNCHANGED <<lease, calls>>
    BY <1>4 DEF Claim
  <2>6. NoCalls(s)'
    BY <1>1, <2>4, <2>5 DEF CleanPass, NoCalls
  <2>7. SameRecords(s) /\ SameLeases(s)
    BY <2>1, <2>3, <2>5 DEF SameRecords, SameLeases
  <2> QED
    BY <1>1, <2>3, <2>4, <2>6, <2>7, CleanFrame
<1> QED
  BY <1>2, <1>3, <1>4

LEMMA ListenClean ==
    ASSUME Types, Placed, Placed', Finite, Finite', DeletesOK, CleanOK,
           NEW s \in Source, clean'[s],
           Listen \/ CallFails
    PROVE  CleanPass(s)'
<1>1. Idle(s) /\ UNCHANGED lease /\ Disturbs({})
  BY DEF Listen, TakeCall, WriteCall, DeleteCall, EndDeletes, CallGone, CallFails,
         Aside, poller, Idle
<1>2. CleanPass(s) /\ (Between(s) => ListKept)
  BY <1>1 DEF CleanOK, Disturbs
<1>3. NoCalls(s)'
  BY <1>2 DEF CleanPass, NoCalls, Listen, TakeCall, WriteCall, DeleteCall, EndDeletes,
         CallGone, CallFails, EndCall
<1>4. call # NoRecord => Served[call.addr] # s
  BY <1>2 DEF CleanPass, NoCalls
<1>5. SameRecords(s)
  BY <1>4, ListenerWrites DEF SameRecords
<1> QED
  BY <1>1, <1>2, <1>3, <1>5, CleanFrame DEF SameLeases

\* Another source works at other addresses.
LEMMA OtherPollClean ==
    ASSUME Types, Placed, Placed', Finite, Finite', CleanOK, NEW s \in Source, clean'[s],
           NEW t \in Source \ {s}, Poll(t) \/ PollFails(t)
    PROVE  CleanPass(s)'
<1>1. /\ Idle(s) /\ UNCHANGED <<lease, calls, call>>
      /\ clean[s] /\ (Between(s) => ListKept)
  BY OthersIdle DEF Others, listener
<1>2. CleanPass(s)
  BY <1>1 DEF CleanOK
<1>3. NoCalls(s)'
  BY <1>1, <1>2 DEF CleanPass, NoCalls
<1>4. SameRecords(s)
  BY PollerWritesAtOwn DEF SameRecords
<1> QED
  BY <1>1, <1>2, <1>3, <1>4, CleanFrame DEF SameLeases

\* A pass reads what there is, page by page,
LEMMA FetchClean ==
    ASSUME Types, Placed, Finite', CleanOK, NEW s \in Source, Fetch(s), clean'[s]
    PROVE  CleanPass(s)'
<1> USE DEF Types, TypeOK
<1> DEFINE read == {[addr |-> a, who |-> lease[a]] :
                       a \in {b \in Page(s) : lease[b] # Ended}}
<1>1. /\ pc[s] \in {"sleep", "fetch"} /\ found[s] = NoRecord
      /\ UNCHANGED <<nb, found, lease, calls, call>>
  <2>1. pc[s] \in {"sleep", "fetch"} /\ UNCHANGED <<nb, found, lease, calls, call>>
    BY DEF Fetch, Others, listener
  <2> QED
    BY <2>1 DEF Placed, PollerPlaced
<1>2. NoCalls(s)
  BY <1>1 DEF Fetch, CleanOK, CleanPass
<1>3. active[s] = LeasesUpTo(s, cursor[s])
  <2>1. CASE pc[s] = "sleep"
    <3>1. active[s] = {} /\ cursor[s] = 0
      BY <2>1 DEF Placed, PollerPlaced
    <3>2. {b \in Addr : Served[b] = s /\ lease[b] \in Client /\ b <= 0} = {}
      BY AddrAssumption
    <3> HIDE DEF Types, TypeOK
    <3> QED
      BY <3>1, <3>2 DEF LeasesUpTo
  <2>2. CASE pc[s] = "fetch"
    <3>1. clean[s]
      BY <2>2 DEF Fetch
    <3> QED
      BY <2>2, <3>1 DEF CleanOK, CleanPass
  <2> QED
    BY <1>1, <2>1, <2>2
<1>4. active'[s] = active[s] \cup read
  <2>1. active' = [active EXCEPT ![s] = @ \cup read]
    BY DEF Fetch
  <2> QED
    BY <2>1
<1>5. /\ cursor[s] \in Nat /\ Addr \subseteq Nat
      /\ \A a \in Addr : lease[a] \in Client <=> lease[a] # NoLease /\ lease[a] # Ended
  <2>0. cursor[s] \in Addr \cup {0}
    OBVIOUS
  <2>1. \A a \in Addr : lease[a] \in Client \cup {Ended, NoLease}
    OBVIOUS
  <2> HIDE DEF Types, TypeOK
  <2>2. Addr \subseteq Nat
    BY AddrAssumption
  <2>3. cursor[s] \in Nat
    <3>1. 0 \in Nat
      OBVIOUS
    <3> QED
      BY <2>0, <2>2, <3>1, Zenon
  <2>4. NoLease \notin Client /\ Ended \notin Client
    BY NamesAssumption
  <2>5. ASSUME NEW a \in Addr
        PROVE  lease[a] \in Client <=> lease[a] # NoLease /\ lease[a] # Ended
    BY <2>1, <2>4, Zenon
  <2> QED
    BY <2>2, <2>3, <2>5
<1>6. Page(s) \subseteq Rest(s)
  BY DEF Page
<1>7. CASE Cardinality(Page(s)) < PageLimit
  <2>1. pc'[s] = "list"
    BY <1>7 DEF Fetch
  <2>2. {b \in Addr : Served[b] = s /\ lease[b] \in Client}
        = {b \in Addr : Served[b] = s /\ lease[b] \in Client /\ b <= cursor[s]}
            \cup {b \in Page(s) : lease[b] # Ended}
    <3>1. \A b \in Addr : Served[b] = s /\ lease[b] \in Client =>
            b <= cursor[s] \/ b \in Rest(s)
      <4> HIDE DEF Types, TypeOK
      <4> SUFFICES ASSUME NEW b \in Addr, Served[b] = s, lease[b] \in Client,
                          ~(b > cursor[s])
                   PROVE  b <= cursor[s]
        BY <1>5, Zenon DEF Rest
      <4>1. b \in Nat /\ cursor[s] \in Nat
        BY <1>5, Zenon
      <4> QED
        BY <4>1
    <3>2. \A b \in Rest(s) : b \in Addr /\ Served[b] = s /\ lease[b] # NoLease
      BY DEF Rest
    <3>3. Page(s) = Rest(s)
      BY <1>7, ShortPageIsLast
    <3> HIDE DEF Types, TypeOK
    <3> QED
      BY <1>5, <3>1, <3>2, <3>3
  <2>3. active'[s] = ActiveLeases(s)
    <3> HIDE DEF Types, TypeOK
    <3> QED
      BY <1>3, <1>4, <2>2 DEF LeasesUpTo, ActiveLeases
  <2>4. ActiveLeases(s)' = ActiveLeases(s)
    BY <1>1 DEF ActiveLeases
  <2>5. RestOfList(s)'
    <3>1. current'[s] = {} /\ listed'[s] = 0
      BY <1>1 DEF Fetch, Placed, PollerPlaced
    <3>2. \A r : Place(r)' \in Nat
      BY BeforeFinite DEF Finite, Place, Before
    <3> QED
      BY <3>1, <3>2 DEF RestOfList
  <2> QED
    BY <1>1, <1>2, <2>1, <2>3, <2>4, <2>5 DEF CleanPass, NoCalls
<1>8. CASE ~(Cardinality(Page(s)) < PageLimit)
  <2>1. PICK last \in Page(s) :
          (\A b \in Page(s) : b <= last) /\ cursor' = [cursor EXCEPT ![s] = last]
    BY <1>8 DEF Fetch
  <2>2. pc'[s] = "fetch" /\ cursor'[s] = last
    BY <1>8, <2>1 DEF Fetch
  <2>3. last \in Nat /\ cursor[s] < last
    BY <1>5, <1>6 DEF Rest
  <2>4. {b \in Addr : Served[b] = s /\ lease[b] \in Client /\ b <= last}
        = {b \in Addr : Served[b] = s /\ lease[b] \in Client /\ b <= cursor[s]}
            \cup {b \in Page(s) : lease[b] # Ended}
    <3>1. \A b \in Rest(s) : b \in Page(s) <=> b <= last
      BY <2>1, PageIsNext
    <3>2. \A b \in Addr : Served[b] = s /\ lease[b] \in Client =>
            b <= cursor[s] \/ b \in Rest(s)
      <4> HIDE DEF Types, TypeOK
      <4> QED
        BY <1>5 DEF Rest
    <3>3. \A b \in Rest(s) : b \in Addr /\ Served[b] = s /\ lease[b] # NoLease
      BY DEF Rest
    <3>4. \A b \in Addr : b <= cursor[s] => b <= last
      <4> HIDE DEF Types, TypeOK
      <4> QED
        BY <1>5, <2>3
    <3>5. \A b \in Page(s) : b \in Rest(s) /\ b <= last
      BY <1>6, <2>1
    <3> HIDE DEF Types, TypeOK
    <3> QED
      BY <1>5, <3>1, <3>2, <3>3, <3>4, <3>5
  <2>5. active'[s] = LeasesUpTo(s, last)
    <3> HIDE DEF Types, TypeOK
    <3> QED
      BY <1>3, <1>4, <2>4 DEF LeasesUpTo
  <2>6. LeasesUpTo(s, last)' = LeasesUpTo(s, last)
    BY <1>1 DEF LeasesUpTo
  <2> QED
    BY <1>1, <1>2, <2>2, <2>5, <2>6 DEF CleanPass, NoCalls
<1> QED
  BY <1>7, <1>8

\* lists the records of the source, page by page,
LEMMA ListMoreClean ==
    ASSUME Types, Placed, Finite, CleanOK, NEW s \in Source, List(s), clean'[s],
           More(listed[s])
    PROVE  CleanPass(s)'
<1>1. /\ pc[s] = "list" /\ pc'[s] = "list" /\ clean[s] /\ active'[s] = active[s]
      /\ UNCHANGED <<nb, found, lease, calls, call>>
      /\ current'[s] = current[s] \cup (Own(s) \cap ListPage(listed[s]))
      /\ listed'[s] = listed[s] + ListLimit
  BY DEF List, Others, listener, Types, TypeOK
<1>2. /\ NoCalls(s) /\ active[s] = ActiveLeases(s) /\ found[s] = NoRecord
      /\ RestOfList(s)
  BY <1>1 DEF CleanOK, CleanPass, Placed, PollerPlaced
<1>3. /\ Own(s)' = Own(s) /\ ActiveLeases(s)' = ActiveLeases(s) /\ NoCalls(s)'
      /\ \A r : Place(r)' = Place(r)
  BY <1>1, <1>2 DEF Own, ActiveLeases, NoCalls, Place
<1>4. ASSUME NEW r \in Own(s), r \notin current'[s]
      PROVE  Place(r) >= listed'[s]
  <2>1. Place(r) >= listed[s]
    BY <1>1, <1>2, <1>4 DEF RestOfList
  <2>2. Place(r) \notin listed[s]..(listed[s] + ListLimit - 1)
    BY <1>1, <1>4 DEF ListPage, Own
  <2>3. Place(r) \in Nat /\ listed[s] \in Nat /\ ListLimit \in Nat
    BY PlaceIsNatural, PageAssumption DEF Types, TypeOK
  <2> QED
    BY <1>1, <2>1, <2>2, <2>3
<1>5. RestOfList(s)'
  BY <1>1, <1>2, <1>3, <1>4 DEF RestOfList
<1> QED
  BY <1>1, <1>2, <1>3, <1>5 DEF CleanPass

\* On the last page it has read all of them.
LEMMA ListIsComplete ==
    ASSUME Types, Finite, NEW s \in Source, RestOfList(s), ~More(listed[s])
    PROVE  current[s] \cup (Own(s) \cap ListPage(listed[s])) = Own(s)
<1>1. ASSUME NEW r \in Own(s), r \notin current[s]
      PROVE  r \in ListPage(listed[s])
  <2>1. Place(r) >= listed[s] /\ r \in nb /\ r.dhcp
    BY <1>1 DEF RestOfList, Own
  <2>2. ~(Place(r) >= listed[s] + ListLimit)
    BY <2>1 DEF More
  <2>3. Place(r) \in Nat /\ listed[s] \in Nat /\ ListLimit \in Nat
    BY PlaceIsNatural, PageAssumption DEF Types, TypeOK
  <2>4. Place(r) \in listed[s]..(listed[s] + ListLimit - 1)
    BY <2>1, <2>2, <2>3
  <2> QED
    BY <2>1, <2>4 DEF ListPage
<1> QED
  BY <1>1 DEF RestOfList

\* compares them with the leases,
LEMMA ListClean ==
    ASSUME Types, Placed, Finite, Singles, CleanOK, NEW s \in Source, List(s), clean'[s]
    PROVE  CleanPass(s)'
<1> USE DEF Types, TypeOK
<1>a. SUFFICES ASSUME ~More(listed[s])
               PROVE  CleanPass(s)'
  BY ListMoreClean
<1>0. current[s] \cup (Own(s) \cap ListPage(listed[s])) = Own(s)
  <2>1. RestOfList(s)
    BY DEF List, CleanOK, CleanPass
  <2> QED
    BY <1>a, <2>1, ListIsComplete
<1>1. PICK kept \in OnePerAddress(Own(s)) :
        /\ todo' = [todo EXCEPT ![s] = {l \in active[s] :
               ~\E r \in kept : r.addr = l.addr /\ r.who = l.who}]
        /\ current' = [current EXCEPT ![s] =
               {r \in kept : ~\E l \in active[s] : l.addr = r.addr}]
  BY <1>a, <1>0 DEF List
<1>2. /\ todo'[s] =
           {l \in active[s] : ~\E r \in kept : r.addr = l.addr /\ r.who = l.who}
      /\ current'[s] = {r \in kept : ~\E l \in active[s] : l.addr = r.addr}
  BY <1>1
<1>3. /\ pc[s] = "list" /\ pc'[s] = "upsert" /\ clean[s]
      /\ UNCHANGED <<nb, found, lease, calls, call>>
  BY <1>a DEF List, Others, listener
<1>4. NoCalls(s) /\ active[s] = ActiveLeases(s) /\ found[s] = NoRecord
  BY <1>3 DEF CleanOK, CleanPass, Placed, PollerPlaced
<1>5. /\ kept \subseteq Own(s)
      /\ \A r \in Own(s) : \E q \in kept : q.addr = r.addr
  <2>1. /\ kept \subseteq Own(s)
        /\ {r.addr : r \in kept} = {r.addr : r \in Own(s)}
    BY DEF OnePerAddress
  <2>2. \A r \in Own(s) : r.addr \in {q.addr : q \in kept}
    BY <2>1
  <2> QED
    BY <2>1, <2>2
<1>6. /\ \A l \in active[s] : l.addr \in Addr /\ lease[l.addr] = l.who /\ l.who \in Client
      /\ \A a \in Addr : Served[a] = s /\ lease[a] \in Client =>
             \E l \in active[s] : l.addr = a /\ l.who = lease[a]
  <2> HIDE DEF Types, TypeOK
  <2>1. \A l \in ActiveLeases(s) :
          l.addr \in Addr /\ lease[l.addr] = l.who /\ l.who \in Client
    BY DEF ActiveLeases
  <2>2. ASSUME NEW a \in Addr, Served[a] = s, lease[a] \in Client
        PROVE  \E l \in ActiveLeases(s) : l.addr = a /\ l.who = lease[a]
    <3>1. [addr |-> a, who |-> lease[a]] \in ActiveLeases(s)
      BY <2>2 DEF ActiveLeases
    <3> QED
      BY <3>1
  <2> QED
    BY <1>4, <2>1, <2>2
<1>7. \A r \in Own(s) : r \in nb /\ r.dhcp /\ r.addr \in Addr /\ Served[r.addr] = s
  BY DEF Own, Placed, RecordsPlaced, Record
<1>8. \A l \in todo'[s] : lease[l.addr] = l.who
  BY <1>2, <1>6
<1>9. \A r \in current'[s] : lease[r.addr] \notin Client
  BY <1>2, <1>5, <1>6, <1>7
<1>10. ASSUME NEW a \in Addr, Served[a] = s, lease[a] \in Client
       PROVE  \/ \E r \in Own(s) : r.addr = a /\ r.who = lease[a]
              \/ \E l \in todo'[s] : l.addr = a
  <2>1. PICK l \in active[s] : l.addr = a /\ l.who = lease[a]
    BY <1>6, <1>10
  <2> QED
    BY <1>2, <1>5, <2>1
<1>11. ASSUME NEW a \in Plain, Served[a] = s, lease[a] \notin Client,
              NEW r \in Matches(a), r.by # People
       PROVE  r \in current'[s]
  <2>1. r \in nb /\ r.addr = a /\ r.dhcp /\ r.by \in Author /\ a \in Addr
    BY DEF Matches, Record, Plain
  <2>2. r.by = s
    BY <1>11, <2>1 DEF Plain, Author, Placed, RecordsPlaced
  <2>3. r \in Own(s)
    BY <2>1, <2>2 DEF Own
  <2>4. PICK q \in kept : q.addr = a
    BY <1>5, <2>1, <2>3
  <2>5. q \in Matches(a)
    BY <1>5, <1>7, <2>4 DEF Matches
  <2>6. q = r
    BY <2>5 DEF Singles, Single
  <2>7. ~\E l \in active[s] : l.addr = a
    BY <1>6, <1>11
  <2> QED
    BY <1>2, <2>1, <2>4, <2>6, <2>7
<1>12. Own(s)' = Own(s) /\ \A a : Matches(a)' = Matches(a)
  BY <1>3 DEF Own, Matches
<1>13. RestOfPass(s)'
  BY <1>3, <1>8, <1>9, <1>10, <1>11, <1>12 DEF RestOfPass
<1> QED
  BY <1>3, <1>4, <1>13 DEF CleanPass, NoCalls

\* and does what is to be done, lease by lease
LEMMA FindClean ==
    ASSUME Types, Placed, CleanOK, NEW s \in Source, Find(s), clean'[s]
    PROVE  CleanPass(s)'
<1> USE DEF Types, TypeOK
<1>1. PICK l \in todo[s] : \E r \in FirstMatch(l.addr) :
        /\ todo' = [todo EXCEPT ![s] = @ \ {l}]
        /\ hand' = [hand EXCEPT ![s] = l]
        /\ found' = [found EXCEPT ![s] = r]
  BY DEF Find
<1>2. PICK r \in FirstMatch(l.addr) :
        /\ todo' = [todo EXCEPT ![s] = @ \ {l}]
        /\ hand' = [hand EXCEPT ![s] = l]
        /\ found' = [found EXCEPT ![s] = r]
  BY <1>1
<1>3. todo'[s] = todo[s] \ {l} /\ hand'[s] = l /\ found'[s] = r
  BY <1>2
<1>4. /\ pc[s] = "upsert" /\ pc'[s] = "write" /\ clean[s]
      /\ UNCHANGED <<nb, current, lease, calls, call>>
  BY DEF Find, Others, listener
<1>5. NoCalls(s) /\ RestOfPass(s)
  BY <1>4 DEF CleanOK, CleanPass
<1>6. r # NoRecord => r \in nb
  BY DEF FirstMatch, Matches
<1>7. Own(s)' = Own(s) /\ \A a : Matches(a)' = Matches(a)
  BY <1>4 DEF Own, Matches
<1>8. RestOfPass(s)'
  BY <1>3, <1>4, <1>5, <1>7 DEF RestOfPass
<1> QED
  BY <1>3, <1>4, <1>5, <1>6, <1>8 DEF CleanPass, NoCalls

LEMMA WriteClean ==
    ASSUME Types, Placed, CleanOK, NEW s \in Source, Write(s), clean'[s]
    PROVE  CleanPass(s)'
<1> USE DEF Types, TypeOK
<1> DEFINE h == hand[s].addr
<1>1. /\ pc[s] = "write" /\ pc'[s] = "upsert" /\ clean[s] /\ found'[s] = NoRecord
      /\ nb' \in Upserted(found[s], s, hand[s])
      /\ UNCHANGED <<todo, current, lease, calls, call>>
  BY DEF Write, Disturbs, Others, listener
<1>2. NoCalls(s) /\ RestOfPass(s) /\ (found[s] # NoRecord => found[s] \in nb)
  BY <1>1 DEF CleanOK, CleanPass
<1>3. /\ h \in Addr /\ hand[s].who \in Client /\ lease[h] = hand[s].who
      /\ found[s] # NoRecord => found[s].addr = h /\ found[s].dhcp
  BY <1>1, <1>2, WriteIsOwn DEF RestOfPass, Placed, PollerPlaced
<1>4. /\ \A r \in nb : r.addr # h => r \in nb'
      /\ \A r \in nb' : r \in nb \/ r.addr = h
  <2> HIDE DEF Types, TypeOK
  <2> QED
    BY <1>1, WriteIsOwn, UpsertedAt
<1>5. PICK done \in nb' : done.addr = h /\ done.dhcp /\ done.by = s /\ done.who = lease[h]
  <2> HIDE DEF Types, TypeOK
  <2>1. \E r \in nb' : r.addr = h /\ r.dhcp /\ r.by = s /\ r.who = hand[s].who
    BY <1>1, <1>2, <1>3, WriteIsOwn, UpsertedIsDone
  <2> QED
    BY <1>3, <2>1
<1>6. done \in Own(s)'
  BY <1>5 DEF Own
<1>7. \A r \in Own(s) : r.addr # h => r \in Own(s)'
  BY <1>4 DEF Own
<1>8. \A a \in Addr : a # h => Matches(a)' \subseteq Matches(a)
  BY <1>4 DEF Matches
<1> HIDE DEF h
<1>9. ASSUME NEW a \in Addr, Served[a] = s, lease[a] \in Client
      PROVE  \/ \E r \in Own(s)' : r.addr = a /\ r.who = lease[a]
             \/ \E l \in todo[s] : l.addr = a
  <2>1. CASE a = h
    BY <1>5, <1>6, <2>1
  <2>2. CASE a # h
    BY <1>2, <1>7, <1>9, <2>2 DEF RestOfPass, h
  <2> QED
    BY <2>1, <2>2
<1>10. ASSUME NEW a \in Plain, Served[a] = s, lease[a] \notin Client
       PROVE  \A r \in Matches(a)' : r.by # People => r \in current[s]
  <2>1. a # h /\ a \in Addr
    BY <1>3, <1>10 DEF Plain
  <2> QED
    BY <1>2, <1>8, <1>10, <2>1 DEF RestOfPass
<1>11. RestOfPass(s)'
  BY <1>1, <1>2, <1>9, <1>10 DEF RestOfPass
<1> QED
  BY <1>1, <1>2, <1>11 DEF CleanPass, NoCalls

\* and record by record.
LEMMA DeleteClean ==
    ASSUME Types, Placed, CleanOK, NEW s \in Source, Delete(s), clean'[s]
    PROVE  CleanPass(s)'
<1> USE DEF Types, TypeOK
<1>1. PICK r \in current[s] : nb' = Deleted(r) /\ current' = [current EXCEPT ![s] = @ \ {r}]
  BY DEF Delete
<1>2. /\ pc[s] = "upsert" /\ pc'[s] = "upsert" /\ clean[s]
      /\ UNCHANGED <<todo, found, lease, calls, call>>
  BY DEF Delete, Disturbs, Others, listener
<1>3. NoCalls(s) /\ RestOfPass(s) /\ found[s] = NoRecord
  BY <1>2 DEF CleanOK, CleanPass, Placed, PollerPlaced
<1>4. lease[r.addr] \notin Client /\ NamesSame(nb, r)
  BY <1>3 DEF RestOfPass, Placed, PollerPlaced
<1>5. \A q \in nb : q.addr # r.addr => q \in nb'
  BY <1>1, <1>4, DeletedAt
<1>6. \A q \in nb' : q \in nb /\ q # r
  BY <1>1 DEF Deleted
<1>7. current'[s] = current[s] \ {r}
  BY <1>1
<1>8. ASSUME NEW a \in Addr, Served[a] = s, lease[a] \in Client
      PROVE  \/ \E q \in Own(s)' : q.addr = a /\ q.who = lease[a]
             \/ \E l \in todo[s] : l.addr = a
  <2>1. \A q \in Own(s) : q.addr = a => q \in Own(s)'
    BY <1>4, <1>5, <1>8 DEF Own
  <2> QED
    BY <1>2, <1>3, <1>8, <2>1 DEF RestOfPass
<1>9. ASSUME NEW a \in Plain, Served[a] = s, lease[a] \notin Client
      PROVE  \A q \in Matches(a)' : q.by # People => q \in current'[s]
  <2>1. \A q \in Matches(a)' : q \in Matches(a) /\ q # r
    BY <1>6 DEF Matches
  <2> QED
    BY <1>3, <1>7, <1>9, <2>1 DEF RestOfPass
<1>10. \A q \in current'[s] : lease[q.addr] \notin Client
  BY <1>3, <1>7 DEF RestOfPass
<1>11. RestOfPass(s)'
  BY <1>2, <1>3, <1>8, <1>9, <1>10 DEF RestOfPass
<1> QED
  BY <1>2, <1>3, <1>11 DEF CleanPass, NoCalls

LEMMA EndPassClean ==
    ASSUME Types, Placed, CleanOK, NEW s \in Source, EndPass(s), clean'[s]
    PROVE  CleanPass(s)'
<1> USE DEF Types, TypeOK
<1>1. /\ pc[s] = "upsert" /\ pc'[s] = "sleep" /\ clean[s] /\ found'[s] = NoRecord
      /\ todo[s] = {} /\ todo'[s] = {} /\ current[s] = {} /\ current'[s] = {}
      /\ UNCHANGED <<nb, lease, calls, call>>
  BY DEF EndPass, Sleep, Others, listener
<1>2. NoCalls(s) /\ RestOfPass(s)
  BY <1>1 DEF CleanOK, CleanPass
<1>3. Own(s)' = Own(s) /\ \A a : Matches(a)' = Matches(a)
  BY <1>1 DEF Own, Matches
<1>4. RestOfPass(s)'
  BY <1>1, <1>2, <1>3 DEF RestOfPass
<1> QED
  BY <1>1, <1>2, <1>4 DEF CleanPass, NoCalls

LEMMA OwnPollClean ==
    ASSUME Types, Placed, Finite, Finite', Singles, CleanOK, NEW s \in Source, clean'[s],
           Poll(s) \/ PollFails(s)
    PROVE  CleanPass(s)'
<1>1. Abandon(s) => ~clean'[s]
  BY DEF Abandon, Disturbs
<1> QED
  BY <1>1, FetchClean, ListClean, FindClean, WriteClean, DeleteClean, EndPassClean
  DEF Poll, Gone, PollFails

LEMMA CleanHolds == Spec => []CleanOK
<1>1. Init => CleanOK
  BY DEF Init, CleanOK
<1>2. Types /\ DeletesOK /\ Placed /\ Placed' /\ Finite /\ Finite' /\ Singles /\ CleanOK
      /\ [Next]_vars => CleanOK'
  <2> SUFFICES ASSUME Types, DeletesOK, Placed, Placed', Finite, Finite', Singles,
                      CleanOK, [Next]_vars, NEW s \in Source, clean'[s]
               PROVE  CleanPass(s)'
    BY DEF CleanOK
  <2>1. CASE UNCHANGED vars
    <3>1. CleanPass(s)
      BY <2>1 DEF vars, CleanOK
    <3>2. /\ Idle(s) /\ SameRecords(s) /\ SameLeases(s) /\ ListKept
          /\ UNCHANGED <<calls, call>>
      BY <2>1 DEF vars, poller, listener, Idle, SameRecords, SameLeases, ListKept
    <3>3. NoCalls(s)'
      BY <3>1, <3>2 DEF CleanPass, NoCalls
    <3> QED
      BY <3>1, <3>2, <3>3, CleanFrame
  <2>2. ASSUME NEW t \in Source, Poll(t) \/ PollFails(t)
        PROVE  CleanPass(s)'
    BY <2>2, OwnPollClean, OtherPollClean
  <2> QED
    BY <2>1, <2>2, EnvironmentClean, ListenClean DEF Next
<1> QED
  BY <1>1, <1>2, TypesHold, DeletesHold, PlacedHolds, FiniteHolds, SinglesHold, PTL DEF Spec

(***************************************************************************)
(* A pass that nothing disturbed leaves exactly one record of the source   *)
(* for every active lease and none for the others, where no hook writes    *)
(* and people made no two records; and under a hook at least one: whatever *)
(* the other sources, the listener and failed passes did before            *)
(* (lease_poller.py, sync_once and fetch_leases).                          *)
(***************************************************************************)
THEOREM PassesAreExact == Spec => []PassIsExact
<1>1. Types /\ Placed /\ Singles /\ CleanOK => PassIsExact
  <2> SUFFICES ASSUME Types, Placed, Singles, CleanOK, NEW s \in Source,
                      clean[s], pc[s] = "sleep", NEW a \in Addr, Served[a] = s
               PROVE  /\ lease[a] \in Client =>
                            \E r \in Own(s) : r.addr = a /\ r.who = lease[a]
                      /\ a \notin Hooked \cup Doubled =>
                            Cardinality({r \in Matches(a) : r.by # People}) =
                                IF lease[a] \in Client THEN 1 ELSE 0
    BY DEF PassIsExact
  <2>1. RestOfPass(s) /\ todo[s] = {} /\ current[s] = {}
    BY DEF CleanOK, CleanPass, Placed, PollerPlaced
  <2>2. lease[a] \in Client => \E r \in Own(s) : r.addr = a /\ r.who = lease[a]
    BY <2>1 DEF RestOfPass
  <2> DEFINE marked == {r \in Matches(a) : r.by # People}
  <2>3. ASSUME a \in Plain, lease[a] \in Client
        PROVE  Cardinality(marked) = 1
    <3>1. PICK r \in Own(s) : r.addr = a
      BY <2>2, <2>3
    <3>2. r \in marked
      BY <3>1, NamesAssumption DEF Own, Matches
    <3>3. \A q \in marked : q = r
      BY <2>3, <3>2 DEF Singles, Single
    <3>4. marked = {r}
      BY <3>2, <3>3
    <3> QED
      BY <3>4, FS_Singleton
  <2>4. ASSUME a \in Plain, lease[a] \notin Client
        PROVE  Cardinality(marked) = 0
    <3>1. marked = {}
      BY <2>1, <2>4 DEF RestOfPass
    <3> QED
      BY <3>1, FS_EmptySet
  <2>5. a \notin Hooked \cup Doubled => a \in Plain
    BY DEF Plain
  <2> QED
    BY <2>2, <2>3, <2>4, <2>5
<1> QED
  BY <1>1, TypesHold, PlacedHolds, SinglesHold, CleanHolds, PTL
=============================================================================

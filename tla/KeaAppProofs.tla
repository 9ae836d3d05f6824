---------------------------- MODULE KeaAppProofs ----------------------------
(***************************************************************************)
(* What KeaApp guarantees for any set of prefixes, addresses, reservations *)
(* and pools and any number of edits.                                      *)
(*                                                                         *)
(* Inv is inductive.  ConfConsistent alone is not: an administrator's      *)
(* change leaves the server consistent only because Kea checked it, and    *)
(* what push() publishes is accepted only because commit_conf is.          *)
(***************************************************************************)
EXTENDS KeaApp, KeaConfProofs

ServerAccepted == KeaAccepts(running) /\ KeaAccepts(saved)

Inv == TypeOK /\ ConfConsistent /\ CommitAccepted /\ ServerAccepted

-----------------------------------------------------------------------------
(* Lemmas about the parts of the actions. *)

\* commit(), and the decorator that calls it, leave two sound copies if the
\* edited one is sound.
LEMMA AfterEditSound ==
    ASSUME Inv, NEW c \in Conf, Consistent(c), AfterEdit(c) \/ CommitOf(c)
    PROVE  /\ conf' \in Conf /\ commitConf' \in Conf /\ hasCommit' \in BOOLEAN
           /\ Consistent(conf') /\ Consistent(commitConf')
           /\ KeaAccepts(commitConf')
BY DEF Inv, TypeOK, ConfConsistent, CommitAccepted, AfterEdit, CommitOf

LEMMA EditSound ==
    ASSUME Inv, NEW c \in Conf, NEW errors,
           errors = {} => Consistent(c), Edit(errors, c)
    PROVE  /\ conf' \in Conf /\ commitConf' \in Conf /\ hasCommit' \in BOOLEAN
           /\ Consistent(conf') /\ Consistent(commitConf')
           /\ KeaAccepts(commitConf')
<1>1. CASE errors # {}
  BY <1>1 DEF Edit, Raise, Inv, TypeOK, ConfConsistent, CommitAccepted
<1>2. CASE errors = {}
  BY <1>2, AfterEditSound DEF Edit
<1> QED
  BY <1>1, <1>2

\* A call that edits leaves everything else as it was.
LEMMA EditingKeeps ==
    ASSUME Inv, Editing,
           conf' \in Conf, commitConf' \in Conf, hasCommit' \in BOOLEAN,
           Consistent(conf'), Consistent(commitConf'), KeaAccepts(commitConf'),
           wiped' \in SUBSET PrefixId, evicted' \in SUBSET OwnResa
    PROVE  Inv'
BY MaxEditsAssumption
   DEF Inv, TypeOK, ConfConsistent, CommitAccepted, ServerAccepted, Editing,
       server

\* What an administrator makes of a sound configuration is sound.
LEMMA HandMadeSound ==
    ASSUME NEW c \in Conf, Consistent(c), NEW d \in HandMade(c)
    PROVE  d \in Conf /\ Consistent(d) /\ KeaAccepts(d)
<1>1. KeaAccepts(d)
  BY DEF HandMade
<1>2. PICK s \in c :
        \/ \E r \in Resa : /\ r.nid = NoId
                           /\ d = (c \ {s}) \cup
                                  {[s EXCEPT !.resas = @ \cup {r}]}
        \/ \E p \in Pool : /\ p.rid = NoId
                           /\ d = (c \ {s}) \cup
                                  {[s EXCEPT !.pools = @ \cup {p}]}
  BY DEF HandMade
<1>3. s \in Subnet
  BY DEF Conf
<1>4. ASSUME NEW r \in Resa, r.nid = NoId,
             d = (c \ {s}) \cup {[s EXCEPT !.resas = @ \cup {r}]}
      PROVE  d \in Conf /\ ResasUnique(d) /\ PoolIdsUnique(d)
  <2> DEFINE t == [s EXCEPT !.resas = @ \cup {r}]
  <2>1. t \in Subnet /\ t.resas = s.resas \cup {r} /\ t.pools = s.pools
    BY <1>3 DEF Subnet
  <2> HIDE DEF t
  <2>2. d = (c \ {s}) \cup {t}
    BY <1>4 DEF t
  <2>3. d \in Conf
    BY <2>1, <2>2 DEF Conf
  <2>4. PoolIdsUnique(d)
    BY <2>1, <2>2 DEF Consistent, PoolIdsUnique
  <2>5. ResasUnique(d)
    BY <1>1, <1>4, <2>1, <2>2 DEF Consistent, ResasUnique, KeaAccepts
  <2> QED
    BY <2>3, <2>4, <2>5
<1>5. ASSUME NEW p \in Pool, p.rid = NoId,
             d = (c \ {s}) \cup {[s EXCEPT !.pools = @ \cup {p}]}
      PROVE  d \in Conf /\ ResasUnique(d) /\ PoolIdsUnique(d)
  <2> DEFINE t == [s EXCEPT !.pools = @ \cup {p}]
  <2>1. t \in Subnet /\ t.resas = s.resas /\ t.pools = s.pools \cup {p}
    BY <1>3 DEF Subnet
  <2> HIDE DEF t
  <2>2. d = (c \ {s}) \cup {t}
    BY <1>5 DEF t
  <2>3. d \in Conf
    BY <2>1, <2>2 DEF Conf
  <2>4. PoolIdsUnique(d)
    BY <1>5, <2>1, <2>2 DEF Consistent, PoolIdsUnique
  <2>5. ResasUnique(d)
    BY <2>1, <2>2 DEF Consistent, ResasUnique
  <2> QED
    BY <2>3, <2>4, <2>5
<1>6. SubnetsUnique(d)
  BY <1>1 DEF KeaAccepts
<1> QED
  BY <1>1, <1>2, <1>4, <1>5, <1>6 DEF Consistent

-----------------------------------------------------------------------------
(* The inductive invariant. *)

\* Kea starts with a sound configuration and the daemon with none.
LEMMA InitInv == Init => Inv
<1> SUFFICES ASSUME Init PROVE Inv
  OBVIOUS
<1>1. running \in Conf /\ Consistent(running) /\ KeaAccepts(running)
  BY StartAssumption DEF Init
<1>2. saved = running
  BY DEF Init
<1>3. TypeOK
  <2>1. edits \in 0..MaxEdits
    BY MaxEditsAssumption DEF Init
  <2>2. conf \in Conf /\ commitConf \in Conf /\ base \in Conf
    BY EmptyConf DEF Init
  <2>3. wiped \in SUBSET PrefixId /\ evicted \in SUBSET OwnResa
    BY DEF Init
  <2>4. /\ pulled \in BOOLEAN /\ hasCommit \in BOOLEAN
        /\ autoCommit \in BOOLEAN /\ pushing \in BOOLEAN
    BY DEF Init
  <2> QED
    BY <1>1, <1>2, <2>1, <2>2, <2>3, <2>4 DEF TypeOK
<1>4. ConfConsistent /\ CommitAccepted
  BY <1>1, <1>2, EmptyConf DEF Init, ConfConsistent, CommitAccepted
<1>5. ServerAccepted
  BY <1>1, <1>2 DEF ServerAccepted
<1> QED
  BY <1>3, <1>4, <1>5 DEF Inv

\* set_subnet, update_subnet, del_subnet and del_all_subnets.
LEMMA EditSubnetsInv == Inv /\ EditSubnets => Inv'
<1> SUFFICES ASSUME Inv, EditSubnets PROVE Inv'
  OBVIOUS
<1>0. conf \in Conf /\ Consistent(conf)
      /\ wiped \in SUBSET PrefixId /\ evicted \in SUBSET OwnResa
  BY DEF Inv, TypeOK, ConfConsistent
<1>1. ASSUME NEW pid \in PrefixId, NEW net \in Net, NEW opt \in Opt,
             SetSubnet(pid, net, opt)
      PROVE  Inv'
  <2>1. /\ Editing
        /\ Edit(SubnetErrors(conf, pid, net, FALSE),
                PutSubnet(conf, pid, net, opt))
        /\ wiped' \in SUBSET PrefixId /\ evicted' = evicted
    BY <1>0, <1>1 DEF SetSubnet
  <2> QED
    BY <1>0, <2>1, PutSubnetType, PutSubnetConsistent, EditSound, EditingKeeps
<1>2. ASSUME NEW pid \in PrefixId, NEW net \in Net, NEW opt \in Opt,
             UpdateSubnet(pid, net, opt)
      PROVE  Inv'
  BY <1>0, <1>2, UpdateOptionsType, UpdateOptionsConsistent, EditSound,
     EditingKeeps
     DEF UpdateSubnet
<1>3. ASSUME NEW pid \in PrefixId, DelSubnet(pid)
      PROVE  Inv'
  BY <1>0, <1>3, DropSubnetType, DropSubnetConsistent, AfterEditSound,
     EditingKeeps
     DEF DelSubnet
<1>4. CASE DelAllSubnets
  BY <1>0, <1>4, EmptyConf, AfterEditSound, EditingKeeps DEF DelAllSubnets
<1> QED
  BY <1>1, <1>2, <1>3, <1>4 DEF EditSubnets

\* set_pool, del_pool, set_reservation and del_resa.
LEMMA EditItemsInv == Inv /\ EditItems => Inv'
<1> SUFFICES ASSUME Inv, EditItems PROVE Inv'
  OBVIOUS
<1>0. conf \in Conf /\ Consistent(conf)
      /\ wiped \in SUBSET PrefixId /\ evicted \in SUBSET OwnResa
  BY DEF Inv, TypeOK, ConfConsistent
<1>1. ASSUME NEW pid \in PrefixId, NEW p \in OwnPool, SetPool(pid, p)
      PROVE  Inv'
  BY <1>0, <1>1, PutPoolType, PutPoolConsistent, EditSound, EditingKeeps
     DEF SetPool, OwnPool
<1>2. ASSUME NEW rid \in RangeId, DelPool(rid)
      PROVE  Inv'
  BY <1>0, <1>2, DropPoolType, DropPoolConsistent, AfterEditSound, EditingKeeps
     DEF DelPool
<1>3. ASSUME NEW rs \in SUBSET OwnResa, EvictionFails(rs), Editing,
             wiped' = wiped
      PROVE  Inv'
  <2>1. evicted' \in SUBSET OwnResa
    BY <1>0, <1>3 DEF EvictionFails
  <2> QED
    BY <1>0, <1>3, <2>1, EditingKeeps
       DEF EvictionFails, Raise, Inv, TypeOK, ConfConsistent, CommitAccepted
<1>4. ASSUME NEW pid \in PrefixId, NEW r \in OwnResa, SetReservation(pid, r)
      PROVE  Inv'
  <2> DEFINE stale == StaleResas(conf, pid, r)
  <2>1. stale \in SUBSET OwnResa /\ r \in Resa
    BY <1>0, NoIdAssumption DEF StaleResas, OwnResa, Conf, Subnet
  <2>2. CASE EvictionFails(stale)
    BY <1>3, <1>4, <2>1, <2>2 DEF SetReservation
  <2>3. CASE /\ evicted' = evicted \cup stale
             /\ Edit(ResaErrors(conf, pid, r), PutResa(conf, pid, r))
    BY <1>0, <1>4, <2>1, <2>3, PutResaType, PutResaConsistent, EditSound,
       EditingKeeps
       DEF SetReservation
  <2> QED
    BY <1>4, <2>2, <2>3 DEF SetReservation
<1>5. ASSUME NEW nid \in IpId, DelResa(nid)
      PROVE  Inv'
  <2> DEFINE owned == OwnedResas(conf, nid)
  <2>1. owned \in SUBSET OwnResa
    BY <1>0, NoIdAssumption DEF OwnedResas, OwnResa, Conf, Subnet
  <2>2. CASE EvictionFails(owned)
    BY <1>3, <1>5, <2>1, <2>2 DEF DelResa
  <2>3. CASE /\ evicted' = evicted \cup owned
             /\ AfterEdit(DropResa(conf, nid))
    BY <1>0, <1>5, <2>1, <2>3, DropResaType, DropResaConsistent,
       AfterEditSound, EditingKeeps
       DEF DelResa
  <2> QED
    BY <1>5, <2>2, <2>3 DEF DelResa
<1> QED
  BY <1>1, <1>2, <1>4, <1>5 DEF EditItems

\* Every step keeps the invariant.
LEMMA NextInv == Inv /\ [Next]_vars => Inv'
<1> SUFFICES ASSUME Inv, [Next]_vars PROVE Inv'
  OBVIOUS
<1> USE DEF Inv, TypeOK, ConfConsistent, CommitAccepted, ServerAccepted
<1>1. CASE Pull
  BY <1>1 DEF Pull, server
<1>2. CASE EditSubnets
  BY <1>2, EditSubnetsInv
<1>3. CASE EditItems
  BY <1>3, EditItemsInv
<1>4. CASE Commit
  BY <1>4, AfterEditSound DEF Commit, server, history
<1>5. CASE SetAutoCommit
  BY <1>5 DEF SetAutoCommit, server, history
<1>6. CASE PushSet
  BY <1>6 DEF PushSet, history
<1>7. CASE PushWrite
  BY <1>7 DEF PushWrite, history
<1>8. CASE Crash
  BY <1>8, EmptyConf DEF Crash, server, history
<1>9. CASE KeaRestart
  BY <1>9 DEF KeaRestart, daemon, history
<1>10. CASE AdminEdit
  <2>1. running' \in Conf /\ Consistent(running') /\ KeaAccepts(running')
    BY <1>10, HandMadeSound DEF AdminEdit
  <2> QED
    BY <1>10, <2>1, MaxEditsAssumption DEF AdminEdit, daemon
<1>11. CASE UNCHANGED vars
  BY <1>11 DEF vars, daemon, server, history
<1> QED
  BY <1>1, <1>2, <1>3, <1>4, <1>5, <1>6, <1>7, <1>8, <1>9, <1>10, <1>11
     DEF Next

LEMMA Invariance == Spec => []Inv
BY InitInv, NextInv, PTL DEF Spec

\* Every variable keeps its type.
THEOREM TypeCorrect == Spec => []TypeOK
BY Invariance, PTL DEF Inv

\* No copy of the configuration ever holds a duplicate.
THEOREM NoDuplicates == Spec => []ConfConsistent
BY Invariance, PTL DEF Inv

\* What is staged, or rolled back to, is something Kea accepted.
THEOREM StagedIsAccepted == Spec => []CommitAccepted
BY Invariance, PTL DEF Inv

-----------------------------------------------------------------------------
(* What an edit does to one subnet. *)

\* The copies after a call are the edited copy, if the call raised no error,
\* or copies there were before it.
LEMMA EditCopies ==
    ASSUME NEW c, NEW errors, Edit(errors, c)
    PROVE  /\ conf' \in {conf, commitConf} \/ (errors = {} /\ conf' = c)
           /\ commitConf' = commitConf \/ (errors = {} /\ commitConf' = c)
BY DEF Edit, AfterEdit, CommitOf, Raise

LEMMA AfterEditCopies ==
    ASSUME NEW c, AfterEdit(c) \/ CommitOf(c)
    PROVE  conf' \in {c, commitConf} /\ commitConf' \in {c, commitConf}
BY DEF AfterEdit, CommitOf

\* Replacing or deleting another subnet, new settings, and items that belong
\* to NetBox leave the foreign items of a subnet alone.
LEMMA OthersKeepForeign ==
    ASSUME NEW c \in Conf, NEW s, KeepsForeign(s, c), NEW pid, s.id # pid,
           NEW net, NEW opt
    PROVE  /\ KeepsForeign(s, DropSubnet(c, pid))
           /\ KeepsForeign(s, PutSubnet(c, pid, net, opt))
<1>1. PICK t \in c : /\ t.id = s.id /\ t.net = s.net
                     /\ ForeignResas(t) = ForeignResas(s)
                     /\ ForeignPools(t) = ForeignPools(s)
  BY DEF KeepsForeign
<1>2. t \in DropSubnet(c, pid) /\ t \in PutSubnet(c, pid, net, opt)
  BY <1>1 DEF DropSubnet, PutSubnet
<1> QED
  BY <1>1, <1>2 DEF KeepsForeign

\* The common shape of the edits inside a subnet.
LEMMA ItemsKeepForeign ==
    ASSUME NEW c \in Conf, NEW s, KeepsForeign(s, c),
           NEW f, NEW d, d = {f[t] : t \in c},
           \A t \in c : /\ f[t].id = t.id /\ f[t].net = t.net
                        /\ ForeignResas(f[t]) = ForeignResas(t)
                        /\ ForeignPools(f[t]) = ForeignPools(t)
    PROVE  KeepsForeign(s, d)
BY DEF KeepsForeign

LEMMA UpdateKeepsForeign ==
    ASSUME NEW c \in Conf, NEW s, KeepsForeign(s, c), NEW pid, NEW opt
    PROVE  KeepsForeign(s, UpdateOptions(c, pid, opt))
<1> DEFINE f == [t \in c |-> IF t.id = pid THEN [t EXCEPT !.opt = opt] ELSE t]
<1>1. UpdateOptions(c, pid, opt) = {f[t] : t \in c}
  BY DEF UpdateOptions
<1>2. \A t \in c : /\ f[t].id = t.id /\ f[t].net = t.net
                   /\ f[t].resas = t.resas /\ f[t].pools = t.pools
  BY DEF Conf, Subnet
<1> HIDE DEF f
<1>3. \A t \in c : /\ ForeignResas(f[t]) = ForeignResas(t)
                   /\ ForeignPools(f[t]) = ForeignPools(t)
  BY <1>2 DEF ForeignResas, ForeignPools
<1> QED
  BY <1>1, <1>2, <1>3, ItemsKeepForeign

LEMMA PutResaKeepsForeign ==
    ASSUME NEW c \in Conf, NEW s, KeepsForeign(s, c), NEW pid,
           NEW r \in OwnResa
    PROVE  KeepsForeign(s, PutResa(c, pid, r))
<1> DEFINE g(t) == {x \in t.resas : x.nid # r.nid} \cup {r}
           f == [t \in c |-> IF t.id = pid THEN [t EXCEPT !.resas = g(t)]
                                           ELSE t]
<1>1. PutResa(c, pid, r) = {f[t] : t \in c}
  BY DEF PutResa
<1>2. \A t \in c : /\ f[t].id = t.id /\ f[t].net = t.net
                   /\ f[t].resas \in {t.resas, g(t)}
                   /\ f[t].pools = t.pools
  BY DEF Conf, Subnet
<1> HIDE DEF f
<1>3. r.nid # NoId
  BY DEF OwnResa
<1>4. \A t \in c : /\ ForeignResas(f[t]) = ForeignResas(t)
                   /\ ForeignPools(f[t]) = ForeignPools(t)
  BY <1>2, <1>3 DEF ForeignResas, ForeignPools
<1> QED
  BY <1>1, <1>2, <1>4, ItemsKeepForeign

LEMMA PutPoolKeepsForeign ==
    ASSUME NEW c \in Conf, NEW s, KeepsForeign(s, c), NEW pid,
           NEW p \in OwnPool
    PROVE  KeepsForeign(s, PutPool(c, pid, p))
<1> DEFINE g(t) == {x \in t.pools : x.rid # p.rid} \cup {p}
           f == [t \in c |-> IF t.id = pid THEN [t EXCEPT !.pools = g(t)]
                                           ELSE t]
<1>1. PutPool(c, pid, p) = {f[t] : t \in c}
  BY DEF PutPool
<1>2. \A t \in c : /\ f[t].id = t.id /\ f[t].net = t.net
                   /\ f[t].pools \in {t.pools, g(t)}
                   /\ f[t].resas = t.resas
  BY DEF Conf, Subnet
<1> HIDE DEF f
<1>3. p.rid # NoId
  BY DEF OwnPool
<1>4. \A t \in c : /\ ForeignResas(f[t]) = ForeignResas(t)
                   /\ ForeignPools(f[t]) = ForeignPools(t)
  BY <1>2, <1>3 DEF ForeignResas, ForeignPools
<1> QED
  BY <1>1, <1>2, <1>4, ItemsKeepForeign

LEMMA DropResaKeepsForeign ==
    ASSUME NEW c \in Conf, NEW s, KeepsForeign(s, c), NEW nid \in IpId
    PROVE  KeepsForeign(s, DropResa(c, nid))
<1> DEFINE f == [t \in c |-> [t EXCEPT !.resas = {x \in t.resas : x.nid # nid}]]
<1>1. DropResa(c, nid) = {f[t] : t \in c}
  BY DEF DropResa
<1>2. \A t \in c : /\ f[t].id = t.id /\ f[t].net = t.net
                   /\ f[t].resas = {x \in t.resas : x.nid # nid}
                   /\ f[t].pools = t.pools
  BY DEF Conf, Subnet
<1> HIDE DEF f
<1>3. \A t \in c : /\ ForeignResas(f[t]) = ForeignResas(t)
                   /\ ForeignPools(f[t]) = ForeignPools(t)
  BY <1>2, NoIdAssumption DEF ForeignResas, ForeignPools
<1> QED
  BY <1>1, <1>2, <1>3, ItemsKeepForeign

LEMMA DropPoolKeepsForeign ==
    ASSUME NEW c \in Conf, NEW s, KeepsForeign(s, c), NEW rid \in RangeId
    PROVE  KeepsForeign(s, DropPool(c, rid))
<1> DEFINE f == [t \in c |-> [t EXCEPT !.pools = {x \in t.pools : x.rid # rid}]]
<1>1. DropPool(c, rid) = {f[t] : t \in c}
  BY DEF DropPool
<1>2. \A t \in c : /\ f[t].id = t.id /\ f[t].net = t.net
                   /\ f[t].pools = {x \in t.pools : x.rid # rid}
                   /\ f[t].resas = t.resas
  BY DEF Conf, Subnet
<1> HIDE DEF f
<1>3. \A t \in c : /\ ForeignResas(f[t]) = ForeignResas(t)
                   /\ ForeignPools(f[t]) = ForeignPools(t)
  BY <1>2, NoIdAssumption DEF ForeignResas, ForeignPools
<1> QED
  BY <1>1, <1>2, <1>3, ItemsKeepForeign

-----------------------------------------------------------------------------
(* Foreign items. *)

LEMMA NextForeign == Inv /\ ForeignKept /\ [Next]_vars => ForeignKept'
<1> SUFFICES ASSUME Inv, ForeignKept, [Next]_vars, pulled',
                    NEW s \in base', s.id \notin wiped'
             PROVE  KeepsForeign(s, conf') /\ KeepsForeign(s, commitConf')
  BY DEF ForeignKept, KeepsForeign
<1>0. conf \in Conf /\ commitConf \in Conf /\ base \in Conf
  BY DEF Inv, TypeOK
<1>a. ASSUME pulled, base' = base, wiped \subseteq wiped'
      PROVE  KeepsForeign(s, conf) /\ KeepsForeign(s, commitConf)
  BY <1>a DEF ForeignKept
<1>1. CASE Pull
  BY <1>1 DEF Pull, KeepsForeign
<1>2. CASE EditSubnets
  <2>1. ASSUME NEW pid \in PrefixId, NEW net \in Net, NEW opt \in Opt,
               SetSubnet(pid, net, opt)
        PROVE  KeepsForeign(s, conf') /\ KeepsForeign(s, commitConf')
    <3> DEFINE errors == SubnetErrors(conf, pid, net, FALSE)
               c == PutSubnet(conf, pid, net, opt)
    <3>1. /\ Edit(errors, c) /\ pulled /\ base' = base
          /\ wiped' = IF errors # {} THEN wiped ELSE wiped \cup {pid}
      BY <2>1 DEF SetSubnet, Editing
    <3>2. KeepsForeign(s, conf) /\ KeepsForeign(s, commitConf)
      BY <1>a, <3>1
    <3>3. errors = {} => KeepsForeign(s, c)
      BY <1>0, <3>1, <3>2, OthersKeepForeign
    <3> HIDE DEF errors, c
    <3> QED
      BY <3>1, <3>2, <3>3, EditCopies
  <2>2. ASSUME NEW pid \in PrefixId, NEW net \in Net, NEW opt \in Opt,
               UpdateSubnet(pid, net, opt)
        PROVE  KeepsForeign(s, conf') /\ KeepsForeign(s, commitConf')
    <3> DEFINE errors == SubnetErrors(conf, pid, net, TRUE)
               c == UpdateOptions(conf, pid, opt)
    <3>1. Edit(errors, c) /\ pulled /\ base' = base /\ wiped' = wiped
      BY <2>2 DEF UpdateSubnet, Editing
    <3>2. KeepsForeign(s, conf) /\ KeepsForeign(s, commitConf)
      BY <1>a, <3>1
    <3>3. KeepsForeign(s, c)
      BY <1>0, <3>2, UpdateKeepsForeign
    <3> HIDE DEF errors, c
    <3> QED
      BY <3>1, <3>2, <3>3, EditCopies
  <2>3. ASSUME NEW pid \in PrefixId, DelSubnet(pid)
        PROVE  KeepsForeign(s, conf') /\ KeepsForeign(s, commitConf')
    <3>1. /\ AfterEdit(DropSubnet(conf, pid)) /\ pulled /\ base' = base
          /\ wiped' = wiped \cup {pid}
      BY <2>3 DEF DelSubnet, Editing
    <3>2. KeepsForeign(s, conf) /\ KeepsForeign(s, commitConf)
      BY <1>a, <3>1
    <3>3. KeepsForeign(s, DropSubnet(conf, pid))
      BY <1>0, <3>1, <3>2, OthersKeepForeign
    <3> QED
      BY <3>1, <3>2, <3>3, AfterEditCopies
  <2>4. CASE DelAllSubnets
    <3>1. base' = base /\ wiped' = PrefixId
      BY <2>4 DEF DelAllSubnets, Editing
    <3> QED
      BY <1>0, <3>1 DEF Conf, Subnet
  <2> QED
    BY <1>2, <2>1, <2>2, <2>3, <2>4 DEF EditSubnets
<1>3. CASE EditItems
  <2>0. pulled /\ base' = base /\ wiped' = wiped
    BY <1>3 DEF EditItems, SetPool, DelPool, SetReservation, DelResa, Editing
  <2>a. KeepsForeign(s, conf) /\ KeepsForeign(s, commitConf)
    BY <1>a, <2>0
  <2>b. CASE Raise
    BY <2>a, <2>b DEF Raise
  <2>1. ASSUME NEW pid \in PrefixId, NEW p \in OwnPool, SetPool(pid, p)
        PROVE  KeepsForeign(s, conf') /\ KeepsForeign(s, commitConf')
    BY <1>0, <2>1, <2>a, PutPoolKeepsForeign, EditCopies DEF SetPool
  <2>2. ASSUME NEW rid \in RangeId, DelPool(rid)
        PROVE  KeepsForeign(s, conf') /\ KeepsForeign(s, commitConf')
    BY <1>0, <2>2, <2>a, DropPoolKeepsForeign, AfterEditCopies DEF DelPool
  <2>3. ASSUME NEW pid \in PrefixId, NEW r \in OwnResa, SetReservation(pid, r)
        PROVE  KeepsForeign(s, conf') /\ KeepsForeign(s, commitConf')
    <3>1. Raise \/ Edit(ResaErrors(conf, pid, r), PutResa(conf, pid, r))
      BY <2>3 DEF SetReservation, EvictionFails
    <3> QED
      BY <1>0, <2>a, <2>b, <3>1, PutResaKeepsForeign, EditCopies
  <2>4. ASSUME NEW nid \in IpId, DelResa(nid)
        PROVE  KeepsForeign(s, conf') /\ KeepsForeign(s, commitConf')
    <3>1. Raise \/ AfterEdit(DropResa(conf, nid))
      BY <2>4 DEF DelResa, EvictionFails
    <3> QED
      BY <1>0, <2>a, <2>b, <3>1, DropResaKeepsForeign, AfterEditCopies
  <2> QED
    BY <1>3, <2>1, <2>2, <2>3, <2>4 DEF EditItems
<1>4. CASE Commit
  BY <1>4, <1>a, AfterEditCopies DEF Commit, history
<1>5. CASE SetAutoCommit \/ PushSet \/ PushWrite \/ Crash
  BY <1>5, <1>a DEF SetAutoCommit, PushSet, PushWrite, Crash, history
<1>6. CASE KeaRestart \/ AdminEdit \/ UNCHANGED vars
  BY <1>6, <1>a DEF KeaRestart, AdminEdit, vars, daemon, history
<1> QED
  BY <1>1, <1>2, <1>3, <1>4, <1>5, <1>6 DEF Next

\* No event takes away what NetBox does not own from a subnet that stays.
THEOREM ForeignItemsSurvive == Spec => []ForeignKept
<1>1. Init => ForeignKept
  BY DEF Init, ForeignKept
<1> QED
  BY <1>1, Invariance, NextForeign, PTL DEF Spec

-----------------------------------------------------------------------------
(* Hand-over of a reserved address. *)

\* The common shape of the edits that leave reservations alone.
LEMMA ItemsKeepHolder ==
    ASSUME NEW c \in Conf, NEW r, NEW pid, StillHeld(r, pid, c),
           NEW f, NEW d, d = {f[t] : t \in c},
           \A t \in c : f[t].id = t.id /\ f[t].resas = t.resas
    PROVE  StillHeld(r, pid, d)
BY DEF StillHeld

LEMMA OthersKeepHolder ==
    ASSUME NEW c \in Conf, NEW r, NEW id, StillHeld(r, id, c), NEW pid,
           NEW net, NEW opt, NEW p, NEW rid
    PROVE  /\ id # pid => /\ StillHeld(r, id, DropSubnet(c, pid))
                          /\ StillHeld(r, id, PutSubnet(c, pid, net, opt))
           /\ StillHeld(r, id, UpdateOptions(c, pid, opt))
           /\ StillHeld(r, id, PutPool(c, pid, p))
           /\ StillHeld(r, id, DropPool(c, rid))
<1>1. id # pid => /\ StillHeld(r, id, DropSubnet(c, pid))
                  /\ StillHeld(r, id, PutSubnet(c, pid, net, opt))
  BY DEF StillHeld, DropSubnet, PutSubnet
<1>2. StillHeld(r, id, UpdateOptions(c, pid, opt))
  <2> DEFINE f == [t \in c |->
                   IF t.id = pid THEN [t EXCEPT !.opt = opt] ELSE t]
  <2>1. UpdateOptions(c, pid, opt) = {f[t] : t \in c}
    BY DEF UpdateOptions
  <2>2. \A t \in c : f[t].id = t.id /\ f[t].resas = t.resas
    BY DEF Conf, Subnet
  <2> HIDE DEF f
  <2> QED
    BY <2>1, <2>2, ItemsKeepHolder
<1>3. StillHeld(r, id, PutPool(c, pid, p))
  <2> DEFINE g(t) == {x \in t.pools : x.rid # p.rid} \cup {p}
             f == [t \in c |-> IF t.id = pid THEN [t EXCEPT !.pools = g(t)]
                                             ELSE t]
  <2>1. PutPool(c, pid, p) = {f[t] : t \in c}
    BY DEF PutPool
  <2>2. \A t \in c : f[t].id = t.id /\ f[t].resas = t.resas
    BY DEF Conf, Subnet
  <2> HIDE DEF f
  <2> QED
    BY <2>1, <2>2, ItemsKeepHolder
<1>4. StillHeld(r, id, DropPool(c, rid))
  <2> DEFINE f == [t \in c |->
                   [t EXCEPT !.pools = {x \in t.pools : x.rid # rid}]]
  <2>1. DropPool(c, rid) = {f[t] : t \in c}
    BY DEF DropPool
  <2>2. \A t \in c : f[t].id = t.id /\ f[t].resas = t.resas
    BY DEF Conf, Subnet
  <2> HIDE DEF f
  <2> QED
    BY <2>1, <2>2, ItemsKeepHolder
<1> QED
  BY <1>1, <1>2, <1>3, <1>4

\* set_reservation takes an address from its holder only by way of StaleResas.
LEMMA PutResaHandsOver ==
    ASSUME NEW c \in Conf, NEW r, NEW id, StillHeld(r, id, c),
           NEW pid, NEW new \in OwnResa
    PROVE  \/ StillHeld(r, id, PutResa(c, pid, new))
           \/ \E e \in StaleResas(c, pid, new) : e.nid = r.nid /\ e.mac = r.mac
<1>1. PICK t \in c : t.id = id
                     /\ \E x \in t.resas : x.nid = r.nid /\ x.mac = r.mac
  BY DEF StillHeld
<1>2. PICK x \in t.resas : x.nid = r.nid /\ x.mac = r.mac
  BY <1>1
<1> DEFINE kept == {y \in t.resas : y.nid # new.nid}
           u == IF t.id = pid THEN [t EXCEPT !.resas = kept \cup {new}] ELSE t
<1>3. u \in PutResa(c, pid, new)
  BY <1>1 DEF PutResa
<1>4. /\ u.id = id
      /\ t.id # pid => u.resas = t.resas
      /\ t.id = pid => u.resas = kept \cup {new}
  BY <1>1 DEF Conf, Subnet
<1> HIDE DEF u
<1>5. CASE t.id # pid \/ x.nid # new.nid \/ x.mac = new.mac
  <2>1. \E y \in u.resas : y.nid = r.nid /\ y.mac = r.mac
    BY <1>2, <1>4, <1>5
  <2> QED
    BY <1>3, <1>4, <2>1 DEF StillHeld
<1>6. CASE t.id = pid /\ x.nid = new.nid /\ x.mac # new.mac
  BY <1>2, <1>6 DEF StaleResas
<1> QED
  BY <1>5, <1>6

\* del_resa takes an address from its holder only by way of OwnedResas.
LEMMA DropResaHandsOver ==
    ASSUME NEW c \in Conf, NEW r, NEW id, StillHeld(r, id, c), NEW nid \in IpId
    PROVE  \/ StillHeld(r, id, DropResa(c, nid))
           \/ \E e \in OwnedResas(c, nid) : e.nid = r.nid /\ e.mac = r.mac
<1>1. PICK t \in c : t.id = id
                     /\ \E x \in t.resas : x.nid = r.nid /\ x.mac = r.mac
  BY DEF StillHeld
<1>2. PICK x \in t.resas : x.nid = r.nid /\ x.mac = r.mac
  BY <1>1
<1> DEFINE u == [t EXCEPT !.resas = {y \in t.resas : y.nid # nid}]
<1>3. u \in DropResa(c, nid)
  BY <1>1 DEF DropResa
<1>4. u.id = id /\ u.resas = {y \in t.resas : y.nid # nid}
  BY <1>1 DEF Conf, Subnet
<1> HIDE DEF u
<1>5. CASE x.nid # nid
  BY <1>2, <1>3, <1>4, <1>5 DEF StillHeld
<1>6. CASE x.nid = nid
  BY <1>2, <1>6 DEF OwnedResas
<1> QED
  BY <1>5, <1>6

LEMMA NextHandOver == Inv /\ HandOver /\ [Next]_vars => HandOver'
<1> SUFFICES ASSUME Inv, HandOver, [Next]_vars, pulled',
                    NEW s \in base', NEW r \in s.resas,
                    s.id \notin wiped', r.nid # NoId, ~Evicted(r)'
             PROVE  StillHeld(r, s.id, conf') /\ StillHeld(r, s.id, commitConf')
  BY DEF HandOver, Evicted, StillHeld
<1>0. conf \in Conf /\ commitConf \in Conf /\ base \in Conf
  BY DEF Inv, TypeOK
<1>a. ASSUME pulled, base' = base, wiped \subseteq wiped',
             evicted \subseteq evicted'
      PROVE  StillHeld(r, s.id, conf) /\ StillHeld(r, s.id, commitConf)
  BY <1>a DEF HandOver, Evicted
<1>1. CASE Pull
  BY <1>1 DEF Pull, StillHeld
<1>2. CASE EditSubnets
  <2>0. pulled /\ base' = base /\ evicted' = evicted
    BY <1>2 DEF EditSubnets, SetSubnet, UpdateSubnet, DelSubnet, DelAllSubnets,
                Editing
  <2>1. ASSUME NEW pid \in PrefixId, NEW net \in Net, NEW opt \in Opt,
               SetSubnet(pid, net, opt)
        PROVE  StillHeld(r, s.id, conf') /\ StillHeld(r, s.id, commitConf')
    <3> DEFINE errors == SubnetErrors(conf, pid, net, FALSE)
               c == PutSubnet(conf, pid, net, opt)
    <3>1. /\ Edit(errors, c)
          /\ wiped' = IF errors # {} THEN wiped ELSE wiped \cup {pid}
      BY <2>1 DEF SetSubnet
    <3>2. StillHeld(r, s.id, conf) /\ StillHeld(r, s.id, commitConf)
      BY <1>a, <2>0, <3>1
    <3>3. errors = {} => StillHeld(r, s.id, c)
      BY <1>0, <3>1, <3>2, OthersKeepHolder
    <3> HIDE DEF errors, c
    <3> QED
      BY <3>1, <3>2, <3>3, EditCopies
  <2>2. ASSUME NEW pid \in PrefixId, NEW net \in Net, NEW opt \in Opt,
               UpdateSubnet(pid, net, opt)
        PROVE  StillHeld(r, s.id, conf') /\ StillHeld(r, s.id, commitConf')
    <3> DEFINE errors == SubnetErrors(conf, pid, net, TRUE)
               c == UpdateOptions(conf, pid, opt)
    <3>1. Edit(errors, c) /\ wiped' = wiped
      BY <2>2 DEF UpdateSubnet
    <3>2. StillHeld(r, s.id, conf) /\ StillHeld(r, s.id, commitConf)
      BY <1>a, <2>0, <3>1
    <3>3. StillHeld(r, s.id, c)
      BY <1>0, <3>2, OthersKeepHolder
    <3> HIDE DEF errors, c
    <3> QED
      BY <3>1, <3>2, <3>3, EditCopies
  <2>3. ASSUME NEW pid \in PrefixId, DelSubnet(pid)
        PROVE  StillHeld(r, s.id, conf') /\ StillHeld(r, s.id, commitConf')
    <3>1. AfterEdit(DropSubnet(conf, pid)) /\ wiped' = wiped \cup {pid}
      BY <2>3 DEF DelSubnet
    <3>2. StillHeld(r, s.id, conf) /\ StillHeld(r, s.id, commitConf)
      BY <1>a, <2>0, <3>1
    <3>3. StillHeld(r, s.id, DropSubnet(conf, pid))
      BY <1>0, <3>1, <3>2, OthersKeepHolder
    <3> QED
      BY <3>1, <3>2, <3>3, AfterEditCopies
  <2>4. CASE DelAllSubnets
    <3>1. wiped' = PrefixId
      BY <2>4 DEF DelAllSubnets
    <3> QED
      BY <1>0, <2>0, <3>1 DEF Conf, Subnet
  <2> QED
    BY <1>2, <2>1, <2>2, <2>3, <2>4 DEF EditSubnets
<1>3. CASE EditItems
  <2>0. /\ pulled /\ base' = base /\ wiped' = wiped
        /\ evicted \subseteq evicted'
    BY <1>3 DEF EditItems, SetPool, DelPool, SetReservation, DelResa, Editing,
                EvictionFails
  <2>a. StillHeld(r, s.id, conf) /\ StillHeld(r, s.id, commitConf)
    BY <1>a, <2>0
  <2>b. CASE Raise
    BY <2>a, <2>b DEF Raise
  <2>c. \A e \in evicted' : ~(e.nid = r.nid /\ e.mac = r.mac)
    BY DEF Evicted
  <2>1. ASSUME NEW pid \in PrefixId, NEW p \in OwnPool, SetPool(pid, p)
        PROVE  StillHeld(r, s.id, conf') /\ StillHeld(r, s.id, commitConf')
    <3>1. StillHeld(r, s.id, PutPool(conf, pid, p))
      BY <1>0, <2>a, OthersKeepHolder
    <3> QED
      BY <2>1, <2>a, <3>1, EditCopies DEF SetPool
  <2>2. ASSUME NEW rid \in RangeId, DelPool(rid)
        PROVE  StillHeld(r, s.id, conf') /\ StillHeld(r, s.id, commitConf')
    <3>1. StillHeld(r, s.id, DropPool(conf, rid))
      BY <1>0, <2>a, OthersKeepHolder
    <3> QED
      BY <2>2, <2>a, <3>1, AfterEditCopies DEF DelPool
  <2>3. ASSUME NEW pid \in PrefixId, NEW new \in OwnResa,
               SetReservation(pid, new)
        PROVE  StillHeld(r, s.id, conf') /\ StillHeld(r, s.id, commitConf')
    <3>1. \/ Raise
          \/ /\ evicted' = evicted \cup StaleResas(conf, pid, new)
             /\ Edit(ResaErrors(conf, pid, new), PutResa(conf, pid, new))
      BY <2>3 DEF SetReservation, EvictionFails
    <3>2. CASE /\ evicted' = evicted \cup StaleResas(conf, pid, new)
               /\ Edit(ResaErrors(conf, pid, new), PutResa(conf, pid, new))
      <4>1. StillHeld(r, s.id, PutResa(conf, pid, new))
        BY <1>0, <2>a, <2>c, <3>2, PutResaHandsOver
      <4> QED
        BY <2>a, <3>2, <4>1, EditCopies
    <3> QED
      BY <2>b, <3>1, <3>2
  <2>4. ASSUME NEW nid \in IpId, DelResa(nid)
        PROVE  StillHeld(r, s.id, conf') /\ StillHeld(r, s.id, commitConf')
    <3>1. \/ Raise
          \/ /\ evicted' = evicted \cup OwnedResas(conf, nid)
             /\ AfterEdit(DropResa(conf, nid))
      BY <2>4 DEF DelResa, EvictionFails
    <3>2. CASE /\ evicted' = evicted \cup OwnedResas(conf, nid)
               /\ AfterEdit(DropResa(conf, nid))
      <4>1. StillHeld(r, s.id, DropResa(conf, nid))
        BY <1>0, <2>a, <2>c, <3>2, DropResaHandsOver
      <4> QED
        BY <2>a, <3>2, <4>1, AfterEditCopies
    <3> QED
      BY <2>b, <3>1, <3>2
  <2> QED
    BY <1>3, <2>1, <2>2, <2>3, <2>4 DEF EditItems
<1>4. CASE Commit
  BY <1>4, <1>a, AfterEditCopies DEF Commit, history
<1>5. CASE SetAutoCommit \/ PushSet \/ PushWrite \/ Crash
  BY <1>5, <1>a DEF SetAutoCommit, PushSet, PushWrite, Crash, history
<1>6. CASE KeaRestart \/ AdminEdit \/ UNCHANGED vars
  BY <1>6, <1>a DEF KeaRestart, AdminEdit, vars, daemon, history
<1> QED
  BY <1>1, <1>2, <1>3, <1>4, <1>5, <1>6 DEF Next

\* A NetBox address is taken from a MAC only after a lease of it was deleted.
THEOREM LeaseGoesFirst == Spec => []HandOver
<1>1. Init => HandOver
  BY DEF Init, HandOver
<1> QED
  BY <1>1, Invariance, NextHandOver, PTL DEF Spec

-----------------------------------------------------------------------------
(* KeaApp implements StagedConfig. *)

\* The daemon and the server begin where the staged configuration begins.
LEMMA InitStaged == Init => Staged!Init
BY DEF Init, Staged!Init

\* A call stages what it leaves in the working copy, or stages nothing new.
LEMMA EditStages ==
    ASSUME NEW c, NEW errors,
           Edit(errors, c) \/ AfterEdit(c) \/ CommitOf(c) \/ Raise
    PROVE  \/ UNCHANGED <<commitConf, hasCommit>>
           \/ commitConf' = conf' /\ hasCommit' = TRUE
BY DEF Edit, AfterEdit, CommitOf, Raise

\* Every step is a step of the staged configuration, or none of its business.
LEMMA NextStaged == Inv /\ Inv' /\ [Next]_vars => [Staged!Next]_(Staged!vars)
<1> SUFFICES ASSUME Inv, Inv', [Next]_vars
             PROVE  Staged!Next \/ UNCHANGED Staged!vars
  OBVIOUS
<1>0. /\ conf' \in Conf /\ commitConf' \in Conf /\ KeaAccepts(commitConf')
      /\ running \in Conf /\ running' \in Conf
      /\ hasCommit \in BOOLEAN /\ hasCommit' \in BOOLEAN
  BY DEF Inv, TypeOK, CommitAccepted
<1>a. ASSUME UNCHANGED <<running, saved, base>>,
             \/ UNCHANGED <<commitConf, hasCommit>>
             \/ commitConf' = conf' /\ hasCommit' = TRUE
      PROVE  Staged!Edit
  BY <1>0, <1>a DEF Staged!Edit
<1>1. CASE Pull
  BY <1>1 DEF Pull, server, Staged!Next, Staged!Reload
<1>2. CASE EditSubnets \/ EditItems \/ Commit
  <2>1. UNCHANGED <<running, saved, base>>
    BY <1>2 DEF EditSubnets, SetSubnet, UpdateSubnet, DelSubnet, DelAllSubnets,
                EditItems, SetPool, DelPool, SetReservation, DelResa, Editing,
                Commit, server, history
  <2>2. \E c, errors : Edit(errors, c) \/ AfterEdit(c) \/ CommitOf(c) \/ Raise
    <3>1. CASE EditSubnets
      BY <3>1 DEF EditSubnets, SetSubnet, UpdateSubnet, DelSubnet,
                  DelAllSubnets
    <3>2. CASE EditItems
      BY <3>2 DEF EditItems, SetPool, DelPool, SetReservation, DelResa,
                  EvictionFails
    <3>3. CASE Commit
      BY <3>3 DEF Commit
    <3> QED
      BY <1>2, <3>1, <3>2, <3>3
  <2> QED
    BY <1>a, <2>1, <2>2, EditStages DEF Staged!Next
<1>3. CASE SetAutoCommit
  BY <1>3 DEF SetAutoCommit, server, history, Staged!vars
<1>4. CASE PushSet
  <2>1. CASE running' = commitConf /\ hasCommit' = hasCommit
    BY <1>4, <2>1 DEF PushSet, history, Staged!Next, Staged!Publish
  <2>2. CASE running' = running /\ hasCommit' = FALSE
    BY <1>0, <1>4, <2>2 DEF PushSet, history, Staged!Next, Staged!Forget
  <2> QED
    BY <1>4, <2>1, <2>2 DEF PushSet
<1>5. CASE PushWrite
  <2>1. CASE saved' = running
    BY <1>0, <1>5, <2>1 DEF PushWrite, history, Staged!Next, Staged!Persist
  <2>2. CASE saved' = saved /\ hasCommit' = FALSE
    BY <1>0, <1>5, <2>2 DEF PushWrite, history, Staged!Next, Staged!Forget
  <2>3. CASE saved' = saved /\ hasCommit' = hasCommit
    BY <1>5, <2>3 DEF PushWrite, history, Staged!vars
  <2> QED
    BY <1>5, <2>1, <2>2, <2>3 DEF PushWrite
<1>6. CASE Crash
  BY <1>0, <1>6 DEF Crash, server, history, Staged!Next, Staged!Forget
<1>7. CASE KeaRestart
  BY <1>7 DEF KeaRestart, daemon, history, Staged!Next, Staged!Restart
<1>8. CASE AdminEdit
  BY <1>0, <1>8 DEF AdminEdit, daemon, Staged!Next, Staged!Outside
<1>9. CASE UNCHANGED vars
  BY <1>9 DEF vars, daemon, server, history, Staged!vars
<1> QED
  BY <1>1, <1>2, <1>3, <1>4, <1>5, <1>6, <1>7, <1>8, <1>9 DEF Next

\* Only what Kea accepted and the daemon staged since its last pull() is ever
\* published, nothing else of the daemon reaches the server, and a pull()
\* forgets what was staged.
THEOREM ImplementsStaged == Spec => StagedSpec
BY InitStaged, Invariance, NextStaged, PTL DEF Spec, StagedSpec, Staged!Spec
=============================================================================

---------------------------- MODULE KeaCBProofs ----------------------------
(***************************************************************************)
(* What KeaCB guarantees for any tables, any number of edits and of calls  *)
(* that fail.                                                              *)
(*                                                                         *)
(* The rows of other tools are never deleted: reservation-del names a      *)
(* subnet and an address, so ForeignRowsKept needs to know who is there.   *)
(* What push() is still going to delete is in the table, is NetBox's, and  *)
(* shares its address with no other row.  The last is the table's key, the *)
(* first holds because nobody else deletes rows.                           *)
(*                                                                         *)
(* NothingDropped, PushIsExact and HandOver follow one idea: where the     *)
(* table is heading (Heading, below) is fixed by the comparison and is     *)
(* changed by no call of the push that succeeds.                           *)
(***************************************************************************)
EXTENDS KeaCB, KeaConfProofs

KInv == RowsUnique(hosts) /\ todel \subseteq Owned(hosts)

\* Calls that leave the table, and what is to be deleted from it, alone.
LEMMA SameTable ==
    ASSUME KInv, UNCHANGED <<hosts, todel>>
    PROVE  KInv' /\ Foreign(hosts) \subseteq hosts'
BY DEF KInv, RowsUnique, Owned, Foreign

LEMMA InitKInv == Init => KInv
BY StartHostsAssumption DEF Init, KInv

LEMMA FetchKInv ==
    ASSUME KInv, Fetch
    PROVE  KInv' /\ Foreign(hosts) \subseteq hosts'
<1>1. hosts' = hosts
  BY DEF Fetch
<1>2. todel' \subseteq Owned(hosts)
  <2>1. CASE UNCHANGED work
    BY <2>1 DEF work, KInv
  <2>2. CASE \E current \in Dictionaries(hosts),
               wanted \in Dictionaries(RowsOf(commitConf)) :
               todel' = Gone(current, wanted)
    BY <2>2 DEF Dictionaries, Gone
  <2> QED
    BY <2>1, <2>2 DEF Fetch
<1> QED
  BY <1>1, <1>2 DEF KInv, RowsUnique, Owned, Foreign

LEMMA DelRowKInv ==
    ASSUME KInv, NEW r \in todel, DelRow(r)
    PROVE  KInv' /\ Foreign(hosts) \subseteq hosts'
<1>1. /\ todel' = todel \ {r}
      /\ hosts' = hosts \/ hosts' = Without(hosts, r)
  BY DEF DelRow
<1>2. hosts' \subseteq hosts
  BY <1>1 DEF Without
<1>3. \A x \in hosts : x # r => x \in hosts'
  <2>1. r \in hosts
    BY DEF KInv, Owned
  <2>2. \A x \in hosts : x.sid = r.sid /\ x.ip = r.ip => x = r
    BY <2>1 DEF KInv, RowsUnique, Collide
  <2> QED
    BY <1>1, <2>2 DEF Without
<1>4. r.nid # NoId
  BY DEF KInv, Owned
<1>5. RowsUnique(hosts')
  BY <1>2 DEF KInv, RowsUnique
<1>6. todel' \subseteq Owned(hosts')
  BY <1>1, <1>3 DEF KInv, Owned
<1>7. Foreign(hosts) \subseteq hosts'
  BY <1>3, <1>4 DEF Foreign
<1> QED
  BY <1>5, <1>6, <1>7 DEF KInv

\* A row that collides with none keeps the table's keys.
LEMMA AddedKInv ==
    ASSUME KInv, NEW f, ~ \E x \in hosts : Collide(x, f),
           hosts' = hosts \cup {f}, todel' = todel
    PROVE  KInv' /\ Foreign(hosts) \subseteq hosts'
<1>1. RowsUnique(hosts')
  <2>1. \A x \in hosts : ~Collide(x, f) /\ ~Collide(f, x)
    BY DEF Collide
  <2> QED
    BY <2>1 DEF KInv, RowsUnique
<1> QED
  BY <1>1 DEF KInv, Owned, Foreign

LEMMA NextKInv ==
    KInv /\ [Next]_vars => KInv' /\ Foreign(hosts) \subseteq hosts'
<1> SUFFICES ASSUME KInv, [Next]_vars
             PROVE  KInv' /\ Foreign(hosts) \subseteq hosts'
  OBVIOUS
<1>1. CASE UNCHANGED vars
  BY <1>1, SameTable DEF vars, work
<1>2. CASE Pull
  BY <1>2, SameTable DEF Pull, work
<1>3. CASE EditSubnets
  <2>1. Editing
    BY <1>3 DEF EditSubnets, SetSubnet, UpdateSubnet, DelSubnet, DelAllSubnets
  <2> QED
    BY <2>1, SameTable DEF Editing, work
<1>4. CASE EditItems
  <2>1. Editing
    BY <1>4 DEF EditItems, SetPool, DelPool, SetReservation, DelResa
  <2> QED
    BY <2>1, SameTable DEF Editing, work
<1>5. CASE Commit \/ SetAutoCommit
  BY <1>5, SameTable DEF Commit, SetAutoCommit, work
<1>6. CASE PushDb \/ FlushEvictions
  BY <1>6, SameTable DEF PushDb, FlushEvictions, work
<1>7. CASE Fetch
  BY <1>7, FetchKInv
<1>8. CASE \E r \in todel : DelRow(r)
  BY <1>8, DelRowKInv
<1>9. CASE \E w \in toadd : AddRow(w)
  <2>1. PICK w \in toadd : AddRow(w)
    BY <1>9
  <2>2. CASE hosts' = hosts
    BY <2>1, <2>2, SameTable DEF AddRow
  <2>3. CASE hosts' = hosts \cup {w} /\ ~ \E x \in hosts : Collide(x, w)
    BY <2>1, <2>3, AddedKInv DEF AddRow
  <2> QED
    BY <2>1, <2>2, <2>3 DEF AddRow
<1>10. CASE Crash
  BY <1>10 DEF Crash, KInv, RowsUnique, Owned, Foreign
<1>11. CASE \E f \in Foreign(Row) : AddForeign(f)
  <2>1. PICK f \in Foreign(Row) : AddForeign(f)
    BY <1>11
  <2>2. todel' = todel
    BY <2>1 DEF AddForeign, work
  <2> QED
    BY <2>1, <2>2, AddedKInv DEF AddForeign
<1> QED
  BY <1>1, <1>2, <1>3, <1>4, <1>5, <1>6, <1>7, <1>8, <1>9, <1>10, <1>11
     DEF Next, Push

\* No sequence of calls, failures and crashes deletes a row that is not
\* NetBox's from the hosts table.
THEOREM ForeignRowsNeverTouched == Spec => ForeignRowsKept
<1>1. KInv /\ [Next]_vars => [Foreign(hosts) \subseteq hosts']_vars
  BY NextKInv
<1> QED
  BY InitKInv, NextKInv, <1>1, PTL DEF Spec, ForeignRowsKept

-----------------------------------------------------------------------------
(* Types. *)

\* What a configuration asks of the table is rows.
LEMMA RowsType ==
    ASSUME NEW c \in Conf
    PROVE  RowsOf(c) \subseteq Row
BY DEF Conf, Subnet, Resa, RowsOf, RowOf, Row

\* The reservation of a row, and the row of a reservation.
LEMMA RowAgain ==
    ASSUME NEW h \in Row, NEW s, s.id = h.sid
    PROVE  /\ [nid |-> h.nid, mac |-> h.mac, ip |-> h.ip] \in Resa
           /\ RowOf(s, [nid |-> h.nid, mac |-> h.mac, ip |-> h.ip]) = h
BY DEF Row, Resa, RowOf

LEMMA LoadedType ==
    ASSUME db \in Conf, hosts \subseteq Row
    PROVE  Loaded \in Conf /\ RowsOf(Loaded) \subseteq hosts
<1> DEFINE here(s) == {[nid |-> h.nid, mac |-> h.mac, ip |-> h.ip] :
                           h \in {x \in hosts : x.sid = s.id}}
<1>1. \A s : here(s) \subseteq Resa
  BY RowAgain DEF Row, Resa
<1>2. \A s \in Subnet : /\ [s EXCEPT !.resas = here(s)] \in Subnet
                        /\ [s EXCEPT !.resas = here(s)].id = s.id
                        /\ [s EXCEPT !.resas = here(s)].resas = here(s)
  BY <1>1 DEF Subnet
<1>3. Loaded = {[s EXCEPT !.resas = here(s)] : s \in db}
  BY DEF Loaded
<1>4. Loaded \in Conf
  BY <1>2, <1>3 DEF Conf
<1>5. ASSUME NEW x \in RowsOf(Loaded)
      PROVE  x \in hosts
  <2>1. PICK t \in Loaded : \E r \in t.resas : x = RowOf(t, r)
    BY <1>5 DEF RowsOf
  <2>2. PICK s \in db : t = [s EXCEPT !.resas = here(s)]
    BY <1>3, <2>1
  <2>3. t.id = s.id /\ t.resas = here(s)
    BY <1>2, <2>2 DEF Conf
  <2>4. PICK r \in here(s) : x = RowOf(t, r)
    BY <2>1, <2>3
  <2>5. PICK h \in hosts :
            h.sid = s.id /\ r = [nid |-> h.nid, mac |-> h.mac, ip |-> h.ip]
    BY <2>4
  <2> QED
    BY <2>3, <2>4, <2>5, RowAgain
<1> QED
  BY <1>4, <1>5

\* What is written to the database is a configuration.
LEMMA StripType ==
    ASSUME NEW c \in Conf
    PROVE  Strip(c) \in Conf
BY DEF Conf, Subnet, Strip

LEMMA ReplaceType ==
    ASSUME NEW c \in Conf, NEW pid, NEW old, NEW r \in Resa
    PROVE  Replace(c, pid, old, r) \in Conf
BY DEF Conf, Subnet, Replace

\* The reservations whose leases an edit asks to delete are NetBox's.
LEMMA StaleType ==
    ASSUME NEW c \in Conf, NEW pid, NEW r \in OwnResa
    PROVE  StaleResas(c, pid, r) \subseteq OwnResa
BY DEF Conf, Subnet, OwnResa, StaleResas

LEMMA OwnedResasType ==
    ASSUME NEW c \in Conf, NEW nid \in IpId
    PROVE  OwnedResas(c, nid) \subseteq OwnResa
BY NoIdAssumption DEF Conf, Subnet, OwnResa, OwnedResas

\* One commit, and one edit, of a configuration.
AppOK == conf \in Conf /\ commitConf \in Conf /\ hasCommit \in BOOLEAN

LEMMA AfterEditType ==
    ASSUME AppOK, NEW c \in Conf, AfterEdit(c)
    PROVE  AppOK'
BY DEF AppOK, AfterEdit, CommitOf

LEMMA EditType ==
    ASSUME AppOK, NEW errors, NEW c \in Conf, Edit(errors, c)
    PROVE  AppOK'
BY AfterEditType DEF Edit, AppOK, app

LEMMA StageType ==
    ASSUME TypeOK, NEW rs, rs \subseteq OwnResa, Stage(rs)
    PROVE  pending' \subseteq Addr /\ asked' \subseteq OwnResa
BY DEF TypeOK, Stage, OwnResa, Resa

\* An edit, from what it does to its own part of the state.
LEMMA EditingType ==
    ASSUME TypeOK, Editing, AppOK',
           pending' \subseteq Addr, asked' \subseteq OwnResa,
           wiped' \subseteq PrefixId, rebuilt' \in BOOLEAN
    PROVE  TypeOK'
<1>1. edits' \in 0..MaxEdits
  BY CbBoundsAssumption DEF TypeOK, Editing
<1> QED
  BY <1>1 DEF TypeOK, Editing, AppOK, trouble, work

LEMMA EditSubnetsType ==
    ASSUME TypeOK, EditSubnets
    PROVE  TypeOK'
<1>0. AppOK
  BY DEF TypeOK, AppOK
<1>1. ASSUME NEW pid \in PrefixId, NEW net \in Net, NEW opt \in Opt,
             SetSubnet(pid, net, opt)
      PROVE  TypeOK'
  <2>1. AppOK'
    BY <1>0, <1>1, EditType, PutSubnetType DEF SetSubnet, TypeOK
  <2> QED
    BY <1>1, <2>1, EditingType DEF SetSubnet, TypeOK
<1>2. ASSUME NEW pid \in PrefixId, NEW net \in Net, NEW opt \in Opt,
             UpdateSubnet(pid, net, opt)
      PROVE  TypeOK'
  <2>1. AppOK'
    BY <1>0, <1>2, EditType, UpdateOptionsType DEF UpdateSubnet, TypeOK
  <2> QED
    BY <1>2, <2>1, EditingType DEF UpdateSubnet, TypeOK
<1>3. ASSUME NEW pid \in PrefixId, DelSubnet(pid)
      PROVE  TypeOK'
  <2>1. AppOK'
    BY <1>0, <1>3, AfterEditType, DropSubnetType DEF DelSubnet, TypeOK
  <2> QED
    BY <1>3, <2>1, EditingType DEF DelSubnet, TypeOK
<1>4. CASE DelAllSubnets
  <2>1. AppOK'
    BY <1>0, <1>4, AfterEditType, EmptyConf DEF DelAllSubnets
  <2> QED
    BY <1>4, <2>1, EditingType DEF DelAllSubnets, TypeOK
<1> QED
  BY <1>1, <1>2, <1>3, <1>4 DEF EditSubnets

LEMMA EditItemsType ==
    ASSUME TypeOK, EditItems
    PROVE  TypeOK'
<1>0. AppOK /\ conf \in Conf
  BY DEF TypeOK, AppOK
<1>1. ASSUME NEW pid \in PrefixId, NEW p \in OwnPool, SetPool(pid, p)
      PROVE  TypeOK'
  <2>1. AppOK'
    BY <1>0, <1>1, EditType, PutPoolType DEF SetPool, OwnPool
  <2> QED
    BY <1>1, <2>1, EditingType DEF SetPool, TypeOK
<1>2. ASSUME NEW rid \in RangeId, DelPool(rid)
      PROVE  TypeOK'
  <2>1. AppOK'
    BY <1>0, <1>2, AfterEditType, DropPoolType DEF DelPool
  <2> QED
    BY <1>2, <2>1, EditingType DEF DelPool, TypeOK
<1>3. ASSUME NEW pid \in PrefixId, NEW r \in OwnResa, SetReservation(pid, r)
      PROVE  TypeOK'
  <2>1. AppOK'
    <3>1. CASE UNCHANGED app
      BY <1>0, <3>1 DEF AppOK, app
    <3>2. ASSUME NEW old, AfterEdit(Replace(conf, pid, old, r))
          PROVE  AppOK'
      BY <1>0, <3>2, AfterEditType, ReplaceType DEF OwnResa
    <3> QED
      BY <1>3, <3>1, <3>2 DEF SetReservation
  <2>2. pending' \subseteq Addr /\ asked' \subseteq OwnResa
    BY <1>0, <1>3, StaleType, StageType DEF SetReservation
  <2> QED
    BY <1>3, <2>1, <2>2, EditingType DEF SetReservation, TypeOK
<1>4. ASSUME NEW nid \in IpId, DelResa(nid)
      PROVE  TypeOK'
  <2>1. AppOK'
    BY <1>0, <1>4, AfterEditType, DropResaType DEF DelResa
  <2>2. pending' \subseteq Addr /\ asked' \subseteq OwnResa
    BY <1>0, <1>4, OwnedResasType, StageType DEF DelResa
  <2> QED
    BY <1>4, <2>1, <2>2, EditingType DEF DelResa, TypeOK
<1> QED
  BY <1>1, <1>2, <1>3, <1>4 DEF EditItems

\* Every way in which a call fails.
LEMMA TroubleType ==
    ASSUME TypeOK, UNCHANGED trouble \/ Fault \/ Refused
    PROVE  failed' \in BOOLEAN /\ disturbed' \in BOOLEAN /\ faults' \in 0..MaxFaults
<1>1. faults' \in 0..MaxFaults
  BY CbBoundsAssumption DEF TypeOK, trouble, Fault, Refused
<1>2. failed' \in BOOLEAN /\ disturbed' \in BOOLEAN
  BY DEF TypeOK, trouble, Fault, Refused
<1> QED
  BY <1>1, <1>2

LEMMA FetchType ==
    ASSUME TypeOK, Fetch
    PROVE  TypeOK'
<1>1. CASE Fault /\ pc' = "idle" /\ UNCHANGED work
  BY <1>1, TroubleType DEF TypeOK, Fetch, work, app, past
<1>2. ASSUME NEW current \in Dictionaries(hosts),
             NEW wanted \in Dictionaries(RowsOf(commitConf)),
             todel' = Gone(current, wanted),
             toadd' = New(current, wanted),
             want' = wanted,
             blocked' = Blocked(wanted),
             had' = {w \in wanted : \E r \in current : SameKey(r, w)},
             pc' = "reconcile",
             disturbed' = (disturbed \/ Blocked(wanted) # {}),
             UNCHANGED <<failed, faults>>
      PROVE  TypeOK'
  <2>1. current \subseteq Owned(Row) /\ wanted \subseteq Owned(Row)
    BY RowsType DEF Dictionaries, TypeOK, Owned
  <2>2. /\ Gone(current, wanted) \subseteq Owned(Row)
        /\ New(current, wanted) \subseteq Owned(Row)
        /\ Blocked(wanted) \subseteq IpId
    BY <2>1 DEF Gone, New, Blocked, Owned, Row
  <2> QED
    BY <1>2, <2>1, <2>2 DEF TypeOK, Fetch, app, past
<1> QED
  BY <1>1, <1>2 DEF Fetch

LEMMA CallsType ==
    ASSUME TypeOK,
           \/ PushDb \/ FlushEvictions
           \/ \E r \in todel : DelRow(r)
           \/ \E w \in toadd : AddRow(w)
    PROVE  TypeOK'
<1>1. CASE PushDb
  <2>1. failed' \in BOOLEAN /\ disturbed' \in BOOLEAN /\ faults' \in 0..MaxFaults
    BY <1>1, TroubleType DEF PushDb
  <2>2. db' \in Conf
    BY <1>1, StripType DEF PushDb, TypeOK
  <2> QED
    BY <1>1, <2>1, <2>2 DEF PushDb, TypeOK, work, past
<1>2. CASE FlushEvictions
  <2>1. failed' \in BOOLEAN /\ disturbed' \in BOOLEAN /\ faults' \in 0..MaxFaults
    BY <1>2, TroubleType DEF FlushEvictions
  <2>2. evicted' \subseteq Addr
    BY <1>2 DEF FlushEvictions, TypeOK
  <2> QED
    BY <1>2, <2>1, <2>2 DEF FlushEvictions, TypeOK, work, app
<1>3. ASSUME NEW r \in todel, DelRow(r)
      PROVE  TypeOK'
  <2>1. failed' \in BOOLEAN /\ disturbed' \in BOOLEAN /\ faults' \in 0..MaxFaults
    BY <1>3, TroubleType DEF DelRow
  <2>2. hosts' \subseteq Row /\ todel' \subseteq Owned(Row)
    BY <1>3 DEF DelRow, Without, TypeOK
  <2> QED
    BY <1>3, <2>1, <2>2 DEF DelRow, TypeOK, past, app
<1>4. ASSUME NEW w \in toadd, AddRow(w)
      PROVE  TypeOK'
  <2>1. failed' \in BOOLEAN /\ disturbed' \in BOOLEAN /\ faults' \in 0..MaxFaults
    BY <1>4, TroubleType DEF AddRow
  <2>2. hosts' \subseteq Row /\ toadd' \subseteq Owned(Row)
    BY <1>4 DEF AddRow, TypeOK, Owned
  <2> QED
    BY <1>4, <2>1, <2>2 DEF AddRow, TypeOK, past, app
<1> QED
  BY <1>1, <1>2, <1>3, <1>4

\* Every value the daemon and the two stores can hold is one of its kind, for
\* every content of the stores at the start.
THEOREM CbTypes == Spec => []TypeOK
<1>1. Init => TypeOK
  <2> SUFFICES ASSUME Init
               PROVE  TypeOK
    OBVIOUS
  <2>1. edits \in 0..MaxEdits /\ faults \in 0..MaxFaults
    BY CbBoundsAssumption DEF Init
  <2>2. db \in Conf /\ hosts \subseteq Row /\ conf \in Conf /\ commitConf \in Conf
    BY EmptyConf, StartDbsAssumption, StartHostsAssumption DEF Init
  <2>3. disturbed \in BOOLEAN
    BY DEF Init
  <2> QED
    BY <2>1, <2>2, <2>3 DEF Init, TypeOK
<1>2. TypeOK /\ [Next]_vars => TypeOK'
  <2> SUFFICES ASSUME TypeOK, [Next]_vars
               PROVE  TypeOK'
    OBVIOUS
  <2>1. CASE UNCHANGED vars
    BY <2>1 DEF vars, app, work, past, trouble, TypeOK
  <2>2. CASE Pull
    <3>1. Loaded \in Conf /\ Owned(RowsOf(Loaded)) \subseteq Row
      BY LoadedType DEF TypeOK, Owned
    <3> QED
      BY <2>2, <3>1 DEF Pull, TypeOK, work
  <2>3. CASE EditSubnets
    BY <2>3, EditSubnetsType
  <2>4. CASE EditItems
    BY <2>4, EditItemsType
  <2>5. CASE Commit \/ SetAutoCommit
    BY <2>5 DEF Commit, SetAutoCommit, CommitOf, TypeOK, work, past, trouble, app
  <2>6. CASE Push
    BY <2>6, FetchType, CallsType DEF Push
  <2>7. CASE Crash
    BY <2>7, EmptyConf DEF Crash, TypeOK, past, trouble
  <2>8. CASE \E f \in Foreign(Row) : AddForeign(f)
    BY <2>8, CbBoundsAssumption
       DEF AddForeign, Foreign, TypeOK, app, work, past, trouble
  <2> QED
    BY <2>1, <2>2, <2>3, <2>4, <2>5, <2>6, <2>7, <2>8 DEF Next
<1> QED
  BY <1>1, <1>2, PTL DEF Spec

-----------------------------------------------------------------------------
(***************************************************************************)
(* What push() leaves.  During a push the table is on its way: Heading is  *)
(* what it will hold when every call still to make has succeeded, and a    *)
(* call that succeeds does not change it.                                  *)
(***************************************************************************)
HeadingOf(rows, del, add) == (rows \ del) \cup add
Heading == HeadingOf(hosts, todel, toadd)

\* Calls are left over only inside push().
NoWorkLeft == pc # "reconcile" => todel = {} /\ toadd = {}

WInv == KInv /\ TypeOK /\ NoWorkLeft

LEMMA InitWork == Init => NoWorkLeft
BY DEF Init, NoWorkLeft

LEMMA NextWork ==
    ASSUME NoWorkLeft, [Next]_vars
    PROVE  NoWorkLeft'
<1>1. CASE UNCHANGED vars
  BY <1>1 DEF vars, work, NoWorkLeft
<1>2. CASE Pull \/ Commit \/ SetAutoCommit
  BY <1>2 DEF Pull, Commit, SetAutoCommit, work, NoWorkLeft
<1>3. CASE EditSubnets
  <2>1. Editing
    BY <1>3 DEF EditSubnets, SetSubnet, UpdateSubnet, DelSubnet, DelAllSubnets
  <2> QED
    BY <2>1 DEF Editing, work, NoWorkLeft
<1>4. CASE EditItems
  <2>1. Editing
    BY <1>4 DEF EditItems, SetPool, DelPool, SetReservation, DelResa
  <2> QED
    BY <2>1 DEF Editing, work, NoWorkLeft
<1>5. CASE Push
  BY <1>5 DEF Push, PushDb, Fetch, DelRow, AddRow, FlushEvictions, work, NoWorkLeft
<1>6. CASE Crash \/ \E f \in Foreign(Row) : AddForeign(f)
  BY <1>6 DEF Crash, AddForeign, work, NoWorkLeft
<1> QED
  BY <1>1, <1>2, <1>3, <1>4, <1>5, <1>6 DEF Next

\* The facts about the table, the types and the calls left, together.
LEMMA CbTable == Spec => []WInv
<1>1. KInv /\ [Next]_vars => KInv'
  BY NextKInv
<1> QED
  BY CbTypes, InitKInv, <1>1, InitWork, NextWork, PTL DEF Spec, WInv

\* A deletion that succeeds: the row goes, and nothing else.
LEMMA RowGone ==
    ASSUME WInv, NEW r \in todel, DelRow(r), ~failed'
    PROVE  /\ hosts' = hosts \ {r}
           /\ Heading' = Heading
           /\ UNCHANGED trouble
<1>1. hosts' = Without(hosts, r) /\ UNCHANGED trouble
  BY DEF DelRow, Fault
<1>2. r \in hosts
  BY DEF WInv, KInv, Owned
<1>3. \A x \in hosts : x.sid = r.sid /\ x.ip = r.ip => x = r
  BY <1>2 DEF WInv, KInv, RowsUnique, Collide
<1>4. hosts' = hosts \ {r}
  BY <1>1, <1>3 DEF Without
<1>5. todel' = todel \ {r} /\ toadd' = toadd
  BY DEF DelRow
<1> QED
  BY <1>1, <1>4, <1>5 DEF Heading, HeadingOf

\* An addition that succeeds: the row comes, and nothing else.
LEMMA RowCame ==
    ASSUME WInv, NEW w \in toadd, AddRow(w), ~failed'
    PROVE  /\ hosts' = hosts \cup {w}
           /\ ~ \E x \in hosts : Collide(x, w)
           /\ Heading' = Heading
           /\ UNCHANGED trouble
<1>1. /\ hosts' = hosts \cup {w}
      /\ ~ \E x \in hosts : Collide(x, w)
      /\ UNCHANGED trouble
  BY DEF AddRow, Fault, Refused
<1>2. todel = {} /\ todel' = todel /\ toadd' = toadd \ {w}
  BY DEF AddRow
<1> QED
  BY <1>1, <1>2 DEF Heading, HeadingOf

-----------------------------------------------------------------------------
(***************************************************************************)
(* NothingDropped: what the push found under the key of a wanted row, and  *)
(* the wanted row, are never both missing from where the table is heading. *)
(***************************************************************************)
Kept(rows) == \A w \in had : \E h \in rows : SameKey(h, w)

DInv ==
    ~failed /\ (pc = "reconcile" \/ (pc = "idle" /\ done)) => Kept(Heading)

\* A row that is to change is added again unless its place is taken, and then
\* it is not deleted.
LEMMA FetchKeeps ==
    ASSUME WInv, Fetch, pc' = "reconcile"
    PROVE  Kept(Heading)'
<1>1. PICK current \in Dictionaries(hosts),
           wanted \in Dictionaries(RowsOf(commitConf)) :
           /\ todel' = Gone(current, wanted)
           /\ toadd' = New(current, wanted)
           /\ had' = {w \in wanted : \E r \in current : SameKey(r, w)}
  BY DEF Fetch
<1>2. hosts' = hosts
  BY DEF Fetch
<1>3. ASSUME NEW w \in had'
      PROVE  \E h \in Heading' : SameKey(h, w)
  <2>1. PICK r \in current : SameKey(r, w)
    BY <1>1, <1>3
  <2>2. w \in wanted /\ r \in hosts
    BY <1>1, <1>3 DEF Dictionaries, Owned
  <2>3. CASE w.nid \in Blocked(wanted)
    <3>1. r \notin todel'
      BY <1>1, <2>1, <2>3 DEF Gone, SameKey
    <3> QED
      BY <1>2, <2>1, <2>2, <3>1 DEF Heading, HeadingOf
  <2>4. CASE w.nid \notin Blocked(wanted)
    <3>1. CASE w \in current
      <4>1. w \in hosts /\ w \notin todel'
        BY <1>1, <2>2, <3>1 DEF Gone, Dictionaries, Owned
      <4> QED
        BY <1>2, <4>1 DEF Heading, HeadingOf, SameKey
    <3>2. CASE w \notin current
      <4>1. w \in toadd'
        BY <1>1, <2>2, <2>4, <3>2 DEF New, Blocked
      <4> QED
        BY <4>1 DEF Heading, HeadingOf, SameKey
    <3> QED
      BY <3>1, <3>2
  <2> QED
    BY <2>3, <2>4
<1> QED
  BY <1>3 DEF Kept

\* A row of another tool only adds to where the table is heading.
LEMMA HeadingGrows ==
    ASSUME NEW f, AddForeign(f)
    PROVE  Heading \subseteq Heading'
BY DEF AddForeign, work, Heading, HeadingOf

LEMMA NextDropped ==
    ASSUME WInv, DInv, [Next]_vars
    PROVE  DInv'
<1> SUFFICES ASSUME ~failed', pc' = "reconcile" \/ (pc' = "idle" /\ done')
             PROVE  Kept(Heading)'
  BY DEF DInv
<1>1. CASE UNCHANGED vars
  BY <1>1 DEF vars, work, trouble, DInv, Kept, Heading, HeadingOf
<1>2. CASE Pull \/ Crash
  BY <1>2 DEF Pull, Crash, WInv, NoWorkLeft
<1>3. CASE EditSubnets \/ EditItems
  <2>1. Editing
    BY <1>3 DEF EditSubnets, SetSubnet, UpdateSubnet, DelSubnet, DelAllSubnets,
                EditItems, SetPool, DelPool, SetReservation, DelResa
  <2> QED
    BY <2>1 DEF Editing
<1>4. CASE Commit \/ SetAutoCommit
  BY <1>4 DEF Commit, SetAutoCommit, work, trouble, DInv, Kept, Heading, HeadingOf
<1>5. CASE PushDb
  BY <1>5 DEF PushDb, Fault
<1>6. CASE Fetch
  BY <1>6, FetchKeeps DEF Fetch, Fault
<1>7. CASE \E r \in todel : DelRow(r)
  <2>1. PICK r \in todel : DelRow(r)
    BY <1>7
  <2> QED
    BY <2>1, RowGone DEF DelRow, trouble, DInv, Kept
<1>8. CASE \E w \in toadd : AddRow(w)
  <2>1. PICK w \in toadd : AddRow(w)
    BY <1>8
  <2> QED
    BY <2>1, RowCame DEF AddRow, trouble, DInv, Kept
<1>9. CASE FlushEvictions
  BY <1>9 DEF FlushEvictions, Fault, trouble, work, DInv, Kept, Heading, HeadingOf
<1>10. CASE \E f \in Foreign(Row) : AddForeign(f)
  <2>1. PICK f \in Foreign(Row) : AddForeign(f)
    BY <1>10
  <2>2. had' = had /\ pc' = pc /\ done' = done /\ failed' = failed
    BY <2>1 DEF AddForeign, work, trouble
  <2> QED
    BY <2>1, <2>2, HeadingGrows DEF DInv, Kept
<1> QED
  BY <1>1, <1>2, <1>3, <1>4, <1>5, <1>6, <1>7, <1>8, <1>9, <1>10 DEF Next, Push

\* A push without a failure drops no NetBox address from a subnet that had it
\* and is to keep it, whatever rows other tools have and add meanwhile.
THEOREM NothingIsDropped == Spec => []NothingDropped
<1>1. Init => DInv
  BY DEF Init, DInv
<1>2. WInv /\ DInv /\ [Next]_vars => DInv'
  BY NextDropped
<1>3. WInv /\ DInv => NothingDropped
  BY DEF WInv, NoWorkLeft, DInv, Kept, Heading, HeadingOf, NothingDropped
<1> QED
  BY CbTable, <1>1, <1>2, <1>3, PTL DEF Spec

-----------------------------------------------------------------------------
(***************************************************************************)
(* PushIsExact: without any trouble NetBox's rows have one row for a key,  *)
(* and they are heading for exactly the wanted rows.  That alone would not *)
(* survive a deletion: the rows to delete must be none of the wanted.      *)
(***************************************************************************)
OnItsWay ==
    /\ KeysUnique(want)
    /\ toadd \subseteq want
    /\ todel \cap want = {}
    /\ Owned(hosts) \cup toadd = want \cup todel

EInv ==
    ~disturbed =>
        /\ KeysUnique(hosts)
        /\ pc = "reconcile" => OnItsWay
        /\ pc = "idle" /\ done => Owned(hosts) = want

LEMMA FetchExact ==
    ASSUME WInv, EInv, Fetch, ~disturbed'
    PROVE  EInv'
<1>0. TypeOK /\ TypeOK'
  BY FetchType DEF WInv
<1>1. PICK current \in Dictionaries(hosts),
           wanted \in Dictionaries(RowsOf(commitConf)) :
           /\ todel' = Gone(current, wanted)
           /\ toadd' = New(current, wanted)
           /\ want' = wanted
           /\ pc' = "reconcile"
           /\ disturbed' = (disturbed \/ Blocked(wanted) # {})
  BY DEF Fetch, Fault
<1>2. hosts' = hosts
  BY DEF Fetch
<1>3. ~disturbed /\ Blocked(wanted) = {}
  BY <1>0, <1>1 DEF TypeOK
<1>4. KeysUnique(hosts)
  BY <1>3 DEF EInv
<1>5. current = Owned(hosts)
  BY <1>4 DEF Dictionaries, KeysUnique
<1>6. KeysUnique(wanted) /\ wanted \subseteq Owned(RowsOf(commitConf))
  BY DEF Dictionaries, KeysUnique, Owned
<1>7. Gone(current, wanted) = Owned(hosts) \ wanted
  BY <1>3, <1>5 DEF Gone
<1>8. New(current, wanted) = wanted \ Owned(hosts)
  <2>1. ~ \E x \in wanted : \E f \in Foreign(hosts) : f.sid = x.sid /\ f.ip = x.ip
    BY <1>3 DEF Blocked
  <2> QED
    BY <1>5, <2>1 DEF New
<1>9. OnItsWay'
  BY <1>1, <1>2, <1>6, <1>7, <1>8 DEF OnItsWay
<1> QED
  BY <1>1, <1>2, <1>4, <1>9 DEF EInv

LEMMA DelRowExact ==
    ASSUME WInv, EInv, NEW r \in todel, DelRow(r), ~disturbed'
    PROVE  EInv'
<1>1. hosts' = Without(hosts, r) /\ UNCHANGED trouble
  BY DEF DelRow, Fault
<1>2. r \in Owned(hosts)
  BY DEF WInv, KInv
<1>3. \A x \in hosts : x.sid = r.sid /\ x.ip = r.ip => x = r
  BY <1>2 DEF WInv, KInv, RowsUnique, Collide, Owned
<1>4. Owned(hosts') = Owned(hosts) \ {r}
  BY <1>1, <1>3 DEF Without, Owned
<1>5. ~disturbed /\ pc = "reconcile" /\ pc' = "reconcile"
  BY <1>1 DEF trouble, DelRow
<1>6. KeysUnique(hosts) /\ OnItsWay
  BY <1>5 DEF EInv
<1>7. todel' = todel \ {r} /\ toadd' = toadd /\ want' = want
  BY DEF DelRow
<1>8. OnItsWay'
  BY <1>4, <1>6, <1>7 DEF OnItsWay
<1>9. KeysUnique(hosts)'
  BY <1>4, <1>6 DEF KeysUnique
<1> QED
  BY <1>5, <1>8, <1>9 DEF EInv

LEMMA AddRowExact ==
    ASSUME WInv, EInv, NEW w \in toadd, AddRow(w), ~disturbed'
    PROVE  EInv'
<1>1. hosts' = hosts \cup {w} /\ UNCHANGED trouble
  BY DEF AddRow, Fault, Refused
<1>2. w.nid # NoId
  BY DEF WInv, TypeOK, Owned
<1>3. Owned(hosts') = Owned(hosts) \cup {w}
  BY <1>1, <1>2 DEF Owned
<1>4. ~disturbed /\ pc = "reconcile" /\ pc' = "reconcile"
  BY <1>1 DEF trouble, AddRow
<1>5. OnItsWay /\ todel = {}
  BY <1>4 DEF EInv, AddRow
<1>6. todel' = todel /\ toadd' = toadd \ {w} /\ want' = want
  BY DEF AddRow
<1>7. OnItsWay'
  BY <1>3, <1>5, <1>6 DEF OnItsWay
<1>8. KeysUnique(hosts)'
  <2>1. Owned(hosts') \subseteq Owned(want)
    BY <1>3, <1>5 DEF OnItsWay, Owned
  <2> QED
    BY <1>5, <2>1 DEF OnItsWay, KeysUnique
<1> QED
  BY <1>4, <1>7, <1>8 DEF EInv

\* Steps outside the calls to Kea: the rows NetBox owns stay, and done is
\* only ever taken back.
LEMMA SameExact ==
    ASSUME EInv, Owned(hosts') = Owned(hosts), disturbed' = disturbed,
           \/ UNCHANGED <<pc, done, want, todel, toadd>>
           \/ pc' # "reconcile" /\ ~done'
    PROVE  EInv'
BY DEF EInv, OnItsWay, KeysUnique

LEMMA NextExact ==
    ASSUME WInv, EInv, [Next]_vars
    PROVE  EInv'
<1> SUFFICES ASSUME ~disturbed'
             PROVE  EInv'
  BY DEF EInv
<1>1. CASE UNCHANGED vars
  BY <1>1, SameExact DEF vars, work, trouble
<1>2. CASE Pull
  BY <1>2, SameExact DEF Pull, work
<1>3. CASE EditSubnets \/ EditItems
  <2>1. Editing
    BY <1>3 DEF EditSubnets, SetSubnet, UpdateSubnet, DelSubnet, DelAllSubnets,
                EditItems, SetPool, DelPool, SetReservation, DelResa
  <2> QED
    BY <2>1, SameExact DEF Editing, work, trouble
<1>4. CASE Commit \/ SetAutoCommit
  BY <1>4, SameExact DEF Commit, SetAutoCommit, work, trouble
<1>5. CASE PushDb
  BY <1>5, SameExact DEF PushDb, Fault, work, trouble
<1>6. CASE Fetch
  BY <1>6, FetchExact
<1>7. CASE \E r \in todel : DelRow(r)
  BY <1>7, DelRowExact
<1>8. CASE \E w \in toadd : AddRow(w)
  BY <1>8, AddRowExact
<1>9. CASE FlushEvictions
  <2>1. /\ pc = "reconcile" /\ todel = {} /\ toadd = {}
        /\ hosts' = hosts /\ want' = want /\ UNCHANGED trouble /\ pc' = "idle"
    BY <1>9 DEF FlushEvictions, Fault, work
  <2> QED
    BY <2>1 DEF EInv, OnItsWay, trouble
<1>10. CASE Crash
  BY <1>10, SameExact DEF Crash, trouble
<1>11. CASE \E f \in Foreign(Row) : AddForeign(f)
  <2>1. PICK f \in Foreign(Row) : AddForeign(f)
    BY <1>11
  <2>2. Owned(hosts') = Owned(hosts)
    BY <2>1 DEF AddForeign, Owned, Foreign
  <2> QED
    BY <2>1, <2>2, SameExact DEF AddForeign, work, trouble
<1> QED
  BY <1>1, <1>2, <1>3, <1>4, <1>5, <1>6, <1>7, <1>8, <1>9, <1>10, <1>11
     DEF Next, Push

\* As long as no call ever failed and no row of others was in the way, every
\* push leaves exactly the rows that were committed, from any table, after any
\* edits and crashes, however the calls and the rows of others interleave.
THEOREM UndisturbedPushIsExact == Spec => []PushIsExact
<1>1. Init => EInv
  BY DEF Init, EInv
<1>2. WInv /\ EInv /\ [Next]_vars => EInv'
  BY NextExact
<1>3. WInv /\ EInv => PushIsExact
  BY DEF WInv, TypeOK, EInv, PushIsExact, Exact, Owned
<1> QED
  BY CbTable, <1>1, <1>2, <1>3, PTL DEF Spec

-----------------------------------------------------------------------------
(***************************************************************************)
(* HandOver.  A row that pull() read is the matter of nobody but push() as *)
(* long as its subnet was not replaced and no lease of its holder is to go *)
(* (Live).  Such a row                                                     *)
(*   - still has its holder in the working copy and in what is committed;  *)
(*   - may share its key with rows of other MACs, but with those only that *)
(*     the table has too: an edit for another MAC would stage a lease;     *)
(*   - has its holder where the table is heading.                          *)
(* The last two fail only in a push that a row in its way dooms to fail:   *)
(* two rows of the table have one key, and the dictionaries of push() kept *)
(* one of them on one side and the other on the other.                     *)
(***************************************************************************)
Holds(x, r) == SameKey(x, r) /\ x.mac = r.mac
Lives(r, w, a) == r.sid \notin w /\ \A e \in a : ~SameHolder(e, r)

\* c keeps the holder of every live row of b.
KeepsHolders(b, w, a, c) ==
    \A r \in b : Lives(r, w, a) => \E x \in RowsOf(c) : Holds(x, r)

\* What c has for another MAC under the key of a live row is in rows.
OthersAreIn(b, w, a, c, rows) ==
    \A r \in b : Lives(r, w, a) =>
        \A x \in RowsOf(c) : SameKey(x, r) /\ x.mac # r.mac => x \in rows

\* rows has the holder of every live row of b.
Held(b, w, a, rows) ==
    \A r \in b : Lives(r, w, a) => \E h \in rows : Holds(h, r)

\* A call still to make will be refused.
DoomedBy(rows, add) == \E w \in add : \E x \in rows : Collide(x, w)

EditsOK ==
    /\ KeepsHolders(base, wiped, asked, conf)
    /\ KeepsHolders(base, wiped, asked, commitConf)

TableOK ==
    \/ DoomedBy(hosts \ todel, toadd)
    \/ /\ Held(base, wiped, asked, Heading)
       /\ OthersAreIn(base, wiped, asked, conf, Heading)
       /\ OthersAreIn(base, wiped, asked, commitConf, Heading)

\* A lease that is to go is staged until it is gone.
LeasesOK == \A e \in asked : e.ip \in pending \cup evicted

\* What HandOver says, while no push has begun to change the table.
RestOK ==
    pc # "reconcile" =>
        \A r \in base :
            \/ r.sid \in wiped
            \/ \E e \in asked : SameHolder(e, r) /\ e.ip \in evicted
            \/ \E h \in hosts : Holds(h, r)

BaseOK == base \subseteq Owned(Row)

HInv == pulled /\ ~failed => BaseOK /\ EditsOK /\ TableOK /\ LeasesOK /\ RestOK

\* The rows a configuration asks for, one by one.
LEMMA RowsOfIs ==
    ASSUME NEW c, NEW x
    PROVE  x \in RowsOf(c) <=> \E s \in c : \E y \in s.resas : x = RowOf(s, y)
BY DEF RowsOf

LEMMA RowOfParts ==
    ASSUME NEW s, NEW y
    PROVE  /\ RowOf(s, y).sid = s.id /\ RowOf(s, y).nid = y.nid
           /\ RowOf(s, y).mac = y.mac /\ RowOf(s, y).ip = y.ip
BY DEF RowOf

\* What holds of a copy holds on when more subnets are wiped and more leases
\* are asked for, and when the rows grow.
LEMMA FewerLive ==
    ASSUME NEW b, NEW w1, NEW w2, w1 \subseteq w2,
           NEW a1, NEW a2, a1 \subseteq a2, NEW c,
           NEW rows1, NEW rows2, rows1 \subseteq rows2
    PROVE  /\ KeepsHolders(b, w1, a1, c) => KeepsHolders(b, w2, a2, c)
           /\ OthersAreIn(b, w1, a1, c, rows1) => OthersAreIn(b, w2, a2, c, rows2)
           /\ Held(b, w1, a1, rows1) => Held(b, w2, a2, rows2)
BY DEF KeepsHolders, OthersAreIn, Held, Lives

\* The same rows outside the wiped subnets.
LEMMA SameRows ==
    ASSUME NEW b, NEW w, NEW a, NEW c, NEW d, NEW rows,
           \A x : x.sid \notin w => (x \in RowsOf(c) <=> x \in RowsOf(d)),
           KeepsHolders(b, w, a, c), OthersAreIn(b, w, a, c, rows)
    PROVE  KeepsHolders(b, w, a, d) /\ OthersAreIn(b, w, a, d, rows)
BY DEF KeepsHolders, OthersAreIn, Lives, Holds, SameKey

\* An edit that gives every subnet outside w an image with the same id and
\* reservations leaves the rows outside w.
LEMMA ImageRows ==
    ASSUME NEW c, NEW f, \A s \in c : f[s].id = s.id /\ f[s].resas = s.resas
    PROVE  RowsOf({f[s] : s \in c}) = RowsOf(c)
BY DEF RowsOf, RowOf

LEMMA UpdateOptionsRows ==
    ASSUME NEW c \in Conf, NEW pid, NEW opt
    PROVE  RowsOf(UpdateOptions(c, pid, opt)) = RowsOf(c)
<1> DEFINE f == [s \in c |-> IF s.id = pid THEN [s EXCEPT !.opt = opt] ELSE s]
<1>1. UpdateOptions(c, pid, opt) = {f[s] : s \in c}
  BY DEF UpdateOptions
<1>2. \A s \in c : f[s].id = s.id /\ f[s].resas = s.resas
  BY DEF Conf, Subnet
<1> HIDE DEF f
<1> QED
  BY <1>1, <1>2, ImageRows

LEMMA PutPoolRows ==
    ASSUME NEW c \in Conf, NEW pid, NEW p
    PROVE  RowsOf(PutPool(c, pid, p)) = RowsOf(c)
<1> DEFINE f == [s \in c |-> IF s.id = pid
                             THEN [s EXCEPT !.pools =
                                      {x \in s.pools : x.rid # p.rid} \cup {p}]
                             ELSE s]
<1>1. PutPool(c, pid, p) = {f[s] : s \in c}
  BY DEF PutPool
<1>2. \A s \in c : f[s].id = s.id /\ f[s].resas = s.resas
  BY DEF Conf, Subnet
<1> HIDE DEF f
<1> QED
  BY <1>1, <1>2, ImageRows

LEMMA DropPoolRows ==
    ASSUME NEW c \in Conf, NEW rid
    PROVE  RowsOf(DropPool(c, rid)) = RowsOf(c)
<1> DEFINE f == [s \in c |->
                 [s EXCEPT !.pools = {x \in s.pools : x.rid # rid}]]
<1>1. DropPool(c, rid) = {f[s] : s \in c}
  BY DEF DropPool
<1>2. \A s \in c : f[s].id = s.id /\ f[s].resas = s.resas
  BY DEF Conf, Subnet
<1> HIDE DEF f
<1> QED
  BY <1>1, <1>2, ImageRows

LEMMA DropSubnetRows ==
    ASSUME NEW c \in Conf, NEW pid, NEW net, NEW opt, NEW x, x.sid # pid
    PROVE  /\ x \in RowsOf(DropSubnet(c, pid)) <=> x \in RowsOf(c)
           /\ x \in RowsOf(PutSubnet(c, pid, net, opt)) <=> x \in RowsOf(c)
<1>1. x \in RowsOf(DropSubnet(c, pid)) <=> x \in RowsOf(c)
  BY RowsOfIs, RowOfParts DEF DropSubnet
<1> DEFINE new == [id |-> pid, net |-> net, opt |-> opt,
                   resas |-> {}, pools |-> {}]
<1>2. new.resas = {} /\ PutSubnet(c, pid, net, opt) = DropSubnet(c, pid) \cup {new}
  BY DEF PutSubnet
<1> HIDE DEF new
<1>3. x \in RowsOf(PutSubnet(c, pid, net, opt)) <=> x \in RowsOf(DropSubnet(c, pid))
  BY <1>2, RowsOfIs
<1> QED
  BY <1>1, <1>3

\* set_reservation: what goes is of the new MAC, or its lease is asked for.
LEMMA ReplaceKeeps ==
    ASSUME NEW c \in Conf, NEW pid, NEW q, NEW old,
           \A y \in old : y.nid = q.nid,
           NEW b, NEW w, NEW a, StaleResas(c, pid, q) \subseteq a, NEW rows,
           KeepsHolders(b, w, a, c), OthersAreIn(b, w, a, c, rows)
    PROVE  /\ KeepsHolders(b, w, a, Replace(c, pid, old, q))
           /\ OthersAreIn(b, w, a, Replace(c, pid, old, q), rows)
<1> DEFINE d == Replace(c, pid, old, q)
           f == [s \in c |-> IF s.id = pid
                             THEN [s EXCEPT !.resas = (s.resas \ old) \cup {q}]
                             ELSE s]
<1>1. d = {f[s] : s \in c}
  BY DEF Replace
<1>2. \A s \in c : /\ f[s].id = s.id
                   /\ s.id # pid => f[s].resas = s.resas
                   /\ s.id = pid => f[s].resas = (s.resas \ old) \cup {q}
  BY DEF Conf, Subnet
<1> HIDE DEF d, f
<1>3. ASSUME NEW r \in b, Lives(r, w, a),
             NEW s \in c, s.id = pid, NEW y \in s.resas,
             y.nid = q.nid, y.mac # q.mac, SameHolder(y, r)
      PROVE  FALSE
  <2>1. y \in StaleResas(c, pid, q)
    BY <1>3 DEF StaleResas
  <2> QED
    BY <1>3, <2>1 DEF Lives
<1>4. ASSUME NEW r \in b, Lives(r, w, a)
      PROVE  \E x \in RowsOf(d) : Holds(x, r)
  <2>1. PICK x \in RowsOf(c) : Holds(x, r)
    BY <1>4 DEF KeepsHolders
  <2>2. PICK s \in c : \E y \in s.resas : x = RowOf(s, y)
    BY RowsOfIs
  <2>3. PICK y \in s.resas : x = RowOf(s, y)
    BY <2>2
  <2>4. /\ s.id = r.sid /\ y.nid = r.nid /\ y.mac = r.mac
    BY <2>1, <2>3, RowOfParts DEF Holds, SameKey
  <2>5. f[s] \in d
    BY <1>1
  <2>6. CASE y \in f[s].resas
    <3>1. RowOf(f[s], y) \in RowsOf(d)
      BY <2>5, <2>6, RowsOfIs
    <3> QED
      BY <1>2, <2>4, <3>1, RowOfParts DEF Holds, SameKey
  <2>7. CASE y \notin f[s].resas
    <3>1. s.id = pid /\ y \in old /\ q \in f[s].resas
      BY <1>2, <2>7
    <3>2. y.nid = q.nid
      BY <3>1
    <3>3. y.mac = q.mac
      BY <1>3, <1>4, <2>4, <3>1, <3>2 DEF SameHolder
    <3>4. RowOf(f[s], q) \in RowsOf(d)
      BY <2>5, <3>1, RowsOfIs
    <3> QED
      BY <1>2, <2>4, <3>2, <3>3, <3>4, RowOfParts DEF Holds, SameKey
  <2> QED
    BY <2>6, <2>7
<1>5. ASSUME NEW r \in b, Lives(r, w, a),
             NEW z \in RowsOf(d), SameKey(z, r), z.mac # r.mac
      PROVE  z \in rows
  <2>1. PICK s \in c : \E y \in f[s].resas : z = RowOf(f[s], y)
    BY <1>1, RowsOfIs
  <2>2. PICK y \in f[s].resas : z = RowOf(f[s], y)
    BY <2>1
  <2>3. z = RowOf(s, y)
    BY <1>2, <2>2 DEF RowOf
  <2>4. CASE y \in s.resas
    BY <1>5, <2>3, <2>4, RowsOfIs DEF OthersAreIn
  <2>5. CASE y \notin s.resas
    <3>1. s.id = pid /\ y = q
      BY <1>2, <2>5
    <3>2. q.nid = r.nid /\ r.sid = pid /\ q.mac # r.mac
      BY <1>5, <2>3, <3>1, RowOfParts DEF SameKey
    <3>3. PICK x \in RowsOf(c) : Holds(x, r)
      BY <1>5 DEF KeepsHolders
    <3>4. PICK t \in c : \E v \in t.resas : x = RowOf(t, v)
      BY RowsOfIs
    <3>5. PICK v \in t.resas : x = RowOf(t, v)
      BY <3>4
    <3>6. t.id = pid /\ v.nid = r.nid /\ v.mac = r.mac
      BY <3>2, <3>3, <3>5, RowOfParts DEF Holds, SameKey
    <3> QED
      BY <1>3, <1>5, <3>2, <3>6 DEF SameHolder
  <2> QED
    BY <2>4, <2>5
<1> QED
  BY <1>4, <1>5 DEF KeepsHolders, OthersAreIn, d

\* del_resa: every holder that goes has its lease asked for.
LEMMA DropResaKeeps ==
    ASSUME NEW c \in Conf, NEW nid,
           NEW b, NEW w, NEW a, OwnedResas(c, nid) \subseteq a, NEW rows,
           KeepsHolders(b, w, a, c), OthersAreIn(b, w, a, c, rows)
    PROVE  /\ KeepsHolders(b, w, a, DropResa(c, nid))
           /\ OthersAreIn(b, w, a, DropResa(c, nid), rows)
<1> DEFINE d == DropResa(c, nid)
           f == [s \in c |->
                 [s EXCEPT !.resas = {x \in s.resas : x.nid # nid}]]
<1>1. d = {f[s] : s \in c}
  BY DEF DropResa
<1>2. \A s \in c : /\ f[s].id = s.id
                   /\ f[s].resas = {x \in s.resas : x.nid # nid}
  BY DEF Conf, Subnet
<1> HIDE DEF d, f
<1>3. ASSUME NEW r \in b, Lives(r, w, a)
      PROVE  \E x \in RowsOf(d) : Holds(x, r)
  <2>1. PICK x \in RowsOf(c) : Holds(x, r)
    BY <1>3 DEF KeepsHolders
  <2>2. PICK s \in c : \E y \in s.resas : x = RowOf(s, y)
    BY RowsOfIs
  <2>3. PICK y \in s.resas : x = RowOf(s, y)
    BY <2>2
  <2>4. s.id = r.sid /\ y.nid = r.nid /\ y.mac = r.mac
    BY <2>1, <2>3, RowOfParts DEF Holds, SameKey
  <2>5. y.nid # nid
    <3>1. y.nid = nid => y \in OwnedResas(c, nid)
      BY DEF OwnedResas
    <3> QED
      BY <1>3, <2>4, <3>1 DEF Lives, SameHolder
  <2>6. RowOf(f[s], y) \in RowsOf(d)
    BY <1>1, <1>2, <2>5, RowsOfIs
  <2> QED
    BY <1>2, <2>4, <2>6, RowOfParts DEF Holds, SameKey
<1>4. RowsOf(d) \subseteq RowsOf(c)
  BY <1>1, <1>2 DEF RowsOf, RowOf
<1> QED
  BY <1>3, <1>4 DEF KeepsHolders, OthersAreIn, d

-----------------------------------------------------------------------------
(* HInv, edit by edit. *)

Good(b, w, a, rows, c) == KeepsHolders(b, w, a, c) /\ OthersAreIn(b, w, a, c, rows)

\* Between two pushes the table is where it is heading, and dooms nothing.
LEMMA AtRest ==
    ASSUME WInv, pc # "reconcile"
    PROVE  /\ todel = {} /\ toadd = {} /\ Heading = hosts
           /\ ~DoomedBy(hosts \ todel, toadd)
BY DEF WInv, NoWorkLeft, Heading, HeadingOf, DoomedBy

LEMMA AtRestHInv ==
    ASSUME WInv, HInv, pulled, ~failed, pc # "reconcile"
    PROVE  /\ Good(base, wiped, asked, hosts, conf)
           /\ Good(base, wiped, asked, hosts, commitConf)
           /\ Held(base, wiped, asked, hosts)
BY AtRest DEF HInv, EditsOK, TableOK, Good

\* An edit to the configuration d, or one that the code refuses.
LEMMA EditingHInv ==
    ASSUME WInv, HInv, Editing, NEW d,
           UNCHANGED app \/ (AfterEdit(d) /\ Good(base, wiped', asked', hosts, d)),
           wiped \subseteq wiped', asked \subseteq asked',
           \A e \in asked' \ asked : e.ip \in pending', pending \subseteq pending'
    PROVE  HInv'
<1> SUFFICES ASSUME pulled', ~failed'
             PROVE  (BaseOK /\ EditsOK /\ TableOK /\ LeasesOK /\ RestOK)'
  BY DEF HInv
<1>1. /\ pulled' = pulled /\ pulled /\ pc = "idle" /\ pc' = pc /\ UNCHANGED work
      /\ hosts' = hosts /\ base' = base /\ evicted' = evicted /\ failed' = failed
  BY DEF Editing, trouble
<1>2. /\ Good(base, wiped, asked, hosts, conf)
      /\ Good(base, wiped, asked, hosts, commitConf)
      /\ Held(base, wiped, asked, hosts)
  BY <1>1, AtRestHInv
<1>3. /\ Good(base, wiped', asked', hosts, conf)
      /\ Good(base, wiped', asked', hosts, commitConf)
      /\ Held(base, wiped', asked', hosts)
  BY <1>2, FewerLive DEF Good
<1>4. /\ conf' = conf \/ (conf' = d /\ Good(base, wiped', asked', hosts, d))
      /\ commitConf' = commitConf
            \/ (commitConf' = d /\ Good(base, wiped', asked', hosts, d))
  BY DEF AfterEdit, CommitOf, app
<1>5. /\ Good(base, wiped', asked', hosts, conf')
      /\ Good(base, wiped', asked', hosts, commitConf')
  BY <1>3, <1>4
<1>6. Heading' = hosts
  BY <1>1, AtRest DEF work, Heading, HeadingOf
<1>7. EditsOK' /\ TableOK'
  BY <1>1, <1>3, <1>5, <1>6 DEF Good, EditsOK, TableOK
<1>8. LeasesOK'
  BY <1>1 DEF HInv, LeasesOK
<1>9. BaseOK' /\ RestOK'
  BY <1>1 DEF HInv, BaseOK, RestOK
<1> QED
  BY <1>7, <1>8, <1>9

LEMMA EditSubnetsHInv ==
    ASSUME WInv, HInv, EditSubnets, pulled, ~failed
    PROVE  HInv'
<1>0. conf \in Conf /\ wiped \subseteq PrefixId
  BY DEF WInv, TypeOK
<1>1. Editing /\ asked' = asked /\ pending' = pending /\ pc = "idle"
  BY DEF EditSubnets, SetSubnet, UpdateSubnet, DelSubnet, DelAllSubnets, Editing
<1>2. Good(base, wiped, asked, hosts, conf)
  BY <1>1, AtRestHInv
<1>3. ASSUME NEW pid \in PrefixId, NEW net \in Net, NEW opt \in Opt,
             SetSubnet(pid, net, opt)
      PROVE  HInv'
  <2>1. CASE UNCHANGED app /\ wiped' = wiped
    BY <1>1, <2>1, EditingHInv
  <2>2. CASE AfterEdit(PutSubnet(conf, pid, net, opt)) /\ wiped' = wiped \cup {pid}
    <3> DEFINE d == PutSubnet(conf, pid, net, opt)
               w2 == wiped \cup {pid}
    <3>1. Good(base, w2, asked, hosts, conf)
      BY <1>2, FewerLive DEF Good
    <3>2. \A x : x.sid \notin w2 => (x \in RowsOf(conf) <=> x \in RowsOf(d))
      BY <1>0, DropSubnetRows
    <3>3. Good(base, w2, asked, hosts, d)
      <4> HIDE DEF d, w2
      <4> QED
        BY <3>1, <3>2, SameRows DEF Good
    <3> QED
      BY <1>1, <2>2, <3>3, EditingHInv
  <2> QED
    BY <1>3, <2>1, <2>2 DEF SetSubnet, Edit
<1>4. ASSUME NEW pid \in PrefixId, NEW net \in Net, NEW opt \in Opt,
             UpdateSubnet(pid, net, opt)
      PROVE  HInv'
  <2>1. Good(base, wiped, asked, hosts, UpdateOptions(conf, pid, opt))
    BY <1>0, <1>2, UpdateOptionsRows DEF Good, KeepsHolders, OthersAreIn
  <2> QED
    BY <1>1, <1>4, <2>1, EditingHInv DEF UpdateSubnet, Edit
<1>5. ASSUME NEW pid \in PrefixId, DelSubnet(pid)
      PROVE  HInv'
  <2> DEFINE d == DropSubnet(conf, pid)
             w2 == wiped \cup {pid}
  <2>1. Good(base, w2, asked, hosts, conf)
    BY <1>2, FewerLive DEF Good
  <2>2. \A x : x.sid \notin w2 => (x \in RowsOf(conf) <=> x \in RowsOf(d))
    BY <1>0, DropSubnetRows
  <2>3. Good(base, w2, asked, hosts, d)
    <3> HIDE DEF d, w2
    <3> QED
      BY <2>1, <2>2, SameRows DEF Good
  <2> QED
    BY <1>1, <1>5, <2>3, EditingHInv DEF DelSubnet
<1>6. CASE DelAllSubnets
  <2>1. \A r \in base : r.sid \in PrefixId
    BY DEF HInv, BaseOK, Owned, Row
  <2>2. wiped' = PrefixId /\ AfterEdit({})
    BY <1>6 DEF DelAllSubnets
  <2>3. Good(base, wiped', asked', hosts, {})
    BY <2>1, <2>2 DEF Good, KeepsHolders, OthersAreIn, Lives
  <2> QED
    BY <1>0, <1>1, <2>2, <2>3, EditingHInv
<1> QED
  BY <1>3, <1>4, <1>5, <1>6 DEF EditSubnets

LEMMA EditItemsHInv ==
    ASSUME WInv, HInv, EditItems, pulled, ~failed
    PROVE  HInv'
<1>0. conf \in Conf
  BY DEF WInv, TypeOK
<1>1. Editing /\ wiped' = wiped /\ pc = "idle"
  BY DEF EditItems, SetPool, DelPool, SetReservation, DelResa, Editing
<1>2. Good(base, wiped, asked, hosts, conf)
  BY <1>1, AtRestHInv
<1>3. ASSUME NEW pid \in PrefixId, NEW p \in OwnPool, SetPool(pid, p)
      PROVE  HInv'
  <2>1. Good(base, wiped, asked, hosts, PutPool(conf, pid, p))
    BY <1>0, <1>2, PutPoolRows DEF Good, KeepsHolders, OthersAreIn
  <2> QED
    BY <1>1, <1>3, <2>1, EditingHInv DEF SetPool, Edit
<1>4. ASSUME NEW rid \in RangeId, DelPool(rid)
      PROVE  HInv'
  <2>1. Good(base, wiped, asked, hosts, DropPool(conf, rid))
    BY <1>0, <1>2, DropPoolRows DEF Good, KeepsHolders, OthersAreIn
  <2> QED
    BY <1>1, <1>4, <2>1, EditingHInv DEF DelPool
<1>5. ASSUME NEW rs, Stage(rs)
      PROVE  /\ asked \subseteq asked' /\ pending \subseteq pending'
             /\ rs \subseteq asked' /\ \A e \in asked' \ asked : e.ip \in pending'
  BY <1>5 DEF Stage
<1>6. ASSUME NEW pid \in PrefixId, NEW r \in OwnResa, SetReservation(pid, r)
      PROVE  HInv'
  <2> DEFINE rs == StaleResas(conf, pid, r)
  <2>1. /\ asked \subseteq asked' /\ pending \subseteq pending'
        /\ rs \subseteq asked' /\ \A e \in asked' \ asked : e.ip \in pending'
    BY <1>5, <1>6 DEF SetReservation
  <2>2. CASE UNCHANGED app
    BY <1>1, <2>1, <2>2, EditingHInv
  <2>3. ASSUME NEW old, \A y \in old : y.nid = r.nid,
               AfterEdit(Replace(conf, pid, old, r))
        PROVE  HInv'
    <3>1. Good(base, wiped, asked', hosts, conf)
      BY <1>2, <2>1, FewerLive DEF Good
    <3>2. Good(base, wiped, asked', hosts, Replace(conf, pid, old, r))
      BY <1>0, <2>1, <2>3, <3>1, ReplaceKeeps DEF Good
    <3> QED
      BY <1>1, <2>1, <2>3, <3>2, EditingHInv
  <2> QED
    BY <1>6, <2>2, <2>3 DEF SetReservation
<1>7. ASSUME NEW nid \in IpId, DelResa(nid)
      PROVE  HInv'
  <2> DEFINE rs == OwnedResas(conf, nid)
  <2>1. /\ asked \subseteq asked' /\ pending \subseteq pending'
        /\ rs \subseteq asked' /\ \A e \in asked' \ asked : e.ip \in pending'
    BY <1>5, <1>7 DEF DelResa
  <2>2. Good(base, wiped, asked', hosts, conf)
    BY <1>2, <2>1, FewerLive DEF Good
  <2>3. Good(base, wiped, asked', hosts, DropResa(conf, nid))
    BY <1>0, <2>1, <2>2, DropResaKeeps DEF Good
  <2> QED
    BY <1>1, <1>7, <2>1, <2>3, EditingHInv DEF DelResa
<1> QED
  BY <1>3, <1>4, <1>6, <1>7 DEF EditItems

-----------------------------------------------------------------------------
(* HInv, call by call. *)

\* What pull() reads has all its holders.
LEMMA PullHInv ==
    ASSUME WInv, Pull
    PROVE  HInv'
<1>1. Loaded \in Conf /\ RowsOf(Loaded) \subseteq hosts /\ hosts \subseteq Row
  BY LoadedType DEF WInv, TypeOK
<1>2. /\ conf' = Loaded /\ commitConf' = Loaded /\ base' = Owned(RowsOf(Loaded))
      /\ wiped' = {} /\ asked' = {} /\ hosts' = hosts /\ pc' = pc /\ UNCHANGED work
  BY DEF Pull
<1>3. Heading' = hosts /\ pc = "idle"
  BY <1>2, AtRest DEF Pull, work, Heading, HeadingOf
<1>4. base' \subseteq RowsOf(Loaded) /\ base' \subseteq hosts /\ BaseOK'
  BY <1>1, <1>2 DEF Owned, BaseOK
<1>5. \A r : Holds(r, r)
  BY DEF Holds, SameKey
<1>6. EditsOK'
  BY <1>2, <1>4, <1>5 DEF EditsOK, KeepsHolders
<1>7. TableOK'
  BY <1>1, <1>2, <1>3, <1>4, <1>5 DEF TableOK, Held, OthersAreIn
<1>8. LeasesOK' /\ RestOK'
  BY <1>2, <1>4, <1>5 DEF LeasesOK, RestOK
<1> QED
  BY <1>4, <1>6, <1>7, <1>8 DEF HInv

(***************************************************************************)
(* The comparison, for one live row r with the holder h in the table: a    *)
(* row under its key that is to be deleted is h itself, and its successor  *)
(* is among the rows to add; or else a row to add will be refused.         *)
(***************************************************************************)
LEMMA Compared ==
    ASSUME RowsUnique(hosts),
           NEW current \in Dictionaries(hosts),
           NEW wanted \in Dictionaries(RowsOf(commitConf)),
           ~DoomedBy(hosts \ Gone(current, wanted), New(current, wanted)),
           NEW r, r.nid # NoId,
           NEW h \in hosts, Holds(h, r),
           \E x \in RowsOf(commitConf) : Holds(x, r),
           \A x \in RowsOf(commitConf) :
               SameKey(x, r) /\ x.mac # r.mac => x \in hosts,
           NEW q \in Gone(current, wanted), SameKey(q, r)
    PROVE  q = h /\ \E w \in New(current, wanted) : Holds(w, r)
<1> DEFINE del == Gone(current, wanted)
           add == New(current, wanted)
<1>1. q \in current /\ q \in hosts /\ q \notin wanted /\ q.nid \notin Blocked(wanted)
  BY DEF Gone, Dictionaries, Owned
<1>2. \A y \in current : SameKey(y, r) => y = q
  <2>1. \A x, y \in current : SameKey(x, y) => x = y
    BY DEF Dictionaries
  <2> QED
    BY <1>1, <2>1 DEF SameKey
<1>3. PICK w \in wanted : SameKey(w, r)
  <2>1. PICK x \in RowsOf(commitConf) : Holds(x, r)
    OBVIOUS
  <2>2. x \in Owned(RowsOf(commitConf))
    BY <2>1 DEF Holds, SameKey, Owned
  <2>3. PICK w \in wanted : SameKey(x, w)
    BY <2>2 DEF Dictionaries
  <2> QED
    BY <2>1, <2>3 DEF Holds, SameKey
<1>4. w \in add
  <2>1. w \notin current
    BY <1>1, <1>2, <1>3
  <2>2. w.nid \notin Blocked(wanted)
    BY <1>1, <1>3 DEF SameKey
  <2> QED
    BY <1>3, <2>1, <2>2 DEF New, Blocked
<1>5. w \notin del /\ w \in RowsOf(commitConf)
  BY <1>3 DEF Gone, Dictionaries, Owned
<1>6. \A x \in hosts \ del : ~Collide(x, w)
  BY <1>4 DEF DoomedBy
<1>7. w.mac = r.mac
  <2>1. CASE w.mac # r.mac
    <3>1. w \in hosts \ del
      BY <1>3, <1>5, <2>1
    <3> QED
      BY <1>6, <3>1 DEF Collide
  <2> QED
    BY <2>1
<1>8. q = h
  <2>1. CASE h \notin del
    BY <1>3, <1>6, <1>7, <2>1 DEF Collide, Holds, SameKey
  <2>2. CASE h \in del
    BY <1>2, <2>2 DEF Gone, Holds
  <2> QED
    BY <2>1, <2>2
<1> QED
  BY <1>3, <1>4, <1>7, <1>8 DEF Holds

LEMMA FetchHInv ==
    ASSUME WInv, HInv, Fetch, pulled, ~failed'
    PROVE  HInv'
<1>1. PICK current \in Dictionaries(hosts),
           wanted \in Dictionaries(RowsOf(commitConf)) :
           /\ todel' = Gone(current, wanted)
           /\ toadd' = New(current, wanted)
           /\ pc' = "reconcile" /\ failed' = failed
  BY DEF Fetch, Fault
<1>2. /\ hosts' = hosts /\ pulled' = pulled /\ pending' = pending
      /\ UNCHANGED app /\ UNCHANGED past /\ pc = "fetch"
  BY DEF Fetch
<1>3. /\ Good(base, wiped, asked, hosts, conf)
      /\ Good(base, wiped, asked, hosts, commitConf)
      /\ Held(base, wiped, asked, hosts)
      /\ BaseOK /\ EditsOK /\ LeasesOK
  BY <1>1, <1>2, AtRestHInv DEF HInv
<1> DEFINE del == Gone(current, wanted)
           add == New(current, wanted)
           rows == (hosts \ del) \cup add
<1>4. Heading' = rows
  BY <1>1, <1>2 DEF Heading, HeadingOf
<1>5. ASSUME ~DoomedBy(hosts \ del, add),
             NEW r \in base, Lives(r, wiped, asked)
      PROVE  /\ \E x \in rows : Holds(x, r)
             /\ \A x \in hosts : SameKey(x, r) /\ x.mac # r.mac => x \in rows
  <2>1. PICK h \in hosts : Holds(h, r)
    BY <1>3, <1>5 DEF Held
  <2>2. \E x \in RowsOf(commitConf) : Holds(x, r)
    BY <1>3, <1>5 DEF Good, KeepsHolders
  <2>3. \A x \in RowsOf(commitConf) : SameKey(x, r) /\ x.mac # r.mac => x \in hosts
    BY <1>3, <1>5 DEF Good, OthersAreIn
  <2>4. r.nid # NoId /\ RowsUnique(hosts)
    BY <1>3 DEF BaseOK, Owned, WInv, KInv
  <2>5. \A q \in del : SameKey(q, r) => q = h /\ \E w \in add : Holds(w, r)
    <3> HIDE DEF rows
    <3> QED
      BY <1>5, <2>1, <2>2, <2>3, <2>4, Compared
  <2>6. \E x \in rows : Holds(x, r)
    BY <2>1, <2>5 DEF Holds
  <2>7. \A x \in hosts : SameKey(x, r) /\ x.mac # r.mac => x \in rows
    BY <2>1, <2>5 DEF Holds
  <2> QED
    BY <2>6, <2>7
<1>6. ASSUME ~DoomedBy(hosts \ del, add)
      PROVE  /\ Held(base, wiped, asked, rows)
             /\ OthersAreIn(base, wiped, asked, conf, rows)
             /\ OthersAreIn(base, wiped, asked, commitConf, rows)
  <2> HIDE DEF rows, del, add
  <2> QED
    BY <1>3, <1>5, <1>6 DEF Held, Good, OthersAreIn
<1>7. TableOK'
  <2> HIDE DEF rows
  <2> QED
    BY <1>1, <1>2, <1>4, <1>6 DEF TableOK, app, past
<1>8. BaseOK' /\ EditsOK' /\ LeasesOK' /\ RestOK'
  BY <1>1, <1>2, <1>3 DEF BaseOK, EditsOK, LeasesOK, RestOK, app, past
<1> QED
  BY <1>7, <1>8 DEF HInv

\* A call that succeeds, or a row of another tool: the table comes no closer
\* to and no further from where it is heading, and what dooms a push stays.
LEMMA CallHInv ==
    ASSUME HInv, pulled, ~failed,
           UNCHANGED <<pulled, app, pending, pc, past, failed>>,
           pc = "reconcile" \/ hosts \subseteq hosts',
           Heading \subseteq Heading',
           DoomedBy(hosts \ todel, toadd) => DoomedBy(hosts' \ todel', toadd')
    PROVE  HInv'
<1>1. BaseOK' /\ EditsOK' /\ LeasesOK'
  BY DEF HInv, BaseOK, EditsOK, LeasesOK, app, past
<1>2. TableOK'
  <2>1. CASE DoomedBy(hosts \ todel, toadd)
    BY <2>1 DEF TableOK
  <2>2. CASE /\ Held(base, wiped, asked, Heading)
             /\ OthersAreIn(base, wiped, asked, conf, Heading)
             /\ OthersAreIn(base, wiped, asked, commitConf, Heading)
    BY <2>2, FewerLive DEF TableOK, app, past
  <2> QED
    BY <2>1, <2>2 DEF HInv, TableOK
<1>3. RestOK'
  BY DEF HInv, RestOK, past
<1> QED
  BY <1>1, <1>2, <1>3 DEF HInv

LEMMA NextHInv ==
    ASSUME WInv, HInv, [Next]_vars
    PROVE  HInv'
<1> SUFFICES ASSUME pulled', ~failed'
             PROVE  HInv'
  BY DEF HInv
<1>1. CASE UNCHANGED vars
  BY <1>1 DEF vars, app, work, past, trouble, HInv, BaseOK, EditsOK, TableOK,
              LeasesOK, RestOK, Heading
<1>2. CASE Pull
  BY <1>2, PullHInv
<1>3. CASE EditSubnets \/ EditItems
  <2>1. Editing
    BY <1>3 DEF EditSubnets, SetSubnet, UpdateSubnet, DelSubnet, DelAllSubnets,
                EditItems, SetPool, DelPool, SetReservation, DelResa
  <2> QED
    BY <1>3, <2>1, EditSubnetsHInv, EditItemsHInv DEF Editing, trouble
<1>4. CASE Commit \/ SetAutoCommit
  <2>1. /\ UNCHANGED <<pulled, pending, pc, work, db, hosts, past, trouble>>
        /\ conf' = conf /\ (commitConf' = commitConf \/ commitConf' = conf)
    BY <1>4 DEF Commit, SetAutoCommit, CommitOf, app
  <2> QED
    BY <2>1 DEF HInv, BaseOK, EditsOK, TableOK, LeasesOK, RestOK, Heading,
                work, past, trouble
<1>5. CASE PushDb
  <2>1. UNCHANGED <<pulled, conf, commitConf, pending, work, hosts, past, failed>>
    BY <1>5 DEF PushDb, Fault, trouble
  <2>2. pc' = "fetch" /\ pc = "idle"
    BY <1>5 DEF PushDb, Fault
  <2> QED
    BY <2>1, <2>2 DEF HInv, BaseOK, EditsOK, TableOK, LeasesOK, RestOK, Heading,
                      work, past
<1>6. CASE Fetch
  BY <1>6, FetchHInv DEF Fetch
<1>7. CASE \E r \in todel : DelRow(r)
  <2>1. PICK r \in todel : DelRow(r)
    BY <1>7
  <2>2. hosts' = hosts \ {r} /\ Heading' = Heading /\ UNCHANGED trouble
    BY <2>1, RowGone
  <2>3. hosts' \ todel' = hosts \ todel /\ toadd' = toadd
    BY <2>1, <2>2 DEF DelRow
  <2> QED
    BY <2>1, <2>2, <2>3, CallHInv DEF DelRow, trouble
<1>8. CASE \E w \in toadd : AddRow(w)
  <2>1. PICK w \in toadd : AddRow(w)
    BY <1>8
  <2>2. /\ hosts' = hosts \cup {w} /\ Heading' = Heading /\ UNCHANGED trouble
        /\ ~ \E x \in hosts : Collide(x, w)
    BY <2>1, RowCame
  <2>3. todel = {} /\ todel' = {} /\ toadd' = toadd \ {w}
    BY <2>1 DEF AddRow
  <2>4. DoomedBy(hosts \ todel, toadd) => DoomedBy(hosts' \ todel', toadd')
    BY <2>2, <2>3 DEF DoomedBy
  <2> QED
    BY <2>1, <2>2, <2>4, CallHInv DEF AddRow, trouble
<1>9. CASE FlushEvictions
  <2>1. /\ pc = "reconcile" /\ todel = {} /\ toadd = {} /\ UNCHANGED work
        /\ evicted' = evicted \cup pending /\ UNCHANGED trouble
        /\ UNCHANGED <<pulled, app, hosts, base, wiped, asked>>
    BY <1>9 DEF FlushEvictions, Fault
  <2>2. pulled /\ ~failed
    BY <2>1 DEF trouble
  <2>3. /\ Held(base, wiped, asked, hosts) /\ Heading' = Heading
        /\ BaseOK /\ EditsOK /\ TableOK /\ LeasesOK
    BY <2>1, <2>2 DEF HInv, TableOK, DoomedBy, Heading, HeadingOf, work
  <2>4. LeasesOK' /\ \A e \in asked' : e.ip \in evicted'
    BY <2>1, <2>3 DEF LeasesOK
  <2>5. RestOK'
    BY <2>1, <2>3, <2>4 DEF RestOK, Held, Lives
  <2>6. BaseOK' /\ EditsOK' /\ TableOK'
    BY <2>1, <2>3 DEF BaseOK, EditsOK, TableOK, app, work
  <2> QED
    BY <2>4, <2>5, <2>6 DEF HInv
<1>10. CASE Crash
  BY <1>10 DEF Crash
<1>11. CASE \E f \in Foreign(Row) : AddForeign(f)
  <2>1. PICK f \in Foreign(Row) : AddForeign(f)
    BY <1>11
  <2>2. Heading \subseteq Heading' /\ hosts \subseteq hosts' /\ UNCHANGED work
    BY <2>1, HeadingGrows DEF AddForeign
  <2>3. DoomedBy(hosts \ todel, toadd) => DoomedBy(hosts' \ todel', toadd')
    BY <2>2 DEF DoomedBy, work
  <2> QED
    BY <2>1, <2>2, <2>3, CallHInv DEF AddForeign, trouble
<1> QED
  BY <1>1, <1>2, <1>3, <1>4, <1>5, <1>6, <1>7, <1>8, <1>9, <1>10, <1>11
     DEF Next, Push

\* A NetBox address is taken from a MAC only together with a lease of that MAC,
\* or after a call that failed: whatever was edited, committed or not, and also
\* when the table had two rows for one NetBox address.
THEOREM AddressesAreHandedOver == Spec => []HandOver
<1>1. Init => HInv
  BY DEF Init, HInv
<1>2. WInv /\ HInv /\ [Next]_vars => HInv'
  BY NextHInv
<1>3. HInv => HandOver
  BY DEF HInv, RestOK, Holds, HandOver
<1> QED
  BY CbTable, <1>1, <1>2, <1>3, PTL DEF Spec
=============================================================================

--------------------------- MODULE FullSyncProofs ---------------------------
(***************************************************************************)
(* What sync_all guarantees for any contents of NetBox, any number of      *)
(* servers and any answers that are lost: what it pushes, and what it      *)
(* leaves staged.                                                          *)
(***************************************************************************)
EXTENDS FullSync, KeaConfProofs

Filling == pc \in {"fill", "retry"}

\* Where the second loop is, it knows its prefix.
PlaceOK ==
    /\ Filling =>
        /\ cur \in DOMAIN netbox /\ cur \notin todo /\ cur \notin failed
        /\ Here \in Backend
        /\ ips \subseteq netbox[cur].ips /\ ranges \subseteq netbox[cur].ranges
    /\ pc = "fill" => (autoCommit[Here] <=> retry)
    /\ pc = "retry" => ~retry
    /\ failed \cap todo = {}

Types == TypeOK /\ PlaceOK

LEMMA FirstBackend == 1 \in DOMAIN BackendOrder
BY BackendOrderAssumption

LEMMA NextPosition ==
    ASSUME at \in DOMAIN BackendOrder, at < Len(BackendOrder)
    PROVE  at + 1 \in DOMAIN BackendOrder
<1>1. DOMAIN BackendOrder = 1..Len(BackendOrder) /\ Len(BackendOrder) \in Nat
  BY BackendOrderAssumption
<1> QED
  BY <1>1

LEMMA AtBackend ==
    ASSUME TypeOK
    PROVE  BackendOrder[at] \in Backend
BY BackendOrderAssumption DEF TypeOK

\* A prefix of NetBox, and what is in it.
LEMMA PrefixTypes ==
    ASSUME netbox \in NetBoxes, NEW p \in DOMAIN netbox
    PROVE  /\ p \in PrefixId /\ p # NoPrefix
           /\ netbox[p].net \in Net /\ netbox[p].opt \in Opt
           /\ netbox[p].backend \in Backend \cup {NoBackend}
           /\ netbox[p].ips \subseteq NetBoxIp
           /\ netbox[p].ranges \subseteq NetBoxRange
           /\ \A i, j \in netbox[p].ips : i.nid = j.nid => i = j
           /\ \A g \in netbox[p].ranges : g.lo <= g.hi
           /\ \A g, h \in netbox[p].ranges : g.rid = h.rid => g = h
<1>1. netbox[p] \in NetBoxPrefix /\ p \in PrefixId
  BY NetBoxesAssumption
<1>2. \A i, j \in netbox[p].ips : i.nid = j.nid => i = j
  BY NetBoxesAssumption
<1>3. /\ \A g \in netbox[p].ranges : g.lo <= g.hi
      /\ \A g, h \in netbox[p].ranges : g.rid = h.rid => g = h
  BY NetBoxesAssumption
<1> QED
  BY <1>1, <1>2, <1>3, BackendOrderAssumption DEF NetBoxPrefix

\* The three results of a commit, and an edit in memory, as types.
ConfTypes ==
    /\ conf \in [Backend -> Conf] /\ commitConf \in [Backend -> Conf]
    /\ hasCommit \in [Backend -> BOOLEAN] /\ lost \in 0..MaxLost

LEMMA EditTypes ==
    ASSUME ConfTypes, NEW b \in Backend, NEW c \in Conf,
           \/ Committed(b, c) \/ Rejected(b, c) \/ Unanswered(b, c)
           \/ EditInMemory(b, c) \/ (UnchangedConfs /\ Answered)
    PROVE  ConfTypes'
<1> USE DEF ConfTypes
<1>1. lost' \in 0..MaxLost
  BY MaxLostAssumption
  DEF Committed, Rejected, Unanswered, EditInMemory, Answered, Lost
<1>2. conf' \in [Backend -> Conf]
  BY DEF Committed, Rejected, Unanswered, EditInMemory, UnchangedConfs
<1>3. commitConf' \in [Backend -> Conf] /\ hasCommit' \in [Backend -> BOOLEAN]
  BY DEF Committed, Rejected, Unanswered, EditInMemory, UnchangedConfs
<1> QED
  BY <1>1, <1>2, <1>3

LEMMA ItemTypes ==
    ASSUME Types, pc = "fill"
    PROVE  /\ \A i \in ips : i.mac # NoMac =>
                PutResa(conf[Here], cur, AsResa(i)) \in Conf
           /\ \A g \in ranges :
                PutPool(conf[Here], cur, [rid |-> g.rid, lo |-> g.lo, hi |-> g.hi])
                    \in Conf
           /\ PutSubnet(conf[Here], cur, netbox[cur].net, netbox[cur].opt) \in Conf
<1>1. conf[Here] \in Conf /\ ips \subseteq NetBoxIp /\ ranges \subseteq NetBoxRange
  BY DEF Types, TypeOK, PlaceOK, Filling
<1>2. \A i \in ips : i.mac # NoMac => AsResa(i) \in Resa
  BY <1>1 DEF NetBoxIp, Resa, AsResa
<1>3. \A g \in ranges : [rid |-> g.rid, lo |-> g.lo, hi |-> g.hi] \in Pool
  BY <1>1 DEF NetBoxRange, Pool
<1>4. cur \in PrefixId /\ netbox[cur].net \in Net /\ netbox[cur].opt \in Opt
  BY PrefixTypes DEF Types, TypeOK, PlaceOK, Filling
<1> QED
  BY <1>1, <1>2, <1>3, <1>4, PutResaType, PutPoolType, PutSubnetType

\* What a step of the second loop changes.
LoopTypes ==
    /\ pc \in {"wipe", "next", "fill", "retry", "discard", "push", "listen", "dead"}
    /\ at \in DOMAIN BackendOrder
    /\ todo \subseteq DOMAIN netbox
    /\ cur \in DOMAIN netbox \cup {NoPrefix} /\ retry \in BOOLEAN
    /\ ips \subseteq NetBoxIp /\ ranges \subseteq NetBoxRange
    /\ attempted \in [Backend -> Nat] /\ succeeded \in [Backend -> Nat]
    /\ unknown \in BOOLEAN /\ failed \subseteq DOMAIN netbox
    /\ autoCommit \in [Backend -> BOOLEAN]

LEMMA TypeParts ==
    TypeOK <=> /\ ConfTypes /\ LoopTypes
               /\ netbox \in NetBoxes /\ check \in BOOLEAN
               /\ live \in [Backend -> Conf] /\ before \in [Backend -> Conf]
BY DEF TypeOK, ConfTypes, LoopTypes

LEMMA StepTypes ==
    ASSUME TypeOK, ConfTypes', LoopTypes', live' \in [Backend -> Conf],
           UNCHANGED fixed
    PROVE  TypeOK'
BY DEF TypeOK, ConfTypes, LoopTypes, fixed

LEMMA InitTypes ==
    ASSUME Init
    PROVE  Types
<1>1. TypeOK
  <2>1. live \in [Backend -> Conf]
    BY LiveConfsAssumption DEF Init
  <2>2. {} \in Conf
    BY EmptyConf
  <2>3. ConfTypes
    BY <2>2, MaxLostAssumption DEF Init, ConfTypes
  <2>4. LoopTypes
    BY FirstBackend DEF Init, LoopTypes
  <2> QED
    BY <2>1, <2>3, <2>4, TypeParts DEF Init
<1>2. PlaceOK
  BY DEF Init, PlaceOK, Filling
<1> QED
  BY <1>1, <1>2 DEF Types

LEMMA WipeTypes ==
    ASSUME Types, Wipe
    PROVE  Types'
<1>1. ConfTypes'
  BY AtBackend, EmptyConf, EditTypes, TypeParts DEF Wipe, Types
<1>2. LoopTypes'
  <2>1. LoopTypes
    BY TypeParts DEF Types
  <2>3. at' = 1 \/ (at < Len(BackendOrder) /\ at' = at + 1)
    BY DEF Wipe
  <2>4. at' \in DOMAIN BackendOrder
    BY <2>1, <2>3, FirstBackend, NextPosition DEF LoopTypes
  <2>2. /\ pc' \in {"wipe", "next"}
        /\ UNCHANGED <<netbox, autoCommit, todo, cur, retry, ips, ranges,
                       attempted, succeeded, unknown, failed>>
    BY DEF Wipe, stats, fixed
  <2> QED
    BY <2>1, <2>2, <2>4 DEF LoopTypes
<1>3. PlaceOK'
  BY DEF Wipe, Types, PlaceOK, Filling, stats, fixed
<1> QED
  BY <1>1, <1>2, <1>3, StepTypes, TypeParts DEF Types, Wipe

LEMMA SkipUnknownTypes ==
    ASSUME Types, NEW p \in todo, SkipUnknown(p)
    PROVE  Types'
<1>1. ConfTypes' /\ LoopTypes'
  BY TypeParts DEF SkipUnknown, Types, ConfTypes, LoopTypes, apps, fixed
<1>2. PlaceOK'
  BY DEF SkipUnknown, Types, PlaceOK, Filling
<1> QED
  BY <1>1, <1>2, StepTypes, TypeParts DEF Types, SkipUnknown

LEMMA StartPrefixTypes ==
    ASSUME Types, NEW p \in todo, StartPrefix(p)
    PROVE  Types'
<1> DEFINE b == netbox[p].backend
           n == netbox[p]
<1>1. p \in DOMAIN netbox /\ netbox \in NetBoxes
  BY DEF Types, TypeOK
<1>2. b \in Backend
  BY <1>1, PrefixTypes DEF StartPrefix
<1>3. PutSubnet(conf[b], p, n.net, n.opt) \in Conf
  BY <1>1, <1>2, PrefixTypes, PutSubnetType DEF Types, TypeOK
<1>4. ConfTypes'
  BY <1>2, <1>3, EditTypes, TypeParts DEF StartPrefix, Types
<1>5. /\ todo' = todo \ {p} /\ attempted' = [attempted EXCEPT ![b] = @ + 1]
      /\ autoCommit' = [autoCommit EXCEPT ![b] = FALSE]
      /\ cur' = p /\ retry' = FALSE
      /\ UNCHANGED <<fixed, live, at, unknown, succeeded>>
      /\ \/ failed' = failed \cup {p} /\ pc' = "next" /\ UNCHANGED <<ips, ranges>>
         \/ /\ pc' = "fill" /\ ips' = n.ips /\ ranges' = n.ranges
            /\ UNCHANGED failed
  BY DEF StartPrefix, GiveUp, FillWith
<1>6. LoopTypes'
  <2>1. LoopTypes /\ n.ips \subseteq NetBoxIp /\ n.ranges \subseteq NetBoxRange
    BY <1>1, PrefixTypes, TypeParts DEF Types
  <2>2. attempted' \in [Backend -> Nat] /\ autoCommit' \in [Backend -> BOOLEAN]
    BY <1>2, <1>5, <2>1 DEF LoopTypes
  <2>3. ips' \subseteq NetBoxIp /\ ranges' \subseteq NetBoxRange
    BY <1>5, <2>1 DEF LoopTypes
  <2> HIDE DEF n, b
  <2> QED
    BY <1>1, <1>5, <2>1, <2>2, <2>3 DEF LoopTypes, fixed
<1>7. PlaceOK'
  BY <1>1, <1>2, <1>5 DEF Types, TypeOK, PlaceOK, Filling, Here, fixed
<1> QED
  BY <1>4, <1>5, <1>6, <1>7, StepTypes, TypeParts DEF Types

\* An item: PlaceOK after a step of the filling.
FillPlace ==
    /\ pc' \in {"fill", "next"}
    /\ ips' \subseteq ips /\ ranges' \subseteq ranges
    /\ UNCHANGED <<netbox, autoCommit, todo, cur, retry>>
    /\ \/ pc' = "fill" /\ UNCHANGED failed
       \/ pc' = "next" /\ failed' \in {failed, failed \cup {cur}}

LEMMA FillKeepsPlace ==
    ASSUME Types, pc = "fill", FillPlace
    PROVE  PlaceOK'
BY DEF Types, PlaceOK, Filling, FillPlace, Here

LEMMA SetItemTypes ==
    ASSUME Types, pc = "fill", NEW errors, NEW c \in Conf, SetItem(errors, c),
           FillUnchanged, ips' \subseteq ips, ranges' \subseteq ranges
    PROVE  Types'
<1>1. Here \in Backend /\ ConfTypes /\ LoopTypes /\ cur \in DOMAIN netbox
  BY TypeParts DEF Types, PlaceOK, Filling
<1>2. ConfTypes'
  BY <1>1, EditTypes DEF SetItem
<1>3. FillPlace /\ UNCHANGED <<succeeded, attempted, unknown, at, fixed, live>>
  BY DEF SetItem, GiveUp, FillUnchanged, FillPlace, fixed
<1>4. LoopTypes'
  BY <1>1, <1>3 DEF LoopTypes, FillPlace
<1> QED
  BY <1>2, <1>3, <1>4, FillKeepsPlace, StepTypes, TypeParts DEF Types

LEMMA SetReservationTypes ==
    ASSUME Types, NEW i \in ips, SetReservation(i)
    PROVE  Types'
BY ItemTypes, SetItemTypes DEF SetReservation

LEMMA SetPoolTypes ==
    ASSUME Types, NEW g \in ranges, SetPool(g)
    PROVE  Types'
BY ItemTypes, SetItemTypes DEF SetPool

\* What del_resa on every backend does to one of them.
OneBroadcast(x) ==
    \/ UNCHANGED <<conf[x], commitConf[x], hasCommit[x]>>
    \/ /\ autoCommit[x] /\ KeaAccepts(conf[x])
       /\ commitConf'[x] = conf[x] /\ hasCommit'[x] = TRUE /\ UNCHANGED conf[x]
    \/ /\ autoCommit[x] /\ ~KeaAccepts(conf[x])
       /\ conf'[x] = commitConf[x] /\ UNCHANGED <<commitConf[x], hasCommit[x]>>

LEMMA BroadcastEffect ==
    ASSUME ConfTypes, NEW i \in ips, BroadcastDelResa(i)
    PROVE  /\ conf' = [x \in Backend |-> conf'[x]]
           /\ commitConf' = [x \in Backend |-> commitConf'[x]]
           /\ hasCommit' = [x \in Backend |-> hasCommit'[x]]
           /\ \A x \in Backend : OneBroadcast(x)
           /\ conf' \in [Backend -> Conf] /\ commitConf' \in [Backend -> Conf]
           /\ hasCommit' \in [Backend -> BOOLEAN]
<1>1. PICK silent :
        LET done == {x \in Backend : Commits(x, silent)}
            fine == {x \in done : KeaAccepts(conf[x])}
        IN  /\ conf' = [x \in Backend |->
                           IF x \in done \ fine THEN commitConf[x] ELSE conf[x]]
            /\ commitConf' = [x \in Backend |->
                           IF x \in fine THEN conf[x] ELSE commitConf[x]]
            /\ hasCommit' = [x \in Backend |-> hasCommit[x] \/ x \in fine]
  BY DEF BroadcastDelResa
<1> DEFINE done == {x \in Backend : Commits(x, silent)}
           fine == {x \in done : KeaAccepts(conf[x])}
<1>2. /\ \A x \in done : autoCommit[x]
      /\ fine \subseteq done
      /\ \A x \in done : x \in fine <=> KeaAccepts(conf[x])
  BY DEF Commits
<1>3. /\ conf' = [x \in Backend |->
                     IF x \in done \ fine THEN commitConf[x] ELSE conf[x]]
      /\ commitConf' = [x \in Backend |->
                     IF x \in fine THEN conf[x] ELSE commitConf[x]]
      /\ hasCommit' = [x \in Backend |-> hasCommit[x] \/ x \in fine]
  BY <1>1
<1> HIDE DEF done, fine
<1>4. \A x \in Backend : OneBroadcast(x)
  BY <1>2, <1>3 DEF OneBroadcast, ConfTypes
<1> QED
  BY <1>3, <1>4 DEF ConfTypes

LEMMA BroadcastTypes ==
    ASSUME Types, NEW i \in ips, BroadcastDelResa(i)
    PROVE  Types'
<1>1. ConfTypes /\ LoopTypes /\ cur \in DOMAIN netbox
  BY TypeParts DEF Types, PlaceOK, Filling, BroadcastDelResa
<1>2. /\ conf' \in [Backend -> Conf] /\ commitConf' \in [Backend -> Conf]
      /\ hasCommit' \in [Backend -> BOOLEAN]
  BY <1>1, BroadcastEffect DEF ConfTypes
<1>3. lost' \in 0..MaxLost
  BY <1>1, MaxLostAssumption DEF BroadcastDelResa, Lost, Answered, ConfTypes
<1>4. ConfTypes'
  BY <1>2, <1>3 DEF ConfTypes
<1>5. FillPlace /\ UNCHANGED <<succeeded, attempted, unknown, at, fixed, live>>
  BY DEF BroadcastDelResa, GiveUp, FillUnchanged, FillPlace, fixed
<1>6. LoopTypes'
  BY <1>1, <1>5 DEF LoopTypes, FillPlace
<1> QED
  BY <1>4, <1>5, <1>6, FillKeepsPlace, StepTypes, TypeParts
  DEF Types, BroadcastDelResa

LEMMA EndPrefixTypes ==
    ASSUME Types, EndPrefix
    PROVE  Types'
<1>1. Here \in Backend /\ ConfTypes /\ LoopTypes /\ cur \in DOMAIN netbox
  BY TypeParts DEF Types, PlaceOK, Filling, EndPrefix
<1>2. conf[Here] \in Conf
  BY <1>1 DEF ConfTypes
<1>3. ConfTypes'
  BY <1>1, <1>2, EditTypes DEF EndPrefix
<1>4. /\ UNCHANGED <<netbox, check, before, live, autoCommit, at, todo, cur, retry,
                     ips, ranges, attempted, unknown, failed>>
      /\ \/ pc' = "retry" /\ ~retry /\ UNCHANGED succeeded
         \/ pc' = "next" /\ succeeded' = [succeeded EXCEPT ![Here] = @ + 1]
  BY DEF EndPrefix, Succeed, loop, fixed
<1>5. LoopTypes'
  BY <1>1, <1>4 DEF LoopTypes
<1>6. PlaceOK'
  BY <1>4 DEF EndPrefix, Types, PlaceOK, Filling, Here
<1> QED
  BY <1>3, <1>4, <1>5, <1>6, StepTypes, TypeParts DEF Types, fixed

LEMMA RetryTypes ==
    ASSUME Types, Retry
    PROVE  Types'
<1>1. Here \in Backend /\ ConfTypes /\ LoopTypes /\ cur \in DOMAIN netbox
  BY TypeParts DEF Types, PlaceOK, Filling, Retry
<1>2. PutSubnet(conf[Here], cur, netbox[cur].net, netbox[cur].opt) \in Conf
  BY <1>1, PrefixTypes, PutSubnetType DEF ConfTypes, Types, TypeOK
<1>3. ConfTypes'
  BY <1>1, <1>2, EditTypes DEF Retry
<1>4. /\ UNCHANGED <<netbox, check, before, live, at, todo, cur, attempted, unknown,
                     succeeded>>
      /\ retry' = TRUE /\ autoCommit' = [autoCommit EXCEPT ![Here] = TRUE]
      /\ \/ /\ pc' = "fill" /\ ips' = netbox[cur].ips /\ ranges' = netbox[cur].ranges
            /\ UNCHANGED failed
         \/ pc' = "next" /\ failed' = failed \cup {cur} /\ UNCHANGED <<ips, ranges>>
  BY DEF Retry, GiveUp, FillWith, fixed
<1>5. LoopTypes'
  BY <1>1, <1>4, PrefixTypes DEF LoopTypes, Types, TypeOK
<1>6. PlaceOK'
  BY <1>1, <1>4 DEF Retry, Types, PlaceOK, Filling, Here, LoopTypes
<1> QED
  BY <1>3, <1>4, <1>5, <1>6, StepTypes, TypeParts DEF Types, fixed

LEMMA EndTypes ==
    ASSUME Types, EndLoop \/ Die
    PROVE  Types'
<1>1. ConfTypes /\ LoopTypes
  BY TypeParts DEF Types
<1>2. ConfTypes' /\ LoopTypes' /\ UNCHANGED <<live, fixed>>
  BY <1>1 DEF EndLoop, Die, ConfTypes, LoopTypes, apps, loop, stats, fixed
<1>3. PlaceOK'
  BY DEF EndLoop, Die, Types, PlaceOK, Filling, loop, stats
<1> QED
  BY <1>2, <1>3, StepTypes, TypeParts DEF Types

LEMMA DiscardPushTypes ==
    ASSUME Types, Discard \/ Push
    PROVE  Types'
<1> DEFINE b == BackendOrder[at]
<1>1. ConfTypes /\ LoopTypes /\ b \in Backend /\ live \in [Backend -> Conf]
  BY TypeParts, AtBackend DEF Types
<1>2. \/ PullOf(b) /\ UNCHANGED live
      \/ /\ UNCHANGED <<conf, commitConf>>
         /\ hasCommit' \in {hasCommit, [hasCommit EXCEPT ![b] = FALSE]}
         /\ live' \in {live, [live EXCEPT ![b] = commitConf[b]]}
  BY DEF Discard, Push
<1>3. lost' \in 0..MaxLost
  BY <1>1, MaxLostAssumption DEF Discard, Push, Lost, ConfTypes
<1>4. ConfTypes' /\ live' \in [Backend -> Conf]
  BY <1>1, <1>2, <1>3 DEF ConfTypes, PullOf
<1>5. \/ UNCHANGED at
      \/ at' = 1
      \/ at < Len(BackendOrder) /\ at' = at + 1
  BY DEF Discard, Push, NextBackend
<1>6. at' \in DOMAIN BackendOrder
  BY <1>1, <1>5, FirstBackend, NextPosition DEF LoopTypes
<1>7. /\ pc' \in {"discard", "push", "listen", "dead"}
      /\ UNCHANGED <<fixed, autoCommit, todo, cur, retry, ips, ranges, stats>>
  BY DEF Discard, Push, NextBackend
<1>8. LoopTypes'
  BY <1>1, <1>6, <1>7 DEF LoopTypes, stats, fixed
<1>9. PlaceOK'
  BY <1>7 DEF Types, PlaceOK, Filling, stats
<1> QED
  BY <1>4, <1>7, <1>8, <1>9, StepTypes, TypeParts DEF Types

LEMMA NextTypes ==
    ASSUME Types, [Next]_vars
    PROVE  Types'
<1>1. CASE UNCHANGED vars
  <2>1. TypeOK'
    BY <1>1 DEF vars, fixed, apps, loop, stats, Types, TypeOK
  <2>2. PlaceOK'
    BY <1>1 DEF vars, fixed, apps, loop, stats, Types, PlaceOK, Filling, Here
  <2> QED
    BY <2>1, <2>2 DEF Types
<1> QED
  BY <1>1, WipeTypes, SkipUnknownTypes, StartPrefixTypes, SetReservationTypes,
     BroadcastTypes, SetPoolTypes, EndPrefixTypes, RetryTypes, EndTypes,
     DiscardPushTypes
  DEF Next, Step

LEMMA TypesHold == Spec => []Types
<1>1. Init => Types
  BY InitTypes
<1>2. Types /\ [Next]_vars => Types'
  BY NextTypes
<1> QED
  BY <1>1, <1>2, PTL DEF Spec

\* Every variable of the full synchronisation keeps its type (connector.py,
\* sync_all).
THEOREM FullSyncTypes == Spec => []TypeOK
<1>1. Types => TypeOK
  BY DEF Types
<1> QED
  BY <1>1, TypesHold, PTL
=============================================================================

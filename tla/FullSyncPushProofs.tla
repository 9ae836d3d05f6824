------------------------- MODULE FullSyncPushProofs -------------------------
(***************************************************************************)
(* What sync_all may push, for any contents of NetBox, any servers and any *)
(* answers that are lost.  The invariant follows the prefixes that are     *)
(* done through the working copy and the last commit of their backend, to  *)
(* the configuration the server is given.                                  *)
(***************************************************************************)
EXTENDS FullSyncProofs

(***************************************************************************)
(* Of a configuration c, n being the contents of NetBox: the subnets of c  *)
(* are among the prefixes ids, with their addresses, and c has the         *)
(* prefixes done whole.                                                    *)
(***************************************************************************)
Holds(n, ids, done, c) ==
    /\ \A s \in c : s.id \in ids /\ s.net = n[s.id].net
    /\ \A p \in done : Whole(p, n[p], c)

\* c has prefix p, with content n, except for the items I and R still to come.
Filled(p, n, c, I, R) ==
    /\ HasSubnet(c, p)
    /\ \A s \in c : s.id = p =>
        /\ s.opt = n.opt
        /\ s.resas \subseteq Wanted(n) /\ s.pools \subseteq n.ranges
        /\ \A i \in n.ips : i.mac # NoMac /\ AsResa(i) \in ClearResas(n) =>
               i \in I \/ AsResa(i) \in s.resas
        /\ \A g \in ClearPools(n) : g \in R \/ g \in s.pools

-----------------------------------------------------------------------------
(* Where the loops are: prefixes counted as succeeded, and those that the  *)
(* subnets of a backend can be of.                                         *)

InWork == IF Filling THEN {cur} ELSE {}
Counted(b) == Routed(b) \ (todo \cup failed \cup InWork)
Done(b) == IF check THEN {} ELSE Counted(b)
Allowed(b) == Routed(b) \ (todo \cup (IF lost = 0 THEN failed ELSE {}))

Sound(b, c) == Holds(netbox, Allowed(b), Done(b), c)

Looping == pc \in {"wipe", "next", "fill", "retry"}

AppsOK ==
    Looping => \A b \in Backend :
        /\ Sound(b, conf[b]) /\ Sound(b, commitConf[b])
        /\ KeaAccepts(commitConf[b])

\* The current prefix.
HereOK ==
    /\ pc = "wipe" => todo = DOMAIN netbox /\ failed = {}
    /\ pc = "fill" => Filled(cur, netbox[cur], conf[Here], ips, ranges)
    /\ pc = "fill" /\ retry => ~check /\ conf[Here] = commitConf[Here]
    /\ pc = "fill" /\ ~retry => ~HasSubnet(commitConf[Here], cur)
    /\ pc = "retry" =>
        /\ ~check
        /\ ~HasSubnet(commitConf[Here], cur)
        /\ lost = 0 => conf[Here] = commitConf[Here]

\* The counters, and the tag that is in no registry entry.
StatsOK ==
    /\ unknown \/ Routed(NoBackend) \subseteq todo
    /\ \A b \in Backend :
        /\ attempted[b] = 0 => Routed(b) \subseteq todo
        /\ succeeded[b] # 0 => Counted(b) # {}

\* What waits for the push.
StagedOK ==
    pc = "push" =>
        /\ ~check /\ todo = {} /\ ~unknown
        /\ \A b \in Backend : hasCommit[b] => Sound(b, commitConf[b])

\* What was pushed.
LiveOK ==
    \A b \in Backend : Pushed(b) =>
        /\ pc \in {"push", "listen", "dead"}
        /\ ~check /\ todo = {} /\ ~unknown
        /\ ~AllFailed(b)
        /\ Sound(b, live[b])

\* The loops over the backends leave no commit behind them.
OrderOK ==
    /\ pc \in {"next", "fill", "retry"} => at = 1
    /\ pc \in {"discard", "push"} =>
        \A j \in DOMAIN BackendOrder : j < at => ~hasCommit[BackendOrder[j]]
    /\ NothingStaged

Safe ==
    Types /\ AppsOK /\ HereOK /\ StatsOK /\ StagedOK /\ LiveOK /\ OrderOK
        /\ OnlyFaultyFails
-----------------------------------------------------------------------------
(* What the edits do to Holds and to Filled. *)

\* Fewer prefixes to hold, more that are allowed.
LEMMA HoldsMonotone ==
    ASSUME NEW n, NEW ids, NEW done, NEW ids2, NEW done2, NEW c,
           Holds(n, ids, done, c), \A s \in c : s.id \in ids2, done2 \subseteq done
    PROVE  Holds(n, ids2, done2, c)
BY DEF Holds

LEMMA HoldsEmpty ==
    ASSUME NEW n, NEW ids
    PROVE  Holds(n, ids, {}, {})
BY DEF Holds

\* set_subnet touches no other prefix, and leaves its own empty.
LEMMA PutSubnetHolds ==
    ASSUME NEW n, NEW ids, NEW done, NEW c, Holds(n, ids, done, c),
           NEW p \in ids, p \notin done, NEW opt
    PROVE  Holds(n, ids, done, PutSubnet(c, p, n[p].net, opt))
<1> DEFINE d == PutSubnet(c, p, n[p].net, opt)
<1>1. \A s \in d : s.id \in ids /\ s.net = n[s.id].net
  BY DEF Holds, PutSubnet, DropSubnet
<1>2. ASSUME NEW q \in done
      PROVE  Whole(q, n[q], d)
  <2>1. Whole(q, n[q], c) /\ q # p
    BY <1>2 DEF Holds
  <2>2. \A s \in c : s.id = q => s \in d
    BY <2>1 DEF PutSubnet, DropSubnet
  <2> HIDE DEF d
  <2> QED
    BY <2>1, <2>2 DEF Whole
<1> QED
  BY <1>1, <1>2 DEF Holds

LEMMA PutSubnetFilled ==
    ASSUME NEW p, NEW n, NEW c
    PROVE  Filled(p, n, PutSubnet(c, p, n.net, n.opt), n.ips, n.ranges)
<1> DEFINE new == [id |-> p, net |-> n.net, opt |-> n.opt,
                   resas |-> {}, pools |-> {}]
           d == PutSubnet(c, p, n.net, n.opt)
<1>1. new \in d /\ \A s \in d : s.id = p => s = new
  BY DEF PutSubnet, DropSubnet
<1>2. new.id = p /\ new.opt = n.opt /\ new.resas = {} /\ new.pools = {}
  OBVIOUS
<1> HIDE DEF new, d
<1>3. Filled(p, n, d, n.ips, n.ranges)
  BY <1>1, <1>2 DEF Filled, HasSubnet, ClearPools
<1> QED
  BY <1>3 DEF d

\* The setters of items change the prefix they are for.
LEMMA ItemHolds ==
    ASSUME NEW n, NEW ids, NEW done, NEW c \in Conf, Holds(n, ids, done, c),
           NEW p, p \notin done, NEW f, NEW d, d = {f[s] : s \in c},
           \A s \in c : /\ f[s].id = s.id /\ f[s].net = s.net
                        /\ s.id # p => f[s] = s
    PROVE  Holds(n, ids, done, d)
<1>1. \A s \in d : s.id \in ids /\ s.net = n[s.id].net
  BY DEF Holds
<1>2. ASSUME NEW q \in done
      PROVE  Whole(q, n[q], d)
  <2>1. Whole(q, n[q], c) /\ q # p
    BY <1>2 DEF Holds
  <2>2. \A s \in c : s.id = q => s \in d
    BY <2>1
  <2> QED
    BY <2>1, <2>2 DEF Whole
<1> QED
  BY <1>1, <1>2 DEF Holds

LEMMA PutResaHolds ==
    ASSUME NEW n, NEW ids, NEW done, NEW c \in Conf, Holds(n, ids, done, c),
           NEW p, p \notin done, NEW r
    PROVE  Holds(n, ids, done, PutResa(c, p, r))
<1> DEFINE f == [s \in c |-> IF s.id = p
                   THEN [s EXCEPT !.resas = {x \in s.resas : x.nid # r.nid} \cup {r}]
                   ELSE s]
<1>1. PutResa(c, p, r) = {f[s] : s \in c}
  BY DEF PutResa
<1>2. \A s \in c : /\ f[s].id = s.id /\ f[s].net = s.net /\ (s.id # p => f[s] = s)
  BY DEF Conf, Subnet
<1> HIDE DEF f
<1> QED
  BY <1>1, <1>2, ItemHolds

LEMMA PutPoolHolds ==
    ASSUME NEW n, NEW ids, NEW done, NEW c \in Conf, Holds(n, ids, done, c),
           NEW p, p \notin done, NEW g
    PROVE  Holds(n, ids, done, PutPool(c, p, g))
<1> DEFINE f == [s \in c |-> IF s.id = p
                   THEN [s EXCEPT !.pools = {x \in s.pools : x.rid # g.rid} \cup {g}]
                   ELSE s]
<1>1. PutPool(c, p, g) = {f[s] : s \in c}
  BY DEF PutPool
<1>2. \A s \in c : /\ f[s].id = s.id /\ f[s].net = s.net /\ (s.id # p => f[s] = s)
  BY DEF Conf, Subnet
<1> HIDE DEF f
<1> QED
  BY <1>1, <1>2, ItemHolds

-----------------------------------------------------------------------------
(* Items: an item that clashes with no other is neither refused by the     *)
(* code nor by Kea, and evicts none.                                       *)

\* The content of a prefix: ids of items are unique in it.
ContentOK(n) ==
    /\ n.ips \subseteq NetBoxIp /\ n.ranges \subseteq NetBoxRange
    /\ \A i, j \in n.ips : i.nid = j.nid => i = j
    /\ \A g \in n.ranges : g.lo <= g.hi
    /\ \A g, h \in n.ranges : g.rid = h.rid => g = h

LEMMA AsResaType ==
    ASSUME NEW i \in NetBoxIp
    PROVE  AsResa(i).nid = i.nid /\ AsResa(i).mac = i.mac /\ AsResa(i).ip = i.ip
BY DEF NetBoxIp, AsResa

LEMMA WantedUnique ==
    ASSUME NEW n, ContentOK(n)
    PROVE  \A x, y \in Wanted(n) : x.nid = y.nid => x = y
BY AsResaType DEF ContentOK, Wanted

LEMMA PutResaFilled ==
    ASSUME NEW p, NEW n, ContentOK(n), NEW c \in Conf, NEW I, NEW R,
           Filled(p, n, c, I, R), NEW i \in n.ips, i.mac # NoMac
    PROVE  Filled(p, n, PutResa(c, p, AsResa(i)), I \ {i}, R)
<1> DEFINE r == AsResa(i)
           kept(s) == {x \in s.resas : x.nid # r.nid}
           d == PutResa(c, p, r)
<1>1. r \in Wanted(n)
  BY DEF Wanted
<1>2. HasSubnet(d, p)
  <2>1. PICK t \in c : t.id = p
    BY DEF Filled, HasSubnet
  <2>2. [t EXCEPT !.resas = kept(t) \cup {r}] \in d
    BY <2>1 DEF PutResa
  <2>3. [t EXCEPT !.resas = kept(t) \cup {r}].id = p
    BY <2>1 DEF Conf, Subnet
  <2> QED
    BY <2>2, <2>3 DEF HasSubnet
<1>3. ASSUME NEW s \in d, s.id = p
      PROVE  /\ s.opt = n.opt
             /\ s.resas \subseteq Wanted(n) /\ s.pools \subseteq n.ranges
             /\ \A j \in n.ips : j.mac # NoMac /\ AsResa(j) \in ClearResas(n) =>
                    j \in I \ {i} \/ AsResa(j) \in s.resas
             /\ \A g \in ClearPools(n) : g \in R \/ g \in s.pools
  <2>1. PICK t \in c : /\ t.id = p /\ s.opt = t.opt /\ s.pools = t.pools
                       /\ s.resas = kept(t) \cup {r}
    BY <1>3 DEF PutResa, Conf, Subnet
  <2>2. s.resas \subseteq Wanted(n) /\ s.pools \subseteq n.ranges /\ s.opt = n.opt
    BY <1>1, <2>1 DEF Filled
  <2>3. ASSUME NEW j \in n.ips, j.mac # NoMac, AsResa(j) \in ClearResas(n)
        PROVE  j \in I \ {i} \/ AsResa(j) \in s.resas
    <3>1. CASE j = i
      BY <2>1, <3>1
    <3>2. CASE j # i
      <4>1. j \in I \/ AsResa(j) \in t.resas
        BY <2>1, <2>3 DEF Filled
      <4>2. AsResa(j).nid # r.nid
        BY <3>2, AsResaType DEF ContentOK
      <4> QED
        BY <2>1, <3>2, <4>1, <4>2
    <3> QED
      BY <3>1, <3>2
  <2>4. \A g \in ClearPools(n) : g \in R \/ g \in s.pools
    BY <2>1 DEF Filled
  <2> QED
    BY <2>2, <2>3, <2>4
<1> QED
  BY <1>2, <1>3 DEF Filled

\* An item that is left out.
LEMMA SkipFilled ==
    ASSUME NEW p, NEW n, NEW c, NEW I, NEW R, Filled(p, n, c, I, R), NEW i,
           i.mac # NoMac => AsResa(i) \notin ClearResas(n)
    PROVE  Filled(p, n, c, I \ {i}, R)
BY DEF Filled

LEMMA ClearResa ==
    ASSUME NEW p, NEW n, ContentOK(n), NEW c \in Conf, NEW I, NEW R,
           Filled(p, n, c, I, R), NEW r \in ClearResas(n)
    PROVE  /\ ResaErrors(c, p, r) = {}
           /\ KeaAccepts(c) => KeaAccepts(PutResa(c, p, r))
<1>1. r \in Wanted(n) /\ HasSubnet(c, p)
  BY DEF ClearResas, Filled
<1>2. \A s \in c : s.id = p => s.resas \subseteq Wanted(n)
  BY DEF Filled
<1>3. \A s \in c : s.id = p => ~ResaClash(s, r)
  BY <1>2 DEF ResaClash, ClearResas
<1>4. ASSUME KeaAccepts(c)
      PROVE  KeaAccepts(PutResa(c, p, r))
  <2> DEFINE kept(s) == {x \in s.resas : x.nid # r.nid}
             f == [s \in c |-> IF s.id = p
                     THEN [s EXCEPT !.resas = kept(s) \cup {r}] ELSE s]
             d == PutResa(c, p, r)
  <2>1. d = {f[s] : s \in c}
    BY DEF PutResa
  <2>2. \A s \in c : /\ f[s].id = s.id /\ f[s].net = s.net /\ f[s].opt = s.opt
                     /\ f[s].pools = s.pools
                     /\ s.id # p => f[s].resas = s.resas
                     /\ s.id = p => f[s].resas = kept(s) \cup {r}
    BY DEF Conf, Subnet
  <2> HIDE DEF f
  <2>3. SubnetsUnique({f[s] : s \in c})
    BY <1>4, <2>2, SameSubnets DEF KeaAccepts
  <2>4. PoolsDisjoint(d) /\ \A s \in d : s.opt \notin BadOpt
    BY <1>4, <2>1, <2>2 DEF KeaAccepts, PoolsDisjoint
  <2>5. ASSUME NEW s \in c, NEW x \in f[s].resas, NEW y \in f[s].resas,
               x.mac = y.mac \/ (IpUnique /\ x.ip = y.ip)
        PROVE  x = y
    <3>1. CASE s.id # p
      BY <1>4, <2>2, <2>5, <3>1 DEF KeaAccepts
    <3>2. CASE s.id = p
      <4>1. \A z \in kept(s) : z.mac # r.mac /\ ~(IpUnique /\ z.ip = r.ip)
        BY <1>3, <3>2 DEF ResaClash
      <4>2. x \in kept(s) \cup {r} /\ y \in kept(s) \cup {r}
        BY <2>2, <2>5, <3>2
      <4>3. CASE x \in kept(s) /\ y \in kept(s)
        BY <1>4, <2>5, <4>3 DEF KeaAccepts
      <4> QED
        BY <2>5, <4>1, <4>2, <4>3
    <3> QED
      BY <3>1, <3>2
  <2> QED
    BY <2>1, <2>3, <2>4, <2>5 DEF KeaAccepts
<1> QED
  BY <1>1, <1>3, <1>4 DEF ResaErrors

LEMMA PutPoolFilled ==
    ASSUME NEW p, NEW n, ContentOK(n), NEW c \in Conf, NEW I, NEW R,
           Filled(p, n, c, I, R), NEW g \in n.ranges
    PROVE  Filled(p, n, PutPool(c, p, g), I, R \ {g})
<1> DEFINE kept(s) == {x \in s.pools : x.rid # g.rid}
           d == PutPool(c, p, g)
<1>1. HasSubnet(d, p)
  <2>1. PICK t \in c : t.id = p
    BY DEF Filled, HasSubnet
  <2>2. [t EXCEPT !.pools = kept(t) \cup {g}] \in d
    BY <2>1 DEF PutPool
  <2>3. [t EXCEPT !.pools = kept(t) \cup {g}].id = p
    BY <2>1 DEF Conf, Subnet
  <2> QED
    BY <2>2, <2>3 DEF HasSubnet
<1>2. ASSUME NEW s \in d, s.id = p
      PROVE  /\ s.opt = n.opt
             /\ s.resas \subseteq Wanted(n) /\ s.pools \subseteq n.ranges
             /\ \A i \in n.ips : i.mac # NoMac /\ AsResa(i) \in ClearResas(n) =>
                    i \in I \/ AsResa(i) \in s.resas
             /\ \A h \in ClearPools(n) : h \in R \ {g} \/ h \in s.pools
  <2>1. PICK t \in c : /\ t.id = p /\ s.opt = t.opt /\ s.resas = t.resas
                       /\ s.pools = kept(t) \cup {g}
    BY <1>2 DEF PutPool, Conf, Subnet
  <2>2. s.resas \subseteq Wanted(n) /\ s.pools \subseteq n.ranges /\ s.opt = n.opt
    BY <2>1 DEF Filled
  <2>3. \A i \in n.ips : i.mac # NoMac /\ AsResa(i) \in ClearResas(n) =>
            i \in I \/ AsResa(i) \in s.resas
    BY <2>1 DEF Filled
  <2>4. ASSUME NEW h \in ClearPools(n)
        PROVE  h \in R \ {g} \/ h \in s.pools
    <3>1. h \in R \/ h \in t.pools
      BY <2>1 DEF Filled
    <3>2. h # g => h.rid # g.rid
      BY DEF ContentOK, ClearPools
    <3> QED
      BY <2>1, <3>1, <3>2
  <2> QED
    BY <2>2, <2>3, <2>4
<1> QED
  BY <1>1, <1>2 DEF Filled

LEMMA SkipPoolFilled ==
    ASSUME NEW p, NEW n, NEW c, NEW I, NEW R, Filled(p, n, c, I, R),
           NEW g, g \notin ClearPools(n)
    PROVE  Filled(p, n, c, I, R \ {g})
BY DEF Filled

LEMMA ClearPool ==
    ASSUME NEW p, NEW n, ContentOK(n), NEW c \in Conf, NEW I, NEW R,
           Filled(p, n, c, I, R), NEW g \in ClearPools(n)
    PROVE  /\ PoolErrors(c, p, g) = {}
           /\ KeaAccepts(c) => KeaAccepts(PutPool(c, p, g))
<1>1. g \in n.ranges /\ HasSubnet(c, p)
  BY DEF ClearPools, Filled
<1>2. \A s \in c : s.id = p => s.pools \subseteq n.ranges
  BY DEF Filled
<1>3. \A h \in n.ranges : /\ h.lo \in Int /\ h.hi \in Int
                          /\ h.rid # g.rid => h.hi < g.lo \/ g.hi < h.lo
  BY PointAssumption DEF ClearPools, ContentOK, NetBoxRange
<1>4. g.lo \in Int /\ g.hi \in Int /\ g.lo <= g.hi
  BY <1>1, <1>3 DEF ContentOK
<1>5. \A s \in c : s.id = p => ~PoolClash(s, g)
  BY <1>2, <1>3, <1>4 DEF PoolClash
<1>6. ASSUME KeaAccepts(c)
      PROVE  KeaAccepts(PutPool(c, p, g))
  <2> DEFINE kept(s) == {x \in s.pools : x.rid # g.rid}
             f == [s \in c |-> IF s.id = p
                     THEN [s EXCEPT !.pools = kept(s) \cup {g}] ELSE s]
             d == PutPool(c, p, g)
  <2>1. d = {f[s] : s \in c}
    BY DEF PutPool
  <2>2. \A s \in c : /\ f[s].id = s.id /\ f[s].net = s.net /\ f[s].opt = s.opt
                     /\ f[s].resas = s.resas
                     /\ s.id # p => f[s].pools = s.pools
                     /\ s.id = p => f[s].pools = kept(s) \cup {g}
    BY DEF Conf, Subnet
  <2> HIDE DEF f
  <2>3. SubnetsUnique({f[s] : s \in c})
    BY <1>6, <2>2, SameSubnets DEF KeaAccepts
  <2>4. /\ \A s \in d : \A x, y \in s.resas :
              x.mac = y.mac \/ (IpUnique /\ x.ip = y.ip) => x = y
        /\ \A s \in d : s.opt \notin BadOpt
    BY <1>6, <2>1, <2>2 DEF KeaAccepts
  <2>5. ASSUME NEW s \in c, NEW x \in f[s].pools, NEW y \in f[s].pools,
               x.lo <= y.hi, y.lo <= x.hi
        PROVE  x = y
    <3>1. CASE s.id # p
      BY <1>6, <2>2, <2>5, <3>1 DEF KeaAccepts, PoolsDisjoint
    <3>2. CASE s.id = p
      <4>1. \A z \in kept(s) : z \in n.ranges /\ z.rid # g.rid
        BY <1>2, <3>2
      <4>2. x \in kept(s) \cup {g} /\ y \in kept(s) \cup {g}
        BY <2>2, <2>5, <3>2
      <4>3. CASE x \in kept(s) /\ y \in kept(s)
        BY <1>6, <2>5, <4>3 DEF KeaAccepts, PoolsDisjoint
      <4> QED
        BY <1>3, <1>4, <2>5, <4>1, <4>2, <4>3
    <3> QED
      BY <3>1, <3>2
  <2> QED
    BY <2>1, <2>3, <2>4, <2>5 DEF KeaAccepts, PoolsDisjoint
<1> QED
  BY <1>1, <1>5, <1>6 DEF PoolErrors

\* A prefix without anything to come is whole.
LEMMA FilledWhole ==
    ASSUME NEW p, NEW n, NEW c, Filled(p, n, c, {}, {}),
           \A s \in c : s.id = p => s.net = n.net
    PROVE  Whole(p, n, c)
<1>1. PICK s \in c : s.id = p
  BY DEF Filled, HasSubnet
<1>2. ClearResas(n) \subseteq s.resas
  BY <1>1 DEF Filled, ClearResas, Wanted
<1>3. ClearPools(n) \subseteq s.pools
  BY <1>1 DEF Filled
<1> QED
  BY <1>1, <1>2, <1>3 DEF Whole, Filled

-----------------------------------------------------------------------------
(* What the steps of the second loop have in common. *)

LEMMA ContentTypes ==
    ASSUME Types, NEW p \in DOMAIN netbox
    PROVE  ContentOK(netbox[p])
BY PrefixTypes DEF Types, TypeOK, ContentOK

\* A set_subnet that is refused has met another prefix of the server.
LEMMA TwinFaulty ==
    ASSUME NEW b \in Backend, NEW c, NEW p \in DOMAIN netbox, Sound(b, c),
           netbox[p].backend = b, SubnetErrors(c, p, netbox[p].net, FALSE) # {}
    PROVE  FaultyPrefix(p)
<1>1. PICK s \in c : s.id # p /\ s.net = netbox[p].net
  BY DEF SubnetErrors, Twin
<1>2. s.id \in Routed(b) /\ s.net = netbox[s.id].net
  BY DEF Sound, Holds, Allowed
<1> QED
  BY <1>1, <1>2 DEF FaultyPrefix

\* A set_subnet that Kea refuses, the configuration before it being accepted,
\* has settings Kea refuses.
LEMMA RefusedFaulty ==
    ASSUME NEW c \in Conf, KeaAccepts(c), NEW p, NEW net, NEW opt,
           ~HasSubnet(c, p), SubnetErrors(c, p, net, FALSE) = {},
           ~KeaAccepts(PutSubnet(c, p, net, opt))
    PROVE  opt \in BadOpt
<1> DEFINE new == [id |-> p, net |-> net, opt |-> opt, resas |-> {}, pools |-> {}]
           d == PutSubnet(c, p, net, opt)
<1>1. d = c \cup {new}
  BY DEF PutSubnet, DropSubnet, HasSubnet
<1>2. /\ new.id = p /\ new.net = net /\ new.opt = opt
      /\ new.resas = {} /\ new.pools = {}
  OBVIOUS
<1>3. \A s \in c : s.id # p /\ s.net # net
  BY DEF HasSubnet, SubnetErrors, Twin
<1> HIDE DEF new
<1>4. SubnetsUnique(d)
  BY <1>1, <1>2, <1>3 DEF SubnetsUnique, KeaAccepts
<1>5. PoolsDisjoint(d)
  BY <1>1, <1>2 DEF PoolsDisjoint, KeaAccepts
<1>6. \A s \in d : \A x, y \in s.resas :
          x.mac = y.mac \/ (IpUnique /\ x.ip = y.ip) => x = y
  BY <1>1, <1>2 DEF KeaAccepts
<1>7. ASSUME opt \notin BadOpt
      PROVE  \A s \in d : s.opt \notin BadOpt
  BY <1>1, <1>2, <1>7 DEF KeaAccepts
<1> QED
  BY <1>4, <1>5, <1>6, <1>7 DEF KeaAccepts

\* Faulty is what NetBox makes it.
LEMMA FaultyStays ==
    ASSUME netbox' = netbox, NEW p
    PROVE  FaultyPrefix(p)' <=> FaultyPrefix(p)
BY DEF FaultyPrefix, Routed

LEMMA AppsStep ==
    ASSUME AppsOK, Looping, netbox' = netbox, NEW b \in Backend,
           \A x \in Backend \ {b} :
               /\ conf'[x] \in {conf[x], commitConf[x]}
               /\ commitConf'[x] \in {conf[x], commitConf[x]}
               /\ KeaAccepts(commitConf'[x])
               /\ Allowed(x) \subseteq Allowed(x)'
               /\ Done(x)' \subseteq Done(x),
           Holds(netbox, Allowed(b)', Done(b)', conf'[b]),
           Holds(netbox, Allowed(b)', Done(b)', commitConf'[b]),
           KeaAccepts(commitConf'[b])
    PROVE  AppsOK'
<1>1. ASSUME NEW x \in Backend \ {b}, NEW c \in {conf[x], commitConf[x]}
      PROVE  Holds(netbox, Allowed(x)', Done(x)', c)
  <2>1. Holds(netbox, Allowed(x), Done(x), c)
    BY <1>1 DEF AppsOK, Sound
  <2>2. \A s \in c : s.id \in Allowed(x)
    BY <2>1 DEF Holds
  <2> QED
    BY <2>1, <2>2, HoldsMonotone
<1>2. \A x \in Backend : /\ Holds(netbox', Allowed(x)', Done(x)', conf'[x])
                         /\ Holds(netbox', Allowed(x)', Done(x)', commitConf'[x])
                         /\ KeaAccepts(commitConf'[x])
  BY <1>1
<1> QED
  BY <1>2 DEF AppsOK, Sound

\* What is not about the applications holds by where the step goes.
LEMMA LoopRest ==
    ASSUME LiveOK, OrderOK, Looping, pc' \in {"next", "fill", "retry"}, at' = 1,
           UNCHANGED <<fixed, live>>
    PROVE  StagedOK' /\ LiveOK' /\ OrderOK'
<1>1. StagedOK'
  BY DEF StagedOK
<1>2. LiveOK'
  <2>1. \A x \in Backend : ~Pushed(x)
    BY DEF LiveOK, Looping
  <2> QED
    BY <2>1 DEF LiveOK, Pushed, fixed
<1>3. OrderOK'
  BY DEF OrderOK, NothingStaged
<1> QED
  BY <1>1, <1>2, <1>3

-----------------------------------------------------------------------------
(* The steps that fill a prefix. *)

LEMMA FillSafe ==
    ASSUME Safe, pc = "fill", FillUnchanged, Types', UNCHANGED succeeded,
           \A x \in Backend \ {Here} :
               /\ conf'[x] \in {conf[x], commitConf[x]}
               /\ commitConf'[x] \in {conf[x], commitConf[x]}
               /\ KeaAccepts(commitConf'[x]),
           Holds(netbox, Allowed(Here), Done(Here), conf'[Here]),
           Holds(netbox, Allowed(Here), Done(Here), commitConf'[Here]),
           KeaAccepts(commitConf'[Here]),
           lost' \in {lost, lost + 1},
           \/ /\ pc' = "fill" /\ UNCHANGED failed
              /\ Filled(cur, netbox[cur], conf'[Here], ips', ranges')
              /\ IF retry THEN conf'[Here] = commitConf'[Here]
                          ELSE commitConf'[Here] = commitConf[Here]
           \/ pc' = "next" /\ failed' = failed \cup {cur} /\ lost' = lost + 1
    PROVE  Safe'
<1>1. /\ Types /\ lost \in Nat /\ Here \in Backend /\ cur \in DOMAIN netbox
      /\ cur \notin todo /\ cur \notin failed
  BY MaxLostAssumption DEF Safe, Types, TypeOK, PlaceOK, Filling
<1>2. /\ UNCHANGED <<fixed, live, netbox, check, todo, cur, retry, at, attempted,
                     unknown>>
      /\ Here' = Here
  BY DEF FillUnchanged, fixed, Here
<1>3. \A x \in Backend : Counted(x)' = Counted(x) /\ Done(x)' = Done(x)
  BY <1>1, <1>2 DEF Done, Counted, Routed, InWork, Filling
<1>4. \A x \in Backend : Allowed(x) \subseteq Allowed(x)'
  BY <1>1, <1>2 DEF Allowed, Routed
<1>5. AppsOK'
  <2>1. Done(Here)' = Done(Here) /\ Allowed(Here) \subseteq Allowed(Here)'
    BY <1>1, <1>2, <1>3, <1>4
  <2>2. ASSUME NEW c, Holds(netbox, Allowed(Here), Done(Here), c)
        PROVE  Holds(netbox, Allowed(Here)', Done(Here)', c)
    BY <2>1, <2>2 DEF Holds
  <2> QED
    BY <1>1, <1>2, <1>3, <1>4, <2>2, AppsStep DEF Safe, Looping
<1>6. HereOK'
  BY <1>2 DEF HereOK, Safe
<1>7. StatsOK'
  BY <1>2, <1>3 DEF StatsOK, Safe, Routed
<1>8. StagedOK' /\ LiveOK' /\ OrderOK'
  BY <1>2, LoopRest DEF Safe, Looping, OrderOK
<1>9. OnlyFaultyFails'
  BY <1>1, <1>2, FaultyStays DEF OnlyFaultyFails, Safe
<1> QED
  BY <1>5, <1>6, <1>7, <1>8, <1>9 DEF Safe

LEMMA SetItemSafe ==
    ASSUME Safe, pc = "fill", NEW errors, NEW c \in Conf, SetItem(errors, c),
           FillUnchanged, Types',
           Filled(cur, netbox[cur], c, ips', ranges'),
           Holds(netbox, Allowed(Here), Done(Here), c),
           errors # {} \/ (KeaAccepts(conf[Here]) /\ ~KeaAccepts(c))
               => Filled(cur, netbox[cur], conf[Here], ips', ranges')
    PROVE  Safe'
<1>1. /\ Types /\ Here \in Backend /\ (autoCommit[Here] <=> retry)
      /\ conf \in [Backend -> Conf] /\ commitConf \in [Backend -> Conf]
  BY DEF Safe, Types, TypeOK, PlaceOK, Filling
<1>2. \A x \in Backend : /\ Holds(netbox, Allowed(x), Done(x), conf[x])
                         /\ Holds(netbox, Allowed(x), Done(x), commitConf[x])
                         /\ KeaAccepts(commitConf[x])
  BY DEF Safe, AppsOK, Looping, Sound
<1>3. retry => conf[Here] = commitConf[Here]
  BY DEF Safe, HereOK
<1>4. UNCHANGED succeeded
  BY DEF SetItem, GiveUp
<1>5. CASE errors # {} /\ UnchangedConfs /\ Answered /\ UNCHANGED <<pc, failed>>
  BY <1>1, <1>2, <1>3, <1>4, <1>5, FillSafe DEF UnchangedConfs, Answered
<1>6. CASE errors = {} /\ retry /\ Committed(Here, c) /\ UNCHANGED <<pc, failed>>
  <2>1. /\ conf'[Here] = c /\ commitConf'[Here] = c /\ KeaAccepts(c)
        /\ \A x \in Backend \ {Here} : conf'[x] = conf[x] /\ commitConf'[x] = commitConf[x]
        /\ lost' = lost
    BY <1>1, <1>6 DEF Committed, Answered
  <2> QED
    BY <1>1, <1>2, <1>4, <1>6, <2>1, FillSafe
<1>7. CASE errors = {} /\ retry /\ Rejected(Here, c) /\ UNCHANGED <<pc, failed>>
  <2>1. /\ conf'[Here] = commitConf[Here] /\ commitConf' = commitConf
        /\ \A x \in Backend \ {Here} : conf'[x] = conf[x]
        /\ lost' = lost /\ ~KeaAccepts(c)
    BY <1>1, <1>7 DEF Rejected, Answered
  <2>2. Filled(cur, netbox[cur], conf[Here], ips', ranges')
    BY <1>1, <1>2, <1>3, <1>7, <2>1
  <2> QED
    BY <1>1, <1>2, <1>3, <1>4, <1>7, <2>1, <2>2, FillSafe
<1>8. CASE errors = {} /\ ~retry /\ EditInMemory(Here, c) /\ UNCHANGED <<pc, failed>>
  <2>1. /\ conf'[Here] = c /\ commitConf' = commitConf
        /\ \A x \in Backend \ {Here} : conf'[x] = conf[x]
        /\ lost' = lost
    BY <1>1, <1>8 DEF EditInMemory, Answered
  <2> QED
    BY <1>1, <1>2, <1>4, <1>8, <2>1, FillSafe
<1>9. CASE errors = {} /\ Unanswered(Here, c) /\ GiveUp(cur)
  <2>1. /\ conf'[Here] = c /\ commitConf' = commitConf
        /\ \A x \in Backend \ {Here} : conf'[x] = conf[x]
        /\ lost' = lost + 1
    BY <1>1, <1>9 DEF Unanswered, Lost
  <2> QED
    BY <1>1, <1>2, <1>4, <1>9, <2>1, FillSafe DEF GiveUp
<1> QED
  BY <1>1, <1>5, <1>6, <1>7, <1>8, <1>9 DEF SetItem

\* The current prefix of a step that fills it.
LEMMA Current ==
    ASSUME Safe, pc = "fill"
    PROVE  /\ Types /\ cur \in DOMAIN netbox /\ ContentOK(netbox[cur])
           /\ Here \in Backend /\ conf[Here] \in Conf
           /\ ips \subseteq netbox[cur].ips /\ ranges \subseteq netbox[cur].ranges
           /\ Filled(cur, netbox[cur], conf[Here], ips, ranges)
           /\ Holds(netbox, Allowed(Here), Done(Here), conf[Here])
           /\ cur \notin Done(Here)
<1>1. Types /\ cur \in DOMAIN netbox /\ Here \in Backend /\ conf[Here] \in Conf
  BY DEF Safe, Types, TypeOK, PlaceOK, Filling
<1>2. cur \notin Done(Here)
  BY DEF Done, Counted, InWork, Filling
<1>3. ips \subseteq netbox[cur].ips /\ ranges \subseteq netbox[cur].ranges
  BY DEF Safe, Types, PlaceOK, Filling
<1>4. /\ Filled(cur, netbox[cur], conf[Here], ips, ranges)
      /\ Holds(netbox, Allowed(Here), Done(Here), conf[Here])
  BY <1>1 DEF Safe, HereOK, AppsOK, Sound, Looping
<1> QED
  BY <1>1, <1>2, <1>3, <1>4, ContentTypes

LEMMA SetReservationSafe ==
    ASSUME Safe, NEW i \in ips, SetReservation(i)
    PROVE  Safe'
<1> DEFINE r == AsResa(i)
           c == PutResa(conf[Here], cur, r)
           n == netbox[cur]
<1>1. /\ pc = "fill" /\ i.mac # NoMac /\ ips' = ips \ {i} /\ ranges' = ranges
      /\ SetItem(ResaErrors(conf[Here], cur, r), c) /\ FillUnchanged
  BY DEF SetReservation
<1>2. i \in n.ips
  BY <1>1, Current
<1>3. Types' /\ c \in Conf
  BY <1>1, Current, ItemTypes, SetReservationTypes
<1>4. Filled(cur, n, c, ips', ranges')
  BY <1>1, <1>2, Current, PutResaFilled
<1>5. Holds(netbox, Allowed(Here), Done(Here), c)
  BY <1>1, Current, PutResaHolds
<1>6. ASSUME ResaErrors(conf[Here], cur, r) # {}
             \/ (KeaAccepts(conf[Here]) /\ ~KeaAccepts(c))
      PROVE  Filled(cur, n, conf[Here], ips', ranges')
  <2>1. r \notin ClearResas(n)
    BY <1>1, <1>6, Current, ClearResa
  <2> QED
    BY <1>1, <2>1, Current, SkipFilled
<1> QED
  BY <1>1, <1>3, <1>4, <1>5, <1>6, SetItemSafe

LEMMA SetPoolSafe ==
    ASSUME Safe, NEW g \in ranges, SetPool(g)
    PROVE  Safe'
<1> DEFINE c == PutPool(conf[Here], cur, g)
           n == netbox[cur]
<1>1. pc = "fill" /\ ips' = ips /\ ranges' = ranges \ {g} /\ FillUnchanged
  BY DEF SetPool
<1>2. g \in n.ranges /\ g = [rid |-> g.rid, lo |-> g.lo, hi |-> g.hi]
  BY <1>1, Current DEF ContentOK, NetBoxRange
<1>3. SetItem(PoolErrors(conf[Here], cur, g), c)
  BY <1>2 DEF SetPool
<1>4. Types' /\ c \in Conf
  BY <1>1, <1>2, Current, ItemTypes, SetPoolTypes
<1>5. Filled(cur, n, c, ips', ranges')
  BY <1>1, <1>2, Current, PutPoolFilled
<1>6. Holds(netbox, Allowed(Here), Done(Here), c)
  BY <1>1, Current, PutPoolHolds
<1>7. ASSUME PoolErrors(conf[Here], cur, g) # {}
             \/ (KeaAccepts(conf[Here]) /\ ~KeaAccepts(c))
      PROVE  Filled(cur, n, conf[Here], ips', ranges')
  <2>1. g \notin ClearPools(n)
    BY <1>1, <1>7, Current, ClearPool
  <2> QED
    BY <1>1, <2>1, Current, SkipPoolFilled
<1> QED
  BY <1>1, <1>3, <1>4, <1>5, <1>6, <1>7, SetItemSafe

\* A commit that del_resa forces on another backend commits what is done there.
LEMMA BroadcastSafe ==
    ASSUME Safe, NEW i \in ips, BroadcastDelResa(i)
    PROVE  Safe'
<1>1. pc = "fill" /\ i.mac = NoMac /\ ips' = ips \ {i} /\ ranges' = ranges
      /\ FillUnchanged
  BY DEF BroadcastDelResa
<1>2. Types' /\ Types /\ Here \in Backend /\ (autoCommit[Here] <=> retry)
  BY <1>1, BroadcastTypes DEF Safe, Types, PlaceOK, Filling
<1>3. \A x \in Backend : OneBroadcast(x)
  BY <1>2, BroadcastEffect, TypeParts DEF Types
<1>4. \A x \in Backend : /\ Holds(netbox, Allowed(x), Done(x), conf[x])
                         /\ Holds(netbox, Allowed(x), Done(x), commitConf[x])
                         /\ KeaAccepts(commitConf[x])
  BY <1>1 DEF Safe, AppsOK, Looping, Sound
<1>5. \A x \in Backend : /\ conf'[x] \in {conf[x], commitConf[x]}
                         /\ commitConf'[x] \in {conf[x], commitConf[x]}
                         /\ KeaAccepts(commitConf'[x])
  BY <1>3, <1>4 DEF OneBroadcast
<1>6. /\ ~retry => conf'[Here] = conf[Here] /\ commitConf'[Here] = commitConf[Here]
      /\ retry => conf'[Here] = conf[Here] /\ commitConf'[Here] = conf[Here]
  BY <1>1, <1>2, <1>3 DEF OneBroadcast, Safe, HereOK
<1>7. Filled(cur, netbox[cur], conf[Here], ips', ranges')
  BY <1>1, Current, SkipFilled
<1>8. /\ UNCHANGED succeeded
      /\ \/ pc' = "next" /\ failed' = failed \cup {cur} /\ lost' = lost + 1
         \/ pc' = "fill" /\ UNCHANGED <<failed, lost>>
  BY DEF BroadcastDelResa, GiveUp, Lost, Answered
<1>9. /\ Holds(netbox, Allowed(Here), Done(Here), conf'[Here])
      /\ Holds(netbox, Allowed(Here), Done(Here), commitConf'[Here])
  BY <1>2, <1>4, <1>5
<1> QED
  BY <1>1, <1>2, <1>5, <1>6, <1>7, <1>8, <1>9, FillSafe

-----------------------------------------------------------------------------
(* The other steps of the loops. *)

\* What every step knows of the applications in the loops.
LEMMA AppsHold ==
    ASSUME Safe, Looping
    PROVE  \A x \in Backend : /\ Holds(netbox, Allowed(x), Done(x), conf[x])
                              /\ Holds(netbox, Allowed(x), Done(x), commitConf[x])
                              /\ KeaAccepts(commitConf[x])
                              /\ conf[x] \in Conf /\ commitConf[x] \in Conf
BY DEF Safe, AppsOK, Sound, Types, TypeOK

LEMMA InitSafe ==
    ASSUME Init
    PROVE  Safe
<1>1. /\ pc = "wipe" /\ todo = DOMAIN netbox /\ failed = {} /\ before = live
      /\ lost = 0 /\ at = 1
      /\ \A b \in Backend : /\ conf[b] = {} /\ commitConf[b] = {}
                            /\ attempted[b] = 0 /\ succeeded[b] = 0
  BY DEF Init
<1>2. \A b : Routed(b) \subseteq todo
  BY <1>1 DEF Routed
<1>3. \A b \in Backend : Done(b) = {}
  BY <1>2 DEF Done, Counted
<1>4. AppsOK
  BY <1>1, <1>3, HoldsEmpty, EmptyConf DEF AppsOK, Sound
<1>5. HereOK /\ StatsOK /\ StagedOK /\ OrderOK
  BY <1>1, <1>2 DEF HereOK, StatsOK, StagedOK, OrderOK, NothingStaged
<1>6. LiveOK /\ OnlyFaultyFails
  BY <1>1 DEF LiveOK, Pushed, OnlyFaultyFails
<1> QED
  BY <1>4, <1>5, <1>6, InitTypes DEF Safe

LEMMA WipeSafe ==
    ASSUME Safe, Wipe
    PROVE  Safe'
<1>0. PICK b \in Backend : b = BackendOrder[at]
  BY AtBackend DEF Wipe, Safe, Types, Looping
<1>1. /\ pc = "wipe" /\ todo = DOMAIN netbox /\ failed = {} /\ Types /\ Types'
      /\ Looping
  BY WipeTypes DEF Wipe, Safe, HereOK, Types, Looping
<1>2. /\ UNCHANGED <<netbox, check, before, live, todo, failed, attempted, succeeded,
                     unknown, lost>>
      /\ pc' = "wipe" \/ (pc' = "next" /\ at' = 1)
      /\ conf' = [conf EXCEPT ![b] = {}]
      /\ commitConf' = [commitConf EXCEPT ![b] = {}]
  BY <1>0 DEF Wipe, Committed, Answered, stats, fixed
<1>3. \A x \in Backend : /\ Counted(x)' = {} /\ Counted(x) = {}
                         /\ Done(x)' = {} /\ Allowed(x)' = Allowed(x)
  BY <1>1, <1>2 DEF Done, Counted, Allowed, Routed
<1>4. conf'[b] = {} /\ commitConf'[b] = {}
  BY <1>1, <1>2 DEF Types, TypeOK
<1>5. \A x \in Backend \ {b} : conf'[x] = conf[x] /\ commitConf'[x] = commitConf[x]
  BY <1>1, <1>2 DEF Types, TypeOK
<1>6. AppsOK'
  <2>1. /\ Holds(netbox, Allowed(b)', Done(b)', conf'[b])
        /\ Holds(netbox, Allowed(b)', Done(b)', commitConf'[b])
        /\ KeaAccepts(commitConf'[b])
    BY <1>3, <1>4, HoldsEmpty, EmptyConf
  <2>2. \A x \in Backend \ {b} :
            /\ KeaAccepts(commitConf'[x])
            /\ Allowed(x) \subseteq Allowed(x)' /\ Done(x)' \subseteq Done(x)
    BY <1>1, <1>3, <1>5, AppsHold
  <2>3. netbox' = netbox
    BY <1>2
  <2>4. \A x \in Backend \ {b} :
            /\ conf'[x] \in {conf[x], commitConf[x]}
            /\ commitConf'[x] \in {conf[x], commitConf[x]}
    BY <1>5
  <2>5. AppsOK
    BY DEF Safe
  <2> QED
    BY <1>1, <2>1, <2>2, <2>3, <2>4, <2>5, AppsStep
<1>7. HereOK' /\ StagedOK'
  BY <1>1, <1>2 DEF HereOK, StagedOK
<1>8. StatsOK'
  BY <1>1, <1>2, <1>3 DEF StatsOK, Safe, Routed
<1>9. LiveOK' /\ OrderOK'
  <2>1. \A x \in Backend : ~Pushed(x)
    BY <1>1 DEF LiveOK, Safe
  <2> QED
    BY <1>2, <2>1 DEF LiveOK, Pushed, OrderOK, NothingStaged
<1>10. OnlyFaultyFails'
  BY <1>1, <1>2 DEF OnlyFaultyFails
<1> QED
  BY <1>1, <1>6, <1>7, <1>8, <1>9, <1>10 DEF Safe

LEMMA SkipUnknownSafe ==
    ASSUME Safe, NEW p \in todo, SkipUnknown(p)
    PROVE  Safe'
<1>1. /\ pc = "next" /\ netbox[p].backend = NoBackend /\ Looping /\ ~Filling
      /\ todo' = todo \ {p} /\ unknown' = TRUE /\ at = 1
      /\ UNCHANGED <<fixed, netbox, check, live, conf, commitConf, hasCommit, pc, at,
                     cur, retry, attempted, succeeded, failed, lost>>
      /\ Types /\ Types'
  BY SkipUnknownTypes
  DEF SkipUnknown, Safe, Looping, Filling, apps, OrderOK, fixed
<1>2. \A x \in Backend : p \notin Routed(x)
  BY <1>1, BackendOrderAssumption DEF Routed
<1>3. \A x \in Backend :
          Counted(x)' = Counted(x) /\ Done(x)' = Done(x) /\ Allowed(x)' = Allowed(x)
  BY <1>1, <1>2 DEF Done, Counted, Allowed, Routed, InWork, Filling
<1>4. AppsOK'
  <2>1. \A x \in Backend : /\ Holds(netbox', Allowed(x)', Done(x)', conf'[x])
                           /\ Holds(netbox', Allowed(x)', Done(x)', commitConf'[x])
                           /\ KeaAccepts(commitConf'[x])
    BY <1>1, <1>3, AppsHold
  <2> QED
    BY <2>1 DEF AppsOK, Sound
<1>5. HereOK'
  BY <1>1 DEF HereOK
<1>6. StatsOK'
  <2>1. \A x \in Backend : Routed(x)' = Routed(x)
    BY <1>1 DEF Routed
  <2> QED
    BY <1>1, <1>2, <1>3, <2>1 DEF StatsOK, Safe
<1>7. StagedOK' /\ LiveOK' /\ OrderOK'
  BY <1>1, LoopRest DEF Safe
<1>8. OnlyFaultyFails'
  BY <1>1, FaultyStays DEF OnlyFaultyFails, Safe
<1> QED
  BY <1>1, <1>4, <1>5, <1>6, <1>7, <1>8 DEF Safe

LEMMA StartPrefixSafe ==
    ASSUME Safe, NEW p \in todo, StartPrefix(p)
    PROVE  Safe'
<1>1. /\ Types /\ Types' /\ p \in DOMAIN netbox /\ p \notin failed
      /\ pc = "next" /\ Looping /\ ~Filling /\ at = 1
  BY StartPrefixTypes
  DEF StartPrefix, Safe, Types, TypeOK, PlaceOK, Looping, Filling, OrderOK
<1>2. PICK b \in Backend : b = netbox[p].backend /\ b # NoBackend
  BY <1>1, PrefixTypes DEF StartPrefix, Types, TypeOK
<1> DEFINE n == netbox[p]
           errors == SubnetErrors(conf[b], p, n.net, FALSE)
           c == PutSubnet(conf[b], p, n.net, n.opt)
<1>3. /\ UNCHANGED <<fixed, netbox, check, live, at, unknown, succeeded, lost,
                     commitConf>>
      /\ todo' = todo \ {p} /\ attempted' = [attempted EXCEPT ![b] = @ + 1]
      /\ cur' = p /\ retry' = FALSE
      /\ \/ /\ errors # {} /\ failed' = failed \cup {p} /\ pc' = "next"
            /\ UNCHANGED conf
         \/ /\ errors = {} /\ UNCHANGED failed /\ pc' = "fill"
            /\ conf' = [conf EXCEPT ![b] = c]
            /\ ips' = n.ips /\ ranges' = n.ranges
  BY <1>2
  DEF StartPrefix, GiveUp, FillWith, UnchangedConfs, EditInMemory, Answered, fixed
<1> HIDE DEF n, errors, c
<1>4. \A x \in Backend : p \in Routed(x) <=> x = b
  BY <1>1, <1>2 DEF Routed
<1>5. \A x \in Backend : /\ Routed(x)' = Routed(x) /\ Counted(x)' = Counted(x)
                         /\ Done(x)' = Done(x) /\ Allowed(x) \subseteq Allowed(x)'
                         /\ p \notin Done(x) /\ p \notin Allowed(x)
  <2>1. \A x \in Backend : Routed(x)' = Routed(x)
    BY <1>3 DEF Routed
  <2>2. \A x \in Backend : Counted(x)' = Counted(x)
    BY <1>1, <1>3, <2>1 DEF Counted, InWork, Filling
  <2>3. \A x \in Backend : Allowed(x) \subseteq Allowed(x)' /\ p \notin Allowed(x)
    BY <1>1, <1>3, <2>1 DEF Allowed
  <2> QED
    BY <1>1, <1>3, <2>1, <2>2, <2>3 DEF Done, Counted
<1>6. \A x \in Backend : /\ Holds(netbox, Allowed(x)', Done(x)', conf[x])
                         /\ Holds(netbox, Allowed(x)', Done(x)', commitConf[x])
                         /\ KeaAccepts(commitConf[x])
  <2>1. ASSUME NEW x \in Backend, NEW d \in {conf[x], commitConf[x]}
        PROVE  Holds(netbox, Allowed(x)', Done(x)', d)
    <3>1. Holds(netbox, Allowed(x), Done(x), d)
      BY <1>1, <2>1, AppsHold
    <3>2. \A s \in d : s.id \in Allowed(x)'
      BY <1>5, <3>1 DEF Holds
    <3> QED
      BY <1>5, <3>1, <3>2, HoldsMonotone
  <2> QED
    BY <1>1, <2>1, AppsHold
<1>7. errors = {} => Holds(netbox, Allowed(b)', Done(b)', c)
  <2>1. errors = {} => p \in Allowed(b)'
    BY <1>1, <1>2, <1>3, <1>4, <1>5 DEF Allowed
  <2> QED
    BY <1>2, <1>5, <1>6, <2>1, PutSubnetHolds DEF c, n
<1>8. AppsOK'
  <2>1. \A x \in Backend \ {b} : conf'[x] = conf[x]
    BY <1>1, <1>3 DEF Types, TypeOK
  <2>2. conf'[b] = IF errors = {} THEN c ELSE conf[b]
    BY <1>1, <1>2, <1>3 DEF Types, TypeOK
  <2>3. \A x \in Backend : /\ Holds(netbox', Allowed(x)', Done(x)', conf'[x])
                           /\ Holds(netbox', Allowed(x)', Done(x)', commitConf'[x])
                           /\ KeaAccepts(commitConf'[x])
    BY <1>2, <1>3, <1>6, <1>7, <2>1, <2>2
  <2> QED
    BY <2>3 DEF AppsOK, Sound
<1>9. HereOK'
  <2>1. ASSUME pc' = "fill"
        PROVE  /\ Here' = b /\ Filled(p, n, c, n.ips, n.ranges) /\ conf'[b] = c
               /\ ~HasSubnet(commitConf[b], p)
    <3>1. Here' = b
      BY <1>2, <1>3 DEF Here
    <3>2. Filled(p, n, c, n.ips, n.ranges)
      BY PutSubnetFilled DEF c
    <3>3. conf'[b] = c
      BY <1>1, <1>2, <1>3, <2>1 DEF Types, TypeOK
    <3>4. ~HasSubnet(commitConf[b], p)
      BY <1>1, <1>2, <1>5, AppsHold DEF Holds, HasSubnet
    <3> QED
      BY <3>1, <3>2, <3>3, <3>4
  <2> QED
    BY <1>3, <2>1 DEF HereOK, n
<1>10. StatsOK'
  <2>1. attempted'[b] # 0
    BY <1>1, <1>2, <1>3 DEF Types, TypeOK
  <2>2. \A x \in Backend \ {b} : attempted'[x] = attempted[x]
    BY <1>3
  <2>3. \A x \in Backend \ {b} : p \notin Routed(x)
    BY <1>4
  <2>4. Routed(NoBackend)' = Routed(NoBackend) /\ p \notin Routed(NoBackend)
    BY <1>2, <1>3 DEF Routed
  <2> QED
    BY <1>3, <1>5, <2>1, <2>2, <2>3, <2>4 DEF StatsOK, Safe
<1>11. StagedOK' /\ LiveOK' /\ OrderOK'
  BY <1>1, <1>3, LoopRest DEF Safe
<1>12. OnlyFaultyFails'
  <2>1. errors # {} => FaultyPrefix(p)
    BY <1>1, <1>2, AppsHold, TwinFaulty DEF Sound, errors, n
  <2> QED
    BY <1>1, <1>3, <2>1, FaultyStays DEF OnlyFaultyFails, Safe
<1> QED
  BY <1>1, <1>8, <1>9, <1>10, <1>11, <1>12 DEF Safe

\* A prefix more that is done.
LEMMA HoldsMore ==
    ASSUME NEW n, NEW ids, NEW done, NEW c, Holds(n, ids, done, c),
           NEW p, Whole(p, n[p], c)
    PROVE  Holds(n, ids, done \cup {p}, c)
BY DEF Holds

LEMMA EndPrefixSafe ==
    ASSUME Safe, EndPrefix
    PROVE  Safe'
<1>1. /\ Types /\ Types' /\ pc = "fill" /\ Looping /\ Filling
      /\ cur \in DOMAIN netbox /\ cur \notin todo /\ cur \notin failed
      /\ ips = {} /\ ranges = {}
  BY EndPrefixTypes DEF EndPrefix, Safe, Types, PlaceOK, Looping, Filling
<1>2. PICK b \in Backend : b = Here
  BY <1>1 DEF Types, PlaceOK
<1>3. /\ UNCHANGED <<fixed, netbox, check, live, todo, cur, retry, failed, at,
                     attempted, unknown>>
      /\ Here' = b
  BY <1>2 DEF EndPrefix, Succeed, loop, fixed, Here
<1>4. Filled(cur, netbox[cur], conf[b], {}, {})
  BY <1>1, <1>2 DEF Safe, HereOK
<1>5. Whole(cur, netbox[cur], conf[b])
  <2>1. Holds(netbox, Allowed(b), Done(b), conf[b])
    BY <1>1, AppsHold
  <2> QED
    BY <1>4, <2>1, FilledWhole DEF Holds
<1>6. \A x \in Backend : /\ Routed(x)' = Routed(x) /\ (cur \in Routed(x) <=> x = b)
                         /\ (lost' = 0 => lost = 0) => Allowed(x) \subseteq Allowed(x)'
  BY <1>1, <1>2, <1>3 DEF Routed, Allowed, Here
<1>7. CASE pc' = "next" /\ succeeded' = [succeeded EXCEPT ![b] = @ + 1]
           /\ UNCHANGED lost
           /\ \/ (check \/ retry) /\ UNCHANGED <<conf, commitConf>>
              \/ /\ KeaAccepts(conf[b]) /\ conf' = [conf EXCEPT ![b] = conf[b]]
                 /\ commitConf' = [commitConf EXCEPT ![b] = conf[b]]
  <2>1. /\ Counted(b)' = Counted(b) \cup {cur}
        /\ \A x \in Backend \ {b} : Counted(x)' = Counted(x)
    BY <1>1, <1>3, <1>6, <1>7 DEF Counted, InWork, Filling
  <2>2. /\ Done(b)' = IF check THEN {} ELSE Done(b) \cup {cur}
        /\ \A x \in Backend \ {b} : Done(x)' = Done(x)
    BY <1>3, <2>1 DEF Done
  <2>3. /\ \A x \in Backend \ {b} : conf'[x] = conf[x] /\ commitConf'[x] = commitConf[x]
        /\ conf'[b] = conf[b]
        /\ ~check => commitConf'[b] = conf[b]
        /\ check => commitConf'[b] \in {conf[b], commitConf[b]}
        /\ KeaAccepts(commitConf'[b])
    <3>1. CASE (check \/ retry) /\ UNCHANGED <<conf, commitConf>>
      BY <1>1, <1>2, <3>1, AppsHold DEF Safe, HereOK
    <3>2. CASE /\ KeaAccepts(conf[b]) /\ conf' = [conf EXCEPT ![b] = conf[b]]
               /\ commitConf' = [commitConf EXCEPT ![b] = conf[b]]
      BY <1>1, <3>2 DEF Types, TypeOK
    <3> QED
      BY <1>7, <3>1, <3>2
  <2>4. ASSUME NEW d \in {conf[b], commitConf[b]}, check \/ d = conf[b]
        PROVE  Holds(netbox, Allowed(b)', Done(b)', d)
    <3>1. Holds(netbox, Allowed(b), Done(b), d)
      BY <1>1, <2>4, AppsHold
    <3>2. Holds(netbox, Allowed(b)', Done(b), d)
      BY <1>6, <1>7, <3>1 DEF Holds
    <3>3. CASE check
      BY <2>2, <3>2, <3>3 DEF Holds
    <3>4. CASE ~check
      BY <1>5, <2>2, <2>4, <3>2, <3>4, HoldsMore
    <3> QED
      BY <3>3, <3>4
  <2>5. AppsOK'
    BY <1>1, <1>3, <1>6, <1>7, <2>2, <2>3, <2>4, AppsHold, AppsStep DEF Safe
  <2>6. HereOK'
    BY <1>7 DEF HereOK
  <2>7. StatsOK'
    <3>1. \A x \in Backend \ {b} : succeeded'[x] = succeeded[x]
      BY <1>1, <1>7 DEF Types, TypeOK
    <3>2. Routed(NoBackend)' = Routed(NoBackend)
      BY <1>3 DEF Routed
    <3> QED
      BY <1>3, <1>6, <2>1, <3>1, <3>2 DEF StatsOK, Safe
  <2>8. StagedOK' /\ LiveOK' /\ OrderOK'
    BY <1>1, <1>3, <1>7, LoopRest DEF Safe, OrderOK
  <2>9. OnlyFaultyFails'
    BY <1>3, <1>7, FaultyStays DEF OnlyFaultyFails, Safe
  <2> QED
    BY <1>1, <2>5, <2>6, <2>7, <2>8, <2>9 DEF Safe
<1>8. CASE /\ pc' = "retry" /\ ~check /\ ~retry /\ UNCHANGED succeeded
           /\ lost' \in {lost, lost + 1}
           /\ commitConf' = commitConf
           /\ \/ conf' = [conf EXCEPT ![b] = commitConf[b]]
              \/ conf' = [conf EXCEPT ![b] = conf[b]] /\ lost' = lost + 1
  <2>1. \A x \in Backend : Counted(x)' = Counted(x) /\ Done(x)' = Done(x)
    BY <1>1, <1>3, <1>6, <1>8 DEF Done, Counted, InWork, Filling
  <2>2. lost \in Nat
    BY <1>1, MaxLostAssumption DEF Types, TypeOK
  <2>3. /\ \A x \in Backend \ {b} : conf'[x] = conf[x]
        /\ conf'[b] = commitConf[b] \/ (conf'[b] = conf[b] /\ lost' # 0)
    BY <1>1, <1>8, <2>2 DEF Types, TypeOK
  <2>4. \A x \in Backend : Allowed(x) \subseteq Allowed(x)'
    BY <1>6, <1>8, <2>2
  <2>5. ASSUME NEW d \in {conf[b], commitConf[b]}
        PROVE  Holds(netbox, Allowed(b)', Done(b)', d)
    <3>1. Holds(netbox, Allowed(b), Done(b), d)
      BY <1>1, <2>5, AppsHold
    <3> QED
      BY <2>1, <2>4, <3>1 DEF Holds
  <2>6. AppsOK'
    BY <1>1, <1>3, <1>8, <2>1, <2>3, <2>4, <2>5, AppsHold, AppsStep DEF Safe
  <2>7. HereOK'
    BY <1>1, <1>2, <1>3, <1>8, <2>3 DEF HereOK, Safe
  <2>8. StatsOK'
    <3>1. Routed(NoBackend)' = Routed(NoBackend)
      BY <1>3 DEF Routed
    <3> QED
      BY <1>3, <1>6, <1>8, <2>1, <3>1 DEF StatsOK, Safe
  <2>9. StagedOK' /\ LiveOK' /\ OrderOK'
    BY <1>1, <1>3, <1>8, LoopRest DEF Safe, OrderOK
  <2>10. OnlyFaultyFails'
    BY <1>3, <1>8, <2>2, FaultyStays DEF OnlyFaultyFails, Safe
  <2> QED
    BY <1>1, <2>6, <2>7, <2>8, <2>9, <2>10 DEF Safe
<1>9. \/ /\ check \/ retry
         /\ Succeed /\ UnchangedConfs /\ Answered
      \/ ~check /\ ~retry /\ Committed(b, conf[b]) /\ Succeed
      \/ /\ ~check /\ ~retry /\ pc' = "retry" /\ UNCHANGED succeeded
         /\ Rejected(b, conf[b]) \/ Unanswered(b, conf[b])
  BY <1>2 DEF EndPrefix
<1> QED
  BY <1>2, <1>7, <1>8, <1>9
  DEF Succeed, UnchangedConfs, Answered, Committed, Rejected, Unanswered, Lost

LEMMA RetrySafe ==
    ASSUME Safe, Retry
    PROVE  Safe'
<1>1. /\ Types /\ Types' /\ pc = "retry" /\ Looping /\ Filling /\ ~check /\ at = 1
      /\ cur \in DOMAIN netbox /\ cur \notin todo /\ cur \notin failed
      /\ lost \in Nat
  <2>1. pc = "retry" /\ Types /\ Types' /\ HereOK /\ OrderOK
    BY RetryTypes DEF Retry, Safe
  <2>2. Looping /\ Filling /\ ~check /\ at = 1
    BY <2>1 DEF HereOK, OrderOK, Looping, Filling
  <2>3. cur \in DOMAIN netbox /\ cur \notin todo /\ cur \notin failed /\ lost \in Nat
    BY <2>1, MaxLostAssumption DEF Types, TypeOK, PlaceOK, Filling
  <2> QED
    BY <2>1, <2>2, <2>3
<1>2. PICK b \in Backend : b = Here
  BY <1>1 DEF Types, PlaceOK
<1> DEFINE n == netbox[cur]
           errors == SubnetErrors(conf[b], cur, n.net, FALSE)
           c == PutSubnet(conf[b], cur, n.net, n.opt)
<1>3. /\ UNCHANGED <<fixed, netbox, check, live, at, todo, cur, attempted, unknown,
                     succeeded>>
      /\ retry' = TRUE /\ Here' = b
      /\ \/ /\ errors = {} /\ Committed(b, c) /\ UNCHANGED failed
            /\ pc' = "fill" /\ ips' = n.ips /\ ranges' = n.ranges
         \/ /\ \/ errors # {} /\ UnchangedConfs /\ Answered
               \/ errors = {} /\ (Rejected(b, c) \/ Unanswered(b, c))
            /\ pc' = "next" /\ failed' = failed \cup {cur}
  BY <1>2 DEF Retry, FillWith, GiveUp, fixed, Here
<1>4. \A x \in Backend : /\ Routed(x)' = Routed(x) /\ (cur \in Routed(x) <=> x = b)
                         /\ Counted(x)' = Counted(x) /\ Done(x)' = Done(x)
                         /\ cur \notin Done(x)
  <2>1. \A x \in Backend : Routed(x)' = Routed(x) /\ (cur \in Routed(x) <=> x = b)
    BY <1>1, <1>2, <1>3 DEF Routed, Here
  <2> QED
    BY <1>1, <1>3, <2>1 DEF Done, Counted, InWork, Filling
<1>5. /\ ~HasSubnet(commitConf[b], cur)
      /\ lost = 0 => conf[b] = commitConf[b]
  BY <1>1, <1>2 DEF Safe, HereOK
<1>6. /\ Holds(netbox, Allowed(b), Done(b), conf[b])
      /\ Holds(netbox, Allowed(b), Done(b), commitConf[b])
      /\ KeaAccepts(commitConf[b]) /\ conf[b] \in Conf /\ commitConf[b] \in Conf
  BY <1>1, AppsHold
<1>7. Holds(netbox, Allowed(b), Done(b), c)
  <2>1. cur \in Allowed(b)
    BY <1>1, <1>4 DEF Allowed
  <2> QED
    BY <1>4, <1>6, <2>1, PutSubnetHolds
<1>8. Filled(cur, n, c, n.ips, n.ranges)
  BY PutSubnetFilled
<1> HIDE DEF n, errors, c
<1>9. lost' \in {lost, lost + 1}
  BY <1>3 DEF Committed, Rejected, Unanswered, Answered, Lost
<1>10. \A x \in Backend \ {b} : /\ conf'[x] = conf[x] /\ commitConf'[x] = commitConf[x]
                                /\ Allowed(x) \subseteq Allowed(x)'
  <2>1. \A x \in Backend \ {b} : conf'[x] = conf[x] /\ commitConf'[x] = commitConf[x]
    BY <1>1, <1>3
    DEF Committed, Rejected, Unanswered, UnchangedConfs, Types, TypeOK
  <2> QED
    BY <1>1, <1>3, <1>4, <1>9, <2>1 DEF Allowed
<1>11. StatsOK' /\ StagedOK' /\ LiveOK' /\ OrderOK'
  <2>1. Routed(NoBackend)' = Routed(NoBackend)
    BY <1>3 DEF Routed
  <2>2. StatsOK'
    BY <1>3, <1>4, <2>1 DEF StatsOK, Safe
  <2> QED
    BY <1>1, <1>3, <2>2, LoopRest DEF Safe
<1>12. CASE /\ errors = {} /\ Committed(b, c) /\ UNCHANGED failed
            /\ pc' = "fill" /\ ips' = n.ips /\ ranges' = n.ranges
  <2>1. conf'[b] = c /\ commitConf'[b] = c /\ KeaAccepts(c) /\ lost' = lost
    BY <1>1, <1>12 DEF Committed, Answered, Types, TypeOK
  <2>2. Allowed(b)' = Allowed(b)
    BY <1>3, <1>4, <1>12, <2>1 DEF Allowed
  <2>3. AppsOK'
    BY <1>1, <1>3, <1>4, <1>7, <1>10, <2>1, <2>2, AppsHold, AppsStep DEF Safe
  <2>4. HereOK'
    BY <1>1, <1>3, <1>8, <1>12, <2>1 DEF HereOK, n
  <2>5. OnlyFaultyFails'
    BY <1>3, <1>12, <2>1, FaultyStays DEF OnlyFaultyFails, Safe
  <2> QED
    BY <1>1, <1>11, <2>3, <2>4, <2>5 DEF Safe
<1>13. CASE /\ \/ errors # {} /\ UnchangedConfs /\ Answered
               \/ errors = {} /\ (Rejected(b, c) \/ Unanswered(b, c))
            /\ pc' = "next" /\ failed' = failed \cup {cur}
  <2>1. /\ commitConf'[b] = commitConf[b]
        /\ conf'[b] \in {conf[b], commitConf[b], c}
        /\ lost' = 0 => conf'[b] = commitConf[b]
    BY <1>1, <1>5, <1>13
    DEF Rejected, Unanswered, UnchangedConfs, Answered, Lost, Types, TypeOK
  <2>2. ASSUME NEW d, Holds(netbox, Allowed(b), Done(b), d),
               lost' = 0 => d = commitConf[b]
        PROVE  Holds(netbox, Allowed(b)', Done(b)', d)
    <3>1. CASE lost' = 0
      <4>1. \A s \in d : s.id \in Allowed(b) /\ s.id # cur
        BY <1>5, <2>2, <3>1 DEF Holds, HasSubnet
      <4>2. \A s \in d : s.id \in Allowed(b)'
        BY <1>1, <1>3, <1>4, <1>9, <1>13, <3>1, <4>1 DEF Allowed
      <4> QED
        BY <1>4, <2>2, <4>2, HoldsMonotone
    <3>2. CASE lost' # 0
      <4>1. Allowed(b) \subseteq Allowed(b)'
        BY <1>3, <1>4, <3>2 DEF Allowed
      <4> QED
        BY <1>4, <2>2, <4>1 DEF Holds
    <3> QED
      BY <3>1, <3>2
  <2>3. AppsOK'
    <3>1. /\ Holds(netbox, Allowed(b)', Done(b)', conf'[b])
          /\ Holds(netbox, Allowed(b)', Done(b)', commitConf'[b])
      BY <1>6, <1>7, <2>1, <2>2
    <3> QED
      BY <1>1, <1>3, <1>4, <1>6, <1>10, <2>1, <3>1, AppsHold, AppsStep DEF Safe
  <2>4. HereOK'
    BY <1>13 DEF HereOK
  <2>5. lost' = 0 => FaultyPrefix(cur)
    <3>1. errors # {} => FaultyPrefix(cur)
      BY <1>1, <1>2, <1>6, TwinFaulty DEF Sound, errors, n, Here
    <3>2. ASSUME errors = {}, lost' = 0
          PROVE  n.opt \in BadOpt
      <4>1. ~KeaAccepts(c)
        BY <1>1, <1>13, <3>2 DEF Rejected, Unanswered, Lost
      <4>2. conf[b] = commitConf[b]
        BY <1>1, <1>5, <1>9, <3>2
      <4> QED
        BY <1>5, <1>6, <3>2, <4>1, <4>2, RefusedFaulty DEF errors, c
    <3> QED
      BY <3>1, <3>2 DEF FaultyPrefix, n
  <2>6. OnlyFaultyFails'
    BY <1>1, <1>3, <1>9, <1>13, <2>5, FaultyStays DEF OnlyFaultyFails, Safe
  <2> QED
    BY <1>1, <1>11, <2>3, <2>4, <2>6 DEF Safe
<1> QED
  BY <1>3, <1>12, <1>13

-----------------------------------------------------------------------------
(* After the loop. *)

LEMMA AfterLoop ==
    ASSUME Safe, Types', pc \notin {"fill", "retry"},
           pc' \in {"discard", "push", "listen", "dead"},
           UNCHANGED <<netbox, check, todo, stats>>, lost' \in {lost, lost + 1}
    PROVE  /\ AppsOK' /\ HereOK' /\ StatsOK' /\ OnlyFaultyFails'
           /\ \A x \in Backend : Counted(x)' = Counted(x) /\ Done(x)' = Done(x)
           /\ \A x \in Backend : \A c : Holds(netbox, Allowed(x), Done(x), c) =>
                                        Holds(netbox', Allowed(x)', Done(x)', c)
<1>1. lost \in Nat
  BY MaxLostAssumption DEF Safe, Types, TypeOK
<1>2. /\ UNCHANGED <<attempted, succeeded, unknown, failed>>
      /\ \A x : Routed(x)' = Routed(x)
  BY DEF stats, Routed
<1>3. \A x \in Backend : Counted(x)' = Counted(x) /\ Done(x)' = Done(x)
  BY <1>2 DEF Done, Counted, InWork, Filling
<1>4. \A x \in Backend : Allowed(x) \subseteq Allowed(x)'
  BY <1>1, <1>2 DEF Allowed
<1>5. ASSUME NEW x \in Backend, NEW c, Holds(netbox, Allowed(x), Done(x), c)
      PROVE  Holds(netbox', Allowed(x)', Done(x)', c)
  <2>1. Allowed(x) \subseteq Allowed(x)' /\ Done(x)' = Done(x)
    BY <1>3, <1>4, <1>5
  <2> QED
    BY <1>5, <2>1 DEF Holds
<1>6. AppsOK' /\ HereOK'
  BY DEF AppsOK, HereOK, Looping
<1>7. StatsOK'
  BY <1>2, <1>3 DEF StatsOK, Safe
<1>8. OnlyFaultyFails'
  BY <1>1, <1>2, FaultyStays DEF OnlyFaultyFails, Safe
<1> QED
  BY <1>3, <1>5, <1>6, <1>7, <1>8

LEMMA EndLoopSafe ==
    ASSUME Safe, EndLoop
    PROVE  Safe'
<1>1. /\ pc = "next" /\ Looping /\ todo = {} /\ at = 1 /\ Types /\ Types'
      /\ UNCHANGED <<netbox, check, before, live, conf, commitConf, hasCommit, todo,
                     at, stats, lost, attempted, succeeded, unknown, failed>>
      /\ pc' = "discard" \/ (pc' = "listen" /\ check)
         \/ (pc' = "push" /\ ~check /\ ~unknown)
  BY EndTypes
  DEF EndLoop, Safe, Types, TypeOK, Looping, OrderOK, fixed, loop, stats
<1>2. /\ AppsOK' /\ HereOK' /\ StatsOK' /\ OnlyFaultyFails'
      /\ \A x \in Backend : \A c : Holds(netbox, Allowed(x), Done(x), c) =>
                                   Holds(netbox', Allowed(x)', Done(x)', c)
  BY <1>1, AfterLoop
<1>3. StagedOK'
  BY <1>1, <1>2, AppsHold DEF StagedOK, Sound
<1>4. LiveOK'
  <2>1. \A x \in Backend : ~Pushed(x)
    BY <1>1 DEF LiveOK, Safe
  <2> QED
    BY <1>1, <2>1 DEF LiveOK, Pushed
<1>5. OrderOK'
  <2>1. \A j \in DOMAIN BackendOrder : ~(j < 1)
    BY BackendOrderAssumption
  <2> QED
    BY <1>1, <2>1 DEF OrderOK, NothingStaged
<1> QED
  BY <1>1, <1>2, <1>3, <1>4, <1>5 DEF Safe

\* A loop over the backends that has dealt with the one at its position.
LEMMA NextOrder ==
    ASSUME Types, pc \in {"discard", "push"}, OrderOK, NextBackend,
           hasCommit' = [hasCommit EXCEPT ![BackendOrder[at]] = FALSE]
    PROVE  OrderOK'
<1>1. /\ at \in DOMAIN BackendOrder /\ DOMAIN BackendOrder = 1..Len(BackendOrder)
      /\ Len(BackendOrder) \in Nat /\ hasCommit \in [Backend -> BOOLEAN]
      /\ \A j \in DOMAIN BackendOrder : BackendOrder[j] \in Backend
  BY BackendOrderAssumption DEF Types, TypeOK
<1>2. \A j \in DOMAIN BackendOrder : j <= at => ~hasCommit'[BackendOrder[j]]
  BY <1>1 DEF OrderOK
<1>3. CASE at < Len(BackendOrder) /\ at' = at + 1 /\ pc' = pc
  BY <1>1, <1>2, <1>3 DEF OrderOK, NothingStaged
<1>4. CASE ~(at < Len(BackendOrder)) /\ at' = 1 /\ pc' = "listen"
  <2>1. \A j \in DOMAIN BackendOrder : j <= at
    BY <1>1, <1>4
  <2>2. \A x \in Backend : ~hasCommit'[x]
    BY <1>2, <2>1, BackendOrderAssumption
  <2> QED
    BY <1>4, <2>2 DEF OrderOK, NothingStaged
<1> QED
  BY <1>3, <1>4 DEF NextBackend

LEMMA DiscardSafe ==
    ASSUME Safe, Discard
    PROVE  Safe'
<1>1. /\ pc = "discard" /\ Types /\ Types' /\ NextBackend
      /\ pc' \in {"discard", "listen"}
      /\ UNCHANGED <<netbox, check, before, live, todo, stats, lost>>
      /\ hasCommit' = [hasCommit EXCEPT ![BackendOrder[at]] = FALSE]
  BY DiscardPushTypes DEF Discard, Safe, PullOf, NextBackend, fixed
<1>2. AppsOK' /\ HereOK' /\ StatsOK' /\ OnlyFaultyFails'
  BY <1>1, AfterLoop
<1>3. StagedOK'
  BY <1>1 DEF StagedOK
<1>4. LiveOK'
  <2>1. \A x \in Backend : ~Pushed(x)
    BY <1>1 DEF LiveOK, Safe
  <2> QED
    BY <1>1, <2>1 DEF LiveOK, Pushed
<1>5. OrderOK'
  BY <1>1, NextOrder DEF Safe
<1> QED
  BY <1>1, <1>2, <1>3, <1>4, <1>5 DEF Safe

LEMMA PushSafe ==
    ASSUME Safe, Push
    PROVE  Safe'
<1>1. PICK b \in Backend : b = BackendOrder[at]
  BY AtBackend DEF Safe, Types
<1>2. /\ pc = "push" /\ Types /\ Types'
      /\ pc' \in {"push", "listen", "dead"}
      /\ UNCHANGED <<netbox, check, before, todo, stats, attempted, succeeded,
                     unknown, failed>>
      /\ lost' \in {lost, lost + 1}
  BY DiscardPushTypes DEF Push, Safe, NextBackend, Lost, fixed, stats
<1>3. /\ AppsOK' /\ HereOK' /\ StatsOK' /\ OnlyFaultyFails'
      /\ \A x \in Backend : \A c : Holds(netbox, Allowed(x), Done(x), c) =>
                                   Holds(netbox', Allowed(x)', Done(x)', c)
  BY <1>2, AfterLoop
<1>4. /\ ~check /\ todo = {} /\ ~unknown
      /\ \A x \in Backend :
             hasCommit[x] => Holds(netbox, Allowed(x), Done(x), commitConf[x])
  BY <1>2 DEF Safe, StagedOK, Sound
<1>5. \/ PullOf(b) /\ UNCHANGED live
      \/ /\ UNCHANGED <<conf, commitConf>>
         /\ \/ hasCommit' = [hasCommit EXCEPT ![b] = FALSE]
            \/ hasCommit' = hasCommit /\ pc' = "dead"
         /\ \/ UNCHANGED live
            \/ /\ ~AllFailed(b) /\ hasCommit[b]
               /\ live' = [live EXCEPT ![b] = commitConf[b]]
  BY <1>1 DEF Push
<1>6. StagedOK'
  <2>1. ASSUME NEW x \in Backend, pc' = "push", hasCommit'[x]
        PROVE  hasCommit[x] /\ commitConf'[x] = commitConf[x]
    BY <1>2, <1>5, <2>1 DEF PullOf, Types, TypeOK
  <2> QED
    BY <1>2, <1>3, <1>4, <2>1 DEF StagedOK, Sound
<1>7. LiveOK'
  <2>1. ASSUME NEW x \in Backend, Pushed(x)'
        PROVE  ~AllFailed(x) /\ Holds(netbox, Allowed(x), Done(x), live'[x])
    <3>1. CASE live'[x] = live[x]
      BY <1>2, <2>1, <3>1 DEF LiveOK, Safe, Pushed, Sound
    <3>2. CASE x = b /\ ~AllFailed(b) /\ hasCommit[b] /\ live'[b] = commitConf[b]
      BY <1>4, <3>2
    <3> QED
      BY <1>2, <1>5, <3>1, <3>2 DEF Types, TypeOK
  <2>2. \A x \in Backend : AllFailed(x)' <=> AllFailed(x)
    BY <1>2 DEF AllFailed
  <2> QED
    BY <1>2, <1>3, <1>4, <2>1, <2>2 DEF LiveOK, Sound
<1>8. OrderOK'
  <2>1. CASE pc' = "dead"
    BY <2>1 DEF OrderOK, NothingStaged
  <2>2. CASE pc' # "dead"
    <3>1. NextBackend
      BY <2>2 DEF Push
    <3>2. hasCommit' = [hasCommit EXCEPT ![BackendOrder[at]] = FALSE]
      BY <1>1, <1>5, <2>2 DEF PullOf
    <3> QED
      BY <1>2, <3>1, <3>2, NextOrder DEF Safe
  <2> QED
    BY <2>1, <2>2
<1> QED
  BY <1>2, <1>3, <1>6, <1>7, <1>8 DEF Safe

LEMMA DieSafe ==
    ASSUME Safe, Die
    PROVE  Safe'
<1>1. /\ pc' = "dead" /\ pc \notin {"listen", "dead"} /\ Types'
      /\ UNCHANGED <<netbox, check, before, live, todo, cur, attempted, succeeded,
                     unknown, failed, lost>>
  BY EndTypes DEF Die, Safe, fixed, loop, stats
<1>2. /\ AppsOK' /\ HereOK' /\ StagedOK' /\ OrderOK'
  BY <1>1 DEF AppsOK, HereOK, StagedOK, OrderOK, NothingStaged, Looping
<1>3. \A x : Routed(x)' = Routed(x)
  BY <1>1 DEF Routed
<1>4. StatsOK'
  <2>1. \A x \in Backend : Counted(x) \subseteq Counted(x)'
    BY <1>1, <1>3 DEF Counted, InWork, Filling
  <2> QED
    BY <1>1, <1>3, <2>1 DEF StatsOK, Safe
<1>5. LiveOK'
  <2>1. ASSUME NEW x \in Backend, Pushed(x)'
        PROVE  /\ ~check /\ todo = {} /\ ~unknown /\ ~AllFailed(x)'
               /\ Holds(netbox', Allowed(x)', Done(x)', live'[x])
    <3>1. Pushed(x)
      BY <1>1, <2>1 DEF Pushed
    <3>2. /\ pc = "push" /\ ~check /\ todo = {} /\ ~unknown /\ ~AllFailed(x)
          /\ Holds(netbox, Allowed(x), Done(x), live[x])
      BY <1>1, <3>1 DEF Safe, LiveOK, Sound
    <3>3. Allowed(x)' = Allowed(x) /\ Done(x)' = Done(x)
      BY <1>1, <1>3, <3>2 DEF Allowed, Done, Counted, InWork, Filling
    <3> QED
      BY <1>1, <3>2, <3>3 DEF AllFailed
  <2> QED
    BY <1>1, <2>1 DEF LiveOK, Sound
<1>6. OnlyFaultyFails'
  BY <1>1, FaultyStays DEF OnlyFaultyFails, Safe
<1> QED
  BY <1>1, <1>2, <1>4, <1>5, <1>6 DEF Safe

LEMMA StutterSafe ==
    ASSUME Safe, UNCHANGED vars
    PROVE  Safe'
<1>1. /\ UNCHANGED <<netbox, check, before, live, conf, commitConf, hasCommit,
                     autoCommit, pc, at, todo, cur, retry, ips, ranges, attempted,
                     succeeded, unknown, failed, lost>>
  BY DEF vars, fixed, apps, loop, stats
<1>2. Types'
  BY NextTypes DEF Safe
<1>3. /\ \A x : Routed(x)' = Routed(x)
      /\ Here' = Here
  BY <1>1 DEF Routed, Here
<1>4. \A x : /\ Counted(x)' = Counted(x) /\ Done(x)' = Done(x)
             /\ Allowed(x)' = Allowed(x)
  BY <1>1, <1>3 DEF Done, Counted, Allowed, InWork, Filling
<1>5. AppsOK'
  BY <1>1, <1>4 DEF Safe, AppsOK, Looping, Sound
<1>6. HereOK'
  BY <1>1, <1>3 DEF Safe, HereOK
<1>7. StatsOK'
  BY <1>1, <1>3, <1>4 DEF Safe, StatsOK
<1>8. StagedOK'
  BY <1>1, <1>4 DEF Safe, StagedOK, Sound
<1>9. LiveOK'
  BY <1>1, <1>4 DEF Safe, LiveOK, Sound, Pushed, AllFailed
<1>10. OrderOK' /\ OnlyFaultyFails'
  BY <1>1, FaultyStays DEF Safe, OrderOK, NothingStaged, OnlyFaultyFails
<1> QED
  BY <1>2, <1>5, <1>6, <1>7, <1>8, <1>9, <1>10 DEF Safe

LEMMA SafeHolds == Spec => []Safe
<1>1. Init => Safe
  BY InitSafe
<1>2. Safe /\ [Next]_vars => Safe'
  BY WipeSafe, SkipUnknownSafe, StartPrefixSafe, SetReservationSafe, BroadcastSafe,
     SetPoolSafe, EndPrefixSafe, RetrySafe, EndLoopSafe, DiscardSafe, PushSafe,
     DieSafe, StutterSafe
  DEF Next, Step
<1> QED
  BY <1>1, <1>2, PTL DEF Spec

-----------------------------------------------------------------------------
(* The theorems. *)

\* sync_all replaces the configuration of a server only out of check mode, only
\* if every prefix of NetBox has a known tag, and never by one without a single
\* whole prefix when NetBox has some for it (the guards of connector.py,
\* sync_all).
THEOREM PushesAreJustified == Spec => []PushJustified
<1>1. Safe => PushJustified
  <2> SUFFICES ASSUME Safe, NEW b \in Backend, Pushed(b)
               PROVE  /\ ~check /\ Routed(NoBackend) = {}
                      /\ Routed(b) # {} => \E p \in Routed(b) : Complete(p, live[b])
    BY DEF PushJustified
  <2>1. /\ ~check /\ todo = {} /\ ~unknown /\ ~AllFailed(b)
        /\ Holds(netbox, Allowed(b), Done(b), live[b])
    BY DEF Safe, LiveOK, Sound
  <2>2. Routed(NoBackend) = {}
    BY <2>1 DEF Safe, StatsOK
  <2>3. ASSUME Routed(b) # {}
        PROVE  Done(b) # {}
    <3>1. attempted[b] # 0 /\ attempted[b] \in Nat
      BY <2>1, <2>3 DEF Safe, StatsOK, Types, TypeOK
    <3>2. succeeded[b] # 0
      BY <2>1, <3>1 DEF AllFailed
    <3> QED
      BY <2>1, <3>2 DEF Safe, StatsOK, Done
  <2>4. Done(b) \subseteq Routed(b)
    BY DEF Done, Counted
  <2>5. \A p \in Done(b) : Complete(p, live[b])
    BY <2>1 DEF Holds, Complete
  <2> QED
    BY <2>1, <2>2, <2>3, <2>4, <2>5
<1> QED
  BY <1>1, SafeHolds, PTL

\* A prefix counted as succeeded is whole on the server, whatever was rolled
\* back, lost or committed by others after it (connector.py, sync_all and
\* kea/app.py, commit).
THEOREM SucceededAreWhole == Spec => []SucceededIsWhole
<1>1. Safe => SucceededIsWhole
  <2> SUFFICES ASSUME Safe, NEW b \in Backend, Pushed(b),
                      NEW p \in Routed(b) \ failed
               PROVE  Complete(p, live[b])
    BY DEF SucceededIsWhole
  <2>1. /\ ~check /\ todo = {} /\ pc \in {"push", "listen", "dead"}
        /\ Holds(netbox, Allowed(b), Done(b), live[b])
    BY DEF Safe, LiveOK, Sound
  <2>2. p \in Done(b)
    BY <2>1 DEF Done, Counted, InWork, Filling
  <2> QED
    BY <2>1, <2>2 DEF Holds, Complete
<1> QED
  BY <1>1, SafeHolds, PTL

\* As long as every answer arrives, a prefix fails only for its own settings or
\* for another prefix of the server with its address (the second try of
\* connector.py, sync_all).
THEOREM OnlyFaultyPrefixesFail == Spec => []OnlyFaultyFails
<1>1. Safe => OnlyFaultyFails
  BY DEF Safe
<1> QED
  BY <1>1, SafeHolds, PTL

\* As long as every answer arrives, nothing of a failed prefix is on the server
\* (the rollback of kea/app.py, commit).
THEOREM FailedStayOut == Spec => []FailedStaysOut
<1>1. Safe => FailedStaysOut
  <2> SUFFICES ASSUME Safe, lost = 0, NEW b \in Backend, Pushed(b),
                      NEW p \in failed
               PROVE  ~HasSubnet(live[b], p)
    BY DEF FailedStaysOut
  <2>1. Holds(netbox, Allowed(b), Done(b), live[b])
    BY DEF Safe, LiveOK, Sound
  <2> QED
    BY <2>1 DEF Holds, Allowed, HasSubnet
<1> QED
  BY <1>1, SafeHolds, PTL

\* When the daemon begins to listen, no backend has anything of the full
\* synchronisation waiting for a later push (connector.py, sync_all).
THEOREM NothingIsStaged == Spec => []NothingStaged
<1>1. Safe => NothingStaged
  BY DEF Safe, OrderOK
<1> QED
  BY <1>1, SafeHolds, PTL
-----------------------------------------------------------------------------
(* What a clean NetBox leads to. *)

\* What waits for the push, and what was pushed, is accepted by Kea.
AcceptedOK ==
    /\ pc = "push" => \A b \in Backend : hasCommit[b] => KeaAccepts(commitConf[b])
    /\ \A b \in Backend : Pushed(b) => KeaAccepts(live[b])

LEMMA PushAccepted ==
    ASSUME Safe, AcceptedOK, Push
    PROVE  AcceptedOK'
<1> DEFINE b == BackendOrder[at]
<1>1. /\ pc = "push" /\ before' = before
      /\ \A x \in Backend : live'[x] = live[x] \/ (hasCommit[x] /\ live'[x] = commitConf[x])
  BY DEF Push, fixed, Safe, Types, TypeOK
<1>2. \A x \in Backend : hasCommit'[x] => hasCommit[x] /\ commitConf'[x] = commitConf[x]
  BY DEF Push, PullOf, Safe, Types, TypeOK
<1> QED
  BY <1>1, <1>2 DEF AcceptedOK, Pushed

LEMMA NextAccepted ==
    ASSUME Safe, AcceptedOK, [Next]_vars
    PROVE  AcceptedOK'
<1>1. CASE Push
  BY <1>1, PushAccepted
<1>2. CASE EndLoop
  BY <1>2 DEF EndLoop, fixed, AcceptedOK, Pushed, Safe, AppsOK, Looping
<1>3. CASE UNCHANGED vars
  BY <1>3 DEF vars, fixed, apps, AcceptedOK, Pushed
<1>4. CASE Next /\ ~Push /\ ~EndLoop
  <2>1. UNCHANGED <<live, before>> /\ pc' # "push"
    <3>1. CASE Wipe \/ Discard \/ Die
      BY <3>1 DEF Wipe, Discard, NextBackend, Die, fixed
    <3>2. CASE \E p \in todo : SkipUnknown(p) \/ StartPrefix(p)
      BY <3>2 DEF SkipUnknown, StartPrefix, GiveUp, FillWith, fixed
    <3>3. CASE \E i \in ips : SetReservation(i) \/ BroadcastDelResa(i)
      BY <3>3 DEF SetReservation, BroadcastDelResa, SetItem, GiveUp, FillUnchanged, fixed
    <3>4. CASE \E g \in ranges : SetPool(g)
      BY <3>4 DEF SetPool, SetItem, GiveUp, FillUnchanged, fixed
    <3>5. CASE EndPrefix \/ Retry
      BY <3>5 DEF EndPrefix, Succeed, Retry, GiveUp, FillWith, fixed
    <3> QED
      BY <1>4, <3>1, <3>2, <3>3, <3>4, <3>5 DEF Next, Step
  <2> QED
    BY <2>1 DEF AcceptedOK, Pushed
<1> QED
  BY <1>1, <1>2, <1>3, <1>4

LEMMA AcceptedHolds == Spec => []AcceptedOK
<1>1. Init => AcceptedOK
  BY DEF Init, AcceptedOK, Pushed
<1>2. Safe /\ AcceptedOK /\ [Next]_vars => AcceptedOK'
  BY NextAccepted
<1> QED
  BY <1>1, <1>2, SafeHolds, PTL DEF Spec

\* What can all be had: no two items of a prefix clash.
LEMMA AskedIsClear ==
    ASSUME Types, NEW b \in Backend, KeaAccepts(Asked(b)), NEW p \in Routed(b)
    PROVE  /\ ClearResas(netbox[p]) = Wanted(netbox[p])
           /\ ClearPools(netbox[p]) = netbox[p].ranges
           /\ ~FaultyPrefix(p)
<1> DEFINE asked(q) ==
        [id |-> q, net |-> netbox[q].net, opt |-> netbox[q].opt,
         resas |-> Wanted(netbox[q]), pools |-> netbox[q].ranges]
<1>1. \A q \in Routed(b) : asked(q) \in Asked(b)
  BY DEF Asked
<1>2. \A q : /\ asked(q).id = q /\ asked(q).net = netbox[q].net
             /\ asked(q).opt = netbox[q].opt
             /\ asked(q).resas = Wanted(netbox[q])
             /\ asked(q).pools = netbox[q].ranges
  OBVIOUS
<1> HIDE DEF asked
<1>3. netbox[p].backend = b /\ p \in DOMAIN netbox
  BY DEF Routed
<1>4. ~FaultyPrefix(p)
  <2>1. netbox[p].opt \notin BadOpt
    BY <1>1, <1>2 DEF KeaAccepts
  <2>2. \A q \in Routed(b) \ {p} : netbox[q].net # netbox[p].net
    BY <1>1, <1>2 DEF KeaAccepts, SubnetsUnique
  <2> QED
    BY <1>3, <2>1, <2>2 DEF FaultyPrefix
<1>5. ClearResas(netbox[p]) = Wanted(netbox[p])
  BY <1>1, <1>2 DEF KeaAccepts, ClearResas
<1>6. ClearPools(netbox[p]) = netbox[p].ranges
  <2>1. \A g \in netbox[p].ranges : g.lo \in Int /\ g.hi \in Int
    BY <1>3, PrefixTypes, PointAssumption DEF Types, TypeOK, NetBoxRange
  <2>2. \A g, h \in netbox[p].ranges : g.lo <= h.hi /\ h.lo <= g.hi => g = h
    BY <1>1, <1>2 DEF KeaAccepts, PoolsDisjoint
  <2> QED
    BY <2>1, <2>2 DEF ClearPools
<1> QED
  BY <1>4, <1>5, <1>6

\* As long as every answer arrives, a server that could run what NetBox asks of
\* it runs exactly that once it was pushed (connector.py, sync_all).
THEOREM CleanPushesAreExact == Spec => []CleanPushIsExact
<1>1. Safe /\ AcceptedOK => CleanPushIsExact
  <2> SUFFICES ASSUME Safe, AcceptedOK, lost = 0, NEW b \in Backend, Pushed(b),
                      KeaAccepts(Asked(b))
               PROVE  live[b] = Asked(b)
    BY DEF CleanPushIsExact
  <2>1. /\ ~check /\ todo = {} /\ pc \in {"push", "listen", "dead"}
        /\ Holds(netbox, Allowed(b), Done(b), live[b])
        /\ SubnetsUnique(live[b]) /\ live[b] \in Conf
    BY DEF Safe, LiveOK, Sound, AcceptedOK, KeaAccepts, Types, TypeOK
  <2>2. \A p \in Routed(b) : p \in Done(b)
    <3>1. \A p \in failed : FaultyPrefix(p)
      BY DEF Safe, OnlyFaultyFails
    <3> QED
      BY <2>1, <3>1, AskedIsClear DEF Safe, Done, Counted, InWork, Filling
  <2>3. ASSUME NEW p \in Routed(b), NEW s \in live[b], s.id = p
        PROVE  s = [id |-> p, net |-> netbox[p].net, opt |-> netbox[p].opt,
                    resas |-> Wanted(netbox[p]), pools |-> netbox[p].ranges]
    <3>1. Whole(p, netbox[p], live[b])
      BY <2>1, <2>2 DEF Holds
    <3>2. /\ s.net = netbox[p].net /\ s.opt = netbox[p].opt
          /\ s.resas = Wanted(netbox[p]) /\ s.pools = netbox[p].ranges
      <4>1. PICK w \in live[b] :
              /\ w.id = p /\ w.net = netbox[p].net /\ w.opt = netbox[p].opt
              /\ ClearResas(netbox[p]) \subseteq w.resas
              /\ w.resas \subseteq Wanted(netbox[p])
              /\ ClearPools(netbox[p]) \subseteq w.pools
              /\ w.pools \subseteq netbox[p].ranges
        BY <3>1 DEF Whole
      <4>2. w = s
        BY <2>1, <2>3, <4>1 DEF SubnetsUnique
      <4>3. /\ ClearResas(netbox[p]) = Wanted(netbox[p])
            /\ ClearPools(netbox[p]) = netbox[p].ranges
        BY AskedIsClear DEF Safe
      <4> QED
        BY <4>1, <4>2, <4>3
    <3>3. s \in Subnet
      BY <2>1 DEF Conf
    <3> QED
      BY <2>3, <3>2, <3>3 DEF Subnet
  <2>4. live[b] \subseteq Asked(b)
    <3>1. \A s \in live[b] : s.id \in Routed(b)
      BY <2>1 DEF Holds, Allowed
    <3> QED
      BY <2>3, <3>1 DEF Asked
  <2>5. Asked(b) \subseteq live[b]
    <3>1. \A p \in Routed(b) : \E s \in live[b] : s.id = p
      BY <2>1, <2>2 DEF Holds, Whole
    <3> QED
      BY <2>3, <3>1 DEF Asked
  <2> QED
    BY <2>4, <2>5
<1> QED
  BY <1>1, SafeHolds, AcceptedHolds, PTL
=============================================================================

--------------------------- MODULE KeaConfProofs ---------------------------
(***************************************************************************)
(* What the edits of KeaConf preserve, one lemma per edit: they keep a     *)
(* configuration a configuration, and a consistent one consistent when the *)
(* code's own checks passed.                                               *)
(***************************************************************************)
EXTENDS KeaConf, TLAPS

\* Deleting a subnet leaves a configuration.
LEMMA DropSubnetType ==
    ASSUME NEW c \in Conf, NEW pid
    PROVE  DropSubnet(c, pid) \in Conf
BY DEF Conf, DropSubnet

\* Replacing or appending a bare subnet leaves a configuration.
LEMMA PutSubnetType ==
    ASSUME NEW c \in Conf, NEW pid \in PrefixId, NEW net \in Net, NEW opt \in Opt
    PROVE  PutSubnet(c, pid, net, opt) \in Conf
BY DEF Conf, Subnet, PutSubnet, DropSubnet

\* New settings leave a configuration.
LEMMA UpdateOptionsType ==
    ASSUME NEW c \in Conf, NEW pid, NEW opt \in Opt
    PROVE  UpdateOptions(c, pid, opt) \in Conf
BY DEF Conf, Subnet, UpdateOptions

\* So do a new reservation and a new pool, and the deletion of either.
LEMMA PutResaType ==
    ASSUME NEW c \in Conf, NEW pid, NEW r \in Resa
    PROVE  PutResa(c, pid, r) \in Conf
BY DEF Conf, Subnet, PutResa

LEMMA PutPoolType ==
    ASSUME NEW c \in Conf, NEW pid, NEW p \in Pool
    PROVE  PutPool(c, pid, p) \in Conf
BY DEF Conf, Subnet, PutPool

LEMMA DropResaType ==
    ASSUME NEW c \in Conf, NEW nid
    PROVE  DropResa(c, nid) \in Conf
BY DEF Conf, Subnet, DropResa

LEMMA DropPoolType ==
    ASSUME NEW c \in Conf, NEW rid
    PROVE  DropPool(c, rid) \in Conf
BY DEF Conf, Subnet, DropPool

-----------------------------------------------------------------------------

\* An empty configuration has nothing wrong.
LEMMA EmptyConf == {} \in Conf /\ Consistent({}) /\ KeaAccepts({})
BY DEF Conf, Consistent, KeaAccepts, SubnetsUnique, ResasUnique,
       PoolIdsUnique, PoolsDisjoint

\* Deleting a subnet keeps a configuration consistent.
LEMMA DropSubnetConsistent ==
    ASSUME NEW c \in Conf, Consistent(c), NEW pid
    PROVE  Consistent(DropSubnet(c, pid))
BY DEF Consistent, SubnetsUnique, ResasUnique, PoolIdsUnique, DropSubnet

\* The loop of _set_subnet finds every subnet that has the new address.
LEMMA PutSubnetConsistent ==
    ASSUME NEW c \in Conf, Consistent(c),
           NEW pid \in PrefixId, NEW net \in Net, NEW opt \in Opt,
           SubnetErrors(c, pid, net, FALSE) = {}
    PROVE  Consistent(PutSubnet(c, pid, net, opt))
<1> DEFINE new == [id |-> pid, net |-> net, opt |-> opt,
                   resas |-> {}, pools |-> {}]
<1>1. \A s \in c : s.net = net => s.id = pid
  BY DEF SubnetErrors, Twin, Consistent, SubnetsUnique
<1>2. PutSubnet(c, pid, net, opt) = DropSubnet(c, pid) \cup {new}
  BY DEF PutSubnet
<1>3. \A s \in DropSubnet(c, pid) : s \in c /\ s.id # pid /\ s.net # net
  BY <1>1 DEF DropSubnet
<1>4. new.id = pid /\ new.net = net /\ new.resas = {} /\ new.pools = {}
  OBVIOUS
<1> HIDE DEF new
<1>5. SubnetsUnique(DropSubnet(c, pid) \cup {new})
  BY <1>3, <1>4 DEF Consistent, SubnetsUnique
<1>6. ResasUnique(DropSubnet(c, pid) \cup {new})
  BY <1>3, <1>4 DEF Consistent, ResasUnique
<1>7. PoolIdsUnique(DropSubnet(c, pid) \cup {new})
  BY <1>3, <1>4 DEF Consistent, PoolIdsUnique
<1> QED
  BY <1>2, <1>5, <1>6, <1>7 DEF Consistent

\* Changing the items or the settings of subnets, and nothing else, keeps the
\* ids and the addresses of subnets unique.
LEMMA SameSubnets ==
    ASSUME NEW c \in Conf, SubnetsUnique(c), NEW d,
           NEW f, d = {f[s] : s \in c},
           \A s \in c : f[s].id = s.id /\ f[s].net = s.net
    PROVE  SubnetsUnique(d)
BY DEF SubnetsUnique

\* New settings keep a configuration consistent.
LEMMA UpdateOptionsConsistent ==
    ASSUME NEW c \in Conf, Consistent(c), NEW pid, NEW opt \in Opt
    PROVE  Consistent(UpdateOptions(c, pid, opt))
<1> DEFINE f == [s \in c |-> IF s.id = pid THEN [s EXCEPT !.opt = opt] ELSE s]
<1>1. UpdateOptions(c, pid, opt) = {f[s] : s \in c}
  BY DEF UpdateOptions
<1>2. \A s \in c : /\ f[s].id = s.id /\ f[s].net = s.net
                   /\ f[s].resas = s.resas /\ f[s].pools = s.pools
  BY DEF Conf, Subnet
<1> HIDE DEF f
<1>3. SubnetsUnique({f[s] : s \in c})
  BY <1>2, SameSubnets DEF Consistent
<1>4. ResasUnique({f[s] : s \in c})
  BY <1>2 DEF Consistent, ResasUnique
<1>5. PoolIdsUnique({f[s] : s \in c})
  BY <1>2 DEF Consistent, PoolIdsUnique
<1> QED
  BY <1>1, <1>3, <1>4, <1>5 DEF Consistent

\* raise_conflict of set_reservation sees every other reservation of the
\* subnet, so a reservation that passes it is no duplicate.
LEMMA PutResaConsistent ==
    ASSUME NEW c \in Conf, Consistent(c), NEW pid, NEW r \in Resa,
           ResaErrors(c, pid, r) = {}
    PROVE  Consistent(PutResa(c, pid, r))
<1> DEFINE kept(s) == {x \in s.resas : x.nid # r.nid}
           f == [s \in c |-> IF s.id = pid
                             THEN [s EXCEPT !.resas = kept(s) \cup {r}] ELSE s]
<1>1. PutResa(c, pid, r) = {f[s] : s \in c}
  BY DEF PutResa
<1>2. \A s \in c : /\ f[s].id = s.id /\ f[s].net = s.net
                   /\ f[s].pools = s.pools
                   /\ s.id # pid => f[s].resas = s.resas
                   /\ s.id = pid => f[s].resas = kept(s) \cup {r}
  BY DEF Conf, Subnet
<1>3. \A s \in c : s.id = pid => ~ResaClash(s, r)
  BY DEF ResaErrors
<1> HIDE DEF f
<1>4. SubnetsUnique({f[s] : s \in c})
  BY <1>2, SameSubnets DEF Consistent
<1>5. ASSUME NEW s \in c, NEW x \in f[s].resas, NEW y \in f[s].resas,
             \/ x.mac = y.mac
             \/ IpUnique /\ x.ip = y.ip
             \/ x.nid = y.nid /\ x.nid # NoId
      PROVE  x = y
  <2>1. CASE s.id # pid
    BY <1>2, <1>5, <2>1 DEF Consistent, ResasUnique
  <2>2. CASE s.id = pid
    <3>1. \A z \in kept(s) : z.nid # r.nid /\ z.mac # r.mac
                             /\ ~(IpUnique /\ z.ip = r.ip)
      BY <1>3, <2>2 DEF ResaClash
    <3>2. x \in kept(s) \cup {r} /\ y \in kept(s) \cup {r}
      BY <1>2, <2>2
    <3>3. CASE x \in kept(s) /\ y \in kept(s)
      BY <1>5, <3>3 DEF Consistent, ResasUnique
    <3> QED
      BY <1>5, <3>1, <3>2, <3>3
  <2> QED
    BY <2>1, <2>2
<1>6. ResasUnique({f[s] : s \in c})
  BY <1>5 DEF ResasUnique
<1>7. PoolIdsUnique({f[s] : s \in c})
  BY <1>2 DEF Consistent, PoolIdsUnique
<1> QED
  BY <1>1, <1>4, <1>6, <1>7 DEF Consistent

\* A new pool keeps a configuration consistent, whether it overlaps or not.
LEMMA PutPoolConsistent ==
    ASSUME NEW c \in Conf, Consistent(c), NEW pid, NEW p \in Pool
    PROVE  Consistent(PutPool(c, pid, p))
<1> DEFINE kept(s) == {x \in s.pools : x.rid # p.rid}
           f == [s \in c |-> IF s.id = pid
                             THEN [s EXCEPT !.pools = kept(s) \cup {p}] ELSE s]
<1>1. PutPool(c, pid, p) = {f[s] : s \in c}
  BY DEF PutPool
<1>2. \A s \in c : /\ f[s].id = s.id /\ f[s].net = s.net
                   /\ f[s].resas = s.resas
                   /\ f[s].pools = s.pools \/ f[s].pools = kept(s) \cup {p}
  BY DEF Conf, Subnet
<1> HIDE DEF f
<1>3. SubnetsUnique({f[s] : s \in c})
  BY <1>2, SameSubnets DEF Consistent
<1>4. ResasUnique({f[s] : s \in c})
  BY <1>2 DEF Consistent, ResasUnique
<1>5. PoolIdsUnique({f[s] : s \in c})
  BY <1>2 DEF Consistent, PoolIdsUnique
<1> QED
  BY <1>1, <1>3, <1>4, <1>5 DEF Consistent

\* Deleting items keeps a configuration consistent.
LEMMA DropResaConsistent ==
    ASSUME NEW c \in Conf, Consistent(c), NEW nid
    PROVE  Consistent(DropResa(c, nid))
<1> DEFINE f == [s \in c |->
                 [s EXCEPT !.resas = {x \in s.resas : x.nid # nid}]]
<1>1. DropResa(c, nid) = {f[s] : s \in c}
  BY DEF DropResa
<1>2. \A s \in c : /\ f[s].id = s.id /\ f[s].net = s.net
                   /\ f[s].pools = s.pools
                   /\ f[s].resas \subseteq s.resas
  BY DEF Conf, Subnet
<1> HIDE DEF f
<1>3. SubnetsUnique({f[s] : s \in c})
  BY <1>2, SameSubnets DEF Consistent
<1>4. ResasUnique({f[s] : s \in c})
  BY <1>2 DEF Consistent, ResasUnique
<1>5. PoolIdsUnique({f[s] : s \in c})
  BY <1>2 DEF Consistent, PoolIdsUnique
<1> QED
  BY <1>1, <1>3, <1>4, <1>5 DEF Consistent

LEMMA DropPoolConsistent ==
    ASSUME NEW c \in Conf, Consistent(c), NEW rid
    PROVE  Consistent(DropPool(c, rid))
<1> DEFINE f == [s \in c |->
                 [s EXCEPT !.pools = {x \in s.pools : x.rid # rid}]]
<1>1. DropPool(c, rid) = {f[s] : s \in c}
  BY DEF DropPool
<1>2. \A s \in c : /\ f[s].id = s.id /\ f[s].net = s.net
                   /\ f[s].resas = s.resas
                   /\ f[s].pools \subseteq s.pools
  BY DEF Conf, Subnet
<1> HIDE DEF f
<1>3. SubnetsUnique({f[s] : s \in c})
  BY <1>2, SameSubnets DEF Consistent
<1>4. ResasUnique({f[s] : s \in c})
  BY <1>2 DEF Consistent, ResasUnique
<1>5. PoolIdsUnique({f[s] : s \in c})
  BY <1>2 DEF Consistent, PoolIdsUnique
<1> QED
  BY <1>1, <1>3, <1>4, <1>5 DEF Consistent
=============================================================================

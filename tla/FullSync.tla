------------------------------ MODULE FullSync ------------------------------
(***************************************************************************)
(* The full synchronisation at startup: Connector.sync_all (connector.py)  *)
(* over one DHCP4App per server, as run() calls it before anything else    *)
(* runs.  Every backend is read and wiped in memory, every prefix of       *)
(* NetBox is rebuilt on the backend its tag names, and the backends are    *)
(* pushed, unless a guard says that the result must not go live.           *)
(*                                                                         *)
(* A step ends where the program talks to a server or takes the next item, *)
(* so that an answer can be lost, or the process end, at each of these     *)
(* points.  An error that is no KeaError, and a KeaError outside the try   *)
(* statements of sync_all, end the process (action Die).                   *)
(*                                                                         *)
(* push() is one step here: KeaApp has its two commands, and the copy that *)
(* Kea keeps on disk.  NetBox does not change while it is read.            *)
(***************************************************************************)
EXTENDS KeaConf, Sequences, FiniteSets

CONSTANTS
    Backend,        \* servers
    BackendOrder,   \* the order of the registry
    NoBackend,      \* where an unknown tag leads
    NoMac,          \* an IP address whose interface has no MAC
    NoPrefix,
    NetBoxes,       \* the contents of NetBox to consider
    LiveConfs,      \* what a server may run before
    MaxLost         \* bound on the answers that are lost

NetBoxIp == [nid : IpId, mac : Mac \cup {NoMac}, ip : Addr]
NetBoxRange == [rid : RangeId, lo : Point, hi : Point]
NetBoxPrefix == [net : Net, opt : Opt, backend : Backend \cup {NoBackend},
                 ips : SUBSET NetBoxIp, ranges : SUBSET NetBoxRange]

ASSUME BackendOrderAssumption ==
    /\ BackendOrder \in Seq(Backend) /\ BackendOrder # <<>>
    /\ \A b \in Backend : \E i \in DOMAIN BackendOrder : BackendOrder[i] = b
    /\ NoBackend \notin Backend /\ NoMac \notin Mac /\ NoPrefix \notin PrefixId
\* An address is listed under every prefix that contains it, and is the same;
\* a range ends where it starts or after.
ASSUME NetBoxesAssumption ==
    \A n \in NetBoxes :
        /\ DOMAIN n \subseteq PrefixId
        /\ \A p \in DOMAIN n : n[p] \in NetBoxPrefix
        /\ \A p, q \in DOMAIN n : \A i \in n[p].ips, j \in n[q].ips :
               i.nid = j.nid => i = j
        /\ \A p \in DOMAIN n :
               /\ \A g \in n[p].ranges : g.lo <= g.hi
               /\ \A g, h \in n[p].ranges : g.rid = h.rid => g = h
ASSUME LiveConfsAssumption == LiveConfs \subseteq Conf
ASSUME MaxLostAssumption == MaxLost \in Nat

VARIABLES
    netbox, check,                          \* fixed: NetBox, the check option
    live,                                   \* what each server runs
    conf, commitConf, hasCommit, autoCommit,    \* of each DHCP4App
    pc,             \* where sync_all is
    at,             \* position in a loop over the backends
    todo,           \* prefixes the loop has not come to
    cur, retry,     \* the current prefix, and whether it is its second try
    ips, ranges,    \* items of cur still to do
    attempted, succeeded,                   \* stats, by backend
    unknown,        \* an unknown tag was met
    before,         \* history: live when the process started
    failed,         \* history: prefixes counted as attempted only
    lost            \* number of lost answers

apps == <<conf, commitConf, hasCommit, autoCommit>>
loop == <<at, todo, cur, retry, ips, ranges>>
stats == <<attempted, succeeded, unknown, failed>>
fixed == <<netbox, check, before>>
vars == <<fixed, live, apps, pc, loop, stats, lost>>

Init ==
    /\ netbox \in NetBoxes
    /\ check \in BOOLEAN
    /\ live \in [Backend -> LiveConfs]
    /\ conf = [b \in Backend |-> {}]
    /\ commitConf = [b \in Backend |-> {}]
    /\ hasCommit = [b \in Backend |-> FALSE]
    /\ autoCommit = [b \in Backend |-> TRUE]
    /\ pc = "wipe"
    /\ at = 1
    /\ todo = DOMAIN netbox
    /\ cur = NoPrefix /\ retry = FALSE
    /\ ips = {} /\ ranges = {}
    /\ attempted = [b \in Backend |-> 0]
    /\ succeeded = [b \in Backend |-> 0]
    /\ unknown = FALSE
    /\ before = live
    /\ failed = {}
    /\ lost = 0

-----------------------------------------------------------------------------
(* DHCP4App.commit and its results; KeaApp has the details. *)

Answered == UNCHANGED lost
Lost == lost < MaxLost /\ lost' = lost + 1

\* config-test accepts c: it becomes the commit of b.
Committed(b, c) ==
    /\ Answered
    /\ KeaAccepts(c)
    /\ conf' = [conf EXCEPT ![b] = c]
    /\ commitConf' = [commitConf EXCEPT ![b] = c]
    /\ hasCommit' = [hasCommit EXCEPT ![b] = TRUE]

\* Mutant: no rollback.
RejectedKeeps(b, c) ==
    /\ Answered
    /\ ~KeaAccepts(c)
    /\ conf' = [conf EXCEPT ![b] = c]
    /\ UNCHANGED <<commitConf, hasCommit>>

\* KeaCmdError: back to the last commit.
Rejected(b, c) ==
    /\ Answered
    /\ ~KeaAccepts(c)
    /\ conf' = [conf EXCEPT ![b] = commitConf[b]]
    /\ UNCHANGED <<commitConf, hasCommit>>

\* KeaServerError: c stays in the working copy.
Unanswered(b, c) ==
    /\ Lost
    /\ conf' = [conf EXCEPT ![b] = c]
    /\ UNCHANGED <<commitConf, hasCommit>>

\* Without auto_commit an edit is memory only.
EditInMemory(b, c) ==
    /\ Answered
    /\ conf' = [conf EXCEPT ![b] = c]
    /\ UNCHANGED <<commitConf, hasCommit>>

UnchangedConfs == UNCHANGED <<conf, commitConf, hasCommit>>

-----------------------------------------------------------------------------
(* First loop: pull() and del_all_subnets(), auto_commit on. *)

\* Mutant: the pulled configuration is not wiped.
WipeNothing ==
    /\ pc = "wipe"
    /\ Committed(BackendOrder[at], live[BackendOrder[at]])
    /\ IF at < Len(BackendOrder)
       THEN at' = at + 1 /\ pc' = pc
       ELSE at' = 1 /\ pc' = "next"
    /\ UNCHANGED <<fixed, live, autoCommit, todo, cur, retry, ips, ranges,
                   stats>>

Wipe ==
    /\ pc = "wipe"
    /\ Committed(BackendOrder[at], {})
    /\ IF at < Len(BackendOrder)
       THEN at' = at + 1 /\ pc' = pc
       ELSE at' = 1 /\ pc' = "next"
    /\ UNCHANGED <<fixed, live, autoCommit, todo, cur, retry, ips, ranges,
                   stats>>

-----------------------------------------------------------------------------
(* Second loop: the prefixes. *)

\* The tag is in no registry entry: remembered for the abort.
SkipUnknown(p) ==
    /\ pc = "next" /\ p \in todo
    /\ netbox[p].backend = NoBackend
    /\ todo' = todo \ {p}
    /\ unknown' = TRUE
    /\ UNCHANGED <<fixed, live, apps, pc, at, cur, retry, ips, ranges,
                   attempted, succeeded, failed, lost>>

Here == netbox[cur].backend

\* "config failed" and continue.
GiveUp(p) ==
    /\ failed' = failed \cup {p}
    /\ pc' = "next"
    /\ UNCHANGED succeeded

\* set_subnet succeeded; then come the addresses and the ranges.
FillWith(p) ==
    /\ pc' = "fill"
    /\ ips' = netbox[p].ips
    /\ ranges' = netbox[p].ranges

\* _prefix_to_subnet begins, auto_commit off.
StartPrefix(p) ==
    LET b == netbox[p].backend
        n == netbox[p]
        errors == SubnetErrors(conf[b], p, n.net, FALSE)
    IN  /\ pc = "next" /\ p \in todo
        /\ b # NoBackend
        /\ todo' = todo \ {p}
        /\ attempted' = [attempted EXCEPT ![b] = @ + 1]
        /\ autoCommit' = [autoCommit EXCEPT ![b] = FALSE]
        /\ cur' = p /\ retry' = FALSE
        /\ \/ /\ errors # {}
              /\ GiveUp(p)
              /\ UnchangedConfs /\ Answered
              /\ UNCHANGED <<ips, ranges>>
           \/ /\ errors = {}
              /\ EditInMemory(b, PutSubnet(conf[b], p, n.net, n.opt))
              /\ FillWith(p)
              /\ UNCHANGED <<succeeded, failed>>
        /\ UNCHANGED <<fixed, live, at, unknown>>

\* Mutant: an item without an answer is skipped like a faulty one.
SetItemOrSkip(errors, c) ==
    /\ \/ errors # {} /\ UnchangedConfs /\ Answered
       \/ /\ errors = {}
          /\ IF autoCommit[Here]
             THEN Committed(Here, c) \/ Rejected(Here, c) \/ Unanswered(Here, c)
             ELSE EditInMemory(Here, c)
    /\ UNCHANGED <<pc, succeeded, failed>>

\* Mutant: a rejected item ends the second try.
SetItemOrGiveUp(errors, c) ==
    \/ /\ errors # {}
       /\ UnchangedConfs /\ Answered
       /\ UNCHANGED <<pc, succeeded, failed>>
    \/ /\ errors = {}
       /\ IF autoCommit[Here] THEN Committed(Here, c) ELSE EditInMemory(Here, c)
       /\ UNCHANGED <<pc, succeeded, failed>>
    \/ /\ errors = {} /\ autoCommit[Here]
       /\ Rejected(Here, c) \/ Unanswered(Here, c)
       /\ GiveUp(cur)

(***************************************************************************)
(* An item of the current prefix, c the working copy with it and errors    *)
(* what the setter raises.  A KeaClientError costs the item, no answer     *)
(* costs the rest of the prefix.                                           *)
(***************************************************************************)
SetItem(errors, c) ==
    \/ /\ errors # {}
       /\ UnchangedConfs /\ Answered
       /\ UNCHANGED <<pc, succeeded, failed>>
    \/ /\ errors = {}
       /\ IF autoCommit[Here]
          THEN Committed(Here, c) \/ Rejected(Here, c)
          ELSE EditInMemory(Here, c)
       /\ UNCHANGED <<pc, succeeded, failed>>
    \/ /\ errors = {}
       /\ autoCommit[Here]
       /\ Unanswered(Here, c)
       /\ GiveUp(cur)

FillUnchanged ==
    UNCHANGED <<fixed, live, autoCommit, at, todo, cur, retry, attempted,
                unknown>>

AsResa(i) == [nid |-> i.nid, mac |-> i.mac, ip |-> i.ip]

SetReservation(i) ==
    LET r == AsResa(i)
    IN  /\ pc = "fill" /\ i \in ips
        /\ i.mac # NoMac
        /\ ips' = ips \ {i}
        /\ SetItem(ResaErrors(conf[Here], cur, r), PutResa(conf[Here], cur, r))
        /\ UNCHANGED ranges
        /\ FillUnchanged

(***************************************************************************)
(* An address without a MAC: del_resa on every backend, in order, up to    *)
(* the first that raises.  None of them holds a reservation for it, but    *)
(* those with auto_commit on commit whatever their working copy is.        *)
(***************************************************************************)
Raises(x, silent) ==
    autoCommit[x] /\ (x \in silent \/ ~KeaAccepts(conf[x]))

Position(x) == CHOOSE i \in DOMAIN BackendOrder : BackendOrder[i] = x

Commits(x, silent) ==
    /\ autoCommit[x] /\ x \notin silent
    /\ \A y \in Backend : Position(y) < Position(x) => ~Raises(y, silent)

BroadcastDelResa(i) ==
    /\ pc = "fill" /\ i \in ips
    /\ i.mac = NoMac
    /\ ips' = ips \ {i}
    /\ \E silent \in {{}} \cup {{x} : x \in {y \in Backend : autoCommit[y]}} :
        LET done == {x \in Backend : Commits(x, silent)}
            fine == {x \in done : KeaAccepts(conf[x])}
            stopped == \E x \in silent : \A y \in Backend :
                           Position(y) < Position(x) => ~Raises(y, silent)
        IN  /\ conf' = [x \in Backend |->
                           IF x \in done \ fine THEN commitConf[x] ELSE conf[x]]
            /\ commitConf' = [x \in Backend |->
                           IF x \in fine THEN conf[x] ELSE commitConf[x]]
            /\ hasCommit' = [x \in Backend |-> hasCommit[x] \/ x \in fine]
            /\ \/ stopped /\ Lost /\ GiveUp(cur)
               \/ /\ ~stopped /\ silent = {} /\ Answered
                  /\ UNCHANGED <<pc, succeeded, failed>>
    /\ UNCHANGED ranges
    /\ FillUnchanged

SetPool(g) ==
    LET p == [rid |-> g.rid, lo |-> g.lo, hi |-> g.hi]
    IN  /\ pc = "fill" /\ ips = {} /\ g \in ranges
        /\ ranges' = ranges \ {g}
        /\ SetItem(PoolErrors(conf[Here], cur, p), PutPool(conf[Here], cur, p))
        /\ UNCHANGED ips
        /\ FillUnchanged

Succeed ==
    /\ succeeded' = [succeeded EXCEPT ![Here] = @ + 1]
    /\ pc' = "next"
    /\ UNCHANGED failed

\* All items done: commit, unless in check mode or on the second try.
EndPrefix ==
    /\ pc = "fill" /\ ips = {} /\ ranges = {}
    /\ \/ /\ check \/ retry
          /\ Succeed
          /\ UnchangedConfs /\ Answered
       \/ /\ ~check /\ ~retry
          /\ Committed(Here, conf[Here])
          /\ Succeed
       \/ /\ ~check /\ ~retry
          /\ Rejected(Here, conf[Here]) \/ Unanswered(Here, conf[Here])
          /\ pc' = "retry"
          /\ UNCHANGED <<succeeded, failed>>
    /\ UNCHANGED <<fixed, live, autoCommit, loop, attempted, unknown>>

\* Mutant: try again until Kea accepts the prefix.
RetryForever ==
    LET n == netbox[cur]
        c == PutSubnet(conf[Here], cur, n.net, n.opt)
    IN  /\ pc = "retry"
        /\ retry' = TRUE
        /\ autoCommit' = [autoCommit EXCEPT ![Here] = TRUE]
        /\ \/ Committed(Here, c) /\ FillWith(cur)
           \/ Rejected(Here, c) /\ UNCHANGED <<pc, ips, ranges>>
        /\ UNCHANGED <<fixed, live, at, todo, cur, stats>>

\* Second try, auto_commit on: set_subnet with a commit of its own.
Retry ==
    LET n == netbox[cur]
        errors == SubnetErrors(conf[Here], cur, n.net, FALSE)
        c == PutSubnet(conf[Here], cur, n.net, n.opt)
    IN  /\ pc = "retry"
        /\ retry' = TRUE
        /\ autoCommit' = [autoCommit EXCEPT ![Here] = TRUE]
        /\ \/ /\ errors = {}
              /\ Committed(Here, c)
              /\ FillWith(cur)
              /\ UNCHANGED <<succeeded, failed>>
           \/ /\ \/ errors # {} /\ UnchangedConfs /\ Answered
                 \/ errors = {} /\ (Rejected(Here, c) \/ Unanswered(Here, c))
              /\ GiveUp(cur)
              /\ UNCHANGED <<ips, ranges>>
        /\ UNCHANGED <<fixed, live, at, todo, cur, attempted, unknown>>

-----------------------------------------------------------------------------
(* After the loop: abort, check mode, or push. *)

EndLoop ==
    /\ pc = "next" /\ todo = {}
    /\ autoCommit' = [b \in Backend |-> TRUE]
    /\ pc' = CASE unknown -> "discard"
               [] ~unknown /\ check -> "listen"
               [] OTHER -> "push"
    /\ UNCHANGED <<fixed, live, conf, commitConf, hasCommit, loop, stats, lost>>

\* Mutant: what was staged stays staged.
PullKeepingCommit(b) ==
    /\ conf' = [conf EXCEPT ![b] = live[b]]
    /\ UNCHANGED <<commitConf, hasCommit>>

\* pull(): the server's configuration replaces both copies.
PullOf(b) ==
    /\ conf' = [conf EXCEPT ![b] = live[b]]
    /\ commitConf' = [commitConf EXCEPT ![b] = live[b]]
    /\ hasCommit' = [hasCommit EXCEPT ![b] = FALSE]

\* Mutant: the position is not reset.
NextBackendOverrun ==
    /\ at' = at + 1
    /\ pc' = IF at < Len(BackendOrder) THEN pc ELSE "listen"

NextBackend ==
    IF at < Len(BackendOrder)
    THEN at' = at + 1 /\ pc' = pc
    ELSE at' = 1 /\ pc' = "listen"

Discard ==
    /\ pc = "discard"
    /\ PullOf(BackendOrder[at])
    /\ NextBackend
    /\ UNCHANGED <<fixed, live, autoCommit, todo, cur, retry, ips, ranges,
                   stats, lost>>

\* Mutant: one guard for all servers together, as before there were several.
AllFailedTogether(b) == \A x \in Backend : succeeded[x] = 0

AllFailed(b) == attempted[b] > 0 /\ succeeded[b] = 0

Push ==
    LET b == BackendOrder[at]
    IN  /\ pc = "push"
        /\ \/ /\ AllFailed(b)
              /\ PullOf(b)
              /\ UNCHANGED <<live, lost>>
              /\ NextBackend
           \/ /\ ~AllFailed(b) /\ hasCommit[b]
              /\ live' = [live EXCEPT ![b] = commitConf[b]]
              /\ hasCommit' = [hasCommit EXCEPT ![b] = FALSE]
              /\ UNCHANGED <<conf, commitConf, lost>>
              /\ NextBackend
           \/ \* KeaCmdError: logged, the next backend is pushed all the same
              /\ ~AllFailed(b) /\ hasCommit[b]
              /\ hasCommit' = [hasCommit EXCEPT ![b] = FALSE]
              /\ UNCHANGED <<live, conf, commitConf, lost>>
              /\ NextBackend
           \/ \* KeaServerError: Kea did it, the next backends are not pushed
              /\ ~AllFailed(b) /\ hasCommit[b]
              /\ live' = [live EXCEPT ![b] = commitConf[b]]
              /\ Lost
              /\ pc' = "dead"
              /\ UNCHANGED <<conf, commitConf, hasCommit, at>>
        /\ UNCHANGED <<fixed, autoCommit, todo, cur, retry, ips, ranges, stats>>

\* A crash, or an error that sync_all lets through.
Die ==
    /\ pc \notin {"listen", "dead"}
    /\ pc' = "dead"
    /\ UNCHANGED <<fixed, live, apps, loop, stats, lost>>

-----------------------------------------------------------------------------

Step ==
    \/ Wipe
    \/ \E p \in todo : SkipUnknown(p) \/ StartPrefix(p)
    \/ \E i \in ips : SetReservation(i) \/ BroadcastDelResa(i)
    \/ \E g \in ranges : SetPool(g)
    \/ EndPrefix \/ Retry \/ EndLoop \/ Discard \/ Push

Next == Step \/ Die

Spec == Init /\ [][Next]_vars

\* One thread runs sync_all and every call it makes returns or times out.
FairSpec == Spec /\ WF_vars(Step)

-----------------------------------------------------------------------------
(* Properties. *)

TypeOK ==
    /\ netbox \in NetBoxes /\ check \in BOOLEAN
    /\ live \in [Backend -> Conf] /\ before \in [Backend -> Conf]
    /\ conf \in [Backend -> Conf] /\ commitConf \in [Backend -> Conf]
    /\ hasCommit \in [Backend -> BOOLEAN]
    /\ autoCommit \in [Backend -> BOOLEAN]
    /\ pc \in {"wipe", "next", "fill", "retry", "discard", "push", "listen",
               "dead"}
    /\ at \in DOMAIN BackendOrder
    /\ todo \subseteq DOMAIN netbox
    /\ cur \in DOMAIN netbox \cup {NoPrefix} /\ retry \in BOOLEAN
    /\ ips \subseteq NetBoxIp /\ ranges \subseteq NetBoxRange
    /\ attempted \in [Backend -> Nat] /\ succeeded \in [Backend -> Nat]
    /\ unknown \in BOOLEAN
    /\ failed \subseteq DOMAIN netbox
    /\ lost \in 0..MaxLost

Routed(b) == {p \in DOMAIN netbox : netbox[p].backend = b}

\* The reservations prefix n of NetBox asks for, those that clash with no other
\* of them, and the ranges that overlap no other.
Wanted(n) == {AsResa(i) : i \in {j \in n.ips : j.mac # NoMac}}

ClearResas(n) ==
    {r \in Wanted(n) :
        \A x \in Wanted(n) \ {r} : x.mac # r.mac /\ ~(IpUnique /\ x.ip = r.ip)}

ClearPools(n) ==
    {g \in n.ranges :
        \A h \in n.ranges \ {g} : h.hi < g.lo \/ g.hi < h.lo}

\* c has all of prefix p that can be had, n being its content, and nothing in it
\* that NetBox does not have.
Whole(p, n, c) ==
    \E s \in c :
        /\ s.id = p /\ s.net = n.net /\ s.opt = n.opt
        /\ ClearResas(n) \subseteq s.resas /\ s.resas \subseteq Wanted(n)
        /\ ClearPools(n) \subseteq s.pools /\ s.pools \subseteq n.ranges

Complete(p, c) == Whole(p, netbox[p], c)

Pushed(b) == live[b] # before[b]

(***************************************************************************)
(* The guards of sync_all, against what they are for: a server's           *)
(* configuration is replaced only out of check mode, only if NetBox has no *)
(* prefix with an unknown tag, and never by one without a single whole     *)
(* prefix when NetBox has some for that server.                            *)
(***************************************************************************)
PushJustified ==
    \A b \in Backend : Pushed(b) =>
        /\ ~check
        /\ Routed(NoBackend) = {}
        /\ Routed(b) # {} => \E p \in Routed(b) : Complete(p, live[b])

(***************************************************************************)
(* A prefix that was counted as succeeded is whole on the server, with     *)
(* everything in it that clashes with nothing else in it, whatever came    *)
(* after it: rollbacks of later prefixes, commits forced by other          *)
(* backends' deletions, lost answers.                                      *)
(***************************************************************************)
SucceededIsWhole ==
    \A b \in Backend : Pushed(b) =>
        \A p \in Routed(b) \ failed : Complete(p, live[b])

(***************************************************************************)
(* As long as every answer arrives, a faulty item costs itself and not its *)
(* prefix ("Retry with auto-commit enabled to catch the faulty item"), and *)
(* a faulty prefix costs no other one: a prefix fails only for its own     *)
(* settings or for another prefix of the server with its address.          *)
(***************************************************************************)
FaultyPrefix(p) ==
    \/ netbox[p].opt \in BadOpt
    \/ \E q \in Routed(netbox[p].backend) \ {p} : netbox[q].net = netbox[p].net

OnlyFaultyFails == lost = 0 => \A p \in failed : FaultyPrefix(p)

(***************************************************************************)
(* As long as every answer arrives, a prefix that failed is not on the     *)
(* server, not even in part.                                               *)
(***************************************************************************)
FailedStaysOut ==
    lost = 0 => \A b \in Backend : Pushed(b) =>
        \A p \in failed : ~HasSubnet(live[b], p)

\* What NetBox asks of backend b, clashes included.
Asked(b) ==
    {[id |-> p, net |-> netbox[p].net, opt |-> netbox[p].opt,
      resas |-> Wanted(netbox[p]), pools |-> netbox[p].ranges] : p \in Routed(b)}

(***************************************************************************)
(* As long as every answer arrives, a server that could run what NetBox    *)
(* asks of it runs exactly that once it was pushed: nothing of before,     *)
(* whatever the other servers' prefixes are, and however often the faulty  *)
(* ones of them were rolled back and tried again.  This is where EventSync *)
(* starts from.                                                            *)
(***************************************************************************)
CleanPushIsExact ==
    lost = 0 => \A b \in Backend :
        Pushed(b) /\ KeaAccepts(Asked(b)) => live[b] = Asked(b)

(***************************************************************************)
(* Once the daemon listens for events no backend has the wipe, or anything *)
(* else of the full sync, waiting for the next push ("Discard the staged   *)
(* wipe on every backend so a later event-driven push cannot apply it      *)
(* either").  In check mode nothing is ever pushed.                        *)
(***************************************************************************)
NothingStaged ==
    pc = "listen" /\ ~check => \A b \in Backend : ~hasCommit[b]

\* The daemon ends up listening for events, or dead.
Terminates == <>(pc \in {"listen", "dead"})
=============================================================================

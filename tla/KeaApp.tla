------------------------------- MODULE KeaApp -------------------------------
(***************************************************************************)
(* DHCP4App (kea/app.py) over Kea's control agent (DHCP4API, kea/api.py):  *)
(* the daemon's private copy of the configuration, the copy that passed    *)
(* config-test and waits to be pushed, and the server, which runs one      *)
(* configuration and keeps another one on disk.                            *)
(*                                                                         *)
(* A method of DHCP4App is one action: it is called by one thread and the  *)
(* server's state that it reads is read in one command.  push() is two     *)
(* actions, PushSet and PushWrite, because it sends two commands that      *)
(* change the server, and a crash, a restart of Kea or an administrator    *)
(* can come in between.                                                    *)
(*                                                                         *)
(* A command has three results: done, rejected by Kea (KeaCmdError), or no *)
(* usable answer (KeaServerError), and then Kea may have done it.          *)
(***************************************************************************)
EXTENDS KeaConf

CONSTANTS
    StartConfs,     \* what Kea may run when the daemon starts
    MaxEdits        \* bound on the calls that edit and on outside changes

ASSUME StartAssumption ==
    StartConfs \subseteq {c \in Conf : Consistent(c) /\ KeaAccepts(c)}
ASSUME MaxEditsAssumption == MaxEdits \in Nat

VARIABLES
    \* the daemon: attributes of DHCP4App
    pulled,         \* FALSE while conf is None
    conf,
    commitConf,     \* commit_conf
    hasCommit,      \* _has_commit, whose False and None behave alike
    autoCommit,     \* auto_commit
    pushing,        \* between the two commands of push()
    \* the server
    running,        \* the configuration Kea runs
    saved,          \* the configuration Kea loads when it starts
    \* history, read by no action
    base,           \* the configuration the last pull() read
    wiped,          \* ids of the subnets replaced or deleted since then
    evicted,        \* reservations whose lease was deleted since then
    edits           \* number of edits and outside changes so far

daemon == <<pulled, conf, commitConf, hasCommit, autoCommit, pushing>>
server == <<running, saved>>
history == <<base, wiped, evicted, edits>>
vars == <<daemon, server, history>>

OwnResa == {r \in Resa : r.nid # NoId}
OwnPool == {p \in Pool : p.rid # NoId /\ p.lo <= p.hi}

Init ==
    /\ pulled = FALSE
    /\ conf = {} /\ commitConf = {}
    /\ hasCommit = FALSE
    /\ autoCommit = TRUE
    /\ pushing = FALSE
    /\ running \in StartConfs
    /\ saved = running
    /\ base = {} /\ wiped = {} /\ evicted = {}
    /\ edits = 0

-----------------------------------------------------------------------------
(* Reading the server. *)

\* A pull() that fails changes nothing.
Pull ==
    /\ ~pushing
    /\ pulled' = TRUE
    /\ conf' = running
    /\ commitConf' = running
    /\ hasCommit' = FALSE
    /\ base' = running
    /\ wiped' = {}
    /\ evicted' = {}
    /\ UNCHANGED <<autoCommit, pushing, server, edits>>

-----------------------------------------------------------------------------
(* Editing the private copy. *)

\* Mutant: the working configuration is staged without config-test.
CommitUntested(c) ==
    conf' = c /\ commitConf' = c /\ hasCommit' = TRUE

\* commit() with the working configuration c.
CommitOf(c) ==
    \/ /\ KeaAccepts(c)
       /\ conf' = c
       /\ commitConf' = c
       /\ hasCommit' = TRUE
    \/ \* config-test rejects it: KeaCmdError after a rollback
       /\ ~KeaAccepts(c)
       /\ conf' = commitConf
       /\ UNCHANGED <<commitConf, hasCommit>>
    \/ \* no usable answer: KeaServerError goes through, nothing rolled back
       /\ conf' = c
       /\ UNCHANGED <<commitConf, hasCommit>>

\* What the _autocommit decorator does once the method has left c.
AfterEdit(c) ==
    IF autoCommit
    THEN CommitOf(c)
    ELSE conf' = c /\ UNCHANGED <<commitConf, hasCommit>>

Raise == UNCHANGED <<conf, commitConf, hasCommit>>

\* Every edit: refused with one of the errors, or applied.
Edit(errors, c) == IF errors # {} THEN Raise ELSE AfterEdit(c)

Editing ==
    /\ pulled /\ ~pushing
    /\ edits < MaxEdits
    /\ edits' = edits + 1
    /\ UNCHANGED <<pulled, autoCommit, pushing, server, base>>

SetSubnet(pid, net, opt) ==
    LET errors == SubnetErrors(conf, pid, net, FALSE)
    IN  /\ Editing
        /\ Edit(errors, PutSubnet(conf, pid, net, opt))
        /\ wiped' = IF errors # {} THEN wiped ELSE wiped \cup {pid}
        /\ UNCHANGED evicted

UpdateSubnet(pid, net, opt) ==
    /\ Editing
    /\ Edit(SubnetErrors(conf, pid, net, TRUE), UpdateOptions(conf, pid, opt))
    /\ UNCHANGED <<wiped, evicted>>

DelSubnet(pid) ==
    /\ Editing
    /\ AfterEdit(DropSubnet(conf, pid))
    /\ wiped' = wiped \cup {pid}
    /\ UNCHANGED evicted

DelAllSubnets ==
    /\ Editing
    /\ AfterEdit({})
    /\ wiped' = PrefixId
    /\ UNCHANGED evicted

SetPool(pid, p) ==
    /\ Editing
    /\ Edit(PoolErrors(conf, pid, p), PutPool(conf, pid, p))
    /\ UNCHANGED <<wiped, evicted>>

DelPool(rid) ==
    /\ Editing
    /\ AfterEdit(DropPool(conf, rid))
    /\ UNCHANGED <<wiped, evicted>>

\* lease4-del for each reservation of rs; the first failure raises.
EvictionFails(rs) ==
    /\ rs # {}
    /\ \E gone \in SUBSET rs : evicted' = evicted \cup gone
    /\ Raise

\* The leases go first: before the duplicate check and before the commit.
SetReservation(pid, r) ==
    LET stale == StaleResas(conf, pid, r)
    IN  /\ Editing
        /\ \/ EvictionFails(stale)
           \/ /\ evicted' = evicted \cup stale
              /\ Edit(ResaErrors(conf, pid, r), PutResa(conf, pid, r))
        /\ UNCHANGED wiped

DelResa(nid) ==
    LET owned == OwnedResas(conf, nid)
    IN  /\ Editing
        /\ \/ EvictionFails(owned)
           \/ /\ evicted' = evicted \cup owned
              /\ AfterEdit(DropResa(conf, nid))
        /\ UNCHANGED wiped

-----------------------------------------------------------------------------
(* Staging and publishing. *)

Commit ==
    /\ pulled /\ ~pushing
    /\ CommitOf(conf)
    /\ UNCHANGED <<pulled, autoCommit, pushing, server, history>>

\* The Connector sets the attribute: off during a full sync, on after it.
SetAutoCommit ==
    /\ ~pushing
    /\ autoCommit' = ~autoCommit
    /\ UNCHANGED <<pulled, conf, commitConf, hasCommit, pushing, server,
                   history>>

\* Mutant: the working configuration is pushed instead of commit_conf.
PushWorking ==
    /\ ~pushing
    /\ hasCommit
    /\ running' = conf
    /\ pushing' = TRUE
    /\ UNCHANGED <<pulled, conf, commitConf, hasCommit, autoCommit, saved,
                   history>>

\* push(), first command: config-set of commit_conf.
PushSet ==
    /\ ~pushing
    /\ hasCommit
    /\ \/ /\ running' = commitConf
          /\ pushing' = TRUE
          /\ UNCHANGED hasCommit
       \/ \* KeaCmdError, logged: the commit is dropped
          /\ hasCommit' = FALSE
          /\ UNCHANGED <<running, pushing>>
       \/ \* KeaServerError, raised although Kea did it: the commit is kept
          /\ running' = commitConf
          /\ UNCHANGED <<hasCommit, pushing>>
    /\ UNCHANGED <<pulled, conf, commitConf, autoCommit, saved, history>>

\* push(), second command: config-write.
PushWrite ==
    /\ pushing
    /\ pushing' = FALSE
    /\ \/ /\ saved' = running
          /\ hasCommit' = FALSE
       \/ \* KeaCmdError, logged: running is not saved
          /\ hasCommit' = FALSE
          /\ UNCHANGED saved
       \/ \* KeaServerError, raised: the commit is kept
          /\ saved' \in {saved, running}
          /\ UNCHANGED hasCommit
    /\ UNCHANGED <<pulled, conf, commitConf, autoCommit, running, history>>

\* The process dies and starts again with a new DHCP4App.
Crash ==
    /\ pulled
    /\ pulled' = FALSE
    /\ conf' = {} /\ commitConf' = {}
    /\ hasCommit' = FALSE
    /\ autoCommit' = TRUE
    /\ pushing' = FALSE
    /\ UNCHANGED <<server, history>>

-----------------------------------------------------------------------------
(* The server's own steps. *)

KeaRestart ==
    /\ running # saved
    /\ running' = saved
    /\ UNCHANGED <<daemon, saved, history>>

\* What an administrator may add by hand: one item that is not NetBox's.
HandMade(c) ==
    {d \in {(c \ {s}) \cup {[s EXCEPT !.resas = @ \cup {r}]} :
                s \in c, r \in {x \in Resa : x.nid = NoId}}
           \cup
           {(c \ {s}) \cup {[s EXCEPT !.pools = @ \cup {p}]} :
                s \in c, p \in {x \in Pool : x.rid = NoId /\ x.lo <= x.hi}} :
        d # c /\ KeaAccepts(d)}

AdminEdit ==
    /\ edits < MaxEdits
    /\ edits' = edits + 1
    /\ running' \in HandMade(running)
    /\ saved' \in {saved, running'}
    /\ UNCHANGED <<daemon, base, wiped, evicted>>

-----------------------------------------------------------------------------

EditSubnets ==
    \/ \E pid \in PrefixId, net \in Net, opt \in Opt :
           SetSubnet(pid, net, opt) \/ UpdateSubnet(pid, net, opt)
    \/ \E pid \in PrefixId : DelSubnet(pid)
    \/ DelAllSubnets

EditItems ==
    \/ \E pid \in PrefixId, p \in OwnPool : SetPool(pid, p)
    \/ \E rid \in RangeId : DelPool(rid)
    \/ \E pid \in PrefixId, r \in OwnResa : SetReservation(pid, r)
    \/ \E nid \in IpId : DelResa(nid)

Next ==
    \/ Pull
    \/ EditSubnets \/ EditItems
    \/ Commit \/ SetAutoCommit \/ PushSet \/ PushWrite
    \/ Crash \/ KeaRestart \/ AdminEdit

Spec == Init /\ [][Next]_vars

-----------------------------------------------------------------------------
(* Properties. *)

TypeOK ==
    /\ pulled \in BOOLEAN /\ hasCommit \in BOOLEAN
    /\ autoCommit \in BOOLEAN /\ pushing \in BOOLEAN
    /\ conf \in Conf /\ commitConf \in Conf
    /\ running \in Conf /\ saved \in Conf
    /\ base \in Conf
    /\ wiped \in SUBSET PrefixId
    /\ evicted \in SUBSET OwnResa
    /\ edits \in 0..MaxEdits

(***************************************************************************)
(* No copy of the configuration, in the daemon or on the server, ever has  *)
(* two subnets with one id or one address, two reservations of a subnet    *)
(* for one MAC or (if the server wants so) one address, or two items for   *)
(* one NetBox object: the duplicate checks of _set_subnet and              *)
(* _set_subnet_item, over any sequence of calls, rollbacks, pushes, lost   *)
(* answers, restarts and edits by hand.                                    *)
(***************************************************************************)
ConfConsistent ==
    Consistent(conf) /\ Consistent(commitConf)
        /\ Consistent(running) /\ Consistent(saved)

(***************************************************************************)
(* What waits to be pushed, or is rolled back to, is a configuration Kea   *)
(* accepted, although the working copy need not be one: commit() and       *)
(* pull() are the only ways into commit_conf.                              *)
(***************************************************************************)
CommitAccepted == KeaAccepts(commitConf)

(***************************************************************************)
(* Reservations and pools that NetBox does not own survive every event:    *)
(* a subnet that was neither replaced nor deleted since the last pull()    *)
(* has, in what is staged and in the working copy, the foreign items it    *)
(* had on the server.                                                      *)
(***************************************************************************)
KeepsForeign(s, c) ==
    \E t \in c :
        /\ t.id = s.id /\ t.net = s.net
        /\ ForeignResas(t) = ForeignResas(s)
        /\ ForeignPools(t) = ForeignPools(s)

ForeignKept ==
    pulled => \A s \in base :
        s.id \notin wiped => KeepsForeign(s, conf) /\ KeepsForeign(s, commitConf)

(***************************************************************************)
(* A NetBox address is taken from a MAC only once a lease of that MAC was  *)
(* deleted (comments of set_reservation and del_resa): a reservation the   *)
(* last pull() read, in a subnet not replaced since, has in the working    *)
(* copy and in what is staged a successor for the same MAC, or a lease     *)
(* that this MAC had by the NetBox address was deleted.                    *)
(***************************************************************************)
StillHeld(r, pid, c) ==
    \E t \in c : t.id = pid
        /\ \E x \in t.resas : x.nid = r.nid /\ x.mac = r.mac

Evicted(r) == \E e \in evicted : e.nid = r.nid /\ e.mac = r.mac

HandOver ==
    pulled => \A s \in base : \A r \in s.resas :
        s.id \notin wiped /\ r.nid # NoId =>
            \/ Evicted(r)
            \/ StillHeld(r, s.id, conf) /\ StillHeld(r, s.id, commitConf)

(***************************************************************************)
(* The comments of set_reservation and del_resa say the lease is deleted   *)
(* because its reservation is replaced or removed.  It is deleted first,   *)
(* and the reservation stays when the new one is a duplicate, when a later *)
(* eviction fails or when config-test rejects the result.                  *)
(***************************************************************************)
EvictionIsReplacement ==
    [][\A e \in evicted' \ evicted : \A s \in conf' : e \notin s.resas]_vars

(***************************************************************************)
(* set_pool raises DuplicateValue for a pool that overlaps another one, so *)
(* no working configuration has overlapping pools of one subnet.           *)
(***************************************************************************)
WorkingPoolsDisjoint == PoolsDisjoint(conf)

\* DHCP4App implements the staged configuration of StagedConfig.
Staged == INSTANCE StagedConfig WITH
    Accepted <- {c \in Conf : KeaAccepts(c)},
    Start <- StartConfs,
    Drift <- {x \in Conf \X Conf : x[2] \in HandMade(x[1])},
    live <- running,
    durable <- saved,
    working <- conf,
    staged <- IF hasCommit THEN {commitConf} ELSE {}

StagedSpec == Staged!Spec
=============================================================================

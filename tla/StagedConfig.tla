---------------------------- MODULE StagedConfig ----------------------------
(***************************************************************************)
(* What DHCP4App promises about the server, whatever the configuration     *)
(* holds: a client that edits a private copy, stages versions of it and    *)
(* publishes the staged version, and nothing else, on a server that keeps  *)
(* a live copy and a durable one.  KeaApp implements this specification.   *)
(***************************************************************************)
CONSTANTS
    Conf,       \* configurations
    Accepted,   \* those the server accepts
    Start,      \* those the server may start with
    Drift       \* pairs <<c, d>>: someone else may turn c into d on the server

VARIABLES
    live,       \* what the server runs
    durable,    \* what the server runs after a restart
    base,       \* the live configuration when the client last read it
    working,    \* the client's private copy
    staged      \* {c} if c waits to be published, {} if nothing does

vars == <<live, durable, base, working, staged>>

Init ==
    /\ live \in Start
    /\ durable = live
    /\ base = {} /\ working = {} /\ staged = {}

\* The client reads the server again and forgets what it had not published.
Reload ==
    /\ base' = live
    /\ working' = live
    /\ staged' = {}
    /\ UNCHANGED <<live, durable>>

\* The client changes its copy, and may stage the result if it is acceptable.
Edit ==
    /\ working' \in Conf
    /\ \/ staged' = staged
       \/ working' \in Accepted /\ staged' = {working'}
    /\ UNCHANGED <<live, durable, base>>

\* The client, or its staged version, is lost.
Forget ==
    /\ staged' = {}
    /\ working' \in Conf
    /\ UNCHANGED <<live, durable, base>>

\* The staged version becomes live; it stays staged until that is confirmed.
Publish ==
    /\ \E c \in staged : live' = c
    /\ UNCHANGED <<durable, base, working, staged>>

\* What is live becomes durable.
Persist ==
    /\ durable' = live
    /\ staged' \in {staged, {}}
    /\ UNCHANGED <<live, base, working>>

Restart ==
    /\ live' = durable
    /\ UNCHANGED <<durable, base, working, staged>>

\* Someone else changes the live copy, and the durable one with it or not.
Outside ==
    /\ <<live, live'>> \in Drift
    /\ durable' \in {durable, live'}
    /\ UNCHANGED <<base, working, staged>>

Next ==
    \/ Reload \/ Edit \/ Forget \/ Publish \/ Persist \/ Restart \/ Outside

Spec == Init /\ [][Next]_vars
=============================================================================

------------------------------- MODULE MCWatch -------------------------------
(* TLC instances of Watch: one client that is on Xray or not assigned yet,   *)
(* and one that makes every tunnel an exit.  Whatever else the user may      *)
(* have, an edit brings.                                                     *)
EXTENDS Watch, TLC

CONSTANTS c1, c2, t1, t2

MCInit ==
    /\ Init
    /\ want[c1] \in {{}, {"xray"}}
    /\ want[c2] = Tunnel
    /\ cfg.paused = {}
    /\ cfg.fo = Nil

MCSpec == MCInit /\ [][Next]_vars

\* With a client on Xray the watch is armed for good: a tick that gets stuck is
\* a deadlock once the router is calm.
MCInitArmed == MCInit /\ want[c1] = {"xray"}

MCFairSpec == MCInitArmed /\ [][Next \/ CalmDown]_vars /\ WF_vars(WatchNext)
=============================================================================

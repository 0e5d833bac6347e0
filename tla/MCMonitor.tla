----------------------------- MODULE MCMonitor -----------------------------
(* A TLC instance of Monitor.                                             *)
EXTENDS Monitor, TLC

CONSTANTS k1, k2, k3

World(enabled, stopped, xray, eps, refused) ==
    [enabled |-> enabled, stopped |-> stopped, xray |-> xray, eps |-> eps, refused |-> refused]

InOrder == {World(TRUE, FALSE, "ok", {k1, k2}, {})}

\* Everything in order, and each thing that may be otherwise.
SomeWorlds ==
    InOrder \cup
    {World(TRUE, FALSE, "ok", {k1, k3}, {k2}),
     World(TRUE, FALSE, "missing", {k1, k2}, {}),
     World(TRUE, FALSE, "broken", {k1, k2}, {}),
     World(TRUE, TRUE, "ok", {k1, k2}, {}),
     World(FALSE, FALSE, "ok", {k1, k2}, {})}
=============================================================================

--------------------------- MODULE FailoverConfig ---------------------------
(***************************************************************************)
(* The part of vpn-director.json that says which LAN client leaves through *)
(* Xray and which through a tunnel, and every locked write that changes    *)
(* it: the Web UI, the bot, the bot's wizard, and the failover watch that  *)
(* lends a dead Xray's clients to a tunnel and takes them back.            *)
(*                                                                         *)
(* The config lock (service.ConfigService.UpdateVPNConfig) makes every     *)
(* write one atomic step.  This module keeps only the guards a write       *)
(* checks UNDER that lock, so any order of the writes is a behaviour here: *)
(* the watch's own order, with its stale reads, is module Watch's.         *)
(*                                                                         *)
(* Client lists are sets of normalised addresses.                          *)
(***************************************************************************)
EXTENDS Naturals

CONSTANTS
    Client,      \* LAN client addresses
    Carriable,   \* those Tunnel Director marks: TDCarries, an RFC1918 IPv4 address
    Tunnel,      \* ids a tunnel may have in tunnel_director.tunnels
    Nil,         \* an absent failover, pending restore or bot operation
    MaxActive    \* bound on the write counter of xray.active_server

Route == {"xray"} \cup Tunnel

\* xray.failover.  "legacy" marks a record written before the field Added
\* existed (Added is nil); its "added" is then empty.
FailoverRecord ==
    [tunnel : Tunnel, clients : SUBSET Client, added : SUBSET Client,
     legacy : BOOLEAN, committed : BOOLEAN]

\* xray.pending_restore.  "active" is the write counter of the active_server
\* record the restore was decided on.
PendingRecord ==
    [snapshot : FailoverRecord, restored : SUBSET Client, active : Nat]

Config ==
    [xray   : SUBSET Client,                 \* xray.clients
     keys   : SUBSET Tunnel,                 \* keys of tunnel_director.tunnels
     tun    : [Tunnel -> SUBSET Client],     \* their clients, none without a key
     paused : SUBSET Client,                 \* paused_clients
     fo     : FailoverRecord \cup {Nil},     \* xray.failover
     pend   : PendingRecord \cup {Nil},      \* xray.pending_restore
     active : Nat]                           \* xray.active_server.seq

BotOp == [op : {"add", "remove", "pause", "resume"}, client : Client, route : Route]

ASSUME ConstantsAssumption ==
    /\ Carriable \subseteq Client
    /\ "xray" \notin Tunnel
    /\ Nil \notin FailoverRecord
    /\ Nil \notin PendingRecord
    /\ Nil \notin BotOp
    /\ MaxActive \in Nat

VARIABLES
    cfg,      \* the file
    bot,      \* the /clients operation whose checks read the file before the lock
    want,     \* ghost: the routes the user last put each client on
    shared    \* ghost: clients that the user ever had on two routes at once

vars == <<cfg, bot, want, shared>>

-----------------------------------------------------------------------------
(* vpnconfig: what the file says                                           *)

ClientRoutes(f, c) ==
    {r \in Route : IF r = "xray" THEN c \in f.xray ELSE c \in f.tun[r]}

EffectiveXrayClients(f) == f.xray \ f.paused

CarriableXrayClients(f) == EffectiveXrayClients(f) \cap Carriable

snapshotOnTunnel(f) ==
    IF f.fo = Nil THEN {} ELSE f.fo.clients \cap f.tun[f.fo.tunnel]

FailoverStaged(f) == EffectiveXrayClients(f) \cap snapshotOnTunnel(f) # {}

FailoverCommitted(f) ==
    /\ f.fo # Nil
    /\ \/ f.fo.committed
       \/ snapshotOnTunnel(f) # {} /\ ~FailoverStaged(f)

XrayClientsOutsideFailover(f) ==
    IF f.fo = Nil \/ f.fo.tunnel \notin f.keys
    THEN {}
    ELSE CarriableXrayClients(f) \ snapshotOnTunnel(f)

-----------------------------------------------------------------------------
(* vpnconfig: the mutations                                                *)

PutOn(tun, t, S)   == [tun EXCEPT ![t] = tun[t] \cup S]
TakeOff(tun, t, S) == [tun EXCEPT ![t] = tun[t] \ S]

StageXrayClientsToTunnel(f, t) ==
    LET moved == CarriableXrayClients(f)
    IN  IF f.fo # Nil \/ t \notin f.keys \/ moved = {}
        THEN f
        ELSE [f EXCEPT !.tun = PutOn(f.tun, t, moved),
                       !.fo  = [tunnel |-> t, clients |-> moved,
                                added |-> moved \ f.tun[t],
                                legacy |-> FALSE, committed |-> FALSE]]

\* Mutant: paused clients are dropped with the rest.
CommitXrayFailover_PausedToo(f) ==
    IF f.fo = Nil
    THEN f
    ELSE [f EXCEPT !.xray = @ \ snapshotOnTunnel(f), !.fo = [f.fo EXCEPT !.committed = TRUE]]

CommitXrayFailover(f) ==
    IF f.fo = Nil
    THEN f
    ELSE [f EXCEPT !.xray = @ \ (snapshotOnTunnel(f) \ f.paused),
                   !.fo   = [f.fo EXCEPT !.committed = TRUE]]

\* Mutant: what the extension puts on the tunnel is not recorded in Added.
ExtendXrayFailover_NotAdded(f) ==
    LET outside == XrayClientsOutsideFailover(f)
    IN  IF outside = {}
        THEN f
        ELSE [f EXCEPT !.tun = PutOn(f.tun, f.fo.tunnel, outside),
                       !.fo  = [f.fo EXCEPT !.clients = f.fo.clients \cup outside]]

ExtendXrayFailover(f) ==
    LET outside == XrayClientsOutsideFailover(f)
        put     == outside \ f.tun[f.fo.tunnel]
    IN  IF outside = {}
        THEN f
        ELSE [f EXCEPT !.tun = PutOn(f.tun, f.fo.tunnel, put),
                       !.fo  = [f.fo EXCEPT
                                  !.clients = f.fo.clients \cup outside,
                                  !.added = f.fo.added \cup (IF f.fo.legacy THEN {} ELSE put)]]

EnsureFailoverStaged(f) ==
    IF f.fo = Nil
    THEN f
    ELSE [f EXCEPT !.xray = @ \cup (snapshotOnTunnel(f) \ f.paused),
                   !.fo   = [f.fo EXCEPT !.committed = FailoverCommitted(f)]]

RestoreXrayClientsFromFailover(f) ==
    LET restored == snapshotOnTunnel(f)
        dropped  == IF f.fo.legacy THEN restored ELSE f.fo.added
    IN  IF f.fo = Nil
        THEN f
        ELSE [f EXCEPT !.xray = @ \cup restored,
                       !.tun  = TakeOff(f.tun, f.fo.tunnel, dropped),
                       !.fo   = Nil]

BeginXrayRestore(f) ==
    IF f.fo = Nil \/ f.pend # Nil
    THEN f
    ELSE [RestoreXrayClientsFromFailover(f) EXCEPT
             !.pend = [snapshot |-> [f.fo EXCEPT !.committed = FailoverCommitted(f)],
                       restored |-> snapshotOnTunnel(f),
                       active   |-> f.active]]

\* A restored address still belongs to the restore p while nothing but the
\* restore has touched it: it is on Xray, and on no tunnel - its own fallback
\* tunnel excepted, when the failover had found it there.
StillRestored(p, f, c) ==
    /\ c \notin f.paused
    /\ c \in Carriable \cap p.snapshot.clients \cap f.xray
    /\ \A t \in Tunnel : c \in f.tun[t] =>
          /\ t = p.snapshot.tunnel
          /\ ~(p.snapshot.legacy \/ c \in p.snapshot.added)

FailoverSnapshot(p, f) ==
    LET kept == {c \in p.restored : StillRestored(p, f, c)}
    IN  IF kept = {}
        THEN Nil
        ELSE [p.snapshot EXCEPT !.clients = kept, !.added = p.snapshot.added \cap kept]

ApplyFailoverSnapshot(f, s) ==
    IF s.tunnel \notin f.keys
    THEN f
    ELSE [f EXCEPT !.tun  = PutOn(f.tun, s.tunnel, s.clients),
                   !.xray = IF s.committed THEN @ \ s.clients ELSE @,
                   !.fo   = s]

\* Mutant: the user's edits leave the failover and restore records alone.
DetachFailoverClients_Nothing(f, D) == f

\* DetachFailoverClient, for each address of D.
DetachFailoverClients(f, D) ==
    LET detach(s) == [s EXCEPT !.clients = s.clients \ D, !.added = s.added \ D]
    IN  [f EXCEPT !.fo   = IF f.fo = Nil THEN Nil ELSE detach(f.fo),
                  !.pend = IF f.pend = Nil THEN Nil
                           ELSE [f.pend EXCEPT !.snapshot = detach(f.pend.snapshot),
                                               !.restored = f.pend.restored \ D]]

OffEveryRoute(f, c) ==
    [f EXCEPT !.xray = @ \ {c}, !.tun = [t \in Tunnel |-> f.tun[t] \ {c}]]

\* Mutant: a tunnel new to the config gets clients without an entry of its own.
OntoRoute_WithoutKey(f, c, r) ==
    IF r = "xray"
    THEN [f EXCEPT !.xray = @ \cup {c}]
    ELSE [f EXCEPT !.tun = PutOn(f.tun, r, {c})]

\* Onto one route; a tunnel new to the config gets its key.
OntoRoute(f, c, r) ==
    IF r = "xray"
    THEN [f EXCEPT !.xray = @ \cup {c}]
    ELSE [f EXCEPT !.keys = @ \cup {r}, !.tun = PutOn(f.tun, r, {c})]

OffRoute(f, c, r) ==
    IF r = "xray"
    THEN [f EXCEPT !.xray = @ \ {c}]
    ELSE [f EXCEPT !.tun = TakeOff(f.tun, r, {c})]

-----------------------------------------------------------------------------
(* The user: Web UI and bot client operations, the bot's wizard             *)

Several(S) == \E r1, r2 \in S : r1 # r2

MayTake(r, c) == r = "xray" \/ c \in Carriable

AddClient(c, r) ==
    /\ ClientRoutes(cfg, c) = {}
    /\ MayTake(r, c)
    /\ cfg' = OntoRoute(DetachFailoverClients(cfg, {c}), c, r)
    /\ want' = [want EXCEPT ![c] = {r}]
    /\ UNCHANGED <<bot, shared>>

MoveClient(c, r) ==
    /\ ClientRoutes(cfg, c) \notin {{}, {r}}
    /\ MayTake(r, c)
    /\ cfg' = DetachFailoverClients(OntoRoute(OffEveryRoute(cfg, c), c, r), {c})
    /\ want' = [want EXCEPT ![c] = {r}]
    /\ UNCHANGED <<bot, shared>>

PauseClient(c) ==
    /\ ClientRoutes(cfg, c) # {}
    /\ cfg' = [cfg EXCEPT !.paused = @ \cup {c}]
    /\ UNCHANGED <<bot, want, shared>>

ResumeClient(c) ==
    /\ ClientRoutes(cfg, c) # {}
    /\ cfg' = [cfg EXCEPT !.paused = @ \ {c}]
    /\ UNCHANGED <<bot, want, shared>>

DeleteClient(c) ==
    /\ ClientRoutes(cfg, c) # {}
    /\ cfg' = DetachFailoverClients([OffEveryRoute(cfg, c) EXCEPT !.paused = @ \ {c}], {c})
    /\ want' = [want EXCEPT ![c] = {}]
    /\ UNCHANGED <<bot, shared>>

\* The client lists a wizard may save: single LAN addresses, each on the routes
\* the user listed it under - nothing stops a second one.
WizardLists == {a \in [Client -> SUBSET Route] : \A c \in Client \ Carriable : a[c] = {}}

Assigned(f, a) ==
    [f EXCEPT !.xray = {c \in Client : "xray" \in a[c]},
              !.keys = {t \in Tunnel : \E c \in Client : t \in a[c]},
              !.tun  = [t \in Tunnel |-> {c \in Client : t \in a[c]}]]

\* Applier.Apply: the save replaces the whole assignment, and only what stays
\* on Xray stays with a failover.
WizardApply(a) ==
    LET f == Assigned(cfg, a)
    IN  /\ cfg' = IF f.fo = Nil THEN f ELSE DetachFailoverClients(f, f.fo.clients \ f.xray)
        /\ want' = a
        /\ shared' = shared \cup {c \in Client : Several(a[c])}
        /\ UNCHANGED bot

\* A server recorded as the running one: a selection, or the watch's own walk.
RecordActiveServer ==
    /\ cfg.active < MaxActive
    /\ cfg' = [cfg EXCEPT !.active = @ + 1]
    /\ UNCHANGED <<bot, want, shared>>

\* The bot's /clients reads the file, checks the address against what it read
\* and remembers the first route that held it; the lock comes after.
BotReads(o) ==
    /\ bot = Nil
    /\ CASE o.op = "add"    -> ClientRoutes(cfg, o.client) = {} /\ MayTake(o.route, o.client)
         [] o.op = "remove" -> /\ o.route \in ClientRoutes(cfg, o.client)
                               /\ "xray" \in ClientRoutes(cfg, o.client) => o.route = "xray"
         [] OTHER           -> ClientRoutes(cfg, o.client) # {}
    /\ bot' = o
    /\ UNCHANGED <<cfg, want, shared>>

BotWritten(f, o) ==
    CASE o.op = "add"    -> OntoRoute(DetachFailoverClients(f, {o.client}), o.client, o.route)
      [] o.op = "remove" -> DetachFailoverClients(
                               [OffRoute(f, o.client, o.route) EXCEPT !.paused = @ \ {o.client}],
                               {o.client})
      [] o.op = "pause"  -> [f EXCEPT !.paused = @ \cup {o.client}]
      [] o.op = "resume" -> [f EXCEPT !.paused = @ \ {o.client}]

\* What an add or a removal leaves the client on is, from then on, where the
\* user has it: no record ties it to a failover any more.
BotWrites ==
    /\ bot # Nil
    /\ cfg' = BotWritten(cfg, bot)
    /\ bot' = Nil
    /\ IF bot.op \in {"add", "remove"}
       THEN LET on == ClientRoutes(cfg', bot.client)
            IN  /\ want' = [want EXCEPT ![bot.client] = on]
                /\ shared' = IF Several(on) THEN shared \cup {bot.client} ELSE shared
       ELSE UNCHANGED <<want, shared>>

-----------------------------------------------------------------------------
(* The watch                                                               *)

\* failOutbound: Xray is dead, its clients are staged on tunnel t.
FailOutbound(t) ==
    LET f == StageXrayClientsToTunnel(cfg, t)
    IN  /\ cfg.pend # Nil => cfg.fo = Nil /\ cfg.pend.active = cfg.active
        /\ f.fo # Nil
        /\ cfg' = [f EXCEPT !.pend = Nil]
        /\ UNCHANGED <<bot, want, shared>>

\* applyFailover's commit, and unstageRestore.
CommitFailover ==
    /\ cfg.fo # Nil
    /\ cfg' = CommitXrayFailover(cfg)
    /\ UNCHANGED <<bot, want, shared>>

ExtendFailover ==
    /\ XrayClientsOutsideFailover(cfg) # {}
    /\ cfg' = ExtendXrayFailover(cfg)
    /\ UNCHANGED <<bot, want, shared>>

\* retryOrSwitchFallback and watchFallback: to another exit, or, with none
\* left, back to Xray.  Only the watch clears a failover record, and it runs
\* one tick at a time, so the record it saw is still there.
RetargetFailover(next) ==
    LET f == RestoreXrayClientsFromFailover(cfg)
    IN  /\ cfg.fo # Nil
        /\ cfg' = IF next = Nil THEN f ELSE StageXrayClientsToTunnel(f, next)
        /\ UNCHANGED <<bot, want, shared>>

\* commitRestore's first write.
StageRestore ==
    /\ cfg.fo # Nil
    /\ cfg' = EnsureFailoverStaged(cfg)
    /\ UNCHANGED <<bot, want, shared>>

\* commitRestore's second write.
BeginRestore ==
    /\ cfg.fo # Nil
    /\ cfg.pend = Nil
    /\ cfg' = BeginXrayRestore(cfg)
    /\ UNCHANGED <<bot, want, shared>>

pendingRestoreGuard ==
    /\ cfg.pend # Nil
    /\ cfg.fo = Nil
    /\ cfg.pend.active = cfg.active

\* finalizeRestore, TPROXY ready after an apply - or nothing to reinstate.
FinishRestore(ready) ==
    /\ pendingRestoreGuard
    /\ ready \/ FailoverSnapshot(cfg.pend, cfg) = Nil
    /\ cfg' = [cfg EXCEPT !.pend = Nil]
    /\ UNCHANGED <<bot, want, shared>>

\* finalizeRestore, TPROXY lost: the failover comes back.
ReinstateFailover ==
    LET s == FailoverSnapshot(cfg.pend, cfg)
    IN  /\ pendingRestoreGuard
        /\ s # Nil
        /\ s.tunnel \in cfg.keys
        /\ cfg' = [ApplyFailoverSnapshot(cfg, s) EXCEPT !.pend = Nil]
        /\ UNCHANGED <<bot, want, shared>>

\* reconcileRestore: the restore belongs to an older selection.
DiscardRestore ==
    /\ cfg.pend # Nil
    /\ cfg.pend.active # cfg.active
    /\ cfg' = [cfg EXCEPT !.pend = Nil]
    /\ UNCHANGED <<bot, want, shared>>

-----------------------------------------------------------------------------
\* A config as the daemons find it: an assignment of the user's, nothing or
\* everything of it paused at will, and perhaps a failover an older version
\* recorded, whose clients are on its tunnel and, once committed, off Xray.
InitialAssignment(a, p) ==
    Assigned([xray |-> {}, keys |-> {}, tun |-> [t \in Tunnel |-> {}],
              paused |-> p, fo |-> Nil, pend |-> Nil, active |-> 0], a)

LegacyFailover(f, t, C, off) ==
    [f EXCEPT !.xray = @ \ off,
              !.tun  = PutOn(f.tun, t, C),
              !.fo   = [tunnel |-> t, clients |-> C, added |-> {},
                        legacy |-> TRUE, committed |-> FALSE]]

UserLists == {a \in [Client -> SUBSET Route] : \A c \in Client : \A r \in a[c] : MayTake(r, c)}

Init ==
    /\ want \in UserLists
    /\ shared = {c \in Client : Several(want[c])}
    /\ bot = Nil
    /\ \E p \in SUBSET Client :
          LET f == InitialAssignment(want, p)
          IN  \/ cfg = f
              \/ \E t \in f.keys, C \in SUBSET CarriableXrayClients(f) :
                    \E off \in {{}, C} : cfg = LegacyFailover(f, t, C, off)

UserNext ==
    \/ \E c \in Client, r \in Route : AddClient(c, r) \/ MoveClient(c, r)
    \/ \E c \in Client : PauseClient(c) \/ ResumeClient(c) \/ DeleteClient(c)
    \/ \E a \in WizardLists : WizardApply(a)
    \/ RecordActiveServer
    \/ \E o \in BotOp : BotReads(o)
    \/ BotWrites

WatchNext ==
    \/ \E t \in Tunnel : FailOutbound(t)
    \/ CommitFailover
    \/ ExtendFailover
    \/ \E next \in Tunnel \cup {Nil} : RetargetFailover(next)
    \/ StageRestore
    \/ BeginRestore
    \/ \E ready \in BOOLEAN : FinishRestore(ready)
    \/ ReinstateFailover
    \/ DiscardRestore

Next == UserNext \/ WatchNext

Spec == Init /\ [][Next]_vars

\* configure.sh, the shell wizard: it owns xray.clients, the tunnels and
\* active_server, and leaves every other key - the failover's too - as it is.
ConfigureShell(a) ==
    /\ cfg.active < MaxActive
    /\ cfg' = [Assigned(cfg, a) EXCEPT !.active = @ + 1]
    /\ want' = a
    /\ shared' = shared \cup {c \in Client : Several(a[c])}
    /\ UNCHANGED bot

\* The same writers with configure.sh among them.
SpecShell == Init /\ [][Next \/ \E a \in WizardLists : ConfigureShell(a)]_vars

-----------------------------------------------------------------------------
(* Properties                                                              *)

\* Type correctness; a tunnel without a key has no clients.
TypeOK ==
    /\ cfg \in Config
    /\ \A t \in Tunnel \ cfg.keys : cfg.tun[t] = {}
    /\ bot \in BotOp \cup {Nil}
    /\ want \in [Client -> SUBSET Route]
    /\ shared \in SUBSET Client

\* A client the user has on Xray is never lost and nobody else is ever put
\* there: through stages, commits, restores and reinstatements that interleave
\* with the user's own edits, it is in xray.clients or lent, on record, to the
\* failover's tunnel.
XrayChoiceKept ==
    \A c \in Client :
        "xray" \in want[c] <=> c \in cfg.xray \cup snapshotOnTunnel(cfg)

\* A restore takes off a tunnel only what the failover put there: a client the
\* user has on a tunnel stays on it.
TunnelChoiceKept ==
    \A c \in Client \ shared, t \in Tunnel : t \in want[c] => c \in cfg.tun[t]

\* No residue: a client sits on a tunnel the user did not choose only while
\* the failover record can still take it off again.
NoResidue ==
    \A c \in Client \ shared, t \in Tunnel :
        c \in cfg.tun[t] =>
            \/ t \in want[c]
            \/ /\ cfg.fo # Nil
               /\ t = cfg.fo.tunnel
               /\ c \in IF cfg.fo.legacy THEN cfg.fo.clients ELSE cfg.fo.added

\* The tunnels hold the clients the user put on them, and beside them only what
\* the failover record can still take off again, however the watch's moves and
\* the user's interleave.
TunnelsAsChosen == TunnelChoiceKept /\ NoResidue

\* A failover and the pending end of one never stand together: a restart would
\* not know which of the two to finish.
OneRecord == cfg.fo = Nil \/ cfg.pend = Nil

\* A client Tunnel Director cannot mark never leaves Xray for a tunnel that
\* would let it out through the WAN.
UncarriableStays ==
    \A c \in Client \ Carriable : "xray" \in want[c] => c \in cfg.xray

\* Until a failover is committed its clients are still on Xray: "committed" is
\* what decides whether a restore announces that they came back.
StagedStillOnXray ==
    cfg.fo # Nil /\ ~cfg.fo.legacy /\ ~cfg.fo.committed =>
        snapshotOnTunnel(cfg) \subseteq cfg.xray

\* What makes the properties inductive.  A failover holds only clients the user
\* has on Xray and Tunnel Director can mark; outside the doubly assigned ones
\* it recorded as Added every client it holds, and so did the snapshot a
\* pending restore may reinstate.
RecordsHonest ==
    /\ cfg.fo # Nil =>
          /\ cfg.fo.clients \subseteq Carriable
          /\ \A c \in cfg.fo.clients : "xray" \in want[c]
          /\ cfg.fo.added \subseteq cfg.fo.clients
          /\ ~cfg.fo.legacy => cfg.fo.clients \ shared \subseteq cfg.fo.added
    /\ cfg.pend # Nil =>
          /\ cfg.pend.snapshot.added \subseteq cfg.pend.snapshot.clients
          /\ ~cfg.pend.snapshot.legacy =>
                cfg.pend.snapshot.clients \ shared \subseteq cfg.pend.snapshot.added
    /\ \A c \in Client \ shared : ~Several(want[c])

IndInv ==
    /\ TypeOK
    /\ XrayChoiceKept
    /\ TunnelChoiceKept
    /\ NoResidue
    /\ OneRecord
    /\ StagedStillOnXray
    /\ RecordsHonest

\* The watch takes off Xray only clients it can carry: never one Tunnel Director
\* cannot mark, which the tunnel would let out through the WAN, nor a paused
\* one, whose move would only show once it is resumed.
OnlyCarriedLeaveXray ==
    [][WatchNext => cfg.xray \cap (cfg.paused \cup (Client \ Carriable)) \subseteq cfg'.xray]_vars

\* A client removed in the bot from the one route the user has it on is on none
\* afterwards ("Gone is gone").  handleRemove takes it off the one route it
\* read before the lock, so a client staged by a failover stays on the tunnel.
RemovedIsGone ==
    [][bot # Nil /\ bot' = Nil /\ bot.op = "remove" /\ want[bot.client] = {bot.route} =>
          ClientRoutes(cfg', bot.client) = {}]_vars

\* Where the user puts a client during a failover is where it goes: no restore
\* takes it back to Xray.  configure.sh leaves the failover record as it was.
NotTakenBack == \A c \in Client \ shared : c \in cfg.xray => "xray" \in want[c]

=============================================================================

-------------------------------- MODULE Watch --------------------------------
(***************************************************************************)
(* The failover watch of vpn-director-watchd: Watch.Tick with every wait   *)
(* in it, over the config file of module FailoverConfig, the ready markers *)
(* an apply leaves, the stop marker, and a platform whose tunnels come and *)
(* go.  The user edits the file, selects servers, stops and starts between *)
(* any two steps, other applies run, and the daemon may crash anywhere.    *)
(*                                                                         *)
(* A tick works on the config it read ("snap"), and goes on to do so       *)
(* after waits; what it may still write is decided under the config lock.  *)
(* The module implements FailoverConfig, whose variables it shares.        *)
(*                                                                         *)
(* Clocks are left open: every wait of the code either has run out or has  *)
(* not (Perhaps).  The choice of a server - the walk, the fast path, the   *)
(* keeper and the returns - shows here as the write counter it moves.      *)
(***************************************************************************)
EXTENDS Naturals

CONSTANTS
    Client, Carriable, Tunnel, Nil, MaxActive,   \* as in FailoverConfig
    MaxEdits                                     \* bound on the user's writes

VARIABLES
    cfg, bot, want, shared,   \* FailoverConfig's
    kernel,      \* what the router carries, and the two ready markers in /tmp
    stopped,     \* the marker /stop leaves
    cancelled,   \* the tick's context has been cancelled
    pc,          \* the step the tick is about to take
    mem,         \* the fields of Watch that outlive a tick, not a process
    loc,         \* the variables of the tick
    calm,        \* nothing disturbs the router any more
    up,          \* then: Xray answers a probe
    exits,       \* then: the tunnels the platform reports connected
    edits,       \* how many writes the user has made
    edited       \* ghost: clients the user touched since the watch last wrote

FC == INSTANCE FailoverConfig

ASSUME WatchAssumption ==
    /\ Carriable \subseteq Client
    /\ "xray" \notin Tunnel
    /\ Nil \notin FC!FailoverRecord
    /\ Nil \notin FC!PendingRecord
    /\ Nil \notin FC!Config
    /\ Nil \notin Tunnel
    /\ MaxActive \in Nat
    /\ MaxEdits \in Nat

user  == <<bot, want, shared>>
world == <<stopped, calm, up, exits, edits>>
vars  == <<cfg, user, kernel, cancelled, pc, mem, loc, edited, world>>

Carried == [xray : SUBSET Client, tun : [Tunnel -> SUBSET Client],
            tproxyReady : BOOLEAN, failoverReady : Tunnel \cup {Nil}]

Nothing == [xray |-> {}, tun |-> [t \in Tunnel |-> {}],
            tproxyReady |-> FALSE, failoverReady |-> Nil]

Memory == [pendingApply : BOOLEAN, reconciled : BOOLEAN, fallbackTried : SUBSET Tunnel]

NewProcess == [pendingApply |-> FALSE, reconciled |-> FALSE, fallbackTried |-> {}]

\* from: who called, Tick itself or failOutbound.  seq: the counter the guard
\* of a restore or a walk expects.  own: the one a fast path's ownership
\* expects.  The rest are locals of the functions, and two ghosts: the clients
\* the router carried when the tick last found a marker ("seen"), and the
\* counter of active_server when its probe passed ("probed").
NoTick == [snap |-> Nil, from |-> "tick", seq |-> 0, own |-> Nil, staged |-> FALSE,
           committed |-> FALSE, applied |-> FALSE, next |-> Nil, plat |-> Nil,
           seen |-> {}, probed |-> Nil]

Steps == {"idle", "reconcile", "reconcileApply", "finalize", "reinstateApply",
          "retryApply", "probe", "failover", "extend", "pendingApply", "ready", "commit",
          "commitApply", "fallback", "fallbackApply", "fallbackReady", "fallbackLook",
          "gone", "goneApply", "goneReady", "leave", "retarget", "retargetApply",
          "dead", "stage", "stageApply", "import", "walk", "walked",
          "restore", "pickApply", "tproxyApply", "tproxyCheck", "restoreStage",
          "stagedApply", "stagedCheck", "restoreBegin", "restoredApply",
          "unstage", "unstageApply"}

\* A clock that ran out or not, a lookup that answers or not, a lock that is got
\* in time or not.  Once the router is calm nothing fails and waits have ended.
Perhaps == IF calm THEN {TRUE} ELSE BOOLEAN

\* What a probe of the running server, and a look at the platform, may find.
ProbeResults == IF calm THEN {up} ELSE BOOLEAN
Platforms == IF calm THEN {exits} ELSE SUBSET Tunnel

-----------------------------------------------------------------------------
(* The router                                                              *)

\* What a run of "vpn-director.sh apply" over f leaves, TPROXY intercepting or
\* not (tp), the failover's tunnel carrying its clients or not (fr).
Installed(f, tp, fr) ==
    [xray |-> IF tp THEN FC!EffectiveXrayClients(f) ELSE {},
     tun  |-> [t \in Tunnel |->
                 (f.tun[t] \ f.paused)
                    \ IF ~fr /\ f.fo # Nil /\ t = f.fo.tunnel THEN f.fo.clients ELSE {}],
     tproxyReady   |-> tp,
     failoverReady |-> IF fr /\ f.fo # Nil THEN f.fo.tunnel ELSE Nil]

Installable(f) ==
    {Installed(f, tp, fr) : tp \in Perhaps,
                            fr \in {f.fo # Nil /\ f.fo.tunnel \in plat : plat \in Platforms}}

\* A run that reports failure may have done nothing, or any part of its work.
ApplyOutcomes(f) ==
    [ok : {TRUE}, kernel : Installable(f)]
    \cup IF calm THEN {}
         ELSE [ok : {FALSE}, kernel : Installable(f) \cup {kernel}]

\* TDExits: connected, configured, and with a client of its own.
TDExits(f, plat) == {t \in f.keys \cap plat : f.tun[t] # {}}

-----------------------------------------------------------------------------
(* A tick's steps                                                          *)

\* Mutant: a finished stop is noticed only by the poller that cancels waits.
Refused_PollerOnly == cancelled

\* mutationAllowed.
Refused == stopped \/ cancelled

\* outboundAllowedNow: what a fast path established still names the running
\* server.
Owned == loc.own = Nil \/ loc.own = cfg.active

\* Mutant: the ownership of a fast path outlives the tick it was made in.
Goto_NoCleanup(p, m, l) ==
    /\ pc' = p
    /\ mem' = m
    /\ loc' = CASE p = "idle"   -> [NoTick EXCEPT !.own = l.own]
                [] p = "import" -> [NoTick EXCEPT !.snap = l.snap, !.own = l.own]
                [] OTHER        -> l

\* On to step p.  The end of a tick, and of what came before the walk, forgets
\* its variables.
Goto(p, m, l) ==
    /\ pc' = p
    /\ mem' = m
    /\ loc' = CASE p = "idle"   -> NoTick
                [] p = "import" -> [NoTick EXCEPT !.snap = l.snap, !.own = l.own]
                [] OTHER        -> l

Only(p, m, l) ==
    /\ Goto(p, m, l)
    /\ UNCHANGED <<cfg, user, kernel, cancelled, edited, world>>

End(m) == Only("idle", m, loc)

\* Watch.update, once its checks under the lock have passed.
Write(f, p, m, l) ==
    /\ cfg' = f
    /\ edited' = IF f = cfg THEN edited ELSE {}
    /\ Goto(p, m, l)
    /\ UNCHANGED <<user, kernel, cancelled, world>>

\* Watch.apply: refused or not owned it does not run; otherwise it goes on at
\* p or, when it failed, at q.
Apply(p, mp, lp, q, mq, lq) ==
    \/ Refused /\ End(mq)
    \/ /\ ~Refused
       /\ \E o \in IF Owned THEN ApplyOutcomes(cfg) ELSE {[ok |-> FALSE, kernel |-> kernel]} :
             /\ kernel' = o.kernel
             /\ IF o.ok THEN Goto(p, mp, lp) ELSE Goto(q, mq, lq)
       /\ UNCHANGED <<cfg, user, cancelled, edited, world>>

Owing == [mem EXCEPT !.pendingApply = TRUE]
Paid  == [mem EXCEPT !.pendingApply = FALSE]
NewEpisode(m) == [m EXCEPT !.fallbackTried = {}]
Reread == [loc EXCEPT !.snap = cfg]

\* vpnconfig.Armed, a subscription being there.
Armed(f) == f.fo # Nil \/ f.pend # Nil \/ FC!EffectiveXrayClients(f) # {}

\* Tick, up to the branches on what the config holds.
TickBegins ==
    /\ pc = "idle"
    /\ ~stopped
    /\ Armed(cfg) \/ mem.pendingApply
    /\ Goto(CASE cfg.pend # Nil -> "reconcile" [] cfg.fo # Nil -> "failover" [] OTHER -> "retryApply",
            [mem EXCEPT !.reconciled = TRUE,
                        !.pendingApply = @ \/ (~mem.reconciled /\ cfg.fo # Nil)],
            [NoTick EXCEPT !.snap = cfg, !.seq = cfg.active])
    /\ cancelled' = FALSE
    /\ UNCHANGED <<cfg, user, kernel, edited, world>>

-----------------------------------------------------------------------------
(* Finishing a restore (recovery.go)                                       *)

pendingRestoreGuard(f, seq) ==
    f.pend # Nil /\ f.fo = Nil /\ f.active = seq /\ f.pend.active = seq

\* reconcileRestore up to its apply.
Reconcile ==
    /\ pc = "reconcile"
    /\ \/ Refused /\ End(mem)
       \/ /\ ~Refused
          /\ loc.snap.pend.active # loc.snap.active
          /\ \E locked \in Perhaps :
                IF locked /\ cfg.active = loc.snap.active /\ cfg.pend # Nil
                          /\ cfg.pend.active = loc.snap.pend.active
                THEN Write([cfg EXCEPT !.pend = Nil], "idle", Paid, loc)
                ELSE End(mem)
       \/ /\ ~Refused
          /\ loc.snap.pend.active = loc.snap.active
          /\ Only(IF kernel.tproxyReady THEN "reconcileApply" ELSE "finalize", mem, loc)

\* A failed apply leaves the death check to this tick, unless the restore has
\* been superseded meanwhile.
ReconcileApply ==
    /\ pc = "reconcileApply"
    /\ Apply("finalize", mem, [loc EXCEPT !.applied = TRUE],
             IF pendingRestoreGuard(cfg, loc.seq) THEN "probe" ELSE "idle", Owing, loc)

\* finalizeRestore: the marker is read under the lock.
Finalize ==
    LET s     == FC!FailoverSnapshot(cfg.pend, cfg)
        ready == kernel.tproxyReady
    IN  /\ pc = "finalize"
        /\ \/ /\ Refused \/ ~Owned \/ ~pendingRestoreGuard(cfg, loc.seq) \/ ~calm
              /\ End(Owing)
           \/ /\ ~Refused /\ Owned /\ pendingRestoreGuard(cfg, loc.seq)
              /\ IF ready /\ ~loc.applied
                 THEN Only("reconcileApply", Owing, loc)
                 ELSE IF ready \/ s = Nil
                 THEN Write([cfg EXCEPT !.pend = Nil], "idle",
                            IF ready THEN NewEpisode(Paid) ELSE Paid, loc)
                 ELSE IF s.tunnel \notin cfg.keys
                 THEN Only(IF ~loc.applied THEN "reconcileApply"
                           ELSE IF loc.snap.pend # Nil THEN "probe" ELSE "idle", Owing, loc)
                 ELSE Write([FC!ApplyFailoverSnapshot(cfg, s) EXCEPT !.pend = Nil],
                            "reinstateApply", Paid, loc)

ReinstateApply == pc = "reinstateApply" /\ Apply("idle", mem, loc, "idle", Owing, loc)

-----------------------------------------------------------------------------
(* No failover: the outbound's death                                       *)

\* The apply an earlier tick owes.
RetryApply ==
    LET p == IF FC!EffectiveXrayClients(loc.snap) = {} THEN "idle" ELSE "probe"
    IN  /\ pc = "retryApply"
        /\ IF mem.pendingApply
           THEN Apply(p, Paid, loc, p, mem, loc)
           ELSE Only(p, mem, loc)

\* The probe of the running server.  A failed one is a death once it is
\* confirmed: by the clock, or by the fast path, which hands on its ownership
\* with the config it last read.
Probe ==
    /\ pc = "probe"
    /\ \/ Refused /\ End(mem)
       \/ FC!EffectiveXrayClients(loc.snap) = {} /\ End(mem)
       \/ /\ ~Refused
          /\ FC!EffectiveXrayClients(loc.snap) # {}
          /\ \/ (TRUE \in ProbeResults \/ FALSE \in Perhaps) /\ End(mem)
             \/ FALSE \in ProbeResults /\ Only("dead", mem, loc)
             \/ /\ FALSE \in ProbeResults
                /\ loc.snap.pend = Nil
                /\ Only("dead", mem, [Reread EXCEPT !.own = cfg.active])

\* failOutbound up to its write.
Dead ==
    /\ pc = "dead"
    /\ \/ (Refused \/ ~Owned) /\ End(mem)
       \/ ~Refused /\ Owned /\ FALSE \in Perhaps /\ Only("import", mem, loc)
       \/ /\ ~Refused /\ Owned
          /\ \E plat \in Platforms :
                LET ids == IF FC!CarriableXrayClients(loc.snap) = {} THEN {}
                           ELSE TDExits(loc.snap, plat)
                IN  \/ ids = {} /\ Only("import", mem, loc)
                    \/ \E t \in ids : Only("stage", mem, [loc EXCEPT !.next = t])

\* Mutant: a pending restore of another selection does not stop the stage.
Stage_AnyRestore ==
    LET f == FC!StageXrayClientsToTunnel(cfg, loc.next)
    IN  /\ pc = "stage"
        /\ \/ (Refused \/ ~Owned \/ ~calm \/ f.fo = Nil) /\ End(mem)
           \/ /\ ~Refused /\ Owned
              /\ f.fo # Nil
              /\ Write([f EXCEPT !.pend = Nil], "stageApply", NewEpisode(mem), loc)

\* failOutbound's write.
Stage ==
    LET f  == FC!StageXrayClientsToTunnel(cfg, loc.next)
        ok == /\ (cfg.pend # Nil \/ loc.snap.pend # Nil) =>
                    loc.snap.pend # Nil /\ pendingRestoreGuard(cfg, loc.snap.pend.active)
              /\ f.fo # Nil
    IN  /\ pc = "stage"
        /\ \/ (Refused \/ ~Owned \/ ~calm \/ ~ok) /\ End(mem)
           \/ /\ ~Refused /\ Owned /\ ok
              /\ Write([f EXCEPT !.pend = Nil], "stageApply", NewEpisode(mem), loc)

StageApply ==
    /\ pc = "stageApply"
    /\ Apply("pendingApply", mem, [Reread EXCEPT !.from = "death"],
             "import", Owing, [Reread EXCEPT !.from = "death"])

-----------------------------------------------------------------------------
(* A failover in force                                                     *)

\* Tick with a failover: the probe decides between a restore and going on.
Failover ==
    /\ pc = "failover"
    /\ \/ Refused /\ End(mem)
       \/ ~Refused /\ FALSE \in ProbeResults /\ Only("extend", mem, loc)
       \/ /\ ~Refused /\ TRUE \in ProbeResults
          /\ \/ ~kernel.tproxyReady /\ FALSE \in Perhaps /\ End(mem)
             \/ Only("restore", mem, [loc EXCEPT !.probed = cfg.active])

\* extendFailover.
Extend ==
    LET f      == FC!ExtendXrayFailover(cfg)
        joined == FC!XrayClientsOutsideFailover(cfg) # {}
        on(g)  == [loc EXCEPT !.snap = g, !.staged = FC!FailoverStaged(g)]
    IN  /\ pc = "extend"
        /\ \/ Refused /\ End(mem)
           \/ /\ ~Refused
              /\ FC!XrayClientsOutsideFailover(loc.snap) = {} \/ ~calm
              /\ Only("pendingApply", mem, on(loc.snap))
           \/ /\ ~Refused
              /\ FC!XrayClientsOutsideFailover(loc.snap) # {}
              /\ Write(f, "pendingApply", IF joined THEN Owing ELSE mem, on(f))

\* Where the callers of applyFailover go on: Tick looks after a fallback that
\* carries the clients, and both try another one for one that does not.
AfterFailover(ok, m) ==
    IF ok THEN (IF loc.from = "tick" THEN "gone" ELSE "import")
    ELSE IF ~m.pendingApply /\ (loc.staged \/ loc.from = "death") THEN "fallback" ELSE "import"

\* applyFailover: the apply that is owed.
PendingApply ==
    /\ pc = "pendingApply"
    /\ IF mem.pendingApply
       THEN Apply("ready", Paid, Reread, AfterFailover(FALSE, mem), mem, loc)
       ELSE Only("ready", mem, loc)

Ready ==
    /\ pc = "ready"
    /\ IF ~FC!FailoverStaged(loc.snap)
       THEN Only(AfterFailover(TRUE, mem), mem, loc)
       ELSE IF kernel.failoverReady = loc.snap.fo.tunnel
       THEN Only("commit", mem, [loc EXCEPT !.seen = kernel.tun[loc.snap.fo.tunnel]])
       ELSE Only(AfterFailover(FALSE, mem), mem, loc)

\* Only a fallback under a fast path's ownership rereads the marker here.
Commit ==
    LET f  == FC!CommitXrayFailover(cfg)
        ok == loc.own = Nil \/ (Owned /\ (cfg.fo = Nil \/ kernel.failoverReady = cfg.fo.tunnel))
    IN  /\ pc = "commit"
        /\ \/ Refused /\ End(mem)
           \/ ~Refused /\ (~calm \/ ~ok) /\ Only(AfterFailover(FALSE, mem), mem, loc)
           \/ ~Refused /\ ok /\ Write(f, "commitApply", mem, [loc EXCEPT !.snap = f])

CommitApply ==
    /\ pc = "commitApply"
    /\ Apply(AfterFailover(TRUE, mem), NewEpisode(mem), loc,
             AfterFailover(FALSE, Owing), Owing, loc)

-----------------------------------------------------------------------------
(* A fallback that is not ready, or no longer                              *)

\* retryOrSwitchFallback.
Fallback ==
    /\ pc = "fallback"
    /\ IF Refused \/ ~Owned
       THEN End(mem)
       ELSE \E due \in Perhaps : Only(IF due THEN "fallbackApply" ELSE "import", mem, loc)

FallbackApply ==
    pc = "fallbackApply" /\ Apply("fallbackReady", mem, loc, "fallbackLook", mem, loc)

FallbackReady ==
    /\ pc = "fallbackReady"
    /\ Only(IF loc.snap.fo = Nil \/ kernel.failoverReady = loc.snap.fo.tunnel
            THEN "import" ELSE "fallbackLook", mem, loc)

\* Mutant: a round of exits is never begun again.
FallbackLook_OneRound ==
    LET tried == mem.fallbackTried \cup {loc.snap.fo.tunnel}
    IN  /\ pc = "fallbackLook"
        /\ \/ Refused /\ End(mem)
           \/ ~Refused /\ FALSE \in Perhaps /\ Only("import", mem, loc)
           \/ /\ ~Refused
              /\ \E plat \in Platforms :
                    LET next == TDExits(loc.snap, plat) \ tried
                    IN  \/ next = {} /\ Only("import", [mem EXCEPT !.fallbackTried = tried], loc)
                        \/ \E t \in next : Only("retarget", [mem EXCEPT !.fallbackTried = tried],
                                                [loc EXCEPT !.next = t])

\* The exits take turns; a round in which none became ready ends with a wait.
FallbackLook ==
    LET tried == mem.fallbackTried \cup {loc.snap.fo.tunnel}
    IN  /\ pc = "fallbackLook"
        /\ \/ Refused /\ End(mem)
           \/ ~Refused /\ FALSE \in Perhaps /\ Only("import", mem, loc)
           \/ /\ ~Refused
              /\ \E plat \in Platforms :
                    LET next == TDExits(loc.snap, plat) \ tried
                    IN  \/ next = {} /\ Only("import", NewEpisode(mem), loc)
                        \/ \E t \in next : Only("retarget", [mem EXCEPT !.fallbackTried = tried],
                                                [loc EXCEPT !.next = t])

\* watchFallback: a committed failover's tunnel.
Gone ==
    LET t       == loc.snap.fo.tunnel
        carries == \/ FC!snapshotOnTunnel(loc.snap) \ loc.snap.paused = {}
                   \/ kernel.failoverReady = t
    IN  /\ pc = "gone"
        /\ \/ Refused /\ End(mem)
           \/ /\ ~Refused
              /\ loc.snap.fo = Nil \/ FC!FailoverStaged(loc.snap) \/ FALSE \in Perhaps
              /\ Only("import", mem, loc)
           \/ /\ ~Refused
              /\ loc.snap.fo # Nil
              /\ ~FC!FailoverStaged(loc.snap)
              /\ \E plat \in Platforms :
                    Only(IF t \notin TDExits(loc.snap, plat) THEN "leave"
                         ELSE IF carries THEN "import" ELSE "goneApply",
                         mem, [loc EXCEPT !.plat = plat])

GoneApply == pc = "goneApply" /\ Apply("goneReady", mem, loc, "leave", mem, loc)

GoneReady ==
    /\ pc = "goneReady"
    /\ Only(IF kernel.failoverReady = loc.snap.fo.tunnel THEN "import" ELSE "leave", mem, loc)

\* Gone for long enough: to the next exit, or back to Xray.
Leave ==
    LET next == TDExits(loc.snap, loc.plat) \ {loc.snap.fo.tunnel}
    IN  /\ pc = "leave"
        /\ \/ Refused /\ End(mem)
           \/ ~Refused /\ FALSE \in Perhaps /\ Only("import", mem, loc)
           \/ ~Refused /\ \E t \in IF next = {} THEN {Nil} ELSE next :
                 Only("retarget", mem, [loc EXCEPT !.next = t])

\* The write of both; only watchFallback starts a new episode with it.
Retarget ==
    LET f == FC!RestoreXrayClientsFromFailover(cfg)
        g == IF loc.next = Nil THEN f ELSE FC!StageXrayClientsToTunnel(f, loc.next)
    IN  /\ pc = "retarget"
        /\ \/ Refused /\ End(mem)
           \/ ~Refused /\ (~Owned \/ ~calm) /\ Only("import", mem, loc)
           \/ /\ ~Refused /\ Owned
              /\ Write(g, "retargetApply", IF loc.plat = Nil THEN mem ELSE NewEpisode(mem), loc)

RetargetApply ==
    pc = "retargetApply" /\ Apply("import", mem, Reread, "import", Owing, Reread)

-----------------------------------------------------------------------------
(* The walk over the servers                                               *)

\* maybeImportAndPick: perhaps a wave and a walk, otherwise the tick ends.
Import ==
    /\ pc = "import"
    /\ \/ End(mem)
       \/ ~Refused /\ Owned /\ Only("walk", mem, [loc EXCEPT !.seq = loc.snap.active])

\* Generate, under walkGuard: another server runs, and the walk owns its record -
\* unless the record could not be saved, or the server could not be generated.
Walk ==
    /\ pc = "walk"
    /\ \/ End(mem)
       \/ ~calm /\ ~Refused /\ Owned /\ cfg.active = loc.seq /\ Only("walked", mem, loc)
       \/ /\ ~Refused /\ Owned
          /\ cfg.active = loc.seq
          /\ cfg.active < MaxActive
          /\ cfg' = [cfg EXCEPT !.active = @ + 1]
          /\ Goto("walked", mem, [loc EXCEPT !.seq = cfg'.active,
                                             !.own = IF @ = Nil THEN Nil ELSE cfg'.active])
          /\ UNCHANGED <<user, kernel, cancelled, edited, world>>

\* The probe after the restart, and walkOwnsNow.
Walked ==
    /\ pc = "walked"
    /\ \/ Refused /\ End(mem)
       \/ ~Refused /\ FALSE \in ProbeResults /\ Only("walk", mem, loc)
       \/ /\ ~Refused /\ TRUE \in ProbeResults
          /\ Only(IF cfg.active = loc.seq THEN "restore" ELSE "idle", mem,
                  [loc EXCEPT !.probed = cfg.active])

-----------------------------------------------------------------------------
(* commitRestore                                                           *)

\* superseded: the guard of a restore or a walk.
Superseded == cfg.active # loc.seq

\* Mutant: with TPROXY not intercepting the restore waits, and applies nothing.
Restore_WaitForOthers ==
    LET l == [loc EXCEPT !.committed = FC!FailoverCommitted(loc.snap)]
    IN  /\ pc = "restore"
        /\ \/ (Refused \/ (loc.snap.fo # Nil /\ ~kernel.tproxyReady)) /\ End(mem)
           \/ /\ ~Refused
              /\ \/ loc.snap.fo = Nil /\ Only("pickApply", mem, loc)
                 \/ loc.snap.fo # Nil /\ kernel.tproxyReady /\ Only("restoreStage", mem, l)

\* commitRestore up to its first apply.
Restore ==
    LET l == [loc EXCEPT !.committed = FC!FailoverCommitted(loc.snap)]
    IN  /\ pc = "restore"
        /\ \/ Refused /\ End(mem)
           \/ /\ ~Refused
              /\ \/ loc.snap.fo = Nil /\ Only("pickApply", mem, loc)
                 \/ loc.snap.fo # Nil /\ kernel.tproxyReady /\ Only("restoreStage", mem, l)
                 \/ /\ loc.snap.fo # Nil /\ ~kernel.tproxyReady
                    /\ \E due \in Perhaps : Only(IF due THEN "tproxyApply" ELSE "idle", mem, l)

\* A server picked with no failover in force.
PickApply == pc = "pickApply" /\ Apply("idle", mem, loc, "idle", mem, loc)

TproxyApply == pc = "tproxyApply" /\ Apply("tproxyCheck", mem, loc, "idle", mem, loc)

TproxyCheck ==
    pc = "tproxyCheck" /\ Only(IF kernel.tproxyReady THEN "restoreStage" ELSE "idle", mem, loc)

RestoreStage ==
    LET f == FC!EnsureFailoverStaged(cfg)
    IN  /\ pc = "restoreStage"
        /\ \/ (Refused \/ ~Owned \/ Superseded \/ ~calm) /\ End(mem)
           \/ /\ ~Refused /\ Owned /\ ~Superseded
              /\ Write(f, "stagedApply", mem, loc)

StagedApply == pc = "stagedApply" /\ Apply("stagedCheck", mem, loc, "idle", Owing, loc)

\* Mutant: the apply that staged the clients is taken for the proof that TPROXY
\* carries them.
StagedCheck_Unread ==
    pc = "stagedCheck" /\ Only("restoreBegin", mem, [loc EXCEPT !.seen = kernel.xray])

StagedCheck ==
    /\ pc = "stagedCheck"
    /\ IF kernel.tproxyReady
       THEN Only("restoreBegin", mem, [loc EXCEPT !.seen = kernel.xray])
       ELSE Only(IF loc.committed THEN "unstage" ELSE "idle", mem, loc)

\* Mutant: the guard of the first write is not repeated in the second.
RestoreBegin_Unguarded ==
    LET f == FC!BeginXrayRestore(cfg)
    IN  /\ pc = "restoreBegin"
        /\ \/ (Refused \/ ~calm) /\ End(mem)
           \/ ~Refused /\ Owned /\ Write(f, "restoredApply", mem, [loc EXCEPT !.applied = TRUE])

RestoreBegin ==
    LET f      == FC!BeginXrayRestore(cfg)
        refuse == ~Owned \/ Superseded \/ cfg.pend # Nil \/ cfg.fo = Nil
    IN  /\ pc = "restoreBegin"
        /\ \/ (Refused \/ ~calm) /\ End(mem)
           \/ ~Refused /\ refuse /\ Only(IF loc.committed THEN "unstage" ELSE "idle", mem, loc)
           \/ /\ ~Refused /\ ~refuse
              /\ Write(f, "restoredApply", mem, [loc EXCEPT !.applied = TRUE])

RestoredApply == pc = "restoredApply" /\ Apply("finalize", mem, loc, "idle", Owing, loc)

\* unstageRestore.
Unstage ==
    /\ pc = "unstage"
    /\ \/ (Refused \/ ~Owned \/ ~calm) /\ End(mem)
       \/ ~Refused /\ Owned /\ Write(FC!CommitXrayFailover(cfg), "unstageApply", mem, loc)

UnstageApply == pc = "unstageApply" /\ Apply("idle", mem, loc, "idle", Owing, loc)

WatchNext ==
    \/ TickBegins
    \/ Reconcile \/ ReconcileApply \/ Finalize \/ ReinstateApply
    \/ RetryApply \/ Probe \/ Dead \/ Stage \/ StageApply
    \/ Failover \/ Extend \/ PendingApply \/ Ready \/ Commit \/ CommitApply
    \/ Fallback \/ FallbackApply \/ FallbackReady \/ FallbackLook
    \/ Gone \/ GoneApply \/ GoneReady \/ Leave \/ Retarget \/ RetargetApply
    \/ Import \/ Walk \/ Walked
    \/ Restore \/ PickApply \/ TproxyApply \/ TproxyCheck \/ RestoreStage \/ StagedApply
    \/ StagedCheck \/ RestoreBegin \/ RestoredApply \/ Unstage \/ UnstageApply

-----------------------------------------------------------------------------
(* Everything else                                                         *)

tick == <<cancelled, pc, mem, loc>>

\* Clients whose assignment a write changes.
Touched ==
    {c \in Client : \/ want'[c] # want[c]
                    \/ (c \in cfg'.paused) # (c \in cfg.paused)
                    \/ FC!ClientRoutes(cfg', c) # FC!ClientRoutes(cfg, c)}

\* The writes the Web UI and the bot share, and the wizard's.  RecordActiveServer
\* stands for the watch's switches outside the walk as well.
UserWrites ==
    /\ ~calm
    /\ edits < MaxEdits
    /\ \/ \E c \in Client, r \in FC!Route : FC!AddClient(c, r) \/ FC!MoveClient(c, r)
       \/ \E c \in Client : FC!PauseClient(c) \/ FC!ResumeClient(c) \/ FC!DeleteClient(c)
       \/ \E a \in FC!WizardLists : FC!WizardApply(a)
       \/ FC!RecordActiveServer
    /\ edits' = IF cfg' = cfg THEN edits ELSE edits + 1
    /\ edited' = IF cfg'.fo = Nil THEN {} ELSE edited \cup Touched
    /\ UNCHANGED <<tick, kernel, stopped, calm, up, exits>>

\* An apply of a hook, of cron, of the Web UI or the bot.
OtherApply ==
    /\ ~calm
    /\ ~stopped
    /\ \E o \in ApplyOutcomes(cfg) : kernel' = o.kernel
    /\ UNCHANGED <<cfg, user, tick, edited, world>>

\* The poller may have cancelled the tick before it looks for the marker.
Stop ==
    /\ ~calm
    /\ ~stopped
    /\ stopped' = TRUE
    /\ kernel' = Nothing
    /\ cancelled' \in IF pc = "idle" THEN {cancelled} ELSE {cancelled, TRUE}
    /\ UNCHANGED <<cfg, user, pc, mem, loc, edited, calm, up, exits, edits>>

StartAgain ==
    /\ stopped
    /\ stopped' = FALSE
    /\ \E o \in ApplyOutcomes(cfg) : kernel' = o.kernel
    /\ UNCHANGED <<cfg, user, tick, edited, calm, up, exits, edits>>

\* watchd dies and is started again.
Crash ==
    /\ ~calm
    /\ Goto("idle", NewProcess, loc)
    /\ cancelled' = FALSE
    /\ UNCHANGED <<cfg, user, kernel, edited, world>>

Environment == UserWrites \/ OtherApply \/ Stop \/ StartAgain \/ Crash

Next == WatchNext \/ Environment

\* The router has just booted: /tmp is empty, nothing is installed.
Init ==
    /\ FC!Init
    /\ kernel = Nothing
    /\ stopped = FALSE
    /\ cancelled = FALSE
    /\ pc = "idle"
    /\ mem = NewProcess
    /\ loc = NoTick
    /\ calm = FALSE
    /\ up = FALSE
    /\ exits = {}
    /\ edits = 0
    /\ edited = {}

Spec == Init /\ [][Next]_vars

\* From some point on nothing fails, nobody edits, and Xray and the tunnels stay
\* as they then are.
CalmDown ==
    /\ ~calm
    /\ ~stopped
    /\ calm' = TRUE
    /\ up' \in BOOLEAN
    /\ exits' \in SUBSET Tunnel
    /\ UNCHANGED <<cfg, user, tick, kernel, edited, stopped, edits>>

\* Ticks come every ProbeInterval and go on.
FairSpec == Init /\ [][Next \/ CalmDown]_vars /\ WF_vars(WatchNext)

-----------------------------------------------------------------------------
(* Properties                                                              *)

TypeOK ==
    /\ kernel \in Carried
    /\ stopped \in BOOLEAN
    /\ cancelled \in BOOLEAN
    /\ pc \in Steps
    /\ mem \in Memory
    /\ up \in BOOLEAN
    /\ exits \in SUBSET Tunnel
    /\ calm \in BOOLEAN
    /\ edits \in 0..MaxEdits
    /\ edited \in SUBSET Client
    /\ (loc = NoTick) = (pc = "idle")

\* The watch, stale reads and all, makes only the writes FailoverConfig allows
\* it: what is shown there of the file holds with this watch.
ImplementsFailoverConfig ==
    FC!Init /\ [][UNCHANGED <<cfg, user>> \/ FC!Next]_<<cfg, user>>

\* Make before break in the two writes that end a route on the strength of a
\* marker, across ticks, crashes and stops: the commit of a failover takes
\* clients off Xray only when the router had them on the fallback tunnel, and the
\* second write of a restore takes them off the tunnel only when it had them on
\* Xray, as of the marker the tick went by.  Clients the user has touched since
\* are the user's.  Three writes are not covered, because the code rereads no
\* marker of the route it sends clients to: Retarget leaves a tunnel that does
\* not carry, Unstage goes back to the tunnel after a restore that failed, and
\* Finalize reinstates a failover when Xray does not take the clients.
MakeBeforeBreak ==
    [][/\ pc = "commit" /\ pc' = "commitApply" =>
             \A c \in (cfg.xray \ cfg'.xray) \ edited : c \in loc.seen
       /\ pc = "restoreBegin" /\ pc' = "restoredApply" =>
             \A t \in Tunnel : \A c \in cfg.tun[t] \ (cfg'.tun[t] \cup edited \cup cfg.paused) :
                c \in loc.seen]_vars

\* Clients go back to Xray for the server that passed the probe, not for one
\* selected while the restore waited for locks and applies.
RestoredToProbedServer ==
    [][pc = "restoreBegin" /\ pc' = "restoredApply" => cfg.active = loc.probed]_vars

\* Once VPN Director is stopped, the rest of a tick writes and installs nothing.
StoppedStaysStopped ==
    [][stopped /\ stopped' /\ pc' # pc => UNCHANGED <<cfg, kernel>>]_vars

\* When Xray works again for good the clients come back to it, whatever stood
\* half done.
ClientsComeBack == []((calm /\ up) => <>[](cfg.fo = Nil /\ cfg.pend = Nil))

\* When Xray is dead for good and some tunnel is up that serves clients of its
\* own, no client a tunnel can carry is left on Xray.
Served == {t \in cfg.keys \cap exits : \E c \in cfg.tun[t] : t \in want[c]}

OutageIsCarried ==
    []((calm /\ ~up /\ Served # {}) => <>[](FC!CarriableXrayClients(cfg) = {} /\ cfg.pend = Nil))

=============================================================================

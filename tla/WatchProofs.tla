----------------------------- MODULE WatchProofs -----------------------------
(***************************************************************************)
(* Proofs about the failover watch, whatever clients, tunnels and bounds    *)
(* there are.  That a stop is final follows from the checks each step       *)
(* makes.  The rest needs to know where the tick stands: Inv says what a    *)
(* tick may still rely on at each step of the config it read before.  From  *)
(* it come type correctness, the refinement of FailoverConfig, and that     *)
(* clients are given back to Xray for the server that passed the probe.     *)
(***************************************************************************)
EXTENDS Watch, TLAPS

\* A step that only moves on leaves the file and the router alone.
LEMMA OnlyLeaves ==
    ASSUME NEW p, NEW m, NEW l, Only(p, m, l)
    PROVE  UNCHANGED <<cfg, kernel>>
BY DEF Only

\* Watch.apply looks for the marker before it runs the script.
LEMMA StoppedApply ==
    ASSUME NEW p, NEW mp, NEW lp, NEW q, NEW mq, NEW lq, stopped,
           Apply(p, mp, lp, q, mq, lq)
    PROVE  UNCHANGED <<cfg, kernel>>
BY OnlyLeaves DEF Apply, Refused, End

\* Every step of a tick on a stopped router: what follows a check that refuses
\* ends the tick, and what has no check writes nothing.
LEMMA StoppedTick ==
    ASSUME stopped, WatchNext
    PROVE  UNCHANGED <<cfg, kernel>>
<1> USE DEF Refused, End
<1>1. CASE TickBegins
      BY <1>1 DEF TickBegins
<1>2. CASE Reconcile
      BY <1>2, OnlyLeaves DEF Reconcile
<1>3. CASE Finalize
      BY <1>3, OnlyLeaves DEF Finalize
<1>4. CASE ReconcileApply \/ ReinstateApply \/ StageApply \/ CommitApply \/ FallbackApply
           \/ GoneApply \/ RetargetApply \/ PickApply \/ TproxyApply \/ StagedApply
           \/ RestoredApply \/ UnstageApply
      BY <1>4, StoppedApply
         DEF ReconcileApply, ReinstateApply, StageApply, CommitApply, FallbackApply,
             GoneApply, RetargetApply, PickApply, TproxyApply, StagedApply,
             RestoredApply, UnstageApply
<1>5. CASE RetryApply \/ PendingApply
      BY <1>5, StoppedApply, OnlyLeaves DEF RetryApply, PendingApply
<1>6. CASE Probe \/ Dead
      BY <1>6, OnlyLeaves DEF Probe, Dead
<1>7. CASE Stage \/ Extend \/ Commit \/ Retarget
      BY <1>7, OnlyLeaves DEF Stage, Extend, Commit, Retarget
<1>8. CASE RestoreStage \/ RestoreBegin \/ Unstage
      BY <1>8, OnlyLeaves DEF RestoreStage, RestoreBegin, Unstage
<1>9. CASE Failover \/ Ready \/ Fallback \/ FallbackReady \/ FallbackLook
      BY <1>9, OnlyLeaves DEF Failover, Ready, Fallback, FallbackReady, FallbackLook
<1>10. CASE Gone \/ GoneReady \/ Leave
      BY <1>10, OnlyLeaves DEF Gone, GoneReady, Leave
<1>11. CASE Import \/ Walk \/ Walked
      BY <1>11, OnlyLeaves DEF Import, Walk, Walked
<1>12. CASE Restore \/ TproxyCheck \/ StagedCheck
      BY <1>12, OnlyLeaves DEF Restore, TproxyCheck, StagedCheck
<1> QED
    BY <1>1, <1>2, <1>3, <1>4, <1>5, <1>6, <1>7, <1>8, <1>9, <1>10, <1>11, <1>12
       DEF WatchNext

\* Nobody else takes a tick a step further, and a crash of the daemon writes
\* nothing.
LEMMA OthersLeaveTheTick ==
    ASSUME Environment, pc' # pc
    PROVE  UNCHANGED <<cfg, kernel>>
BY DEF Environment, UserWrites, OtherApply, Stop, StartAgain, Crash, tick, world

\* Once VPN Director is stopped, the rest of a tick writes and installs nothing:
\* mutationAllowed under the config lock and in front of every script run.
THEOREM StopIsFinal == Spec => StoppedStaysStopped
<1>1. ASSUME [Next]_vars
      PROVE  [stopped /\ stopped' /\ pc' # pc => UNCHANGED <<cfg, kernel>>]_vars
      BY <1>1, StoppedTick, OthersLeaveTheTick DEF Next
<1> QED
    BY <1>1, PTL DEF Spec, StoppedStaysStopped

-----------------------------------------------------------------------------
(* Where a tick stands                                                     *)

\* The variables of a tick that has begun.
Tick == [snap : FC!Config, from : {"tick", "death"}, seq : Nat, own : Nat \cup {Nil},
         staged : BOOLEAN, committed : BOOLEAN, applied : BOOLEAN,
         next : Tunnel \cup {Nil}, plat : (SUBSET Tunnel) \cup {Nil},
         seen : SUBSET Client, probed : Nat \cup {Nil}]

\* The steps that go by a failover the tick has seen.
Holding == {"failover", "extend", "pendingApply", "ready", "commit", "commitApply",
            "fallback", "fallbackApply", "fallbackReady", "fallbackLook",
            "gone", "goneApply", "goneReady", "leave", "retarget"}

\* The steps from a probe that passed to the write that gives the clients back.
Restoring == {"restore", "tproxyApply", "tproxyCheck", "restoreStage", "stagedApply",
              "stagedCheck", "restoreBegin"}

\* What step p of a tick with variables l may rely on when the file holds f.
\* The user never ends a failover, and the counter of active_server only grows.
Stand(p, l, f) ==
    /\ l \in Tick
    /\ l.seq <= f.active
    /\ l.snap.active <= f.active
    /\ p \in Holding => f.fo # Nil /\ l.snap.fo # Nil
    /\ p = "stageApply" => f.fo # Nil
    /\ p = "stage" => l.next \in Tunnel
    /\ p \in Restoring => l.probed \in Nat /\ l.seq <= l.probed /\ l.probed <= f.active

Typed ==
    /\ kernel \in Carried
    /\ stopped \in BOOLEAN
    /\ cancelled \in BOOLEAN
    /\ pc \in Steps
    /\ mem \in Memory
    /\ up \in BOOLEAN
    /\ exits \in SUBSET Tunnel
    /\ calm \in BOOLEAN
    /\ edits \in 0..MaxEdits
    /\ edited \in SUBSET Client

Standing == IF pc = "idle" THEN loc = NoTick ELSE Stand(pc, loc, cfg)

Inv == Typed /\ cfg \in FC!Config /\ Standing

-----------------------------------------------------------------------------
(* What the mutations of the file keep                                     *)

\* A file g that may follow f under a failover: what f holds g holds.
Keeps(f, g) ==
    /\ g \in FC!Config
    /\ g.active = f.active
    /\ f.fo # Nil => g.fo # Nil

LEMMA NilIsNoRecord == Nil \notin FC!FailoverRecord /\ Nil \notin FC!PendingRecord
BY WatchAssumption

LEMMA DetachKeeps ==
    ASSUME NEW f \in FC!Config, NEW D \in SUBSET Client
    PROVE  Keeps(f, FC!DetachFailoverClients(f, D))
<1> USE NilIsNoRecord
<1> DEFINE detach(s) == [s EXCEPT !.clients = s.clients \ D, !.added = s.added \ D]
           h  == IF f.fo = Nil THEN Nil ELSE detach(f.fo)
           p  == IF f.pend = Nil THEN Nil
                 ELSE [f.pend EXCEPT !.snapshot = detach(f.pend.snapshot),
                                     !.restored = f.pend.restored \ D]
<1>1. FC!DetachFailoverClients(f, D) = [f EXCEPT !.fo = h, !.pend = p]
  BY DEF FC!DetachFailoverClients
<1>2. f.fo # Nil => h \in FC!FailoverRecord
  BY DEF FC!Config, FC!FailoverRecord
<1>3. f.pend # Nil => p \in FC!PendingRecord
  BY DEF FC!Config, FC!FailoverRecord, FC!PendingRecord
<1>4. h \in FC!FailoverRecord \cup {Nil} /\ p \in FC!PendingRecord \cup {Nil}
  BY <1>2, <1>3
<1> HIDE DEF h, p
<1> QED BY <1>1, <1>2, <1>4 DEF Keeps, FC!Config

LEMMA StageKeeps ==
    ASSUME NEW f \in FC!Config, NEW t \in Tunnel
    PROVE  Keeps(f, FC!StageXrayClientsToTunnel(f, t))
<1> USE NilIsNoRecord
<1> DEFINE m == FC!CarriableXrayClients(f)
           h == [tunnel |-> t, clients |-> m, added |-> m \ f.tun[t],
                 legacy |-> FALSE, committed |-> FALSE]
           u == FC!PutOn(f.tun, t, m)
           g == FC!StageXrayClientsToTunnel(f, t)
<1>1. g = f \/ g = [f EXCEPT !.tun = u, !.fo = h]
  BY DEF FC!StageXrayClientsToTunnel
<1>2. m \in SUBSET Client
  BY DEF FC!CarriableXrayClients, FC!EffectiveXrayClients, FC!Config
<1>3. h \in FC!FailoverRecord /\ u \in [Tunnel -> SUBSET Client]
  BY <1>2 DEF FC!FailoverRecord, FC!Config, FC!PutOn
<1>4. CASE g = [f EXCEPT !.tun = u, !.fo = h]
  <2> HIDE DEF u, h, m
  <2>1. g \in FC!Config
    BY <1>3, <1>4 DEF FC!Config
  <2>2. g.active = f.active /\ g.fo = h
    BY <1>4 DEF FC!Config
  <2>3. Keeps(f, g)
    <3> HIDE DEF g
    <3> QED BY <1>3, <2>1, <2>2 DEF Keeps
  <2> QED BY <2>3
<1> QED BY <1>1, <1>4 DEF Keeps

LEMMA CommitKeeps ==
    ASSUME NEW f \in FC!Config
    PROVE  Keeps(f, FC!CommitXrayFailover(f))
<1> USE NilIsNoRecord
<1> DEFINE h == [f.fo EXCEPT !.committed = TRUE]
           x == f.xray \ (FC!snapshotOnTunnel(f) \ f.paused)
           g == FC!CommitXrayFailover(f)
<1>1. (f.fo = Nil /\ g = f) \/ (f.fo # Nil /\ g = [f EXCEPT !.xray = x, !.fo = h])
  BY DEF FC!CommitXrayFailover, FC!Config
<1>2. x \in SUBSET Client /\ (f.fo # Nil => h \in FC!FailoverRecord)
  BY DEF FC!FailoverRecord, FC!Config
<1>3. CASE f.fo # Nil /\ g = [f EXCEPT !.xray = x, !.fo = h]
  <2> HIDE DEF x, h
  <2> QED BY <1>2, <1>3 DEF Keeps, FC!Config
<1> QED BY <1>1, <1>3 DEF Keeps

LEMMA ExtendKeeps ==
    ASSUME NEW f \in FC!Config
    PROVE  Keeps(f, FC!ExtendXrayFailover(f))
<1> USE NilIsNoRecord
<1> DEFINE outside == FC!XrayClientsOutsideFailover(f)
           put == outside \ f.tun[f.fo.tunnel]
           new == f.fo.added \cup (IF f.fo.legacy THEN {} ELSE put)
           h == [f.fo EXCEPT !.clients = f.fo.clients \cup outside, !.added = new]
           u == FC!PutOn(f.tun, f.fo.tunnel, put)
           g == FC!ExtendXrayFailover(f)
<1>1. \/ g = f
      \/ outside # {} /\ g = [f EXCEPT !.tun = u, !.fo = h]
  BY DEF FC!ExtendXrayFailover
<1>2. CASE outside # {}
  <2>1. f.fo \in FC!FailoverRecord /\ outside \in SUBSET Client
    BY <1>2 DEF FC!XrayClientsOutsideFailover, FC!CarriableXrayClients,
                FC!EffectiveXrayClients, FC!Config
  <2>2. put \in SUBSET Client
    BY <2>1
  <2>3. u \in [Tunnel -> SUBSET Client]
    BY <2>1, <2>2 DEF FC!PutOn, FC!Config, FC!FailoverRecord
  <2>4. new \in SUBSET Client
    <3> HIDE DEF put
    <3> QED BY <2>1, <2>2 DEF FC!FailoverRecord
  <2>5. h \in FC!FailoverRecord
    <3> HIDE DEF new, outside
    <3> QED BY <2>1, <2>4 DEF FC!FailoverRecord
  <2>6. CASE g = [f EXCEPT !.tun = u, !.fo = h]
    <3> HIDE DEF u, h
    <3> QED BY <2>3, <2>5, <2>6 DEF Keeps, FC!Config
  <2> QED BY <1>1, <2>6 DEF Keeps
<1>3. CASE outside = {}
  BY <1>1, <1>3 DEF Keeps
<1> QED BY <1>2, <1>3

LEMMA EnsureKeeps ==
    ASSUME NEW f \in FC!Config
    PROVE  Keeps(f, FC!EnsureFailoverStaged(f))
<1> USE NilIsNoRecord
<1> DEFINE b == FC!FailoverCommitted(f)
           h == [f.fo EXCEPT !.committed = b]
           x == f.xray \cup (FC!snapshotOnTunnel(f) \ f.paused)
           g == FC!EnsureFailoverStaged(f)
<1>1. (f.fo = Nil /\ g = f) \/ (f.fo # Nil /\ g = [f EXCEPT !.xray = x, !.fo = h])
  BY DEF FC!EnsureFailoverStaged, FC!Config
<1>2. x \in SUBSET Client
  BY DEF FC!FailoverRecord, FC!Config, FC!snapshotOnTunnel
<1>3. b \in BOOLEAN
  BY DEF FC!FailoverCommitted
<1>4. f.fo # Nil => h \in FC!FailoverRecord
  <2> HIDE DEF b
  <2> QED BY <1>3 DEF FC!FailoverRecord, FC!Config
<1>5. CASE f.fo # Nil /\ g = [f EXCEPT !.xray = x, !.fo = h]
  <2> HIDE DEF x, h
  <2> QED BY <1>2, <1>4, <1>5 DEF Keeps, FC!Config
<1> QED BY <1>1, <1>5 DEF Keeps

\* A restore ends the failover.
LEMMA RestoreTyped ==
    ASSUME NEW f \in FC!Config
    PROVE  LET g == FC!RestoreXrayClientsFromFailover(f)
           IN  g \in FC!Config /\ g.active = f.active /\ g.pend = f.pend
<1> USE NilIsNoRecord
<1> DEFINE s == FC!snapshotOnTunnel(f)
           d == IF f.fo.legacy THEN s ELSE f.fo.added
           u == FC!TakeOff(f.tun, f.fo.tunnel, d)
           x == f.xray \cup s
           g == FC!RestoreXrayClientsFromFailover(f)
<1>1. (f.fo = Nil /\ g = f) \/ (f.fo # Nil /\ g = [f EXCEPT !.xray = x, !.tun = u, !.fo = Nil])
  BY DEF FC!RestoreXrayClientsFromFailover, FC!Config
<1>2. x \in SUBSET Client
  BY DEF FC!snapshotOnTunnel, FC!Config, FC!FailoverRecord
<1>3. f.fo # Nil => u \in [Tunnel -> SUBSET Client]
  BY DEF FC!Config, FC!FailoverRecord, FC!TakeOff
<1>4. CASE f.fo # Nil /\ g = [f EXCEPT !.xray = x, !.tun = u, !.fo = Nil]
  <2> HIDE DEF u, x
  <2> QED BY <1>2, <1>3, <1>4 DEF FC!Config
<1> QED BY <1>1, <1>4

LEMMA BeginTyped ==
    ASSUME NEW f \in FC!Config
    PROVE  LET g == FC!BeginXrayRestore(f) IN g \in FC!Config /\ g.active = f.active
<1> USE NilIsNoRecord
<1> DEFINE b == FC!FailoverCommitted(f)
           h == [f.fo EXCEPT !.committed = b]
           s == FC!snapshotOnTunnel(f)
           p == [snapshot |-> h, restored |-> s, active |-> f.active]
           r == FC!RestoreXrayClientsFromFailover(f)
           g == FC!BeginXrayRestore(f)
<1>1. g = f \/ (f.fo # Nil /\ g = [r EXCEPT !.pend = p])
  BY DEF FC!BeginXrayRestore
<1>2. r \in FC!Config /\ r.active = f.active
  BY RestoreTyped
<1>3. b \in BOOLEAN
  BY DEF FC!FailoverCommitted
<1>4. f.fo # Nil => h \in FC!FailoverRecord
  <2> HIDE DEF b
  <2> QED BY <1>3 DEF FC!FailoverRecord, FC!Config
<1>5. s \in SUBSET Client
  BY DEF FC!snapshotOnTunnel, FC!Config, FC!FailoverRecord
<1>6. f.fo # Nil => p \in FC!PendingRecord
  <2> HIDE DEF h, s
  <2> QED BY <1>4, <1>5 DEF FC!PendingRecord, FC!Config
<1>7. CASE f.fo # Nil /\ g = [r EXCEPT !.pend = p]
  <2> HIDE DEF p, r
  <2> QED BY <1>2, <1>6, <1>7 DEF FC!Config
<1> QED BY <1>1, <1>7

\* A reinstated failover is one the restore record holds.
LEMMA ReinstateTyped ==
    ASSUME NEW f \in FC!Config, f.pend # Nil, FC!FailoverSnapshot(f.pend, f) # Nil
    PROVE  LET g == FC!ApplyFailoverSnapshot(f, FC!FailoverSnapshot(f.pend, f))
           IN  g \in FC!Config /\ g.active = f.active
<1> USE NilIsNoRecord
<1> DEFINE kept == {c \in f.pend.restored : FC!StillRestored(f.pend, f, c)}
           s == FC!FailoverSnapshot(f.pend, f)
           u == FC!PutOn(f.tun, s.tunnel, s.clients)
           x == IF s.committed THEN f.xray \ s.clients ELSE f.xray
           g == FC!ApplyFailoverSnapshot(f, s)
<1>1. f.pend \in FC!PendingRecord /\ kept \in SUBSET Client
  BY DEF FC!Config, FC!PendingRecord
<1>2. s = [f.pend.snapshot EXCEPT !.clients = kept, !.added = f.pend.snapshot.added \cap kept]
  BY DEF FC!FailoverSnapshot
<1>3. s \in FC!FailoverRecord
  <2> HIDE DEF kept, s
  <2> QED BY <1>1, <1>2 DEF FC!PendingRecord, FC!FailoverRecord
<1> HIDE DEF s
<1>4. g = f \/ g = [f EXCEPT !.tun = u, !.xray = x, !.fo = s]
  BY DEF FC!ApplyFailoverSnapshot
<1>5. u \in [Tunnel -> SUBSET Client] /\ x \in SUBSET Client
  BY <1>3 DEF FC!Config, FC!FailoverRecord, FC!PutOn
<1>6. ASSUME g = [f EXCEPT !.tun = u, !.xray = x, !.fo = s]
      PROVE  g \in FC!Config /\ g.active = f.active
  <2> HIDE DEF u, x
  <2> QED BY <1>3, <1>5, <1>6 DEF FC!Config
<1>7. g = FC!ApplyFailoverSnapshot(f, FC!FailoverSnapshot(f.pend, f))
  BY DEF s
<1> QED BY <1>4, <1>6, <1>7

\* The end of a pending restore.
LEMMA ForgetTyped ==
    ASSUME NEW f \in FC!Config
    PROVE  LET g == [f EXCEPT !.pend = Nil]
           IN  g \in FC!Config /\ g.active = f.active /\ g.fo = f.fo
BY DEF FC!Config

\* What the user and a selection do to the file keeps a failover, and the counter
\* of active_server only grows.
LEMMA EditsFollow ==
    ASSUME cfg \in FC!Config, UserWrites
    PROVE  /\ cfg' \in FC!Config
           /\ cfg.active <= cfg'.active
           /\ cfg.fo # Nil => cfg'.fo # Nil
<1>0. cfg.active \in Nat
  BY DEF FC!Config
<1>1. \A f \in FC!Config, c \in Client, r \in FC!Route : Keeps(f, FC!OntoRoute(f, c, r))
  <2> SUFFICES ASSUME NEW f \in FC!Config, NEW c \in Client, NEW r \in FC!Route
               PROVE  Keeps(f, FC!OntoRoute(f, c, r))
    OBVIOUS
  <2>1. CASE r = "xray"
    BY <2>1 DEF FC!OntoRoute, FC!Config, Keeps
  <2>2. CASE r # "xray"
    <3>1. r \in Tunnel
      BY <2>2 DEF FC!Route
    <3>2. FC!PutOn(f.tun, r, {c}) \in [Tunnel -> SUBSET Client]
      BY <3>1 DEF FC!PutOn, FC!Config
    <3> QED BY <2>2, <3>1, <3>2 DEF FC!OntoRoute, FC!Config, Keeps
  <2> QED BY <2>1, <2>2
<1>2. \A f \in FC!Config, c \in Client : Keeps(f, FC!OffEveryRoute(f, c))
  BY DEF FC!OffEveryRoute, FC!Config, Keeps
<1>3. \A f \in FC!Config, c \in Client : Keeps(f, FC!DetachFailoverClients(f, {c}))
  BY DetachKeeps
<1>4. \A f \in FC!Config, S \in SUBSET Client : Keeps(f, [f EXCEPT !.paused = S])
  BY DEF FC!Config, Keeps
<1>5. \A f, g, h : Keeps(f, g) /\ Keeps(g, h) => Keeps(f, h)
  BY DEF Keeps
<1>6. Keeps(cfg, cfg') => /\ cfg' \in FC!Config
                          /\ cfg.active <= cfg'.active
                          /\ cfg.fo # Nil => cfg'.fo # Nil
  BY <1>0 DEF Keeps
<1>7. ASSUME NEW c \in Client, NEW r \in FC!Route, FC!AddClient(c, r) PROVE Keeps(cfg, cfg')
  <2>1. Keeps(cfg, FC!DetachFailoverClients(cfg, {c}))
    BY <1>3
  <2>2. FC!DetachFailoverClients(cfg, {c}) \in FC!Config
    BY <2>1 DEF Keeps
  <2>3. Keeps(FC!DetachFailoverClients(cfg, {c}),
              FC!OntoRoute(FC!DetachFailoverClients(cfg, {c}), c, r))
    BY <1>1, <2>2
  <2> QED BY <1>5, <1>7, <2>1, <2>3 DEF FC!AddClient
<1>8. ASSUME NEW c \in Client, NEW r \in FC!Route, FC!MoveClient(c, r) PROVE Keeps(cfg, cfg')
  <2> DEFINE a == FC!OffEveryRoute(cfg, c)
             b == FC!OntoRoute(a, c, r)
             d == FC!DetachFailoverClients(b, {c})
  <2>1. Keeps(cfg, a) /\ a \in FC!Config
    BY <1>2 DEF Keeps
  <2>2. Keeps(a, b) /\ b \in FC!Config
    BY <1>1, <2>1 DEF Keeps
  <2>3. Keeps(b, d)
    BY <1>3, <2>2
  <2>4. cfg' = d
    BY <1>8 DEF FC!MoveClient
  <2> HIDE DEF a, b, d
  <2> QED BY <1>5, <2>1, <2>2, <2>3, <2>4
<1>9. ASSUME NEW c \in Client, FC!PauseClient(c) \/ FC!ResumeClient(c) PROVE Keeps(cfg, cfg')
  <2>1. cfg.paused \cup {c} \in SUBSET Client /\ cfg.paused \ {c} \in SUBSET Client
    BY DEF FC!Config
  <2> QED BY <1>4, <1>9, <2>1 DEF FC!PauseClient, FC!ResumeClient
<1>10. ASSUME NEW c \in Client, FC!DeleteClient(c) PROVE Keeps(cfg, cfg')
  <2> DEFINE a == FC!OffEveryRoute(cfg, c)
             b == [a EXCEPT !.paused = a.paused \ {c}]
             d == FC!DetachFailoverClients(b, {c})
  <2>1. Keeps(cfg, a) /\ a \in FC!Config
    BY <1>2 DEF Keeps
  <2>2. a.paused \ {c} \in SUBSET Client
    BY <2>1 DEF FC!Config
  <2>3. Keeps(a, b) /\ b \in FC!Config
    BY <1>4, <2>1, <2>2 DEF Keeps
  <2>4. Keeps(b, d)
    BY <1>3, <2>3
  <2>5. cfg' = d
    BY <1>10 DEF FC!DeleteClient
  <2> HIDE DEF a, b, d
  <2> QED BY <1>5, <2>1, <2>3, <2>4, <2>5
<1>11. ASSUME NEW a \in FC!WizardLists, FC!WizardApply(a) PROVE Keeps(cfg, cfg')
  <2> DEFINE f == FC!Assigned(cfg, a)
             D == f.fo.clients \ f.xray
             d == FC!DetachFailoverClients(f, D)
  <2>1. Keeps(cfg, f) /\ f \in FC!Config
    BY DEF FC!Assigned, FC!Config, Keeps
  <2>2. cfg' = IF f.fo = Nil THEN f ELSE d
    BY <1>11 DEF FC!WizardApply
  <2>3. ASSUME f.fo # Nil PROVE Keeps(f, d)
    <3> HIDE DEF f
    <3>1. D \in SUBSET Client
      BY <2>1, <2>3 DEF FC!Config, FC!FailoverRecord
    <3> QED BY <2>1, <3>1, DetachKeeps
  <2> HIDE DEF f, d
  <2> QED BY <1>5, <2>1, <2>2, <2>3
<1>12. ASSUME FC!RecordActiveServer
       PROVE  /\ cfg' \in FC!Config
              /\ cfg.active <= cfg'.active
              /\ cfg.fo # Nil => cfg'.fo # Nil
  BY <1>0, <1>12 DEF FC!RecordActiveServer, FC!Config
<1> QED BY <1>6, <1>7, <1>8, <1>9, <1>10, <1>11, <1>12 DEF UserWrites

-----------------------------------------------------------------------------
(* What the parts of a step keep                                           *)

\* A step that relies on no more than the one before it.
LEMMA StandMoves ==
    ASSUME NEW p, NEW q, NEW l, NEW f, Stand(p, l, f),
           q \in Holding => p \in Holding,
           q \in Restoring => p \in Restoring,
           q \notin {"stage", "stageApply"}
    PROVE  Stand(q, l, f)
BY DEF Stand

\* The file may move on under a tick.
LEMMA StandHolds ==
    ASSUME NEW p, NEW l, NEW f \in FC!Config, NEW g \in FC!Config, Stand(p, l, f),
           f.active <= g.active, f.fo # Nil => g.fo # Nil
    PROVE  Stand(p, l, g)
<1>1. f.active \in Nat /\ g.active \in Nat
  BY DEF FC!Config
<1>2. l.seq \in Nat /\ l.snap.active \in Nat
  <2>1. l.snap \in FC!Config /\ l.seq \in Nat
    BY DEF Stand, Tick
  <2> QED BY <2>1 DEF FC!Config
<1> QED BY <1>1, <1>2 DEF Stand

LEMMA GotoStands ==
    ASSUME NEW p \in Steps, NEW m, NEW l, NEW f, Goto(p, m, l), cfg' = f, f \in FC!Config,
           p = "idle" \/ Stand(p, l, f)
    PROVE  Standing' /\ pc' \in Steps /\ mem' = m
<1>0. pc' = p /\ mem' = m
  BY DEF Goto
<1>1. CASE p = "idle"
  BY <1>0, <1>1 DEF Goto, Standing
<1>2. CASE p = "import"
  <2> DEFINE k == [NoTick EXCEPT !.snap = l.snap, !.own = l.own]
  <2>1. loc' = k
    BY <1>2 DEF Goto
  <2>2. Stand(p, l, f)
    BY <1>2
  <2>3. l.snap \in FC!Config /\ l.own \in Nat \cup {Nil} /\ l.snap.active <= f.active
    BY <2>2 DEF Stand, Tick
  <2>4. k \in Tick /\ k.snap = l.snap /\ k.seq = 0
    BY <2>3 DEF NoTick, Tick
  <2>5. Stand(p, k, f)
    <3> HIDE DEF k
    <3>1. f.active \in Nat
      BY DEF FC!Config
    <3> QED BY <1>2, <2>3, <2>4, <3>1 DEF Stand, Holding, Restoring
  <2> QED BY <1>0, <1>2, <2>1, <2>5 DEF Standing
<1>3. CASE p \notin {"idle", "import"}
  <2>1. loc' = l
    BY <1>3 DEF Goto
  <2> QED BY <1>0, <1>3, <2>1 DEF Standing
<1> QED BY <1>0, <1>1, <1>2, <1>3

LEMMA OnlyInv ==
    ASSUME Inv, NEW p \in Steps, NEW m \in Memory, NEW l, Only(p, m, l),
           p = "idle" \/ Stand(p, l, cfg)
    PROVE  Inv'
<1>1. Goto(p, m, l) /\ UNCHANGED <<cfg, kernel, cancelled, edited, world>>
  BY DEF Only
<1>2. Standing' /\ pc' \in Steps /\ mem' = m
  BY <1>1, GotoStands DEF Inv
<1> QED BY <1>1, <1>2 DEF Inv, Typed, world

LEMMA EndInv ==
    ASSUME Inv, NEW m \in Memory, End(m)
    PROVE  Inv'
BY OnlyInv DEF End, Steps

LEMMA WriteInv ==
    ASSUME Inv, NEW p \in Steps, NEW m \in Memory, NEW l, NEW f \in FC!Config,
           Write(f, p, m, l), p = "idle" \/ Stand(p, l, f)
    PROVE  Inv'
<1>1. Goto(p, m, l) /\ cfg' = f /\ UNCHANGED <<kernel, cancelled, world>>
      /\ edited' \in SUBSET Client
  BY DEF Write, Inv, Typed
<1>2. Standing' /\ pc' \in Steps /\ mem' = m
  BY <1>1, GotoStands
<1> QED BY <1>1, <1>2 DEF Inv, Typed, world

LEMMA OutcomesTyped ==
    ASSUME cfg \in FC!Config, kernel \in Carried, NEW o \in ApplyOutcomes(cfg)
    PROVE  o.kernel \in Carried
<1>1. ASSUME NEW tp \in BOOLEAN, NEW fr \in BOOLEAN
      PROVE  Installed(cfg, tp, fr) \in Carried
  <2> DEFINE x == IF tp THEN FC!EffectiveXrayClients(cfg) ELSE {}
             u == [t \in Tunnel |->
                     (cfg.tun[t] \ cfg.paused)
                       \ IF ~fr /\ cfg.fo # Nil /\ t = cfg.fo.tunnel THEN cfg.fo.clients ELSE {}]
             r == IF fr /\ cfg.fo # Nil THEN cfg.fo.tunnel ELSE Nil
  <2>1. x \in SUBSET Client
    BY DEF FC!EffectiveXrayClients, FC!Config
  <2>2. u \in [Tunnel -> SUBSET Client]
    BY DEF FC!Config
  <2>3. r \in Tunnel \cup {Nil}
    BY DEF FC!Config, FC!FailoverRecord
  <2>4. Installed(cfg, tp, fr)
          = [xray |-> x, tun |-> u, tproxyReady |-> tp, failoverReady |-> r]
    BY DEF Installed
  <2> HIDE DEF x, u, r
  <2> QED BY <2>1, <2>2, <2>3, <2>4 DEF Carried
<1>2. Perhaps \subseteq BOOLEAN
  BY DEF Perhaps
<1>3. Installable(cfg) \subseteq Carried
  <2> DEFINE F == {cfg.fo # Nil /\ cfg.fo.tunnel \in plat : plat \in Platforms}
  <2>1. F \subseteq BOOLEAN
    OBVIOUS
  <2>2. Installable(cfg) = {Installed(cfg, tp, fr) : tp \in Perhaps, fr \in F}
    BY DEF Installable
  <2> HIDE DEF F
  <2> QED BY <1>1, <1>2, <2>1, <2>2
<1> QED BY <1>3 DEF ApplyOutcomes

LEMMA ApplyInv ==
    ASSUME Inv, NEW p \in Steps, NEW mp \in Memory, NEW lp,
           NEW q \in Steps, NEW mq \in Memory, NEW lq,
           Apply(p, mp, lp, q, mq, lq),
           p = "idle" \/ Stand(p, lp, cfg),
           q = "idle" \/ Stand(q, lq, cfg)
    PROVE  Inv'
<1>1. CASE Refused /\ End(mq)
  BY <1>1, EndInv
<1>2. CASE ~(Refused /\ End(mq))
  <2>1. UNCHANGED <<cfg, cancelled, edited, world>>
    BY <1>2 DEF Apply
  <2>2. kernel' \in Carried
    BY <1>2, OutcomesTyped DEF Apply, Inv, Typed
  <2>3. Goto(p, mp, lp) \/ Goto(q, mq, lq)
    BY <1>2 DEF Apply
  <2>4. Standing' /\ pc' \in Steps /\ mem' \in Memory
    <3>1. CASE Goto(p, mp, lp)
      BY <2>1, <3>1, GotoStands DEF Inv
    <3>2. CASE Goto(q, mq, lq)
      BY <2>1, <3>2, GotoStands DEF Inv
    <3> QED BY <2>3, <3>1, <3>2
  <2> QED BY <2>1, <2>2, <2>4 DEF Inv, Typed, world
<1> QED BY <1>1, <1>2

-----------------------------------------------------------------------------
(* Every step of a tick                                                    *)

LEMMA Begun ==
    ASSUME Inv, pc # "idle"
    PROVE  /\ Stand(pc, loc, cfg) /\ loc \in Tick /\ loc.snap \in FC!Config
           /\ loc.seq \in Nat /\ cfg.active \in Nat /\ loc.snap.active \in Nat
           /\ loc.seq <= cfg.active
<1>1. Stand(pc, loc, cfg)
  BY DEF Inv, Standing
<1>2. loc \in Tick /\ loc.snap \in FC!Config /\ loc.seq \in Nat /\ loc.seq <= cfg.active
  BY <1>1 DEF Stand, Tick
<1> QED BY <1>1, <1>2 DEF Inv, FC!Config

LEMMA MemoryTyped ==
    ASSUME Inv
    PROVE  /\ mem \in Memory /\ Owing \in Memory /\ Paid \in Memory
           /\ NewEpisode(mem) \in Memory /\ NewEpisode(Paid) \in Memory
BY DEF Inv, Typed, Memory, Owing, Paid, NewEpisode

\* The tick's variables serve at a step that relies on no more.
LEMMA Onward ==
    ASSUME Inv, pc # "idle", NEW q, q \notin {"stage", "stageApply"},
           q \in Holding => pc \in Holding,
           q \in Restoring => pc \in Restoring
    PROVE  Stand(q, loc, cfg)
BY Begun, StandMoves

\* And so do variables that differ in nothing a step relies on, or whose config
\* has been read again.
LEMMA OnwardWith ==
    ASSUME Inv, pc # "idle", NEW q, q \notin {"stage", "stageApply"},
           q \in Holding => pc \in Holding \cup {"stageApply"},
           q \in Restoring => pc \in Restoring,
           NEW k \in Tick,
           k.seq = loc.seq, k.probed = loc.probed,
           k.snap = cfg \/ (k.snap = loc.snap /\ pc # "stageApply")
    PROVE  Stand(q, k, cfg)
BY Begun DEF Stand

\* Steps from which the variables go on as they are.
LEMMA PlainSteps ==
    ASSUME Inv,
           \/ ReinstateApply \/ RetryApply \/ Fallback \/ FallbackApply \/ FallbackReady
           \/ GoneApply \/ GoneReady
           \/ PickApply \/ TproxyApply \/ TproxyCheck \/ StagedApply \/ RestoredApply
           \/ UnstageApply
    PROVE  Inv'
<1> USE MemoryTyped
<1>0. {"idle", "probe", "import", "leave", "fallbackApply", "fallbackReady", "fallbackLook",
       "goneReady", "tproxyCheck", "restoreStage", "stagedCheck", "finalize"} \subseteq Steps
  BY DEF Steps
<1>1. CASE ReinstateApply
  BY <1>0, <1>1, ApplyInv DEF ReinstateApply
<1>2. CASE RetryApply
  <2>1. PICK p \in {"idle", "probe"} :
           pc = "retryApply" /\ (Apply(p, Paid, loc, p, mem, loc) \/ Only(p, mem, loc))
    BY <1>2 DEF RetryApply
  <2>2. p \in Steps /\ (p = "idle" \/ Stand(p, loc, cfg))
    BY <1>0, <2>1, Onward DEF Holding, Restoring
  <2>3. CASE Apply(p, Paid, loc, p, mem, loc)
    BY <1>0, <2>2, <2>3, ApplyInv
  <2>4. CASE Only(p, mem, loc)
    BY <1>0, <2>2, <2>4, OnlyInv
  <2> QED BY <2>1, <2>3, <2>4
<1>3. CASE Fallback
  <2>1. Stand("fallbackApply", loc, cfg) /\ Stand("import", loc, cfg)
    BY <1>3, Onward DEF Holding, Restoring, Fallback
  <2> QED BY <1>0, <1>3, <2>1, EndInv, OnlyInv DEF Fallback
<1>4. CASE FallbackApply
  <2>1. Stand("fallbackReady", loc, cfg) /\ Stand("fallbackLook", loc, cfg)
    BY <1>4, Onward DEF Holding, Restoring, FallbackApply
  <2> QED BY <1>0, <1>4, <2>1, ApplyInv DEF FallbackApply
<1>5. CASE FallbackReady
  <2>1. Stand("import", loc, cfg) /\ Stand("fallbackLook", loc, cfg)
    BY <1>5, Onward DEF Holding, Restoring, FallbackReady
  <2> QED BY <1>0, <1>5, <2>1, OnlyInv DEF FallbackReady
<1>6. CASE GoneApply
  <2>1. Stand("goneReady", loc, cfg) /\ Stand("leave", loc, cfg)
    BY <1>6, Onward DEF Holding, Restoring, GoneApply
  <2> QED BY <1>0, <1>6, <2>1, ApplyInv DEF GoneApply
<1>7. CASE GoneReady
  <2>1. Stand("import", loc, cfg) /\ Stand("leave", loc, cfg)
    BY <1>7, Onward DEF Holding, Restoring, GoneReady
  <2> QED BY <1>0, <1>7, <2>1, OnlyInv DEF GoneReady
<1>8. CASE PickApply
  BY <1>0, <1>8, ApplyInv DEF PickApply
<1>9. CASE TproxyApply
  <2>1. Stand("tproxyCheck", loc, cfg)
    BY <1>9, Onward DEF Holding, Restoring, TproxyApply
  <2> QED BY <1>0, <1>9, <2>1, ApplyInv DEF TproxyApply
<1>10. CASE TproxyCheck
  <2>1. Stand("restoreStage", loc, cfg)
    BY <1>10, Onward DEF Holding, Restoring, TproxyCheck
  <2> QED BY <1>0, <1>10, <2>1, OnlyInv DEF TproxyCheck
<1>11. CASE StagedApply
  <2>1. Stand("stagedCheck", loc, cfg)
    BY <1>11, Onward DEF Holding, Restoring, StagedApply
  <2> QED BY <1>0, <1>11, <2>1, ApplyInv DEF StagedApply
<1>12. CASE RestoredApply
  <2>1. Stand("finalize", loc, cfg)
    BY <1>12, Onward DEF Holding, Restoring, RestoredApply
  <2> QED BY <1>0, <1>12, <2>1, ApplyInv DEF RestoredApply
<1>13. CASE UnstageApply
  BY <1>0, <1>13, ApplyInv DEF UnstageApply
<1> QED BY <1>1, <1>2, <1>3, <1>4, <1>5, <1>6, <1>7, <1>8, <1>9, <1>10, <1>11, <1>12, <1>13

LEMMA TickBeginsInv ==
    ASSUME Inv, TickBegins
    PROVE  Inv'
<1> DEFINE p == CASE cfg.pend # Nil -> "reconcile" [] cfg.fo # Nil -> "failover"
                  [] OTHER -> "retryApply"
           b == mem.pendingApply \/ (~mem.reconciled /\ cfg.fo # Nil)
           m == [mem EXCEPT !.reconciled = TRUE, !.pendingApply = b]
           l == [NoTick EXCEPT !.snap = cfg, !.seq = cfg.active]
<1>1. Goto(p, m, l) /\ cancelled' = FALSE /\ UNCHANGED <<cfg, kernel, edited, world>>
  BY DEF TickBegins
<1>2. m \in Memory
  <2>1. b \in BOOLEAN
    BY DEF Inv, Typed, Memory
  <2> HIDE DEF b
  <2> QED BY <2>1 DEF Inv, Typed, Memory
<1>3. cfg \in FC!Config /\ cfg.active \in Nat
  BY DEF Inv, FC!Config
<1>4. l \in Tick /\ l.snap = cfg /\ l.seq = cfg.active
  BY <1>3 DEF NoTick, Tick
<1>5. p \in {"reconcile", "failover", "retryApply"} /\ (p = "failover" => cfg.fo # Nil)
  OBVIOUS
<1> HIDE DEF p, m, l
<1>6. Stand(p, l, cfg)
  BY <1>3, <1>4, <1>5 DEF Stand, Holding, Restoring
<1>7. Standing' /\ pc' \in Steps /\ mem' = m
  <2>1. p \in Steps
    BY <1>5 DEF Steps
  <2> QED BY <1>1, <1>3, <1>6, <2>1, GotoStands
<1> QED BY <1>1, <1>2, <1>3, <1>7 DEF Inv, Typed, world

\* The end of a pending restore.
LEMMA RestoreEndsInv ==
    ASSUME Inv, Reconcile \/ ReconcileApply \/ Finalize
    PROVE  Inv'
<1> USE MemoryTyped
<1> USE DEF Holding, Restoring, Steps
<1>1. CASE Reconcile
  <2>1. pc = "reconcile"
    BY <1>1 DEF Reconcile
  <2>2. Stand("reconcileApply", loc, cfg) /\ Stand("finalize", loc, cfg)
    BY <2>1, Onward
  <2>3. [cfg EXCEPT !.pend = Nil] \in FC!Config
    BY ForgetTyped DEF Inv
  <2> QED BY <1>1, <2>2, <2>3, EndInv, OnlyInv, WriteInv DEF Reconcile
<1>2. CASE ReconcileApply
  <2> DEFINE k == [loc EXCEPT !.applied = TRUE]
  <2>1. PICK q \in {"idle", "probe"} :
           pc = "reconcileApply" /\ Apply("finalize", mem, k, q, Owing, loc)
    BY <1>2 DEF ReconcileApply
  <2>2. k \in Tick /\ k.seq = loc.seq /\ k.probed = loc.probed /\ k.snap = loc.snap
    BY <2>1, Begun DEF Tick
  <2>3. Stand("finalize", k, cfg)
    <3> HIDE DEF k
    <3> QED BY <2>1, <2>2, OnwardWith
  <2>4. q \in Steps /\ (q = "idle" \/ Stand(q, loc, cfg))
    BY <2>1, Onward
  <2>5. "finalize" \in Steps
    OBVIOUS
  <2> HIDE DEF Steps, Holding, Restoring, k
  <2> QED BY <2>1, <2>3, <2>4, <2>5, ApplyInv
<1>3. CASE Finalize
  <2>1. pc = "finalize"
    BY <1>3 DEF Finalize
  <2>2. Stand("reconcileApply", loc, cfg) /\ Stand("probe", loc, cfg)
        /\ Stand("reinstateApply", loc, cfg)
    BY <2>1, Onward
  <2> DEFINE f == [cfg EXCEPT !.pend = Nil]
             s == FC!FailoverSnapshot(cfg.pend, cfg)
             a == FC!ApplyFailoverSnapshot(cfg, s)
             g == [a EXCEPT !.pend = Nil]
  <2>3. f \in FC!Config
    BY ForgetTyped DEF Inv
  <2>4. ASSUME cfg.pend # Nil, s # Nil
        PROVE  g \in FC!Config /\ Stand("reinstateApply", loc, g)
    <3>1. a \in FC!Config /\ a.active = cfg.active
      BY <2>4, ReinstateTyped DEF Inv
    <3>2. g \in FC!Config /\ g.active = cfg.active
      <4> HIDE DEF a
      <4> QED BY <3>1, ForgetTyped
    <3> HIDE DEF g
    <3> QED BY <3>2, <2>2 DEF Stand
  <2>5. \/ End(Owing)
        \/ Only("reconcileApply", Owing, loc)
        \/ Write(f, "idle", IF kernel.tproxyReady THEN NewEpisode(Paid) ELSE Paid, loc)
        \/ Only(IF ~loc.applied THEN "reconcileApply"
                ELSE IF loc.snap.pend # Nil THEN "probe" ELSE "idle", Owing, loc)
        \/ cfg.pend # Nil /\ s # Nil /\ Write(g, "reinstateApply", Paid, loc)
    BY <1>3 DEF Finalize, pendingRestoreGuard
  <2> HIDE DEF f, g, s
  <2>6. CASE End(Owing) \/ Only("reconcileApply", Owing, loc)
    BY <2>6, <2>2, EndInv, OnlyInv
  <2>7. CASE Write(f, "idle", IF kernel.tproxyReady THEN NewEpisode(Paid) ELSE Paid, loc)
    BY <2>7, <2>3, WriteInv
  <2>8. CASE Only(IF ~loc.applied THEN "reconcileApply"
                  ELSE IF loc.snap.pend # Nil THEN "probe" ELSE "idle", Owing, loc)
    BY <2>8, <2>2, OnlyInv
  <2>9. CASE cfg.pend # Nil /\ s # Nil /\ Write(g, "reinstateApply", Paid, loc)
    BY <2>9, <2>4, WriteInv
  <2> QED BY <2>5, <2>6, <2>7, <2>8, <2>9
<1> QED BY <1>1, <1>2, <1>3

\* The same when the step writes f.
LEMMA OnwardWriting ==
    ASSUME Inv, pc # "idle", NEW q, q \notin {"stage", "stageApply"},
           NEW f \in FC!Config, f.active = cfg.active,
           q \in Holding => pc \in Holding /\ f.fo # Nil,
           q \in Restoring => pc \in Restoring,
           NEW k \in Tick,
           k.seq = loc.seq, k.probed = loc.probed, k.snap = f \/ k.snap = loc.snap
    PROVE  Stand(q, k, f)
BY Begun DEF Stand

\* An exit is a tunnel of the config it is looked up in.
LEMMA ExitsAreTunnels ==
    ASSUME NEW f \in FC!Config, NEW plat
    PROVE  TDExits(f, plat) \subseteq Tunnel
BY DEF TDExits, FC!Config

\* The death of the outbound, up to the apply of the staged clients.
LEMMA DeathInv ==
    ASSUME Inv, Probe \/ Dead \/ Stage \/ StageApply
    PROVE  Inv'
<1> USE MemoryTyped
<1>0. {"idle", "dead", "import", "stage", "stageApply", "pendingApply"} \subseteq Steps
  BY DEF Steps
<1>1. CASE Probe
  <2> DEFINE k == [Reread EXCEPT !.own = cfg.active]
  <2>1. pc = "probe" /\ (End(mem) \/ Only("dead", mem, loc) \/ Only("dead", mem, k))
    BY <1>1 DEF Probe
  <2>2. cfg \in FC!Config /\ loc \in Tick /\ cfg.active \in Nat
    BY <2>1, Begun DEF Inv
  <2>3. k \in Tick /\ k.seq = loc.seq /\ k.probed = loc.probed /\ k.snap = cfg
    BY <2>2 DEF Tick, Reread
  <2> HIDE DEF k
  <2>4. Stand("dead", loc, cfg) /\ Stand("dead", k, cfg)
    BY <2>1, <2>3, Onward, OnwardWith DEF Holding, Restoring
  <2> QED BY <1>0, <2>1, <2>4, EndInv, OnlyInv
<1>2. CASE Dead
  <2>1. pc = "dead"
    BY <1>2 DEF Dead
  <2>2. loc \in Tick /\ loc.snap \in FC!Config /\ Stand(pc, loc, cfg)
    BY <2>1, Begun
  <2>3. \/ End(mem) \/ Only("import", mem, loc)
        \/ \E t \in Tunnel : Only("stage", mem, [loc EXCEPT !.next = t])
    BY <1>2, <2>2, ExitsAreTunnels DEF Dead
  <2>4. Stand("import", loc, cfg)
    BY <2>1, Onward DEF Holding, Restoring
  <2>5. ASSUME NEW t \in Tunnel, Only("stage", mem, [loc EXCEPT !.next = t])
        PROVE  Inv'
    <3> DEFINE k == [loc EXCEPT !.next = t]
    <3>1. k \in Tick /\ k.seq = loc.seq /\ k.snap = loc.snap /\ k.next = t
      BY <2>2 DEF Tick
    <3>2. Only("stage", mem, k)
      BY <2>5
    <3> HIDE DEF k
    <3>3. Stand("stage", k, cfg)
      BY <2>2, <3>1 DEF Stand, Holding, Restoring
    <3> QED BY <1>0, <3>2, <3>3, OnlyInv
  <2> QED BY <1>0, <2>3, <2>4, <2>5, EndInv, OnlyInv
<1>3. CASE Stage
  <2> DEFINE f == FC!StageXrayClientsToTunnel(cfg, loc.next)
             g == [f EXCEPT !.pend = Nil]
  <2>1. /\ pc = "stage"
        /\ End(mem) \/ (f.fo # Nil /\ Write(g, "stageApply", NewEpisode(mem), loc))
    BY <1>3 DEF Stage
  <2>2. Stand("stage", loc, cfg) /\ loc.next \in Tunnel
    BY <2>1, Begun DEF Stand
  <2>3. f \in FC!Config /\ f.active = cfg.active
    BY <2>2, StageKeeps DEF Keeps, Inv
  <2>4. g \in FC!Config /\ g.active = cfg.active /\ g.fo = f.fo
    <3> HIDE DEF f
    <3> QED BY <2>3, ForgetTyped
  <2> HIDE DEF f, g
  <2>5. f.fo # Nil => Stand("stageApply", loc, g)
    BY <2>2, <2>4 DEF Stand, Holding, Restoring
  <2> QED BY <1>0, <2>1, <2>4, <2>5, EndInv, WriteInv
<1>4. CASE StageApply
  <2> DEFINE k == [Reread EXCEPT !.from = "death"]
  <2>1. pc = "stageApply" /\ Apply("pendingApply", mem, k, "import", Owing, k)
    BY <1>4 DEF StageApply
  <2>2. cfg \in FC!Config /\ loc \in Tick
    BY <2>1, Begun DEF Inv
  <2>3. k \in Tick /\ k.seq = loc.seq /\ k.probed = loc.probed /\ k.snap = cfg
    BY <2>2 DEF Tick, Reread
  <2> HIDE DEF k
  <2>4. Stand("pendingApply", k, cfg) /\ Stand("import", k, cfg)
    BY <2>1, <2>3, OnwardWith DEF Holding, Restoring
  <2> QED BY <1>0, <2>1, <2>4, ApplyInv
<1> QED BY <1>1, <1>2, <1>3, <1>4

\* A failover in force, as far as the apply that is owed.
LEMMA FailoverInv ==
    ASSUME Inv, Failover \/ Extend
    PROVE  Inv'
<1> USE MemoryTyped
<1>0. {"idle", "extend", "restore", "pendingApply"} \subseteq Steps
  BY DEF Steps
<1>1. CASE Failover
  <2> DEFINE k == [loc EXCEPT !.probed = cfg.active]
  <2>1. pc = "failover" /\ (End(mem) \/ Only("extend", mem, loc) \/ Only("restore", mem, k))
    BY <1>1 DEF Failover
  <2>2. Stand(pc, loc, cfg) /\ loc \in Tick /\ loc.seq <= cfg.active /\ cfg.active \in Nat
    BY <2>1, Begun
  <2>3. k \in Tick /\ k.seq = loc.seq /\ k.probed = cfg.active /\ k.snap = loc.snap
    BY <2>2 DEF Tick
  <2> HIDE DEF k
  <2>4. Stand("extend", loc, cfg)
    BY <2>1, Onward DEF Holding, Restoring
  <2>5. Stand("restore", k, cfg)
    BY <2>2, <2>3 DEF Stand, Holding, Restoring
  <2> QED BY <1>0, <2>1, <2>4, <2>5, EndInv, OnlyInv
<1>2. CASE Extend
  <2> DEFINE f == FC!ExtendXrayFailover(cfg)
             joined == FC!XrayClientsOutsideFailover(cfg) # {}
             on(g) == [loc EXCEPT !.snap = g, !.staged = FC!FailoverStaged(g)]
             m == IF joined THEN Owing ELSE mem
  <2>1. /\ pc = "extend"
        /\ \/ End(mem) \/ Only("pendingApply", mem, on(loc.snap))
           \/ Write(f, "pendingApply", m, on(f))
    BY <1>2 DEF Extend
  <2>2. loc \in Tick /\ Stand(pc, loc, cfg) /\ loc.snap \in FC!Config
    BY <2>1, Begun
  <2>3. cfg.fo # Nil /\ loc.snap.fo # Nil
    BY <2>1, <2>2 DEF Stand, Holding
  <2>4. f \in FC!Config /\ f.active = cfg.active /\ f.fo # Nil
    BY <2>3, ExtendKeeps DEF Keeps, Inv
  <2>5. ASSUME NEW g \in FC!Config
        PROVE  on(g) \in Tick /\ on(g).seq = loc.seq /\ on(g).probed = loc.probed /\ on(g).snap = g
    <3> DEFINE b == FC!FailoverStaged(g)
    <3>1. b \in BOOLEAN
      BY DEF FC!FailoverStaged
    <3>2. on(g) = [loc EXCEPT !.snap = g, !.staged = b]
      OBVIOUS
    <3> HIDE DEF b, on
    <3> QED BY <2>2, <3>1, <3>2 DEF Tick
  <2>6. m \in Memory
    OBVIOUS
  <2> HIDE DEF f, on, m
  <2>7. Stand("pendingApply", on(loc.snap), cfg)
    BY <2>1, <2>2, <2>5, OnwardWith DEF Holding, Restoring
  <2>8. Stand("pendingApply", on(f), f)
    BY <2>1, <2>4, <2>5, OnwardWriting DEF Holding, Restoring
  <2> QED BY <1>0, <2>1, <2>4, <2>6, <2>7, <2>8, EndInv, OnlyInv, WriteInv
<1> QED BY <1>1, <1>2

LEMMA AfterFailoverSteps ==
    ASSUME NEW ok, NEW m
    PROVE  AfterFailover(ok, m) \in {"gone", "import", "fallback"}
BY DEF AfterFailover

\* applyFailover.
LEMMA ApplyFailoverInv ==
    ASSUME Inv, PendingApply \/ Ready \/ Commit \/ CommitApply
    PROVE  Inv'
<1> USE MemoryTyped
<1>0. {"idle", "ready", "commit", "commitApply", "gone", "import", "fallback"} \subseteq Steps
  BY DEF Steps
<1>1. ASSUME pc \in Holding
      PROVE  /\ \A q \in {"ready", "gone", "import", "fallback"} : Stand(q, loc, cfg)
             /\ Stand(pc, loc, cfg) /\ loc \in Tick /\ loc.snap \in FC!Config
             /\ cfg.fo # Nil /\ loc.snap.fo # Nil
  <2>1. pc # "idle"
    BY <1>1 DEF Holding
  <2>2. Stand(pc, loc, cfg) /\ loc \in Tick /\ loc.snap \in FC!Config
    BY <2>1, Begun
  <2>3. cfg.fo # Nil /\ loc.snap.fo # Nil
    BY <1>1, <2>2 DEF Stand
  <2>4. \A q \in {"ready", "gone", "import", "fallback"} :
           q \notin {"stage", "stageApply"} /\ q \notin Restoring
    BY DEF Restoring
  <2> QED BY <1>1, <2>1, <2>2, <2>3, <2>4, Onward
<1>2. CASE PendingApply
  <2>1. PICK q \in {"gone", "import", "fallback"} :
           /\ pc = "pendingApply"
           /\ Apply("ready", Paid, Reread, q, mem, loc) \/ Only("ready", mem, loc)
    BY <1>2, AfterFailoverSteps DEF PendingApply
  <2>2. pc \in Holding /\ cfg \in FC!Config
    BY <2>1 DEF Holding, Inv
  <2>3. Reread \in Tick /\ Reread.seq = loc.seq /\ Reread.probed = loc.probed /\ Reread.snap = cfg
    BY <1>1, <2>2 DEF Tick, Reread
  <2>4. Stand("ready", Reread, cfg)
    BY <2>1, <2>2, <2>3, OnwardWith DEF Restoring
  <2>5. Stand("ready", loc, cfg) /\ Stand(q, loc, cfg) /\ "ready" \in Steps /\ q \in Steps
    BY <1>0, <1>1, <2>1, <2>2
  <2>6. CASE Only("ready", mem, loc)
    BY <2>5, <2>6, OnlyInv
  <2>7. CASE Apply("ready", Paid, Reread, q, mem, loc)
    BY <2>4, <2>5, <2>7, ApplyInv
  <2> QED BY <2>1, <2>6, <2>7
<1>3. CASE Ready
  <2> DEFINE k == [loc EXCEPT !.seen = kernel.tun[loc.snap.fo.tunnel]]
  <2>1. PICK q \in {"gone", "import", "fallback"} :
           pc = "ready" /\ (Only(q, mem, loc) \/ Only("commit", mem, k))
    BY <1>3, AfterFailoverSteps DEF Ready
  <2>2. pc \in Holding
    BY <2>1 DEF Holding
  <2>3. kernel.tun[loc.snap.fo.tunnel] \in SUBSET Client
    <3>1. loc.snap.fo \in FC!FailoverRecord
      BY <1>1, <2>2 DEF FC!Config
    <3>2. loc.snap.fo.tunnel \in Tunnel
      BY <3>1 DEF FC!FailoverRecord
    <3> QED BY <3>2 DEF Inv, Typed, Carried
  <2>4. k \in Tick /\ k.seq = loc.seq /\ k.probed = loc.probed /\ k.snap = loc.snap
    <3> DEFINE s == kernel.tun[loc.snap.fo.tunnel]
    <3>1. loc \in Tick /\ s \in SUBSET Client
      BY <1>1, <2>2, <2>3
    <3>2. k = [loc EXCEPT !.seen = s]
      OBVIOUS
    <3> HIDE DEF s, k
    <3> QED BY <3>1, <3>2 DEF Tick
  <2> HIDE DEF k
  <2>5. Stand("commit", k, cfg)
    BY <2>1, <2>2, <2>4, OnwardWith DEF Restoring
  <2>6. CASE Only(q, mem, loc)
    BY <1>0, <1>1, <2>1, <2>2, <2>6, OnlyInv
  <2>7. CASE Only("commit", mem, k)
    BY <1>0, <2>5, <2>7, OnlyInv
  <2> QED BY <2>1, <2>6, <2>7
<1>4. CASE Commit
  <2> DEFINE f == FC!CommitXrayFailover(cfg)
             k == [loc EXCEPT !.snap = f]
  <2>1. PICK q \in {"gone", "import", "fallback"} :
           pc = "commit" /\ (End(mem) \/ Only(q, mem, loc) \/ Write(f, "commitApply", mem, k))
    BY <1>4, AfterFailoverSteps DEF Commit
  <2>2. pc \in Holding
    BY <2>1 DEF Holding
  <2>3. f \in FC!Config /\ f.active = cfg.active /\ f.fo # Nil
    BY <1>1, <2>2, CommitKeeps DEF Keeps, Inv
  <2> HIDE DEF f
  <2>4. k \in Tick /\ k.seq = loc.seq /\ k.probed = loc.probed /\ k.snap = f
    BY <1>1, <2>2, <2>3 DEF Tick
  <2> HIDE DEF k
  <2>5. Stand("commitApply", k, f)
    BY <2>1, <2>2, <2>3, <2>4, OnwardWriting DEF Restoring
  <2>6. CASE End(mem)
    BY <2>6, EndInv
  <2>7. CASE Only(q, mem, loc)
    BY <1>0, <1>1, <2>1, <2>2, <2>7, OnlyInv
  <2>8. CASE Write(f, "commitApply", mem, k)
    BY <1>0, <2>3, <2>5, <2>8, WriteInv
  <2> QED BY <2>1, <2>6, <2>7, <2>8
<1>5. CASE CommitApply
  <2>1. PICK p \in {"gone", "import", "fallback"}, q \in {"gone", "import", "fallback"} :
           pc = "commitApply" /\ Apply(p, NewEpisode(mem), loc, q, Owing, loc)
    BY <1>5, AfterFailoverSteps DEF CommitApply
  <2>2. pc \in Holding
    BY <2>1 DEF Holding
  <2>3. p \in Steps /\ q \in Steps /\ Stand(p, loc, cfg) /\ Stand(q, loc, cfg)
    BY <1>0, <1>1, <2>1, <2>2
  <2> QED BY <2>1, <2>3, ApplyInv
<1> QED BY <1>2, <1>3, <1>4, <1>5

\* A fallback that is not ready, or no longer.
LEMMA LeaveInv ==
    ASSUME Inv, FallbackLook \/ Gone \/ Leave
    PROVE  Inv'
<1> USE MemoryTyped
<1>0. {"idle", "import", "leave", "goneApply", "retarget"} \subseteq Steps
  BY DEF Steps
<1>1. pc \in {"fallbackLook", "gone", "leave"}
  BY DEF FallbackLook, Gone, Leave
<1>2. /\ pc # "idle" /\ pc # "stageApply" /\ pc \in Holding
      /\ loc \in Tick /\ loc.snap \in FC!Config /\ Stand(pc, loc, cfg)
  BY <1>1, Begun DEF Holding
<1>3. loc.snap.fo \in FC!FailoverRecord
  BY <1>2 DEF Stand, FC!Config
<1>4. Stand("import", loc, cfg)
  BY <1>2, Onward DEF Holding, Restoring
<1>5. ASSUME NEW m \in Memory, NEW t \in Tunnel \cup {Nil},
             Only("retarget", m, [loc EXCEPT !.next = t])
      PROVE  Inv'
  <2> DEFINE k == [loc EXCEPT !.next = t]
  <2>1. k \in Tick /\ k.seq = loc.seq /\ k.probed = loc.probed /\ k.snap = loc.snap
    BY <1>2 DEF Tick
  <2>2. Only("retarget", m, k)
    BY <1>5
  <2> HIDE DEF k
  <2>3. Stand("retarget", k, cfg)
    BY <1>2, <2>1, OnwardWith DEF Restoring
  <2> QED BY <1>0, <2>2, <2>3, OnlyInv
<1>6. CASE FallbackLook
  <2> DEFINE tried == mem.fallbackTried \cup {loc.snap.fo.tunnel}
             m == [mem EXCEPT !.fallbackTried = tried]
  <2>1. tried \in SUBSET Tunnel
    BY <1>3 DEF FC!FailoverRecord, Inv, Typed, Memory
  <2>2. m \in Memory
    <3> HIDE DEF tried
    <3> QED BY <2>1 DEF Inv, Typed, Memory
  <2>3. \/ End(mem) \/ Only("import", mem, loc) \/ Only("import", NewEpisode(mem), loc)
        \/ \E t \in Tunnel : Only("retarget", m, [loc EXCEPT !.next = t])
    BY <1>2, <1>6, ExitsAreTunnels DEF FallbackLook
  <2> HIDE DEF m
  <2>4. CASE End(mem)
    BY <2>4, EndInv
  <2>5. CASE Only("import", mem, loc) \/ Only("import", NewEpisode(mem), loc)
    BY <1>0, <1>4, <2>5, OnlyInv
  <2>6. CASE \E t \in Tunnel : Only("retarget", m, [loc EXCEPT !.next = t])
    BY <1>5, <2>2, <2>6
  <2> QED BY <2>3, <2>4, <2>5, <2>6
<1>7. CASE Gone
  <2>1. \/ End(mem) \/ Only("import", mem, loc)
        \/ \E plat \in Platforms, q \in {"leave", "import", "goneApply"} :
              Only(q, mem, [loc EXCEPT !.plat = plat])
    BY <1>7 DEF Gone
  <2>2. ASSUME NEW plat \in Platforms, NEW q \in {"leave", "import", "goneApply"},
               Only(q, mem, [loc EXCEPT !.plat = plat])
        PROVE  Inv'
    <3> DEFINE k == [loc EXCEPT !.plat = plat]
    <3>1. plat \in SUBSET Tunnel
      BY DEF Platforms, Inv, Typed
    <3>2. k \in Tick /\ k.seq = loc.seq /\ k.probed = loc.probed /\ k.snap = loc.snap
      BY <1>2, <3>1 DEF Tick
    <3>3. Only(q, mem, k)
      BY <2>2
    <3> HIDE DEF k
    <3>4. q \notin Restoring /\ q \in Steps /\ q \notin {"stage", "stageApply"}
      BY <1>0 DEF Restoring
    <3>5. Stand(q, k, cfg)
      BY <1>2, <3>2, <3>4, OnwardWith
    <3> QED BY <3>3, <3>4, <3>5, OnlyInv
  <2>3. CASE End(mem)
    BY <2>3, EndInv
  <2>4. CASE Only("import", mem, loc)
    BY <1>0, <1>4, <2>4, OnlyInv
  <2> QED BY <2>1, <2>2, <2>3, <2>4
<1>8. CASE Leave
  <2>1. \/ End(mem) \/ Only("import", mem, loc)
        \/ \E t \in Tunnel \cup {Nil} : Only("retarget", mem, [loc EXCEPT !.next = t])
    BY <1>2, <1>8, ExitsAreTunnels DEF Leave
  <2>2. CASE End(mem)
    BY <2>2, EndInv
  <2>3. CASE Only("import", mem, loc)
    BY <1>0, <1>4, <2>3, OnlyInv
  <2>4. CASE \E t \in Tunnel \cup {Nil} : Only("retarget", mem, [loc EXCEPT !.next = t])
    BY <1>5, <2>4
  <2> QED BY <2>1, <2>2, <2>3, <2>4
<1> QED BY <1>6, <1>7, <1>8

\* The move to another exit, or back to Xray.
LEMMA RetargetInv ==
    ASSUME Inv, Retarget \/ RetargetApply
    PROVE  Inv'
<1> USE MemoryTyped
<1>0. {"idle", "import", "retargetApply"} \subseteq Steps
  BY DEF Steps
<1>1. CASE Retarget
  <2> DEFINE f == FC!RestoreXrayClientsFromFailover(cfg)
             g == IF loc.next = Nil THEN f ELSE FC!StageXrayClientsToTunnel(f, loc.next)
             m == IF loc.plat = Nil THEN mem ELSE NewEpisode(mem)
  <2>1. /\ pc = "retarget"
        /\ End(mem) \/ Only("import", mem, loc) \/ Write(g, "retargetApply", m, loc)
    BY <1>1 DEF Retarget
  <2>2. loc \in Tick /\ loc.next \in Tunnel \cup {Nil}
    BY <2>1, Begun DEF Tick
  <2>3. f \in FC!Config /\ f.active = cfg.active
    BY RestoreTyped DEF Inv
  <2>4. g \in FC!Config /\ g.active = cfg.active
    <3> HIDE DEF f
    <3> QED BY <2>2, <2>3, StageKeeps DEF Keeps
  <2>5. m \in Memory
    OBVIOUS
  <2> HIDE DEF f, g, m
  <2>6. Stand("import", loc, cfg)
    BY <2>1, Onward DEF Holding, Restoring
  <2>7. Stand("retargetApply", loc, g)
    BY <2>1, <2>2, <2>4, OnwardWriting DEF Holding, Restoring
  <2> QED BY <1>0, <2>1, <2>4, <2>5, <2>6, <2>7, EndInv, OnlyInv, WriteInv
<1>2. CASE RetargetApply
  <2>1. pc = "retargetApply" /\ Apply("import", mem, Reread, "import", Owing, Reread)
    BY <1>2 DEF RetargetApply
  <2>2. loc \in Tick /\ cfg \in FC!Config
    BY <2>1, Begun DEF Inv
  <2>3. Reread \in Tick /\ Reread.seq = loc.seq /\ Reread.probed = loc.probed /\ Reread.snap = cfg
    BY <2>2 DEF Tick, Reread
  <2>4. Stand("import", Reread, cfg)
    BY <2>1, <2>3, OnwardWith DEF Holding, Restoring
  <2> QED BY <1>0, <2>1, <2>4, ApplyInv
<1> QED BY <1>1, <1>2

\* The walk over the servers.
LEMMA WalkInv ==
    ASSUME Inv, Import \/ Walk \/ Walked
    PROVE  Inv'
<1> USE MemoryTyped
<1>0. {"idle", "walk", "walked", "restore"} \subseteq Steps
  BY DEF Steps
<1>1. CASE Import
  <2> DEFINE k == [loc EXCEPT !.seq = loc.snap.active]
  <2>1. pc = "import" /\ (End(mem) \/ Only("walk", mem, k))
    BY <1>1 DEF Import
  <2>2. Stand(pc, loc, cfg) /\ loc \in Tick /\ loc.snap.active \in Nat
        /\ loc.snap.active <= cfg.active
    BY <2>1, Begun DEF Stand
  <2>3. k \in Tick /\ k.seq = loc.snap.active /\ k.snap = loc.snap
    BY <2>2 DEF Tick
  <2> HIDE DEF k
  <2>4. Stand("walk", k, cfg)
    BY <2>2, <2>3 DEF Stand, Holding, Restoring
  <2> QED BY <1>0, <2>1, <2>4, EndInv, OnlyInv
<1>2. CASE Walk
  <2> DEFINE n == cfg.active + 1
             g == [cfg EXCEPT !.active = n]
             o == IF loc.own = Nil THEN Nil ELSE n
             k == [loc EXCEPT !.seq = n, !.own = o]
  <2>0. pc = "walk" /\ cfg \in FC!Config
    BY <1>2 DEF Walk, Inv
  <2>1. n \in Nat /\ g \in FC!Config /\ g.active = n /\ cfg.active <= n
    BY <2>0 DEF FC!Config
  <2>2. \/ End(mem) \/ Only("walked", mem, loc)
        \/ /\ cfg' = g
           /\ Goto("walked", mem, k)
           /\ UNCHANGED <<user, kernel, cancelled, edited, world>>
    <3>1. CASE End(mem) \/ Only("walked", mem, loc)
      BY <3>1
    <3>2. CASE ~(End(mem) \/ Only("walked", mem, loc))
      <4>1. /\ cfg' = g
            /\ Goto("walked", mem, [loc EXCEPT !.seq = cfg'.active,
                                               !.own = IF @ = Nil THEN Nil ELSE cfg'.active])
            /\ UNCHANGED <<user, kernel, cancelled, edited, world>>
        BY <1>2, <3>2 DEF Walk
      <4>2. cfg'.active = n
        BY <2>1, <4>1
      <4>3. [loc EXCEPT !.seq = cfg'.active, !.own = IF @ = Nil THEN Nil ELSE cfg'.active] = k
        <5> HIDE DEF n, g
        <5> QED BY <4>2
      <4> HIDE DEF k, g
      <4> QED BY <4>1, <4>3
    <3> QED BY <3>1, <3>2
  <2>3. Stand(pc, loc, cfg) /\ loc \in Tick /\ loc.snap.active \in Nat
        /\ loc.snap.active <= cfg.active /\ cfg.active \in Nat
    BY <2>0, Begun DEF Stand
  <2>4. k \in Tick /\ k.seq = n /\ k.snap = loc.snap
    <3>1. o \in Nat \cup {Nil}
      BY <2>1
    <3> HIDE DEF n, o
    <3> QED BY <2>1, <2>3, <3>1 DEF Tick
  <2>5. Stand("walked", k, g)
    <3>1. loc.snap.active <= n
      BY <2>3
    <3> HIDE DEF n, g, k
    <3> QED BY <2>1, <2>4, <3>1 DEF Stand, Holding, Restoring
  <2>6. Stand("walked", loc, cfg)
    BY <2>0, Onward DEF Holding, Restoring
  <2> HIDE DEF n, g, k
  <2>7. ASSUME cfg' = g, Goto("walked", mem, k),
               UNCHANGED <<user, kernel, cancelled, edited, world>>
        PROVE  Inv'
    <3>1. Standing' /\ pc' \in Steps /\ mem' = mem
      BY <1>0, <2>1, <2>5, <2>7, GotoStands
    <3> QED BY <2>1, <2>7, <3>1 DEF Inv, Typed, world
  <2>8. CASE End(mem)
    BY <2>8, EndInv
  <2>9. CASE Only("walked", mem, loc)
    BY <1>0, <2>6, <2>9, OnlyInv
  <2> QED BY <2>2, <2>7, <2>8, <2>9
<1>3. CASE Walked
  <2> DEFINE k == [loc EXCEPT !.probed = cfg.active]
  <2>1. PICK q \in {"restore", "idle"} :
           pc = "walked" /\ (End(mem) \/ Only("walk", mem, loc) \/ Only(q, mem, k))
    BY <1>3 DEF Walked
  <2>2. Stand(pc, loc, cfg) /\ loc \in Tick /\ loc.seq <= cfg.active /\ cfg.active \in Nat
    BY <2>1, Begun
  <2>3. k \in Tick /\ k.seq = loc.seq /\ k.probed = cfg.active /\ k.snap = loc.snap
    BY <2>2 DEF Tick
  <2> HIDE DEF k
  <2>4. Stand("restore", k, cfg)
    BY <2>2, <2>3 DEF Stand, Holding, Restoring
  <2>5. Stand("walk", loc, cfg)
    BY <2>1, Onward DEF Holding, Restoring
  <2>6. q \in Steps /\ (q = "idle" \/ Stand(q, k, cfg))
    BY <1>0, <2>4
  <2>7. CASE Only(q, mem, k)
    BY <2>6, <2>7, OnlyInv
  <2>8. CASE Only("walk", mem, loc)
    BY <1>0, <2>5, <2>8, OnlyInv
  <2>9. CASE End(mem)
    BY <2>9, EndInv
  <2> QED BY <2>1, <2>7, <2>8, <2>9
<1> QED BY <1>1, <1>2, <1>3

\* commitRestore.
LEMMA CommitRestoreInv ==
    ASSUME Inv, Restore \/ RestoreStage \/ StagedCheck \/ RestoreBegin \/ Unstage
    PROVE  Inv'
<1> USE MemoryTyped
<1>0. {"idle", "pickApply", "restoreStage", "tproxyApply", "stagedApply", "restoreBegin",
       "unstage", "restoredApply", "unstageApply"} \subseteq Steps
  BY DEF Steps
<1>1. CASE Restore
  <2> DEFINE b == FC!FailoverCommitted(loc.snap)
             k == [loc EXCEPT !.committed = b]
  <2>1. PICK q \in {"restoreStage", "tproxyApply", "idle"} :
           pc = "restore" /\ (End(mem) \/ Only("pickApply", mem, loc) \/ Only(q, mem, k))
    BY <1>1 DEF Restore
  <2>2. b \in BOOLEAN
    BY DEF FC!FailoverCommitted
  <2> HIDE DEF b
  <2>3. k \in Tick /\ k.seq = loc.seq /\ k.probed = loc.probed /\ k.snap = loc.snap
    BY <2>1, <2>2, Begun DEF Tick
  <2> HIDE DEF k
  <2>4. q \in Steps /\ (q = "idle" \/ Stand(q, k, cfg))
    BY <1>0, <2>1, <2>3, OnwardWith DEF Holding, Restoring
  <2>5. Stand("pickApply", loc, cfg)
    BY <2>1, Onward DEF Holding, Restoring
  <2>6. CASE End(mem)
    BY <2>6, EndInv
  <2>7. CASE Only("pickApply", mem, loc)
    BY <1>0, <2>5, <2>7, OnlyInv
  <2>8. CASE Only(q, mem, k)
    BY <2>4, <2>8, OnlyInv
  <2> QED BY <2>1, <2>6, <2>7, <2>8
<1>2. CASE RestoreStage
  <2> DEFINE f == FC!EnsureFailoverStaged(cfg)
  <2>1. pc = "restoreStage" /\ (End(mem) \/ Write(f, "stagedApply", mem, loc))
    BY <1>2 DEF RestoreStage
  <2>2. f \in FC!Config /\ f.active = cfg.active
    BY EnsureKeeps DEF Keeps, Inv
  <2> HIDE DEF f
  <2>3. Stand("stagedApply", loc, f)
    BY <2>1, <2>2, Begun, OnwardWriting DEF Holding, Restoring
  <2> QED BY <1>0, <2>1, <2>2, <2>3, EndInv, WriteInv
<1>3. CASE StagedCheck
  <2> DEFINE k == [loc EXCEPT !.seen = kernel.xray]
  <2>1. PICK q \in {"unstage", "idle"} :
           pc = "stagedCheck" /\ (Only("restoreBegin", mem, k) \/ Only(q, mem, loc))
    BY <1>3 DEF StagedCheck
  <2>2. kernel.xray \in SUBSET Client
    BY DEF Inv, Typed, Carried
  <2>3. k \in Tick /\ k.seq = loc.seq /\ k.probed = loc.probed /\ k.snap = loc.snap
    BY <2>1, <2>2, Begun DEF Tick
  <2> HIDE DEF k
  <2>4. Stand("restoreBegin", k, cfg)
    BY <2>1, <2>3, OnwardWith DEF Holding, Restoring
  <2>5. Stand("unstage", loc, cfg)
    BY <2>1, Onward DEF Holding, Restoring
  <2>6. CASE Only("restoreBegin", mem, k)
    BY <1>0, <2>4, <2>6, OnlyInv
  <2>7. CASE Only(q, mem, loc)
    BY <1>0, <2>5, <2>7, OnlyInv
  <2> QED BY <2>1, <2>6, <2>7
<1>4. CASE RestoreBegin
  <2> DEFINE f == FC!BeginXrayRestore(cfg)
             k == [loc EXCEPT !.applied = TRUE]
  <2>1. PICK q \in {"unstage", "idle"} :
           /\ pc = "restoreBegin"
           /\ End(mem) \/ Only(q, mem, loc) \/ Write(f, "restoredApply", mem, k)
    BY <1>4 DEF RestoreBegin
  <2>2. f \in FC!Config /\ f.active = cfg.active
    BY BeginTyped DEF Inv
  <2>3. k \in Tick /\ k.seq = loc.seq /\ k.probed = loc.probed /\ k.snap = loc.snap
    BY <2>1, Begun DEF Tick
  <2> HIDE DEF f, k
  <2>4. Stand("restoredApply", k, f)
    BY <2>1, <2>2, <2>3, OnwardWriting DEF Holding, Restoring
  <2>5. Stand("unstage", loc, cfg)
    BY <2>1, Onward DEF Holding, Restoring
  <2>6. CASE End(mem)
    BY <2>6, EndInv
  <2>7. CASE Only(q, mem, loc)
    BY <1>0, <2>5, <2>7, OnlyInv
  <2>8. CASE Write(f, "restoredApply", mem, k)
    BY <1>0, <2>2, <2>4, <2>8, WriteInv
  <2> QED BY <2>1, <2>6, <2>7, <2>8
<1>5. CASE Unstage
  <2> DEFINE f == FC!CommitXrayFailover(cfg)
  <2>1. pc = "unstage" /\ (End(mem) \/ Write(f, "unstageApply", mem, loc))
    BY <1>5 DEF Unstage
  <2>2. f \in FC!Config /\ f.active = cfg.active
    BY CommitKeeps DEF Keeps, Inv
  <2> HIDE DEF f
  <2>3. Stand("unstageApply", loc, f)
    BY <2>1, <2>2, Begun, OnwardWriting DEF Holding, Restoring
  <2> QED BY <1>0, <2>1, <2>2, <2>3, EndInv, WriteInv
<1> QED BY <1>1, <1>2, <1>3, <1>4, <1>5

LEMMA TickInv ==
    ASSUME Inv, WatchNext
    PROVE  Inv'
BY PlainSteps, TickBeginsInv, RestoreEndsInv, DeathInv, FailoverInv, ApplyFailoverInv,
   LeaveInv, RetargetInv, WalkInv, CommitRestoreInv
   DEF WatchNext

-----------------------------------------------------------------------------
(* The initial state, and everybody else                                   *)

LEMMA InitialFile ==
    ASSUME FC!Init
    PROVE  cfg \in FC!Config
<1> USE NilIsNoRecord
<1>1. want \in [Client -> SUBSET FC!Route]
  BY DEF FC!Init, FC!UserLists
<1>2. ASSUME NEW p \in SUBSET Client
      PROVE  FC!InitialAssignment(want, p) \in FC!Config
  <2> DEFINE e == [xray |-> {}, keys |-> {}, tun |-> [t \in Tunnel |-> {}],
                   paused |-> p, fo |-> Nil, pend |-> Nil, active |-> 0]
  <2>1. e \in FC!Config
    BY DEF FC!Config
  <2> HIDE DEF e
  <2>2. FC!Assigned(e, want) \in FC!Config
    BY <2>1 DEF FC!Assigned, FC!Config
  <2> QED BY <2>2 DEF FC!InitialAssignment, e
<1>3. ASSUME NEW f \in FC!Config, NEW t \in f.keys,
             NEW C \in SUBSET FC!CarriableXrayClients(f), NEW off \in {{}, C}
      PROVE  FC!LegacyFailover(f, t, C, off) \in FC!Config
  <2> DEFINE h == [tunnel |-> t, clients |-> C, added |-> {}, legacy |-> TRUE,
                   committed |-> FALSE]
             u == FC!PutOn(f.tun, t, C)
             x == f.xray \ off
  <2>1. t \in Tunnel /\ C \in SUBSET Client
    BY DEF FC!CarriableXrayClients, FC!EffectiveXrayClients, FC!Config
  <2>2. h \in FC!FailoverRecord
    BY <2>1 DEF FC!FailoverRecord
  <2>3. u \in [Tunnel -> SUBSET Client] /\ x \in SUBSET Client
    BY <2>1 DEF FC!PutOn, FC!Config
  <2>4. FC!LegacyFailover(f, t, C, off) = [f EXCEPT !.xray = x, !.tun = u, !.fo = h]
    BY DEF FC!LegacyFailover
  <2> HIDE DEF h, u, x
  <2> QED BY <2>2, <2>3, <2>4 DEF FC!Config
<1>4. PICK p \in SUBSET Client :
         LET f == FC!InitialAssignment(want, p)
         IN  \/ cfg = f
             \/ \E t \in f.keys, C \in SUBSET FC!CarriableXrayClients(f) :
                   \E off \in {{}, C} : cfg = FC!LegacyFailover(f, t, C, off)
  BY DEF FC!Init
<1> QED BY <1>2, <1>3, <1>4

LEMMA InitInv == Init => Inv
<1> SUFFICES ASSUME Init PROVE Inv
  OBVIOUS
<1>1. cfg \in FC!Config
  BY InitialFile DEF Init
<1>2. Standing
  BY DEF Init, Standing
<1>3. kernel \in Carried
  BY DEF Init, Nothing, Carried
<1>4. Typed
  <2>1. edits \in 0..MaxEdits
    BY WatchAssumption DEF Init
  <2>2. pc \in Steps /\ mem \in Memory
    BY DEF Init, Steps, Memory, NewProcess
  <2> QED BY <1>3, <2>1, <2>2 DEF Init, Typed
<1> QED BY <1>1, <1>2, <1>4 DEF Inv

LEMMA OthersInv ==
    ASSUME Inv, Environment
    PROVE  Inv'
<1>1. CASE UserWrites
  <2>1. /\ UNCHANGED <<cancelled, pc, mem, loc, kernel, stopped, calm, up, exits>>
        /\ edits' \in 0..MaxEdits
        /\ edited' \in SUBSET Client
    <3>1. edits + 1 \in 0..MaxEdits
      BY <1>1, WatchAssumption DEF UserWrites, Inv, Typed
    <3> QED BY <1>1, <3>1 DEF UserWrites, tick, Inv, Typed, Touched
  <2>2. /\ cfg' \in FC!Config
        /\ cfg.active <= cfg'.active
        /\ cfg.fo # Nil => cfg'.fo # Nil
    BY <1>1, EditsFollow DEF Inv
  <2>3. Standing'
    BY <2>1, <2>2, StandHolds DEF Inv, Standing
  <2> QED BY <2>1, <2>2, <2>3 DEF Inv, Typed
<1>2. CASE OtherApply \/ StartAgain
  <2>1. UNCHANGED <<cfg, cancelled, pc, mem, loc, edited, calm, up, exits, edits>>
        /\ stopped' \in BOOLEAN
    BY <1>2 DEF OtherApply, StartAgain, tick, world, Inv, Typed
  <2>2. kernel' \in Carried
    BY <1>2, OutcomesTyped DEF OtherApply, StartAgain, Inv, Typed
  <2> QED BY <2>1, <2>2 DEF Inv, Typed, Standing
<1>3. CASE Stop
  <2>1. UNCHANGED <<cfg, pc, mem, loc, edited, calm, up, exits, edits>>
        /\ stopped' \in BOOLEAN /\ cancelled' \in BOOLEAN
    BY <1>3 DEF Stop, Inv, Typed
  <2>2. kernel' \in Carried
    BY <1>3 DEF Stop, Nothing, Carried
  <2> QED BY <2>1, <2>2 DEF Inv, Typed, Standing
<1>4. CASE Crash
  <2>1. pc' = "idle" /\ loc' = NoTick /\ mem' \in Memory /\ cancelled' \in BOOLEAN
    BY <1>4 DEF Crash, Goto, NewProcess, Memory
  <2>2. UNCHANGED <<cfg, kernel, edited, world>>
    BY <1>4 DEF Crash
  <2> QED BY <2>1, <2>2 DEF Inv, Typed, Standing, Steps, world
<1> QED BY <1>1, <1>2, <1>3, <1>4 DEF Environment

LEMMA NextInv == Inv /\ [Next]_vars => Inv'
<1>1. Inv /\ UNCHANGED vars => Inv'
  BY DEF Inv, Typed, Standing, vars, world
<1> QED BY <1>1, TickInv, OthersInv DEF Next

\* Between any two waits of a tick the watch's variables have their types and the
\* step it is at finds in the file and in its own memory what it goes by.
THEOREM Invariance == Spec => []Inv
BY InitInv, NextInv, PTL DEF Spec

\* What the router carries, the memory of the process and the place of the tick
\* are what the code's types and its switch of steps allow; a tick has variables
\* exactly while it runs.
THEOREM TypeCorrect == Spec => []TypeOK
<1>1. Inv => TypeOK
  <2>1. Inv /\ pc # "idle" => loc.snap # Nil
    BY Begun, WatchAssumption
  <2>2. NoTick.snap = Nil
    BY DEF NoTick
  <2> QED BY <2>1, <2>2 DEF Inv, Typed, Standing, TypeOK
<1> QED BY <1>1, Invariance, PTL

-----------------------------------------------------------------------------
(* The refinement of FailoverConfig                                        *)

LEMMA OnlyStutters ==
    ASSUME NEW p, NEW m, NEW l, Only(p, m, l)
    PROVE  UNCHANGED <<cfg, user>>
BY DEF Only

LEMMA EndStutters ==
    ASSUME NEW m, End(m)
    PROVE  UNCHANGED <<cfg, user>>
BY OnlyStutters DEF End

LEMMA ApplyStutters ==
    ASSUME NEW p, NEW mp, NEW lp, NEW q, NEW mq, NEW lq, Apply(p, mp, lp, q, mq, lq)
    PROVE  UNCHANGED <<cfg, user>>
BY EndStutters DEF Apply

\* Every step of a tick makes a write FailoverConfig allows the watch, under the
\* config lock and with the guards checked there, or none.
LEMMA TickRefines ==
    ASSUME Inv, WatchNext
    PROVE  UNCHANGED <<cfg, user>> \/ FC!WatchNext \/ FC!RecordActiveServer
<1>1. CASE TickBegins
  BY <1>1 DEF TickBegins
<1>2. CASE ReconcileApply \/ ReinstateApply \/ StageApply \/ CommitApply \/ FallbackApply
           \/ GoneApply \/ RetargetApply \/ PickApply \/ TproxyApply \/ StagedApply
           \/ RestoredApply \/ UnstageApply \/ RetryApply \/ PendingApply
  BY <1>2, ApplyStutters, OnlyStutters
     DEF ReconcileApply, ReinstateApply, StageApply, CommitApply, FallbackApply,
         GoneApply, RetargetApply, PickApply, TproxyApply, StagedApply,
         RestoredApply, UnstageApply, RetryApply, PendingApply
<1>3. CASE Probe \/ Dead \/ Failover \/ Ready \/ Fallback \/ FallbackReady \/ FallbackLook
  BY <1>3, OnlyStutters, EndStutters
     DEF Probe, Dead, Failover, Ready, Fallback, FallbackReady, FallbackLook
<1>4. CASE Gone \/ GoneReady \/ Leave \/ Import \/ Walked \/ Restore \/ TproxyCheck \/ StagedCheck
  BY <1>4, OnlyStutters, EndStutters
     DEF Gone, GoneReady, Leave, Import, Walked, Restore, TproxyCheck, StagedCheck
<1>5. CASE Reconcile
  <2>1. \/ UNCHANGED <<cfg, user>>
        \/ /\ cfg.pend # Nil /\ cfg.pend.active # cfg.active
           /\ cfg' = [cfg EXCEPT !.pend = Nil] /\ UNCHANGED user
    BY <1>5, OnlyStutters, EndStutters DEF Reconcile, Write
  <2> QED BY <2>1 DEF FC!WatchNext, FC!DiscardRestore, user
<1>6. CASE Finalize
  <2> DEFINE s == FC!FailoverSnapshot(cfg.pend, cfg)
             ready == kernel.tproxyReady
  <2>1. \/ UNCHANGED <<cfg, user>>
        \/ /\ FC!pendingRestoreGuard /\ (ready \/ s = Nil)
           /\ cfg' = [cfg EXCEPT !.pend = Nil] /\ UNCHANGED user
        \/ /\ FC!pendingRestoreGuard /\ s # Nil /\ s.tunnel \in cfg.keys
           /\ cfg' = [FC!ApplyFailoverSnapshot(cfg, s) EXCEPT !.pend = Nil] /\ UNCHANGED user
    BY <1>6, OnlyStutters, EndStutters
       DEF Finalize, Write, pendingRestoreGuard, FC!pendingRestoreGuard
  <2>2. ready \in BOOLEAN
    BY DEF Inv, Typed, Carried
  <2> QED BY <2>1, <2>2 DEF FC!WatchNext, FC!FinishRestore, FC!ReinstateFailover, user
<1>7. CASE Stage
  <2> DEFINE f == FC!StageXrayClientsToTunnel(cfg, loc.next)
  <2>1. \/ UNCHANGED <<cfg, user>>
        \/ /\ cfg.pend # Nil => cfg.fo = Nil /\ cfg.pend.active = cfg.active
           /\ f.fo # Nil
           /\ cfg' = [f EXCEPT !.pend = Nil] /\ UNCHANGED user
    BY <1>7, EndStutters DEF Stage, Write, pendingRestoreGuard
  <2>2. loc.next \in Tunnel
    BY <1>7, Begun DEF Stage, Stand
  <2> QED BY <2>1, <2>2 DEF FC!WatchNext, FC!FailOutbound, user
<1>8. CASE Extend
  <2>1. \/ UNCHANGED <<cfg, user>>
        \/ cfg' = FC!ExtendXrayFailover(cfg) /\ UNCHANGED user
    BY <1>8, OnlyStutters, EndStutters DEF Extend, Write
  <2>2. FC!XrayClientsOutsideFailover(cfg) = {} => FC!ExtendXrayFailover(cfg) = cfg
    BY DEF FC!ExtendXrayFailover
  <2> QED BY <2>1, <2>2 DEF FC!WatchNext, FC!ExtendFailover, user
<1>9. CASE Commit \/ Unstage
  <2>1. \/ UNCHANGED <<cfg, user>>
        \/ cfg' = FC!CommitXrayFailover(cfg) /\ UNCHANGED user
    BY <1>9, OnlyStutters, EndStutters DEF Commit, Unstage, Write
  <2>2. cfg.fo = Nil => FC!CommitXrayFailover(cfg) = cfg
    BY DEF FC!CommitXrayFailover
  <2> QED BY <2>1, <2>2 DEF FC!WatchNext, FC!CommitFailover, user
<1>10. CASE Retarget
  <2> DEFINE f == FC!RestoreXrayClientsFromFailover(cfg)
  <2>1. \/ UNCHANGED <<cfg, user>>
        \/ /\ cfg' = IF loc.next = Nil THEN f ELSE FC!StageXrayClientsToTunnel(f, loc.next)
           /\ UNCHANGED user
    BY <1>10, OnlyStutters, EndStutters DEF Retarget, Write
  <2>2. cfg.fo # Nil /\ loc.next \in Tunnel \cup {Nil}
    BY <1>10, Begun DEF Retarget, Stand, Holding, Tick
  <2> QED BY <2>1, <2>2 DEF FC!WatchNext, FC!RetargetFailover, user
<1>11. CASE Walk
  <2>1. UNCHANGED <<cfg, user>> \/ FC!RecordActiveServer
    BY <1>11, OnlyStutters, EndStutters DEF Walk, FC!RecordActiveServer, user
  <2> QED BY <2>1
<1>12. CASE RestoreStage
  <2>1. \/ UNCHANGED <<cfg, user>>
        \/ cfg' = FC!EnsureFailoverStaged(cfg) /\ UNCHANGED user
    BY <1>12, EndStutters DEF RestoreStage, Write
  <2>2. cfg.fo = Nil => FC!EnsureFailoverStaged(cfg) = cfg
    BY DEF FC!EnsureFailoverStaged
  <2> QED BY <2>1, <2>2 DEF FC!WatchNext, FC!StageRestore, user
<1>13. CASE RestoreBegin
  <2>1. \/ UNCHANGED <<cfg, user>>
        \/ /\ cfg.fo # Nil /\ cfg.pend = Nil
           /\ cfg' = FC!BeginXrayRestore(cfg) /\ UNCHANGED user
    BY <1>13, OnlyStutters, EndStutters DEF RestoreBegin, Write
  <2> QED BY <2>1 DEF FC!WatchNext, FC!BeginRestore, user
<1> QED
    BY <1>1, <1>2, <1>3, <1>4, <1>5, <1>6, <1>7, <1>8, <1>9, <1>10, <1>11, <1>12, <1>13
       DEF WatchNext

LEMMA OthersRefine ==
    ASSUME Environment
    PROVE  UNCHANGED <<cfg, user>> \/ FC!UserNext
BY DEF Environment, UserWrites, OtherApply, Stop, StartAgain, Crash, FC!UserNext

\* The watch, with every wait, crash, stop and stale read in it, makes only the
\* writes FailoverConfig allows it: each one is guarded again under the config
\* lock, and a failover the tick has seen is still on record when it ends it.
THEOREM WatchImplementsFailoverConfig == Spec => ImplementsFailoverConfig
<1>1. Init => FC!Init
  BY DEF Init
<1>2. Inv /\ [Next]_vars => [UNCHANGED <<cfg, user>> \/ FC!Next]_<<cfg, user>>
  <2>1. ASSUME Inv, Next
        PROVE  UNCHANGED <<cfg, user>> \/ FC!Next
    BY <2>1, TickRefines, OthersRefine DEF Next, FC!Next, FC!UserNext
  <2>2. UNCHANGED vars => UNCHANGED <<cfg, user>>
    BY DEF vars
  <2> QED BY <2>1, <2>2
<1> QED BY <1>1, <1>2, Invariance, PTL DEF Spec, ImplementsFailoverConfig

-----------------------------------------------------------------------------
(* The server a restore was probed with                                    *)

\* Clients go back to Xray for the server that passed the probe: the counter the
\* guard expects was taken no later than the probe, so a guard that still holds
\* says that no server was selected since.
THEOREM RestoreIsForProbedServer == Spec => RestoredToProbedServer
<1>1. ASSUME Inv, [Next]_vars
      PROVE  [pc = "restoreBegin" /\ pc' = "restoredApply" => cfg.active = loc.probed]_vars
  <2> SUFFICES ASSUME Next, pc = "restoreBegin", pc' = "restoredApply"
               PROVE  cfg.active = loc.probed
    BY <1>1 DEF vars
  <2>1. RestoreBegin
    <3>1. ~Environment
      BY DEF Environment, UserWrites, OtherApply, Stop, StartAgain, Crash, tick, Goto
    <3> QED BY <3>1 DEF Next, WatchNext, TickBegins, Reconcile, ReconcileApply, Finalize,
         ReinstateApply, RetryApply, Probe, Dead, Stage, StageApply, Failover, Extend,
         PendingApply, Ready, Commit, CommitApply, Fallback, FallbackApply, FallbackReady,
         FallbackLook, Gone, GoneApply, GoneReady, Leave, Retarget, RetargetApply, Import,
         Walk, Walked, Restore, PickApply, TproxyApply, TproxyCheck, RestoreStage,
         StagedApply, StagedCheck, RestoredApply, Unstage, UnstageApply
  <2>2. cfg.active = loc.seq
    BY <2>1 DEF RestoreBegin, End, Only, Goto, Superseded
  <2>3. loc.probed \in Nat /\ loc.seq <= loc.probed /\ loc.probed <= cfg.active
        /\ loc.seq \in Nat /\ cfg.active \in Nat
    BY <1>1, Begun DEF Stand, Restoring
  <2> QED BY <2>2, <2>3
<1> QED BY <1>1, Invariance, PTL DEF Spec, RestoredToProbedServer

-----------------------------------------------------------------------------
(* Make before break                                                       *)

\* The lent clients of file f the user has not touched (e) since the watch wrote.
Lent(f, e) == FC!snapshotOnTunnel(f) \ (f.paused \cup e)

\* Steps whose apply is what brings the router up to the file just written.
Applying == {"stageApply", "commitApply", "retargetApply", "reinstateApply", "stagedApply",
             "restoredApply", "unstageApply"}

\* The router may be behind the file: an apply is owed or about to run, or the
\* process has yet to find the failover.
Behind(p, m, f) == m.pendingApply \/ p \in Applying \/ (~m.reconciled /\ f.fo # Nil)

\* The router shows the failover's marker only for the clients lent now.
Fresh(f, k, e) ==
    f.fo # Nil /\ k.failoverReady = f.fo.tunnel => Lent(f, e) \subseteq k.tun[f.fo.tunnel]

\* One record at a time, and a failover takes back only clients it holds.
RecordsAgree(f) ==
    /\ f.fo = Nil \/ f.pend = Nil
    /\ f.fo # Nil => f.fo.added \subseteq f.fo.clients

\* The steps that go by what the tick saw under a marker, or soon will.
Critical == {"ready", "commit", "stagedApply", "stagedCheck", "restoreBegin"}

\* At step p, process memory m, tick variables l, file f, router k and clients e
\* touched since: a marker vouches for the clients lent now unless the router is
\* behind the file, and what the tick saw under it still holds.
Believes(p, m, l, f, k, e) ==
    /\ p # "idle" => m.reconciled
    /\ p \in Holding => l.snap.fo.tunnel = f.fo.tunnel
    /\ RecordsAgree(f)
    /\ ~Behind(p, m, f) => Fresh(f, k, e)
    /\ p \in {"ready", "commit"} => ~m.pendingApply
    /\ p = "commit" => Lent(f, e) \subseteq l.seen
    /\ p \in {"stagedApply", "stagedCheck"} => Lent(f, e) \subseteq f.xray
    /\ p = "stagedCheck" /\ k.tproxyReady => Lent(f, e) \subseteq k.xray
    /\ p = "restoreBegin" => Lent(f, e) \subseteq l.seen

Beliefs == Believes(pc, mem, loc, cfg, kernel, edited)

\* An installation of f carries what f lends, and intercepts what f has on Xray.
LEMMA InstalledFresh ==
    ASSUME NEW f \in FC!Config, NEW k \in Installable(f), NEW e
    PROVE  /\ Fresh(f, k, e)
           /\ k.tproxyReady => k.xray = FC!EffectiveXrayClients(f)
<1>1. PICK tp \in Perhaps, fr \in BOOLEAN : k = Installed(f, tp, fr)
  <2> DEFINE F == {f.fo # Nil /\ f.fo.tunnel \in plat : plat \in Platforms}
  <2>1. F \subseteq BOOLEAN
    OBVIOUS
  <2>2. Installable(f) = {Installed(f, tp, fr) : tp \in Perhaps, fr \in F}
    BY DEF Installable
  <2> HIDE DEF F
  <2> QED BY <2>1, <2>2
<1>2. tp \in BOOLEAN
  BY DEF Perhaps
<1>3. k.tproxyReady = tp /\ (tp => k.xray = FC!EffectiveXrayClients(f))
  BY <1>1, <1>2 DEF Installed
<1>4. ASSUME f.fo # Nil, k.failoverReady = f.fo.tunnel
      PROVE  Lent(f, e) \subseteq k.tun[f.fo.tunnel]
  <2>1. f.fo.tunnel \in Tunnel
    BY <1>4 DEF FC!Config, FC!FailoverRecord
  <2>2. fr
    BY <1>1, <1>4, <2>1, WatchAssumption DEF Installed
  <2>3. k.tun[f.fo.tunnel] = f.tun[f.fo.tunnel] \ f.paused
    BY <1>1, <2>1, <2>2 DEF Installed
  <2> QED BY <2>3 DEF Lent, FC!snapshotOnTunnel
<1> QED BY <1>3, <1>4 DEF Fresh

\* A step to q that goes by no marker keeps the beliefs when it does not hide a
\* debt: one is still owed, or there is no failover, or nothing was owed before,
\* or the router is fresh.
LEMMA Moves ==
    ASSUME NEW p, NEW m, NEW l, NEW f, NEW k, NEW e, Believes(p, m, l, f, k, e),
           NEW q, NEW n, NEW j, NEW h,
           q \notin Critical,
           q # "idle" => n.reconciled,
           q \in Holding => j.snap.fo.tunnel = f.fo.tunnel,
           \/ q \in Applying \/ n.pendingApply \/ f.fo = Nil \/ Fresh(f, h, e)
           \/ /\ h = k /\ p \notin Applying
              /\ n.pendingApply = m.pendingApply /\ n.reconciled = m.reconciled
    PROVE  Believes(q, n, j, f, h, e)
<1>1. ~Behind(q, n, f) => Fresh(f, h, e)
  BY DEF Believes, Behind, Fresh
<1> QED BY <1>1 DEF Believes, Critical

LEMMA GotoBelieves ==
    ASSUME NEW p, NEW m, NEW l, NEW f, NEW k, NEW e, Goto(p, m, l),
           cfg' = f, kernel' = k, edited' = e, Believes(p, m, l, f, k, e)
    PROVE  Beliefs'
<1>1. pc' = p /\ mem' = m
  BY DEF Goto
<1>2. p \notin {"idle", "import"} => loc' = l
  BY DEF Goto
<1>3. p \in {"idle", "import"} => Believes(p, m, loc', f, k, e)
  BY DEF Believes, Holding
<1> QED BY <1>1, <1>2, <1>3 DEF Beliefs

\* What a step does to the debt when it changes neither file nor router.
SameDebt(m) == /\ pc \notin Applying
               /\ m.pendingApply = mem.pendingApply
               /\ m.reconciled = mem.reconciled

LEMMA OnlyBeliefs ==
    ASSUME Beliefs, NEW p, NEW m, NEW l, Only(p, m, l),
           p \notin Critical,
           p # "idle" => m.reconciled,
           p \in Holding => l.snap.fo.tunnel = cfg.fo.tunnel,
           m.pendingApply \/ SameDebt(m)
    PROVE  Beliefs'
<1>1. Believes(p, m, l, cfg, kernel, edited)
  BY Moves DEF Beliefs, SameDebt
<1> QED BY <1>1, GotoBelieves DEF Only

LEMMA EndBeliefs ==
    ASSUME Beliefs, NEW m, End(m), m.pendingApply \/ SameDebt(m)
    PROVE  Beliefs'
BY OnlyBeliefs DEF End, Critical, Holding

\* A write that an apply will follow.
LEMMA WriteBeliefs ==
    ASSUME NEW f, NEW p, NEW m, NEW l, Write(f, p, m, l),
           p \notin Critical,
           p # "idle" => m.reconciled,
           p \in Holding => l.snap.fo.tunnel = f.fo.tunnel,
           RecordsAgree(f),
           p \in Applying \/ m.pendingApply \/ f.fo = Nil
    PROVE  Beliefs'
<1>1. Believes(p, m, l, f, kernel, edited')
  BY DEF Believes, Critical, Behind, Fresh
<1> QED BY <1>1, GotoBelieves DEF Write

\* How an apply ends.
LEMMA ApplyCases ==
    ASSUME NEW p, NEW mp, NEW lp, NEW q, NEW mq, NEW lq, Apply(p, mp, lp, q, mq, lq)
    PROVE  \/ End(mq)
           \/ /\ Goto(p, mp, lp) /\ kernel' \in Installable(cfg)
              /\ UNCHANGED <<cfg, edited>>
           \/ /\ Goto(q, mq, lq) /\ kernel' \in Installable(cfg) \cup {kernel}
              /\ UNCHANGED <<cfg, edited>>
<1>1. CASE Refused /\ End(mq)
  BY <1>1
<1>2. CASE ~(Refused /\ End(mq))
  <2>1. PICK o \in IF Owned THEN ApplyOutcomes(cfg) ELSE {[ok |-> FALSE, kernel |-> kernel]} :
           /\ kernel' = o.kernel
           /\ IF o.ok THEN Goto(p, mp, lp) ELSE Goto(q, mq, lq)
    BY <1>2 DEF Apply
  <2>2. UNCHANGED <<cfg, edited>>
    BY <1>2 DEF Apply
  <2>3. CASE ~Owned
    BY <2>1, <2>2, <2>3
  <2>4. CASE Owned
    BY <2>1, <2>2, <2>4 DEF ApplyOutcomes
  <2> QED BY <2>3, <2>4
<1> QED BY <1>1, <1>2

\* An apply pays the debt when it succeeds, and leaves or makes one when not.
LEMMA ApplyBeliefs ==
    ASSUME Inv, Beliefs,
           NEW p, NEW mp, NEW lp, NEW q, NEW mq, NEW lq, Apply(p, mp, lp, q, mq, lq),
           p \notin Critical, q \notin Critical,
           p # "idle" => mp.reconciled, q # "idle" => mq.reconciled,
           p \in Holding => lp.snap.fo.tunnel = cfg.fo.tunnel,
           q \in Holding => lq.snap.fo.tunnel = cfg.fo.tunnel,
           mq.pendingApply \/ SameDebt(mq)
    PROVE  Beliefs'
<1>1. CASE End(mq)
  BY <1>1, EndBeliefs
<1>2. CASE Goto(p, mp, lp) /\ kernel' \in Installable(cfg) /\ UNCHANGED <<cfg, edited>>
  <2>1. Fresh(cfg, kernel', edited)
    BY <1>2, InstalledFresh DEF Inv
  <2>2. Believes(p, mp, lp, cfg, kernel', edited)
    BY <2>1, Moves DEF Beliefs
  <2> QED BY <1>2, <2>2, GotoBelieves
<1>3. CASE Goto(q, mq, lq) /\ kernel' \in Installable(cfg) \cup {kernel}
           /\ UNCHANGED <<cfg, edited>>
  <2>1. kernel' = kernel \/ Fresh(cfg, kernel', edited)
    BY <1>3, InstalledFresh DEF Inv
  <2>2. Believes(q, mq, lq, cfg, kernel', edited)
    BY <2>1, Moves DEF Beliefs, SameDebt
  <2> QED BY <1>3, <2>2, GotoBelieves
<1> QED BY <1>1, <1>2, <1>3, ApplyCases

\* The records agree after each write of the watch.
LEMMA StageAgrees ==
    ASSUME NEW f \in FC!Config, RecordsAgree(f), NEW t,
           NEW g, g = FC!StageXrayClientsToTunnel(f, t)
    PROVE  /\ g.pend = f.pend
           /\ g.fo # Nil => g.fo.added \subseteq g.fo.clients
<1> DEFINE m == FC!CarriableXrayClients(f)
           h == [tunnel |-> t, clients |-> m, added |-> m \ f.tun[t],
                 legacy |-> FALSE, committed |-> FALSE]
           u == FC!PutOn(f.tun, t, m)
<1>1. g = f \/ g = [f EXCEPT !.tun = u, !.fo = h]
  BY DEF FC!StageXrayClientsToTunnel
<1>2. h.added \subseteq h.clients
  OBVIOUS
<1>3. CASE g = [f EXCEPT !.tun = u, !.fo = h]
  <2> HIDE DEF u, h
  <2> QED BY <1>2, <1>3 DEF FC!Config
<1> QED BY <1>1, <1>3 DEF RecordsAgree

LEMMA ExtendAgrees ==
    ASSUME NEW f \in FC!Config, RecordsAgree(f)
    PROVE  RecordsAgree(FC!ExtendXrayFailover(f))
<1> DEFINE outside == FC!XrayClientsOutsideFailover(f)
           put == outside \ f.tun[f.fo.tunnel]
           new == f.fo.added \cup (IF f.fo.legacy THEN {} ELSE put)
           all == f.fo.clients \cup outside
           h == [f.fo EXCEPT !.clients = all, !.added = new]
           u == FC!PutOn(f.tun, f.fo.tunnel, put)
           g == FC!ExtendXrayFailover(f)
<1>1. \/ g = f
      \/ outside # {} /\ g = [f EXCEPT !.tun = u, !.fo = h]
  BY DEF FC!ExtendXrayFailover
<1>2. CASE outside # {} /\ g = [f EXCEPT !.tun = u, !.fo = h]
  <2>1. f.fo # Nil /\ f.fo \in FC!FailoverRecord
    BY <1>2 DEF FC!XrayClientsOutsideFailover, FC!Config
  <2>2. new \subseteq all
    <3> HIDE DEF outside
    <3> QED BY <2>1 DEF RecordsAgree
  <2>3. h.added = new /\ h.clients = all
    <3> HIDE DEF new, all
    <3> QED BY <2>1 DEF FC!FailoverRecord
  <2>4. g.fo = h /\ g.pend = f.pend
    <3> HIDE DEF u, h
    <3> QED BY <1>2 DEF FC!Config
  <2> HIDE DEF g, h, new, all
  <2>5. RecordsAgree(g)
    BY <2>1, <2>2, <2>3, <2>4 DEF RecordsAgree
  <2> QED BY <2>5 DEF g
<1> QED BY <1>1, <1>2

LEMMA CommitAgrees ==
    ASSUME NEW f \in FC!Config, RecordsAgree(f)
    PROVE  RecordsAgree(FC!CommitXrayFailover(f))
<1> DEFINE h == [f.fo EXCEPT !.committed = TRUE]
           x == f.xray \ (FC!snapshotOnTunnel(f) \ f.paused)
           g == FC!CommitXrayFailover(f)
<1>1. (f.fo = Nil /\ g = f) \/ (f.fo # Nil /\ g = [f EXCEPT !.xray = x, !.fo = h])
  BY DEF FC!CommitXrayFailover, FC!Config
<1>2. CASE f.fo # Nil /\ g = [f EXCEPT !.xray = x, !.fo = h]
  <2>1. h.added = f.fo.added /\ h.clients = f.fo.clients
    BY <1>2 DEF FC!Config, FC!FailoverRecord
  <2>2. g.fo = h /\ g.pend = f.pend
    <3> HIDE DEF x, h
    <3> QED BY <1>2 DEF FC!Config
  <2> HIDE DEF g, h
  <2>3. RecordsAgree(g)
    BY <1>2, <2>1, <2>2 DEF RecordsAgree
  <2> QED BY <2>3 DEF g
<1> QED BY <1>1, <1>2

\* A staged restore has every lent client that is not paused on Xray again.
LEMMA EnsureAgrees ==
    ASSUME NEW f \in FC!Config, RecordsAgree(f), NEW e
    PROVE  LET g == FC!EnsureFailoverStaged(f)
           IN  RecordsAgree(g) /\ Lent(g, e) \subseteq g.xray
<1> DEFINE b == FC!FailoverCommitted(f)
           h == [f.fo EXCEPT !.committed = b]
           x == f.xray \cup (FC!snapshotOnTunnel(f) \ f.paused)
           g == FC!EnsureFailoverStaged(f)
<1>1. (f.fo = Nil /\ g = f) \/ (f.fo # Nil /\ g = [f EXCEPT !.xray = x, !.fo = h])
  BY DEF FC!EnsureFailoverStaged, FC!Config
<1>2. CASE f.fo # Nil /\ g = [f EXCEPT !.xray = x, !.fo = h]
  <2>1. h.added = f.fo.added /\ h.clients = f.fo.clients /\ h.tunnel = f.fo.tunnel
    <3> HIDE DEF b
    <3> QED BY <1>2 DEF FC!Config, FC!FailoverRecord
  <2>2. g.fo = h /\ g.pend = f.pend /\ g.tun = f.tun /\ g.paused = f.paused /\ g.xray = x
    <3> HIDE DEF x, h
    <3> QED BY <1>2 DEF FC!Config
  <2>3. h # Nil
    <3>1. h \in FC!FailoverRecord
      <4>1. b \in BOOLEAN
        BY DEF FC!FailoverCommitted
      <4> HIDE DEF b
      <4> QED BY <1>2, <4>1 DEF FC!Config, FC!FailoverRecord
    <3> HIDE DEF h
    <3> QED BY <3>1, NilIsNoRecord
  <2> HIDE DEF g, h
  <2>4. FC!snapshotOnTunnel(g) = FC!snapshotOnTunnel(f)
    BY <1>2, <2>1, <2>2, <2>3 DEF FC!snapshotOnTunnel
  <2>5. RecordsAgree(g) /\ Lent(g, e) \subseteq g.xray
    BY <1>2, <2>1, <2>2, <2>4 DEF RecordsAgree, Lent
  <2> QED BY <2>5 DEF g
<1>3. CASE f.fo = Nil /\ g = f
  BY <1>3 DEF Lent, FC!snapshotOnTunnel
<1> QED BY <1>1, <1>2, <1>3

LEMMA RestoreAgrees ==
    ASSUME NEW f \in FC!Config, f.fo # Nil
    PROVE  FC!RestoreXrayClientsFromFailover(f).fo = Nil
BY DEF FC!RestoreXrayClientsFromFailover, FC!Config

LEMMA BeginAgrees ==
    ASSUME NEW f \in FC!Config, f.fo # Nil, f.pend = Nil
    PROVE  FC!BeginXrayRestore(f).fo = Nil
<1> DEFINE r == FC!RestoreXrayClientsFromFailover(f)
           p == [snapshot |-> [f.fo EXCEPT !.committed = FC!FailoverCommitted(f)],
                 restored |-> FC!snapshotOnTunnel(f), active |-> f.active]
<1>1. FC!BeginXrayRestore(f) = [r EXCEPT !.pend = p]
  BY DEF FC!BeginXrayRestore
<1>2. r \in FC!Config /\ r.fo = Nil
  BY RestoreTyped, RestoreAgrees
<1> HIDE DEF r, p
<1> QED BY <1>1, <1>2 DEF FC!Config

LEMMA ReinstateAgrees ==
    ASSUME NEW f \in FC!Config, f.pend # Nil, f.fo = Nil, FC!FailoverSnapshot(f.pend, f) # Nil,
           NEW g, g = FC!ApplyFailoverSnapshot(f, FC!FailoverSnapshot(f.pend, f))
    PROVE  RecordsAgree([g EXCEPT !.pend = Nil])
<1> DEFINE kept == {c \in f.pend.restored : FC!StillRestored(f.pend, f, c)}
           s == FC!FailoverSnapshot(f.pend, f)
           u == FC!PutOn(f.tun, s.tunnel, s.clients)
           x == IF s.committed THEN f.xray \ s.clients ELSE f.xray
           a == f.pend.snapshot.added \cap kept
<1>1. s = [f.pend.snapshot EXCEPT !.clients = kept, !.added = a]
  BY DEF FC!FailoverSnapshot
<1>2. f.pend.snapshot \in FC!FailoverRecord
  BY DEF FC!Config, FC!PendingRecord
<1>3. s.clients = kept /\ s.added = a
  <2> HIDE DEF kept, a, s
  <2> QED BY <1>1, <1>2 DEF FC!FailoverRecord
<1>4. a \subseteq kept
  OBVIOUS
<1>5. g = f \/ g = [f EXCEPT !.tun = u, !.xray = x, !.fo = s]
  BY DEF FC!ApplyFailoverSnapshot
<1>6. g.fo \in {Nil, s}
  <2> HIDE DEF u, x, s
  <2> QED BY <1>5 DEF FC!Config
<1>7. g \in FC!Config
  BY ReinstateTyped
<1> HIDE DEF s, kept, a
<1> QED BY <1>3, <1>4, <1>6, <1>7 DEF RecordsAgree, FC!Config

LEMMA Debts ==
    ASSUME Inv
    PROVE  /\ Owing.pendingApply = TRUE /\ Owing.reconciled = mem.reconciled
           /\ Paid.pendingApply = FALSE /\ Paid.reconciled = mem.reconciled
           /\ NewEpisode(mem).pendingApply = mem.pendingApply
           /\ NewEpisode(mem).reconciled = mem.reconciled
           /\ NewEpisode(Paid).pendingApply = FALSE
           /\ NewEpisode(Paid).reconciled = mem.reconciled
           /\ \A S : /\ [mem EXCEPT !.fallbackTried = S].pendingApply = mem.pendingApply
                     /\ [mem EXCEPT !.fallbackTried = S].reconciled = mem.reconciled
BY DEF Inv, Typed, Memory, Owing, Paid, NewEpisode

\* What a running tick knows.
LEMMA Running ==
    ASSUME Inv, Beliefs, pc # "idle"
    PROVE  /\ mem.reconciled /\ RecordsAgree(cfg)
           /\ loc \in Tick /\ cfg \in FC!Config
           /\ pc \in Holding => /\ loc.snap.fo.tunnel = cfg.fo.tunnel
                                /\ cfg.fo # Nil /\ loc.snap.fo # Nil
<1>1. mem.reconciled /\ RecordsAgree(cfg)
      /\ (pc \in Holding => loc.snap.fo.tunnel = cfg.fo.tunnel)
  BY DEF Beliefs, Believes
<1>2. Stand(pc, loc, cfg) /\ loc \in Tick
  BY Begun
<1> QED BY <1>1, <1>2 DEF Stand, Inv

\* Steps that neither write nor go by a marker.
LEMMA PlainBeliefs ==
    ASSUME Inv, Beliefs,
           \/ ReinstateApply \/ RetryApply \/ Fallback \/ FallbackApply \/ FallbackReady
           \/ GoneApply \/ GoneReady
           \/ PickApply \/ TproxyApply \/ RestoredApply \/ UnstageApply
    PROVE  Beliefs'
<1> USE Debts
<1> USE DEF Holding, Applying, Critical, SameDebt
<1>1. CASE ReinstateApply \/ PickApply \/ RestoredApply \/ UnstageApply \/ TproxyApply
  <2>1. mem.reconciled
    BY <1>1, Running DEF ReinstateApply, PickApply, RestoredApply, UnstageApply, TproxyApply
  <2> QED
    BY <1>1, <2>1, ApplyBeliefs
       DEF ReinstateApply, PickApply, RestoredApply, UnstageApply, TproxyApply
<1>2. CASE RetryApply
  <2>1. PICK p \in {"idle", "probe"} :
           pc = "retryApply" /\ (Apply(p, Paid, loc, p, mem, loc) \/ Only(p, mem, loc))
    BY <1>2 DEF RetryApply
  <2>2. mem.reconciled /\ p \notin Critical /\ p \notin Holding /\ SameDebt(mem)
    BY <2>1, Running
  <2>3. Paid.reconciled
    BY <2>2
  <2> HIDE DEF Holding, Applying, Critical, SameDebt
  <2>4. CASE Apply(p, Paid, loc, p, mem, loc)
    BY <2>2, <2>3, <2>4, ApplyBeliefs
  <2>5. CASE Only(p, mem, loc)
    BY <2>2, <2>5, OnlyBeliefs
  <2> QED BY <2>1, <2>4, <2>5
<1>3. CASE Fallback \/ FallbackReady \/ GoneReady
  <2>1. pc \in Holding /\ pc \notin Applying /\ pc # "idle"
    BY <1>3 DEF Fallback, FallbackReady, GoneReady
  <2>2. mem.reconciled /\ loc.snap.fo.tunnel = cfg.fo.tunnel /\ SameDebt(mem)
    BY <2>1, Running
  <2>3. \/ End(mem)
        \/ \E q \in {"fallbackApply", "import", "fallbackLook", "leave"} : Only(q, mem, loc)
    BY <1>3 DEF Fallback, FallbackReady, GoneReady
  <2>4. \A q \in {"fallbackApply", "import", "fallbackLook", "leave"} : q \notin Critical
    OBVIOUS
  <2> HIDE DEF Holding, Applying, Critical, SameDebt
  <2> QED BY <2>2, <2>3, <2>4, EndBeliefs, OnlyBeliefs
<1>4. CASE FallbackApply \/ GoneApply
  <2>1. mem.reconciled /\ loc.snap.fo.tunnel = cfg.fo.tunnel
    BY <1>4, Running DEF FallbackApply, GoneApply
  <2> QED BY <1>4, <2>1, ApplyBeliefs DEF FallbackApply, GoneApply
<1> QED BY <1>1, <1>2, <1>3, <1>4

LEMMA TickBeginsBeliefs ==
    ASSUME Inv, Beliefs, TickBegins
    PROVE  Beliefs'
<1> DEFINE p == CASE cfg.pend # Nil -> "reconcile" [] cfg.fo # Nil -> "failover"
                  [] OTHER -> "retryApply"
           b == mem.pendingApply \/ (~mem.reconciled /\ cfg.fo # Nil)
           m == [mem EXCEPT !.reconciled = TRUE, !.pendingApply = b]
           l == [NoTick EXCEPT !.snap = cfg, !.seq = cfg.active]
<1>1. Goto(p, m, l) /\ UNCHANGED <<cfg, kernel, edited>> /\ pc = "idle"
  BY DEF TickBegins
<1>2. m.reconciled = TRUE /\ m.pendingApply = b
  <2> HIDE DEF b
  <2> QED BY DEF Inv, Typed, Memory
<1>3. l.snap = cfg
  BY DEF NoTick
<1>4. p \in {"reconcile", "failover", "retryApply"}
  OBVIOUS
<1> HIDE DEF p, m, l
<1>5. \/ m.pendingApply \/ cfg.fo = Nil
      \/ m.pendingApply = mem.pendingApply /\ m.reconciled = mem.reconciled
  BY <1>2 DEF Inv, Typed, Memory
<1>6. p \notin Critical /\ pc \notin Applying
  BY <1>1, <1>4 DEF Critical, Applying
<1>7. Believes(p, m, l, cfg, kernel, edited)
  BY <1>2, <1>3, <1>5, <1>6, Moves DEF Beliefs
<1> QED BY <1>1, <1>7, GotoBelieves

LEMMA RestoreEndsBeliefs ==
    ASSUME Inv, Beliefs, Reconcile \/ ReconcileApply \/ Finalize
    PROVE  Beliefs'
<1> USE Debts
<1>1. pc \in {"reconcile", "reconcileApply", "finalize"}
  BY DEF Reconcile, ReconcileApply, Finalize
<1>2. mem.reconciled /\ RecordsAgree(cfg) /\ SameDebt(mem) /\ cfg \in FC!Config
  BY <1>1, Running DEF SameDebt, Applying
<1>3. \A q \in {"idle", "reconcileApply", "finalize", "probe", "reinstateApply"} :
         q \notin Critical /\ q \notin Holding
  BY DEF Critical, Holding
<1>4. ASSUME cfg.pend # Nil
      PROVE  LET f == [cfg EXCEPT !.pend = Nil] IN f.fo = Nil /\ RecordsAgree(f)
  BY <1>2, <1>4 DEF RecordsAgree, FC!Config
<1>5. CASE Reconcile
  <2>1. \/ End(mem) \/ Only("reconcileApply", mem, loc) \/ Only("finalize", mem, loc)
        \/ cfg.pend # Nil /\ Write([cfg EXCEPT !.pend = Nil], "idle", Paid, loc)
    BY <1>5 DEF Reconcile
  <2>2. CASE End(mem) \/ Only("reconcileApply", mem, loc) \/ Only("finalize", mem, loc)
    BY <1>2, <1>3, <2>2, EndBeliefs, OnlyBeliefs
  <2>3. CASE cfg.pend # Nil /\ Write([cfg EXCEPT !.pend = Nil], "idle", Paid, loc)
    BY <1>3, <1>4, <2>3, WriteBeliefs
  <2> QED BY <2>1, <2>2, <2>3
<1>6. CASE ReconcileApply
  <2>1. PICK q \in {"idle", "probe"} :
           Apply("finalize", mem, [loc EXCEPT !.applied = TRUE], q, Owing, loc)
    BY <1>6 DEF ReconcileApply
  <2> QED BY <1>2, <1>3, <2>1, ApplyBeliefs
<1>7. CASE Finalize
  <2> DEFINE s == FC!FailoverSnapshot(cfg.pend, cfg)
             a == FC!ApplyFailoverSnapshot(cfg, s)
             g == [a EXCEPT !.pend = Nil]
  <2>1. \/ End(Owing)
        \/ \E q \in {"idle", "reconcileApply", "probe"} : Only(q, Owing, loc)
        \/ /\ cfg.pend # Nil
           /\ \E m \in {Paid, NewEpisode(Paid)} : Write([cfg EXCEPT !.pend = Nil], "idle", m, loc)
        \/ cfg.pend # Nil /\ cfg.fo = Nil /\ s # Nil /\ Write(g, "reinstateApply", Paid, loc)
    BY <1>7 DEF Finalize, pendingRestoreGuard
  <2>2. CASE End(Owing) \/ \E q \in {"idle", "reconcileApply", "probe"} : Only(q, Owing, loc)
    BY <1>2, <1>3, <2>2, EndBeliefs, OnlyBeliefs
  <2>3. ASSUME cfg.pend # Nil, NEW m \in {Paid, NewEpisode(Paid)},
               Write([cfg EXCEPT !.pend = Nil], "idle", m, loc)
        PROVE  Beliefs'
    BY <1>3, <1>4, <2>3, WriteBeliefs
  <2>4. ASSUME cfg.pend # Nil, cfg.fo = Nil, s # Nil, Write(g, "reinstateApply", Paid, loc)
        PROVE  Beliefs'
    <3>1. RecordsAgree(g)
      BY <1>2, <2>4, ReinstateAgrees
    <3>2. Paid.reconciled /\ "reinstateApply" \in Applying
      BY <1>2 DEF Applying
    <3> HIDE DEF g
    <3> QED BY <1>3, <2>4, <3>1, <3>2, WriteBeliefs
  <2> QED BY <2>1, <2>2, <2>3, <2>4
<1> QED BY <1>5, <1>6, <1>7

LEMMA DeathBeliefs ==
    ASSUME Inv, Beliefs, Probe \/ Dead \/ Stage \/ StageApply
    PROVE  Beliefs'
<1> USE Debts
<1>1. pc \in {"probe", "dead", "stage", "stageApply"}
  BY DEF Probe, Dead, Stage, StageApply
<1>2. mem.reconciled /\ RecordsAgree(cfg) /\ cfg \in FC!Config /\ loc \in Tick
  BY <1>1, Running
<1>3. \A q \in {"idle", "dead", "import", "stage", "stageApply"} :
         q \notin Critical /\ q \notin Holding
  BY DEF Critical, Holding
<1>4. CASE Probe \/ Dead
  <2>1. SameDebt(mem)
    BY <1>4 DEF SameDebt, Applying, Probe, Dead
  <2>2. End(mem) \/ \E l : \E q \in {"dead", "import", "stage"} : Only(q, mem, l)
    BY <1>4 DEF Probe, Dead
  <2> QED BY <1>2, <1>3, <2>1, <2>2, EndBeliefs, OnlyBeliefs
<1>5. CASE Stage
  <2> DEFINE f == FC!StageXrayClientsToTunnel(cfg, loc.next)
             g == [f EXCEPT !.pend = Nil]
  <2>1. /\ pc = "stage"
        /\ End(mem) \/ (f.fo # Nil /\ Write(g, "stageApply", NewEpisode(mem), loc))
    BY <1>5 DEF Stage
  <2>2. SameDebt(mem)
    BY <2>1 DEF SameDebt, Applying
  <2>3. loc.next \in Tunnel
    BY <2>1, Begun DEF Stand
  <2>4. f \in FC!Config
    BY <1>2, <2>3, StageKeeps DEF Keeps
  <2>5. f.fo # Nil => f.fo.added \subseteq f.fo.clients
    BY <1>2, StageAgrees
  <2>6. RecordsAgree(g)
    <3> HIDE DEF f
    <3> QED BY <2>4, <2>5 DEF RecordsAgree, FC!Config
  <2>7. "stageApply" \in Applying
    BY DEF Applying
  <2> HIDE DEF f, g
  <2> QED BY <1>2, <1>3, <2>1, <2>2, <2>6, <2>7, EndBeliefs, WriteBeliefs
<1>6. CASE StageApply
  <2> DEFINE k == [Reread EXCEPT !.from = "death"]
  <2>1. Apply("pendingApply", mem, k, "import", Owing, k)
    BY <1>6 DEF StageApply
  <2>2. k.snap = cfg
    BY <1>2 DEF Tick, Reread
  <2>3. "pendingApply" \notin Critical
    BY DEF Critical
  <2> HIDE DEF k
  <2> QED BY <1>2, <1>3, <2>1, <2>2, <2>3, ApplyBeliefs
<1> QED BY <1>4, <1>5, <1>6

LEMMA FailoverBeliefs ==
    ASSUME Inv, Beliefs, Failover \/ Extend
    PROVE  Beliefs'
<1> USE Debts
<1>1. pc \in {"failover", "extend"}
  BY DEF Failover, Extend
<1>2. /\ mem.reconciled /\ RecordsAgree(cfg) /\ cfg \in FC!Config /\ loc \in Tick
      /\ loc.snap.fo.tunnel = cfg.fo.tunnel
  BY <1>1, Running DEF Holding
<1>3. SameDebt(mem)
  BY <1>1 DEF SameDebt, Applying
<1>4. \A q \in {"extend", "restore", "pendingApply"} : q \notin Critical
  BY DEF Critical
<1>5. CASE Failover
  <2> DEFINE k == [loc EXCEPT !.probed = cfg.active]
  <2>1. End(mem) \/ Only("extend", mem, loc) \/ Only("restore", mem, k)
    BY <1>5 DEF Failover
  <2>2. k.snap = loc.snap
    BY <1>2 DEF Tick
  <2> HIDE DEF k
  <2> QED BY <1>2, <1>3, <1>4, <2>1, <2>2, EndBeliefs, OnlyBeliefs
<1>6. CASE Extend
  <2> DEFINE f == FC!ExtendXrayFailover(cfg)
             joined == FC!XrayClientsOutsideFailover(cfg) # {}
             on(g) == [loc EXCEPT !.snap = g, !.staged = FC!FailoverStaged(g)]
             m == IF joined THEN Owing ELSE mem
  <2>1. \/ End(mem) \/ Only("pendingApply", mem, on(loc.snap))
        \/ Write(f, "pendingApply", m, on(f))
    BY <1>6 DEF Extend
  <2>2. \A g : on(g).snap = g
    BY <1>2 DEF Tick
  <2>3. CASE End(mem)
    BY <1>3, <2>3, EndBeliefs
  <2>4. CASE Only("pendingApply", mem, on(loc.snap))
    <3> HIDE DEF on
    <3> QED BY <1>2, <1>3, <1>4, <2>2, <2>4, OnlyBeliefs
  <2>5. CASE Write(f, "pendingApply", m, on(f))
    <3>1. RecordsAgree(f)
      BY <1>2, ExtendAgrees
    <3>2. CASE joined
      <4>1. m = Owing
        BY <3>2
      <4> HIDE DEF f, on, m
      <4> QED BY <1>2, <1>4, <2>2, <2>5, <3>1, <4>1, WriteBeliefs
    <3>3. CASE ~joined
      <4>1. f = cfg /\ m = mem
        BY <3>3 DEF FC!ExtendXrayFailover
      <4>2. cfg' = cfg /\ edited' = edited /\ kernel' = kernel /\ Goto("pendingApply", mem, on(f))
        BY <2>5, <4>1 DEF Write
      <4>3. Believes("pendingApply", mem, on(f), cfg, kernel, edited)
        <5> HIDE DEF f, on, m
        <5> QED BY <1>2, <1>3, <1>4, <2>2, <4>1, Moves DEF Beliefs, SameDebt
      <4> HIDE DEF f, on, m
      <4> QED BY <4>2, <4>3, GotoBelieves
    <3> QED BY <3>2, <3>3
  <2> QED BY <2>1, <2>3, <2>4, <2>5
<1> QED BY <1>5, <1>6

LEMMA ApplyFailoverBeliefs ==
    ASSUME Inv, Beliefs, PendingApply \/ Ready \/ Commit \/ CommitApply
    PROVE  Beliefs'
<1>1. pc \in {"pendingApply", "ready", "commit", "commitApply"}
  BY DEF PendingApply, Ready, Commit, CommitApply
<1>2. /\ mem.reconciled /\ RecordsAgree(cfg) /\ cfg \in FC!Config /\ loc \in Tick
      /\ loc.snap.fo.tunnel = cfg.fo.tunnel /\ cfg.fo # Nil
  BY <1>1, Running DEF Holding
<1>3. \A q \in {"gone", "import", "fallback"} : q \notin Critical
  BY DEF Critical
<1>4. CASE PendingApply
  <2>1. PICK q \in {"gone", "import", "fallback"} :
           /\ pc = "pendingApply"
           /\ \/ mem.pendingApply /\ Apply("ready", Paid, Reread, q, mem, loc)
              \/ ~mem.pendingApply /\ Only("ready", mem, loc)
    BY <1>4, AfterFailoverSteps DEF PendingApply
  <2>2. SameDebt(mem)
    BY <2>1 DEF SameDebt, Applying
  <2>3. CASE ~mem.pendingApply /\ Only("ready", mem, loc)
    <3>1. Fresh(cfg, kernel, edited)
      BY <1>2, <2>1, <2>3 DEF Beliefs, Believes, Behind, Applying
    <3>2. Believes("ready", mem, loc, cfg, kernel, edited)
      BY <1>2, <2>3, <3>1 DEF Believes
    <3> QED BY <2>3, <3>2, GotoBelieves DEF Only
  <2>4. CASE mem.pendingApply /\ Apply("ready", Paid, Reread, q, mem, loc)
    <3>1. CASE End(mem)
      BY <2>2, <3>1, EndBeliefs
    <3>2. CASE Goto("ready", Paid, Reread) /\ kernel' \in Installable(cfg)
               /\ UNCHANGED <<cfg, edited>>
      <4>1. Fresh(cfg, kernel', edited)
        BY <1>2, <3>2, InstalledFresh
      <4>2. Reread.snap = cfg
        BY <1>2 DEF Tick, Reread
      <4>3. Believes("ready", Paid, Reread, cfg, kernel', edited)
        BY Debts, <1>2, <4>1, <4>2 DEF Believes
      <4> QED BY <3>2, <4>3, GotoBelieves
    <3>3. CASE Goto(q, mem, loc) /\ UNCHANGED <<cfg, edited>>
      <4>1. Believes(q, mem, loc, cfg, kernel', edited)
        BY <1>2, <1>3, <2>4, Moves DEF Beliefs
      <4> QED BY <3>3, <4>1, GotoBelieves
    <3> QED BY <2>4, <3>1, <3>2, <3>3, ApplyCases
  <2> QED BY <2>1, <2>3, <2>4
<1>5. CASE Ready
  <2> DEFINE s == kernel.tun[loc.snap.fo.tunnel]
             k == [loc EXCEPT !.seen = s]
  <2>1. PICK q \in {"gone", "import", "fallback"} :
           /\ pc = "ready"
           /\ \/ Only(q, mem, loc)
              \/ kernel.failoverReady = loc.snap.fo.tunnel /\ Only("commit", mem, k)
    <3>1. /\ pc = "ready"
          /\ \/ Only(AfterFailover(TRUE, mem), mem, loc)
             \/ Only(AfterFailover(FALSE, mem), mem, loc)
             \/ kernel.failoverReady = loc.snap.fo.tunnel /\ Only("commit", mem, k)
      BY <1>5 DEF Ready
    <3> HIDE DEF k
    <3> QED BY <3>1, AfterFailoverSteps
  <2>2. SameDebt(mem) /\ ~mem.pendingApply
    BY <2>1 DEF SameDebt, Applying, Beliefs, Believes
  <2>3. CASE Only(q, mem, loc)
    BY <1>2, <1>3, <2>2, <2>3, OnlyBeliefs
  <2>4. CASE kernel.failoverReady = loc.snap.fo.tunnel /\ Only("commit", mem, k)
    <3>1. Fresh(cfg, kernel, edited)
      BY <1>2, <2>1, <2>2 DEF Beliefs, Believes, Behind, Applying
    <3>2. Lent(cfg, edited) \subseteq s
      BY <1>2, <2>4, <3>1 DEF Fresh
    <3>3. k.seen = s /\ k.snap = loc.snap
      <4> HIDE DEF s
      <4> QED BY <1>2 DEF Tick
    <3> HIDE DEF k, s
    <3>4. Believes("commit", mem, k, cfg, kernel, edited)
      BY <1>2, <2>2, <3>1, <3>2, <3>3 DEF Believes
    <3> QED BY <2>4, <3>4, GotoBelieves DEF Only
  <2> QED BY <2>1, <2>3, <2>4
<1>6. CASE Commit
  <2> DEFINE f == FC!CommitXrayFailover(cfg)
             k == [loc EXCEPT !.snap = f]
  <2>1. PICK q \in {"gone", "import", "fallback"} :
           pc = "commit" /\ (End(mem) \/ Only(q, mem, loc) \/ Write(f, "commitApply", mem, k))
    BY <1>6, AfterFailoverSteps DEF Commit
  <2>2. SameDebt(mem)
    BY <2>1 DEF SameDebt, Applying
  <2>3. RecordsAgree(f)
    BY <1>2, CommitAgrees
  <2>4. k.snap = f
    BY <1>2 DEF Tick
  <2>5. "commitApply" \in Applying /\ "commitApply" \notin Critical
    BY DEF Applying, Critical
  <2> HIDE DEF f, k
  <2>6. CASE End(mem)
    BY <2>2, <2>6, EndBeliefs
  <2>7. CASE Only(q, mem, loc)
    BY <1>2, <1>3, <2>2, <2>7, OnlyBeliefs
  <2>8. CASE Write(f, "commitApply", mem, k)
    BY <1>2, <2>3, <2>4, <2>5, <2>8, WriteBeliefs
  <2> QED BY <2>1, <2>6, <2>7, <2>8
<1>7. CASE CommitApply
  <2>1. PICK p \in {"gone", "import", "fallback"}, q \in {"gone", "import", "fallback"} :
           Apply(p, NewEpisode(mem), loc, q, Owing, loc)
    BY <1>7, AfterFailoverSteps DEF CommitApply
  <2> QED BY Debts, <1>2, <1>3, <2>1, ApplyBeliefs
<1> QED BY <1>4, <1>5, <1>6, <1>7

LEMMA LeaveBeliefs ==
    ASSUME Inv, Beliefs, FallbackLook \/ Gone \/ Leave \/ Retarget \/ RetargetApply
    PROVE  Beliefs'
<1> USE Debts
<1>1. pc \in {"fallbackLook", "gone", "leave", "retarget", "retargetApply"}
  BY DEF FallbackLook, Gone, Leave, Retarget, RetargetApply
<1>2. mem.reconciled /\ RecordsAgree(cfg) /\ cfg \in FC!Config /\ loc \in Tick
  BY <1>1, Running
<1>3. \A q \in {"import", "leave", "goneApply", "retarget", "retargetApply"} : q \notin Critical
  BY DEF Critical
<1>4. CASE FallbackLook \/ Gone \/ Leave
  <2>1. SameDebt(mem) /\ SameDebt(NewEpisode(mem))
        /\ \A S : SameDebt([mem EXCEPT !.fallbackTried = S])
    BY <1>4 DEF SameDebt, Applying, FallbackLook, Gone, Leave
  <2>2. loc.snap.fo.tunnel = cfg.fo.tunnel
    BY <1>4, Running DEF Holding, FallbackLook, Gone, Leave
  <2>3. \A v : [loc EXCEPT !.next = v].snap = loc.snap /\ [loc EXCEPT !.plat = v].snap = loc.snap
    BY <1>2 DEF Tick
  <2>4. \/ End(mem) \/ Only("import", mem, loc) \/ Only("import", NewEpisode(mem), loc)
        \/ \E S, t : Only("retarget", [mem EXCEPT !.fallbackTried = S], [loc EXCEPT !.next = t])
        \/ \E t : Only("retarget", mem, [loc EXCEPT !.next = t])
        \/ \E plat : \E q \in {"leave", "import", "goneApply"} :
              Only(q, mem, [loc EXCEPT !.plat = plat])
    <3>1. CASE FallbackLook
      BY <3>1 DEF FallbackLook
    <3>2. CASE Gone
      BY <3>2 DEF Gone
    <3>3. CASE Leave
      BY <3>3 DEF Leave
    <3> QED BY <1>4, <3>1, <3>2, <3>3
  <2>5. CASE End(mem)
    BY <2>1, <2>5, EndBeliefs
  <2>6. CASE Only("import", mem, loc) \/ Only("import", NewEpisode(mem), loc)
    BY <1>2, <1>3, <2>1, <2>2, <2>6, OnlyBeliefs
  <2>7. ASSUME NEW S, NEW t,
               Only("retarget", [mem EXCEPT !.fallbackTried = S], [loc EXCEPT !.next = t])
        PROVE  Beliefs'
    BY <1>2, <1>3, <2>1, <2>2, <2>3, <2>7, OnlyBeliefs
  <2>8. ASSUME NEW t, Only("retarget", mem, [loc EXCEPT !.next = t])
        PROVE  Beliefs'
    BY <1>2, <1>3, <2>1, <2>2, <2>3, <2>8, OnlyBeliefs
  <2>9. ASSUME NEW q \in {"leave", "import", "goneApply"}, NEW plat,
               Only(q, mem, [loc EXCEPT !.plat = plat])
        PROVE  Beliefs'
    BY <1>2, <1>3, <2>1, <2>2, <2>3, <2>9, OnlyBeliefs
  <2> QED BY <2>4, <2>5, <2>6, <2>7, <2>8, <2>9
<1>5. CASE Retarget
  <2> DEFINE f == FC!RestoreXrayClientsFromFailover(cfg)
             g == IF loc.next = Nil THEN f ELSE FC!StageXrayClientsToTunnel(f, loc.next)
  <2>1. /\ pc = "retarget"
        /\ \/ End(mem) \/ Only("import", mem, loc)
           \/ \E m \in {mem, NewEpisode(mem)} : Write(g, "retargetApply", m, loc)
    BY <1>5 DEF Retarget
  <2>2. SameDebt(mem) /\ cfg.fo # Nil /\ loc.snap.fo.tunnel = cfg.fo.tunnel
    BY <2>1, Running DEF SameDebt, Applying, Holding
  <2>3. f \in FC!Config /\ f.fo = Nil /\ f.pend = Nil
    BY <1>2, <2>2, RestoreTyped, RestoreAgrees DEF RecordsAgree
  <2>4. RecordsAgree(g)
    <3> HIDE DEF f
    <3>1. CASE loc.next = Nil
      BY <2>3, <3>1 DEF RecordsAgree
    <3>2. CASE loc.next # Nil
      <4>1. RecordsAgree(f)
        BY <2>3 DEF RecordsAgree
      <4>2. g.pend = f.pend /\ (g.fo # Nil => g.fo.added \subseteq g.fo.clients)
        BY <2>3, <3>2, <4>1, StageAgrees
      <4> HIDE DEF g
      <4> QED BY <2>3, <4>2 DEF RecordsAgree
    <3> QED BY <3>1, <3>2
  <2>5. "retargetApply" \in Applying /\ "retargetApply" \notin Holding
    BY DEF Applying, Holding
  <2> HIDE DEF f, g
  <2>6. CASE End(mem)
    BY <2>2, <2>6, EndBeliefs
  <2>7. CASE Only("import", mem, loc)
    BY <1>2, <1>3, <2>2, <2>7, OnlyBeliefs
  <2>8. ASSUME NEW m \in {mem, NewEpisode(mem)}, Write(g, "retargetApply", m, loc)
        PROVE  Beliefs'
    BY <1>2, <1>3, <2>4, <2>5, <2>8, WriteBeliefs
  <2> QED BY <2>1, <2>6, <2>7, <2>8
<1>6. CASE RetargetApply
  <2>1. Apply("import", mem, Reread, "import", Owing, Reread) /\ "import" \notin Holding
    BY <1>6 DEF RetargetApply, Holding
  <2> QED BY <1>2, <1>3, <2>1, ApplyBeliefs
<1> QED BY <1>4, <1>5, <1>6

LEMMA WalkBeliefs ==
    ASSUME Inv, Beliefs, Import \/ Walk \/ Walked
    PROVE  Beliefs'
<1>1. pc \in {"import", "walk", "walked"}
  BY DEF Import, Walk, Walked
<1>2. mem.reconciled /\ RecordsAgree(cfg) /\ cfg \in FC!Config /\ SameDebt(mem)
  BY <1>1, Running DEF SameDebt, Applying
<1>3. \A q \in {"idle", "walk", "walked", "restore"} : q \notin Critical /\ q \notin Holding
  BY DEF Critical, Holding
<1>4. \/ End(mem)
      \/ \E l : \E q \in {"idle", "walk", "walked", "restore"} : Only(q, mem, l)
      \/ \E l : /\ cfg' = [cfg EXCEPT !.active = @ + 1]
                /\ Goto("walked", mem, l)
                /\ UNCHANGED <<kernel, edited>>
  <2>1. CASE Import
    BY <2>1 DEF Import
  <2>2. CASE Walk
    BY <2>2 DEF Walk
  <2>3. CASE Walked
    BY <2>3 DEF Walked
  <2> QED BY <2>1, <2>2, <2>3
<1>5. ASSUME NEW q \in {"idle", "walk", "walked", "restore"}, NEW l, Only(q, mem, l)
      PROVE  Beliefs'
  BY <1>2, <1>3, <1>5, OnlyBeliefs
<1>6. ASSUME NEW l,
             cfg' = [cfg EXCEPT !.active = @ + 1],
             Goto("walked", mem, l), UNCHANGED <<kernel, edited>>
      PROVE  Beliefs'
  <2>1. /\ cfg'.fo = cfg.fo /\ cfg'.pend = cfg.pend /\ cfg'.tun = cfg.tun
        /\ cfg'.paused = cfg.paused
    BY <1>2, <1>6 DEF FC!Config
  <2>2. Believes("walked", mem, l, cfg, kernel, edited)
    BY <1>2, <1>3, Moves DEF Beliefs, SameDebt
  <2>3. Believes("walked", mem, l, cfg', kernel, edited)
    BY <2>1, <2>2 DEF Believes, Behind, Fresh, Lent, RecordsAgree, FC!snapshotOnTunnel, Holding
  <2> QED BY <1>6, <2>3, GotoBelieves
<1> QED BY <1>2, <1>4, <1>5, <1>6, EndBeliefs

LEMMA CommitRestoreBeliefs ==
    ASSUME Inv, Beliefs,
           Restore \/ TproxyCheck \/ RestoreStage \/ StagedApply \/ StagedCheck \/ RestoreBegin
           \/ Unstage
    PROVE  Beliefs'
<1> USE Debts
<1>1. pc \in {"restore", "tproxyCheck", "restoreStage", "stagedApply", "stagedCheck",
              "restoreBegin", "unstage"}
  BY DEF Restore, TproxyCheck, RestoreStage, StagedApply, StagedCheck, RestoreBegin, Unstage
<1>2. mem.reconciled /\ RecordsAgree(cfg) /\ cfg \in FC!Config /\ loc \in Tick
  BY <1>1, Running
<1>3. \A q \in {"idle", "pickApply", "tproxyApply", "restoreStage", "unstage"} :
         q \notin Critical /\ q \notin Holding
  BY DEF Critical, Holding
<1>4. CASE Restore \/ TproxyCheck
  <2>1. SameDebt(mem)
    BY <1>4 DEF SameDebt, Applying, Restore, TproxyCheck
  <2>2. \/ End(mem)
        \/ \E l : \E q \in {"idle", "pickApply", "tproxyApply", "restoreStage"} : Only(q, mem, l)
    BY <1>4 DEF Restore, TproxyCheck
  <2> QED BY <1>2, <1>3, <2>1, <2>2, EndBeliefs, OnlyBeliefs
<1>5. CASE RestoreStage
  <2> DEFINE f == FC!EnsureFailoverStaged(cfg)
  <2>1. pc = "restoreStage" /\ (End(mem) \/ Write(f, "stagedApply", mem, loc))
    BY <1>5 DEF RestoreStage
  <2>2. SameDebt(mem)
    BY <2>1 DEF SameDebt, Applying
  <2>3. CASE Write(f, "stagedApply", mem, loc)
    <3>1. RecordsAgree(f) /\ Lent(f, edited') \subseteq f.xray
      BY <1>2, EnsureAgrees
    <3> HIDE DEF f
    <3>2. Believes("stagedApply", mem, loc, f, kernel, edited')
      BY <1>2, <3>1 DEF Believes, Behind, Applying, Holding
    <3> QED BY <2>3, <3>2, GotoBelieves DEF Write
  <2> QED BY <2>1, <2>2, <2>3, EndBeliefs
<1>6. CASE StagedApply
  <2>1. pc = "stagedApply" /\ Apply("stagedCheck", mem, loc, "idle", Owing, loc)
    BY <1>6 DEF StagedApply
  <2>2. Lent(cfg, edited) \subseteq cfg.xray
    BY <2>1 DEF Beliefs, Believes
  <2>3. CASE End(Owing)
    BY <2>3, EndBeliefs
  <2>4. CASE Goto("stagedCheck", mem, loc) /\ kernel' \in Installable(cfg)
             /\ UNCHANGED <<cfg, edited>>
    <3>1. /\ Fresh(cfg, kernel', edited)
          /\ kernel'.tproxyReady => kernel'.xray = FC!EffectiveXrayClients(cfg)
      BY <1>2, <2>4, InstalledFresh
    <3>2. kernel'.tproxyReady => Lent(cfg, edited) \subseteq kernel'.xray
      BY <2>2, <3>1 DEF Lent, FC!EffectiveXrayClients
    <3>3. Believes("stagedCheck", mem, loc, cfg, kernel', edited)
      BY <1>2, <2>2, <3>1, <3>2 DEF Believes, Holding
    <3> QED BY <2>4, <3>3, GotoBelieves
  <2>5. CASE Goto("idle", Owing, loc) /\ UNCHANGED <<cfg, edited>>
    <3>1. Believes("idle", Owing, loc, cfg, kernel', edited)
      BY <1>3, Moves DEF Beliefs
    <3> QED BY <2>5, <3>1, GotoBelieves
  <2> QED BY <2>1, <2>3, <2>4, <2>5, ApplyCases
<1>7. CASE StagedCheck
  <2> DEFINE k == [loc EXCEPT !.seen = kernel.xray]
  <2>1. PICK q \in {"unstage", "idle"} :
           /\ pc = "stagedCheck"
           /\ \/ kernel.tproxyReady /\ Only("restoreBegin", mem, k)
              \/ Only(q, mem, loc)
    BY <1>7 DEF StagedCheck
  <2>2. SameDebt(mem)
    BY <2>1 DEF SameDebt, Applying
  <2>3. CASE Only(q, mem, loc)
    BY <1>2, <1>3, <2>2, <2>3, OnlyBeliefs
  <2>4. CASE kernel.tproxyReady /\ Only("restoreBegin", mem, k)
    <3>1. k.seen = kernel.xray
      BY <1>2 DEF Tick
    <3> HIDE DEF k
    <3>2. Lent(cfg, edited) \subseteq k.seen
      BY <2>1, <2>4, <3>1 DEF Beliefs, Believes
    <3>3. ~Behind("restoreBegin", mem, cfg) => Fresh(cfg, kernel, edited)
      BY <2>1 DEF Beliefs, Believes, Behind, Applying
    <3>4. Believes("restoreBegin", mem, k, cfg, kernel, edited)
      BY <1>2, <3>2, <3>3 DEF Believes, Holding
    <3> QED BY <2>4, <3>4, GotoBelieves DEF Only
  <2> QED BY <2>1, <2>3, <2>4
<1>8. CASE RestoreBegin
  <2> DEFINE f == FC!BeginXrayRestore(cfg)
  <2>1. PICK q \in {"unstage", "idle"} :
           /\ pc = "restoreBegin"
           /\ \/ End(mem) \/ Only(q, mem, loc)
              \/ /\ cfg.fo # Nil /\ cfg.pend = Nil
                 /\ Write(f, "restoredApply", mem, [loc EXCEPT !.applied = TRUE])
    BY <1>8 DEF RestoreBegin
  <2>2. SameDebt(mem)
    BY <2>1 DEF SameDebt, Applying
  <2>3. CASE End(mem)
    BY <2>2, <2>3, EndBeliefs
  <2>4. CASE Only(q, mem, loc)
    BY <1>2, <1>3, <2>2, <2>4, OnlyBeliefs
  <2>5. ASSUME cfg.fo # Nil, cfg.pend = Nil,
               Write(f, "restoredApply", mem, [loc EXCEPT !.applied = TRUE])
        PROVE  Beliefs'
    <3>1. f.fo = Nil
      BY <1>2, <2>5, BeginAgrees
    <3>2. "restoredApply" \notin Critical /\ "restoredApply" \notin Holding
      BY DEF Critical, Holding
    <3> HIDE DEF f
    <3>3. RecordsAgree(f)
      BY <3>1 DEF RecordsAgree
    <3> QED BY <1>2, <2>5, <3>1, <3>2, <3>3, WriteBeliefs
  <2> QED BY <2>1, <2>3, <2>4, <2>5
<1>9. CASE Unstage
  <2> DEFINE f == FC!CommitXrayFailover(cfg)
  <2>1. pc = "unstage" /\ (End(mem) \/ Write(f, "unstageApply", mem, loc))
    BY <1>9 DEF Unstage
  <2>2. SameDebt(mem)
    BY <2>1 DEF SameDebt, Applying
  <2>3. RecordsAgree(f)
    BY <1>2, CommitAgrees
  <2>4. "unstageApply" \notin Critical /\ "unstageApply" \notin Holding
        /\ "unstageApply" \in Applying
    BY DEF Critical, Holding, Applying
  <2> HIDE DEF f
  <2> QED BY <1>2, <2>1, <2>2, <2>3, <2>4, EndBeliefs, WriteBeliefs
<1> QED BY <1>4, <1>5, <1>6, <1>7, <1>8, <1>9

LEMMA TickBeliefs ==
    ASSUME Inv, Beliefs, WatchNext
    PROVE  Beliefs'
BY PlainBeliefs, TickBeginsBeliefs, RestoreEndsBeliefs, DeathBeliefs, FailoverBeliefs,
   ApplyFailoverBeliefs, LeaveBeliefs, WalkBeliefs, CommitRestoreBeliefs
   DEF WatchNext

\* A user's write never makes a failover, never ends one, and takes clients out
\* of the records if it changes them at all.
Thins(f, g) ==
    /\ f.fo = Nil <=> g.fo = Nil
    /\ f.pend = Nil <=> g.pend = Nil
    /\ f.fo # Nil => /\ g.fo.tunnel = f.fo.tunnel
                     /\ g.fo.clients \subseteq f.fo.clients
                     /\ f.fo.added \subseteq f.fo.clients => g.fo.added \subseteq g.fo.clients

LEMMA DetachThins ==
    ASSUME NEW f \in FC!Config, NEW D
    PROVE  Thins(f, FC!DetachFailoverClients(f, D))
<1> USE NilIsNoRecord
<1> DEFINE detach(s) == [s EXCEPT !.clients = s.clients \ D, !.added = s.added \ D]
           h == IF f.fo = Nil THEN Nil ELSE detach(f.fo)
           p == IF f.pend = Nil THEN Nil
                ELSE [f.pend EXCEPT !.snapshot = detach(f.pend.snapshot),
                                    !.restored = f.pend.restored \ D]
           g == FC!DetachFailoverClients(f, D)
<1>1. g = [f EXCEPT !.fo = h, !.pend = p]
  BY DEF FC!DetachFailoverClients
<1>2. f.fo # Nil =>
         /\ h \in FC!FailoverRecord /\ h.tunnel = f.fo.tunnel
         /\ h.clients = f.fo.clients \ D /\ h.added = f.fo.added \ D
  BY DEF FC!Config, FC!FailoverRecord
<1>3. f.pend # Nil => p \in FC!PendingRecord
  BY DEF FC!Config, FC!FailoverRecord, FC!PendingRecord
<1>4. (f.fo = Nil <=> h = Nil) /\ (f.pend = Nil <=> p = Nil)
  BY <1>2, <1>3
<1>5. g.fo = h /\ g.pend = p
  <2> HIDE DEF h, p
  <2> QED BY <1>1 DEF FC!Config
<1> HIDE DEF h, p, g
<1>6. Thins(f, g)
  BY <1>2, <1>4, <1>5 DEF Thins
<1> QED BY <1>6 DEF g

LEMMA EditsThin ==
    ASSUME cfg \in FC!Config, UserWrites
    PROVE  Thins(cfg, cfg')
<1>1. \A f \in FC!Config, c \in Client, r \in FC!Route :
         LET g == FC!OntoRoute(f, c, r) IN g.fo = f.fo /\ g.pend = f.pend /\ Keeps(f, g)
  <2> SUFFICES ASSUME NEW f \in FC!Config, NEW c \in Client, NEW r \in FC!Route
               PROVE  LET g == FC!OntoRoute(f, c, r)
                      IN  g.fo = f.fo /\ g.pend = f.pend /\ Keeps(f, g)
    OBVIOUS
  <2>1. CASE r = "xray"
    BY <2>1 DEF FC!OntoRoute, FC!Config, Keeps
  <2>2. CASE r # "xray"
    <3>1. r \in Tunnel
      BY <2>2 DEF FC!Route
    <3>2. FC!PutOn(f.tun, r, {c}) \in [Tunnel -> SUBSET Client]
      BY <3>1 DEF FC!PutOn, FC!Config
    <3> QED BY <2>2, <3>1, <3>2 DEF FC!OntoRoute, FC!Config, Keeps
  <2> QED BY <2>1, <2>2
<1>2. \A f \in FC!Config, c \in Client :
         LET g == FC!OffEveryRoute(f, c) IN g.fo = f.fo /\ g.pend = f.pend /\ Keeps(f, g)
  BY DEF FC!OffEveryRoute, FC!Config, Keeps
<1>3. \A f \in FC!Config, c \in Client :
         LET g == FC!DetachFailoverClients(f, {c}) IN Thins(f, g) /\ Keeps(f, g)
  BY DetachKeeps, DetachThins
<1>4. \A f \in FC!Config, S \in SUBSET Client :
         LET g == [f EXCEPT !.paused = S] IN g.fo = f.fo /\ g.pend = f.pend /\ Keeps(f, g)
  BY DEF FC!Config, Keeps
<1>5. \A f, g : g.fo = f.fo /\ g.pend = f.pend => Thins(f, g)
  BY DEF Thins
<1>6. \A f, g, h : g.fo = f.fo /\ g.pend = f.pend /\ Thins(g, h) => Thins(f, h)
  BY DEF Thins
<1>7. \A f, g, h : Thins(f, g) /\ h.fo = g.fo /\ h.pend = g.pend => Thins(f, h)
  BY DEF Thins
<1>8. ASSUME NEW c \in Client, NEW r \in FC!Route, FC!AddClient(c, r) PROVE Thins(cfg, cfg')
  <2> DEFINE a == FC!DetachFailoverClients(cfg, {c})
             b == FC!OntoRoute(a, c, r)
  <2>1. Thins(cfg, a) /\ a \in FC!Config
    BY <1>3 DEF Keeps
  <2>2. b.fo = a.fo /\ b.pend = a.pend
    BY <1>1, <2>1
  <2>3. cfg' = b
    BY <1>8 DEF FC!AddClient
  <2> HIDE DEF a, b
  <2> QED BY <1>7, <2>1, <2>2, <2>3
<1>9. ASSUME NEW c \in Client, NEW r \in FC!Route, FC!MoveClient(c, r) PROVE Thins(cfg, cfg')
  <2> DEFINE a == FC!OffEveryRoute(cfg, c)
             b == FC!OntoRoute(a, c, r)
             d == FC!DetachFailoverClients(b, {c})
  <2>1. a.fo = cfg.fo /\ a.pend = cfg.pend /\ a \in FC!Config
    BY <1>2 DEF Keeps
  <2>2. b.fo = a.fo /\ b.pend = a.pend /\ b \in FC!Config
    BY <1>1, <2>1 DEF Keeps
  <2>3. Thins(b, d)
    BY <1>3, <2>2
  <2>4. cfg' = d
    BY <1>9 DEF FC!MoveClient
  <2> HIDE DEF a, b, d
  <2> QED BY <1>6, <2>1, <2>2, <2>3, <2>4
<1>10. ASSUME NEW c \in Client, FC!PauseClient(c) \/ FC!ResumeClient(c) PROVE Thins(cfg, cfg')
  <2>1. \E S : cfg' = [cfg EXCEPT !.paused = S]
    BY <1>10 DEF FC!PauseClient, FC!ResumeClient
  <2>2. cfg'.fo = cfg.fo /\ cfg'.pend = cfg.pend
    BY <2>1 DEF FC!Config
  <2> QED BY <1>5, <2>2
<1>11. ASSUME NEW c \in Client, FC!DeleteClient(c) PROVE Thins(cfg, cfg')
  <2> DEFINE a == FC!OffEveryRoute(cfg, c)
             b == [a EXCEPT !.paused = a.paused \ {c}]
             d == FC!DetachFailoverClients(b, {c})
  <2>1. a.fo = cfg.fo /\ a.pend = cfg.pend /\ a \in FC!Config
    BY <1>2 DEF Keeps
  <2>2. a.paused \ {c} \in SUBSET Client
    BY <2>1 DEF FC!Config
  <2>3. b.fo = a.fo /\ b.pend = a.pend /\ b \in FC!Config
    BY <1>4, <2>1, <2>2 DEF Keeps
  <2>4. Thins(b, d)
    BY <1>3, <2>3
  <2>5. cfg' = d
    BY <1>11 DEF FC!DeleteClient
  <2> HIDE DEF a, b, d
  <2> QED BY <1>6, <2>1, <2>3, <2>4, <2>5
<1>12. ASSUME NEW a \in FC!WizardLists, FC!WizardApply(a) PROVE Thins(cfg, cfg')
  <2> DEFINE f == FC!Assigned(cfg, a)
             d == FC!DetachFailoverClients(f, f.fo.clients \ f.xray)
  <2>1. f.fo = cfg.fo /\ f.pend = cfg.pend /\ f \in FC!Config
    BY DEF FC!Assigned, FC!Config
  <2>2. cfg' = IF f.fo = Nil THEN f ELSE d
    BY <1>12 DEF FC!WizardApply
  <2>3. Thins(f, d)
    <3> HIDE DEF f
    <3> QED BY <2>1, DetachThins
  <2> HIDE DEF f, d
  <2> QED BY <1>5, <1>6, <2>1, <2>2, <2>3
<1>13. ASSUME FC!RecordActiveServer PROVE Thins(cfg, cfg')
  BY <1>5, <1>13 DEF FC!RecordActiveServer, FC!Config
<1> QED BY <1>8, <1>9, <1>10, <1>11, <1>12, <1>13 DEF UserWrites

\* What the user changes counts as touched: nothing else of what was lent moves.
LEMMA UserBeliefs ==
    ASSUME Inv, Beliefs, UserWrites
    PROVE  Beliefs'
<1>1. UNCHANGED <<pc, mem, loc, kernel>>
  BY DEF UserWrites, tick
<1>2. Thins(cfg, cfg') /\ cfg \in FC!Config /\ cfg' \in FC!Config
  BY EditsThin, EditsFollow DEF Inv
<1>3. RecordsAgree(cfg')
  BY <1>2 DEF Beliefs, Believes, RecordsAgree, Thins
<1>4. Lent(cfg', edited') \subseteq Lent(cfg, edited)
      /\ \A c \in Lent(cfg', edited') : c \in cfg'.xray <=> c \in cfg.xray
  <2> SUFFICES ASSUME NEW c \in Lent(cfg', edited')
               PROVE  c \in Lent(cfg, edited) /\ (c \in cfg'.xray <=> c \in cfg.xray)
    OBVIOUS
  <2>1. /\ cfg'.fo # Nil /\ c \in cfg'.fo.clients /\ c \in cfg'.tun[cfg'.fo.tunnel]
        /\ c \notin cfg'.paused /\ c \notin edited'
    BY DEF Lent, FC!snapshotOnTunnel
  <2>2. cfg.fo # Nil /\ cfg'.fo.tunnel = cfg.fo.tunnel /\ c \in cfg.fo.clients
    BY <1>2, <2>1 DEF Thins
  <2>3. c \in Client /\ cfg.fo.tunnel \in Tunnel
    BY <1>2, <2>2 DEF FC!Config, FC!FailoverRecord
  <2>4. c \notin edited /\ c \notin Touched
    BY <2>1 DEF UserWrites
  <2>5. c \notin cfg.paused /\ FC!ClientRoutes(cfg', c) = FC!ClientRoutes(cfg, c)
    BY <2>1, <2>3, <2>4 DEF Touched
  <2>6. /\ "xray" \in FC!ClientRoutes(cfg', c) <=> c \in cfg'.xray
        /\ "xray" \in FC!ClientRoutes(cfg, c) <=> c \in cfg.xray
    BY DEF FC!ClientRoutes, FC!Route
  <2>7. LET t == cfg.fo.tunnel
        IN  /\ t \in FC!ClientRoutes(cfg', c) <=> c \in cfg'.tun[t]
            /\ t \in FC!ClientRoutes(cfg, c) <=> c \in cfg.tun[t]
    BY <2>3, WatchAssumption DEF FC!ClientRoutes, FC!Route
  <2>8. c \in cfg.tun[cfg.fo.tunnel]
    BY <2>1, <2>2, <2>5, <2>7
  <2>9. c \in FC!snapshotOnTunnel(cfg)
    BY <2>2, <2>8 DEF FC!snapshotOnTunnel
  <2>10. c \in Lent(cfg, edited)
    BY <2>4, <2>5, <2>9 DEF Lent
  <2>11. c \in cfg'.xray <=> c \in cfg.xray
    BY <2>5, <2>6
  <2> QED BY <2>10, <2>11
<1>5. pc \in Holding => loc.snap.fo.tunnel = cfg'.fo.tunnel
  <2>1. pc \in Holding => cfg.fo # Nil /\ loc.snap.fo.tunnel = cfg.fo.tunnel
    BY Running DEF Holding
  <2> QED BY <1>2, <2>1 DEF Thins
<1>6. ~Behind(pc, mem, cfg') => Fresh(cfg', kernel, edited')
  BY <1>2, <1>4 DEF Behind, Fresh, Thins, Beliefs, Believes
<1>7. Believes(pc, mem, loc, cfg', kernel, edited')
  BY <1>3, <1>4, <1>5, <1>6 DEF Beliefs, Believes
<1> QED BY <1>1, <1>7 DEF Beliefs

LEMMA OthersBeliefs ==
    ASSUME Inv, Beliefs, Environment
    PROVE  Beliefs'
<1>1. CASE OtherApply \/ StartAgain
  <2>1. UNCHANGED <<cfg, pc, mem, loc, edited>>
    BY <1>1 DEF OtherApply, StartAgain, tick
  <2>2. kernel' \in Installable(cfg) \cup {kernel}
    BY <1>1 DEF OtherApply, StartAgain, ApplyOutcomes
  <2>3. CASE kernel' = kernel
    BY <2>1, <2>3 DEF Beliefs
  <2>4. CASE kernel' \in Installable(cfg)
    <3>1. /\ Fresh(cfg, kernel', edited)
          /\ kernel'.tproxyReady => kernel'.xray = FC!EffectiveXrayClients(cfg)
      BY <2>4, InstalledFresh DEF Inv
    <3>2. Lent(cfg, edited) \subseteq cfg.xray /\ kernel'.tproxyReady
             => Lent(cfg, edited) \subseteq kernel'.xray
      BY <3>1 DEF Lent, FC!EffectiveXrayClients
    <3>3. Believes(pc, mem, loc, cfg, kernel', edited)
      BY <3>1, <3>2 DEF Beliefs, Believes
    <3> QED BY <2>1, <3>3 DEF Beliefs
  <2> QED BY <2>2, <2>3, <2>4
<1>2. CASE Stop
  <2>1. UNCHANGED <<cfg, pc, mem, loc, edited>> /\ kernel' = Nothing
    BY <1>2 DEF Stop
  <2>2. Nothing.failoverReady = Nil /\ Nothing.tproxyReady = FALSE
    BY DEF Nothing
  <2>3. cfg.fo # Nil => cfg.fo.tunnel # Nil
    <3>1. Nil \notin Tunnel
      BY WatchAssumption
    <3> QED BY <3>1 DEF Inv, FC!Config, FC!FailoverRecord
  <2>4. Fresh(cfg, Nothing, edited)
    BY <2>2, <2>3 DEF Fresh
  <2>5. Believes(pc, mem, loc, cfg, Nothing, edited)
    BY <2>2, <2>4 DEF Beliefs, Believes
  <2> QED BY <2>1, <2>5 DEF Beliefs
<1>3. CASE Crash
  <2>1. Goto("idle", NewProcess, loc) /\ UNCHANGED <<cfg, kernel, edited>>
    BY <1>3 DEF Crash
  <2>2. NewProcess.reconciled = FALSE
    BY DEF NewProcess
  <2>3. Believes("idle", NewProcess, loc, cfg, kernel, edited)
    <3>1. ~Behind("idle", NewProcess, cfg) => Fresh(cfg, kernel, edited)
      BY <2>2 DEF Behind, Fresh
    <3> QED BY <3>1 DEF Beliefs, Believes, Holding
  <2> QED BY <2>1, <2>3, GotoBelieves
<1> QED BY <1>1, <1>2, <1>3, UserBeliefs DEF Environment

LEMMA InitBeliefs == Init => Beliefs
<1> SUFFICES ASSUME Init PROVE Beliefs
  OBVIOUS
<1>1. RecordsAgree(cfg)
  <2>1. \A p : FC!InitialAssignment(want, p).fo = Nil /\ FC!InitialAssignment(want, p).pend = Nil
    BY DEF FC!InitialAssignment, FC!Assigned
  <2>2. \A p, t, C, off :
           LET f == FC!LegacyFailover(FC!InitialAssignment(want, p), t, C, off)
           IN  f.fo.added = {} /\ f.pend = Nil
    BY DEF FC!LegacyFailover, FC!InitialAssignment, FC!Assigned
  <2>3. \E p : LET f == FC!InitialAssignment(want, p)
               IN  cfg = f \/ \E t, C, off : cfg = FC!LegacyFailover(f, t, C, off)
    BY DEF Init, FC!Init
  <2> QED BY <2>1, <2>2, <2>3 DEF RecordsAgree
<1>2. pc = "idle" /\ mem.reconciled = FALSE
  BY DEF Init, NewProcess
<1>3. ~Behind(pc, mem, cfg) => Fresh(cfg, kernel, edited)
  BY <1>2 DEF Behind, Fresh
<1> QED BY <1>1, <1>2, <1>3 DEF Beliefs, Believes, Holding

\* Make before break in the commit of a failover and in the second write of a
\* restore: the one takes clients off Xray only when the router carried them on the
\* tunnel, the other off the tunnel only when it had them on Xray again, as of the
\* marker the tick went by - across crashes, stops, failed applies and the
\* user's edits.  (Retarget, Unstage and Finalize's reinstatement read no marker
\* of the route they send clients to, and are not covered.)
THEOREM MadeBeforeBroken == Spec => MakeBeforeBreak
<1>1. Inv /\ Beliefs /\ [Next]_vars => Beliefs'
  <2>1. Beliefs /\ UNCHANGED vars => Beliefs'
    BY DEF Beliefs, vars, world
  <2> QED BY <2>1, TickBeliefs, OthersBeliefs DEF Next
<1>2. ASSUME Inv, Beliefs, Next, pc = "commit", pc' = "commitApply",
             NEW c \in (cfg.xray \ cfg'.xray) \ edited
      PROVE  c \in loc.seen
  <2>1. c \in cfg.xray /\ cfg' = FC!CommitXrayFailover(cfg)
    <3>1. ~Environment
      BY <1>2 DEF Environment, UserWrites, OtherApply, Stop, StartAgain, Crash, tick, Goto
    <3>2. Commit
      BY <1>2, <3>1 DEF Next, WatchNext, TickBegins, Reconcile, ReconcileApply, Finalize,
         ReinstateApply, RetryApply, Probe, Dead, Stage, StageApply, Failover, Extend,
         PendingApply, Ready, CommitApply, Fallback, FallbackApply, FallbackReady,
         FallbackLook, Gone, GoneApply, GoneReady, Leave, Retarget, RetargetApply, Import,
         Walk, Walked, Restore, PickApply, TproxyApply, TproxyCheck, RestoreStage,
         StagedApply, StagedCheck, RestoreBegin, RestoredApply, Unstage, UnstageApply
    <3>3. ~UNCHANGED <<cfg, user>>
      BY <1>2 DEF user
    <3> QED BY <1>2, <3>2, <3>3, OnlyStutters, EndStutters DEF Commit, Write
  <2>2. cfg.fo # Nil /\ cfg'.xray = cfg.xray \ (FC!snapshotOnTunnel(cfg) \ cfg.paused)
    <3>1. cfg \in FC!Config /\ cfg' # cfg
      BY <1>2 DEF Inv
    <3> QED BY <2>1, <3>1 DEF FC!CommitXrayFailover, FC!Config
  <2>3. c \in Lent(cfg, edited)
    BY <1>2, <2>1, <2>2 DEF Lent
  <2> QED BY <1>2, <2>3 DEF Beliefs, Believes
<1>3. ASSUME Inv, Beliefs, Next, pc = "restoreBegin", pc' = "restoredApply",
             NEW t \in Tunnel, NEW c \in cfg.tun[t] \ (cfg'.tun[t] \cup edited \cup cfg.paused)
      PROVE  c \in loc.seen
  <2>1. cfg.fo # Nil /\ cfg.pend = Nil /\ cfg' = FC!BeginXrayRestore(cfg)
    <3>1. ~Environment
      BY <1>3 DEF Environment, UserWrites, OtherApply, Stop, StartAgain, Crash, tick, Goto
    <3>2. RestoreBegin
      BY <1>3, <3>1 DEF Next, WatchNext, TickBegins, Reconcile, ReconcileApply, Finalize,
         ReinstateApply, RetryApply, Probe, Dead, Stage, StageApply, Failover, Extend,
         PendingApply, Ready, Commit, CommitApply, Fallback, FallbackApply, FallbackReady,
         FallbackLook, Gone, GoneApply, GoneReady, Leave, Retarget, RetargetApply, Import,
         Walk, Walked, Restore, PickApply, TproxyApply, TproxyCheck, RestoreStage,
         StagedApply, StagedCheck, RestoredApply, Unstage, UnstageApply
    <3>3. ~UNCHANGED <<cfg, user>>
      BY <1>3 DEF user
    <3> QED BY <1>3, <3>2, <3>3, OnlyStutters, EndStutters DEF RestoreBegin, Write
  <2>2. cfg \in FC!Config /\ cfg.fo \in FC!FailoverRecord
    BY <1>3, <2>1 DEF Inv, FC!Config
  <2> DEFINE d == IF cfg.fo.legacy THEN FC!snapshotOnTunnel(cfg) ELSE cfg.fo.added
             r == FC!RestoreXrayClientsFromFailover(cfg)
             q == [snapshot |-> [cfg.fo EXCEPT !.committed = FC!FailoverCommitted(cfg)],
                   restored |-> FC!snapshotOnTunnel(cfg), active |-> cfg.active]
  <2>3. cfg' = [r EXCEPT !.pend = q]
    BY <2>1 DEF FC!BeginXrayRestore
  <2>4. r \in FC!Config
    BY <2>2, RestoreTyped
  <2>5. r.tun = FC!TakeOff(cfg.tun, cfg.fo.tunnel, d)
    BY <2>1, <2>2 DEF FC!RestoreXrayClientsFromFailover, FC!Config
  <2>6. cfg'.tun = r.tun
    <3> HIDE DEF r, q
    <3> QED BY <2>3, <2>4 DEF FC!Config
  <2>7. cfg'.tun = [cfg.tun EXCEPT ![cfg.fo.tunnel] = cfg.tun[cfg.fo.tunnel] \ d]
    <3> HIDE DEF r, d
    <3> QED BY <2>5, <2>6 DEF FC!TakeOff
  <2>8. t = cfg.fo.tunnel /\ c \in d
    <3> HIDE DEF d
    <3> QED BY <1>3, <2>2, <2>7 DEF FC!Config, FC!FailoverRecord
  <2>9. c \in FC!snapshotOnTunnel(cfg)
    BY <1>3, <2>1, <2>8 DEF FC!snapshotOnTunnel, Beliefs, Believes, RecordsAgree
  <2>10. c \in Lent(cfg, edited)
    BY <1>3, <2>9 DEF Lent
  <2> QED BY <1>3, <2>10 DEF Beliefs, Believes
<1>4. Inv /\ Beliefs /\ [Next]_vars =>
         [/\ pc = "commit" /\ pc' = "commitApply" =>
                \A c \in (cfg.xray \ cfg'.xray) \ edited : c \in loc.seen
          /\ pc = "restoreBegin" /\ pc' = "restoredApply" =>
                \A t \in Tunnel : \A c \in cfg.tun[t] \ (cfg'.tun[t] \cup edited \cup cfg.paused) :
                   c \in loc.seen]_vars
  BY <1>2, <1>3
<1> QED BY <1>1, <1>4, InitBeliefs, Invariance, PTL DEF Spec, MakeBeforeBreak

=============================================================================

---------------------------- MODULE MonitorProofs ----------------------------
(* Theorems about Monitor, for any endpoints, workers, limits and worlds.    *)
EXTENDS Monitor, TLAPS

\* Whom a rejection may be held for.
Culprits == Poison \cup Bad \cup env.killed

Rels == {"before", "during", "after"}

Worker == [key : Key, mine : BOOLEAN, gen : BOOLEAN, rel : Rels,
           at : {"first", "retry"} \cup Answers]

File == [Key -> [status : Statuses \cup {"none"}, sticky : BOOLEAN]]

-----------------------------------------------------------------------------
(* The struct between two calls of its methods                               *)

Fields ==
    {"pc", "enabled", "state", "known", "eps", "restored", "status", "sticky", "proved", "inFlight",
     "pending", "oldest", "urgent", "followUp", "evFollow", "due", "fresh", "since", "same", "session",
     "held", "rewritten", "workers", "epoch", "paused", "controlDue", "control", "okAge", "fails",
     "suspects", "crashes", "wait", "then", "launch", "refusals", "lost", "statusDirty", "saveFailed"}

Typed(s) ==
    /\ Fields \subseteq DOMAIN s
    /\ s.status \in [Key -> Statuses] /\ s.oldest \in 0 .. Window
    /\ s.pending \in [Key -> {"none"} \cup Rels]
    /\ s.workers \subseteq Worker
    /\ s.known \subseteq Key /\ s.held \subseteq Key /\ s.suspects \subseteq Key /\ s.launch \subseteq Key
    /\ s.session \in {"none", "up", "exited"}
    /\ s.control \in 0 .. Window /\ s.okAge \in 0 .. Window
    /\ s.crashes \in 0 .. CrashLimit /\ s.refusals \in 0 .. MaxRefusals - 1
    /\ s.restored \in File

\* What is asked, due, under check or recorded has an entry.
Nested(s) ==
    /\ s.inFlight \cup s.urgent \cup s.followUp \cup s.evFollow \cup s.due \subseteq s.known
    /\ s.eps \subseteq s.known /\ s.fresh \subseteq s.known /\ s.since \subseteq s.known

Deserved(s) ==
    /\ s.sticky \subseteq Culprits
    /\ \A k \in Key : s.restored[k].sticky => k \in Culprits

\* Without a session every worker is an orphan, and no worker of a prober that
\* runs has been told of its end; suspects wait for a prober that is gone.
Sessions(s) ==
    /\ s.session = "none" => \A w \in s.workers : ~w.mine
    /\ s.session = "up" => \A w \in s.workers : w.mine => w.at # "lost"
    /\ s.suspects # {} => s.session = "none"
    /\ s.pc = "start" => s.session = "none" /\ s.suspects = {}
    /\ s.pc = "isolate" => s.session = "none"
    /\ s.lost = {}

\* What the monitor takes for a sign of the WAN is no older than an outage.
Timed(s) ==
    /\ env.outage \in 0 .. Window /\ (env.wan => env.outage = 0)
    /\ env.outage <= s.control /\ env.outage <= s.okAge
    /\ \A w \in s.workers : w.mine /\ w.at = "ok" => env.outage = 0

\* Whatever a check dispatched since the call has told, or will tell, was true.
Told(s) ==
    call.pc = "waiting" =>
        /\ \A w \in s.workers : w.rel = "after" => /\ w.at = "ok" => w.key \in seen.up
                                                   /\ w.at = "fail" => w.key \in seen.down
        /\ \A k \in Key : s.pending[k] = "after" => k \in seen.down
        /\ \A k \in s.since : /\ s.status[k] = "alive" => k \in seen.up
                              /\ s.status[k] = "dead" => k \in seen.down

Good(s) == Typed(s) /\ Nested(s) /\ Deserved(s) /\ Sessions(s) /\ Timed(s) /\ Told(s)

\* No server is dead on fresh evidence that was not before.
NoDeath(s, r) == \A k \in Key : r.status[k] = "dead" /\ k \in r.fresh => s.status[k] = "dead" /\ k \in s.fresh

-----------------------------------------------------------------------------
(* Methods that change nothing of it, or only forget                         *)

\* r differs from s in the changed fields alone.
Others(s, r, changed) == DOMAIN r = DOMAIN s /\ \A f \in Fields \ changed : r[f] = s[f]

\* Fields of which the invariant says nothing.
Minor == {"enabled", "state", "proved", "same", "rewritten", "epoch", "paused", "controlDue", "fails",
          "wait", "then", "statusDirty", "saveFailed"}

Steady(s, r) == r.session = s.session /\ r.suspects = s.suspects

LEMMA MinorGood ==
    ASSUME NEW s, Good(s), NEW r, Others(s, r, Minor \cup {"pc"}),
           r.pc = s.pc \/ r.pc \notin {"start", "isolate"}
    PROVE  Good(r) /\ NoDeath(s, r) /\ Steady(s, r)
<1>1. /\ DOMAIN r = DOMAIN s
      /\ r.known = s.known /\ r.eps = s.eps /\ r.restored = s.restored
      /\ r.status = s.status /\ r.sticky = s.sticky /\ r.inFlight = s.inFlight /\ r.pending = s.pending
      /\ r.oldest = s.oldest /\ r.urgent = s.urgent /\ r.followUp = s.followUp /\ r.due = s.due
      /\ r.evFollow = s.evFollow /\ r.fresh = s.fresh
      /\ r.since = s.since /\ r.session = s.session /\ r.held = s.held /\ r.control = s.control
      /\ r.okAge = s.okAge /\ r.suspects = s.suspects /\ r.crashes = s.crashes /\ r.launch = s.launch
      /\ r.refusals = s.refusals /\ r.lost = s.lost /\ r.workers = s.workers
  BY DEF Others, Fields, Minor
<1>2. Typed(r) /\ Nested(r) /\ Deserved(r)
  BY <1>1 DEF Good, Typed, Nested, Deserved
<1>3. Sessions(r) /\ Timed(r) /\ Told(r) /\ NoDeath(s, r)
  BY <1>1 DEF Good, Sessions, Timed, Told, NoDeath
<1> QED BY <1>1, <1>2, <1>3 DEF Good, Steady

LEMMA NoDeathThrough ==
    ASSUME NEW s, NEW r, NEW t, NoDeath(s, r), NoDeath(r, t)
    PROVE  NoDeath(s, t)
BY DEF NoDeath

LEMMA WorkerEdits ==
    ASSUME NEW w \in Worker
    PROVE  /\ LET v == [w EXCEPT !.gen = FALSE]
              IN  v \in Worker /\ v.key = w.key /\ v.mine = w.mine /\ v.rel = w.rel /\ v.at = w.at
           /\ Orphan(w) \in Worker /\ ~Orphan(w).mine /\ Orphan(w).rel = "before" /\ Orphan(w).at = "lost"
BY DEF Worker, Orphan, Rels, Answers

LEMMA InvalidateEvidenceGood ==
    ASSUME NEW s, Good(s), NEW r, r = InvalidateEvidence(s)
    PROVE  Good(r) /\ NoDeath(s, r) /\ Steady(s, r) /\ Others(s, r, {"evFollow", "fresh", "epoch", "workers"})
<1>1. /\ Others(s, r, {"evFollow", "fresh", "epoch", "workers"})
      /\ r.evFollow = {} /\ r.fresh = {} /\ r.workers = {[w EXCEPT !.gen = FALSE] : w \in s.workers}
  BY DEF InvalidateEvidence, Good, Typed, Fields, Others
<1>2. /\ r.workers \subseteq Worker
      /\ \A v \in r.workers : \E w \in s.workers : v.key = w.key /\ v.mine = w.mine /\ v.rel = w.rel /\ v.at = w.at
  <2> SUFFICES ASSUME NEW v \in r.workers
               PROVE  /\ v \in Worker
                      /\ \E w \in s.workers : /\ v.key = w.key /\ v.mine = w.mine
                                            /\ v.rel = w.rel /\ v.at = w.at
    OBVIOUS
  <2>1. PICK w \in s.workers : v = [w EXCEPT !.gen = FALSE]
    BY <1>1
  <2>2. w \in Worker
    BY DEF Good, Typed
  <2> QED BY <2>1, <2>2, WorkerEdits
<1>3. Typed(r) /\ Nested(r) /\ Deserved(r) /\ NoDeath(s, r) /\ Steady(s, r)
  BY <1>1, <1>2 DEF Others, Fields, Good, Typed, Nested, Deserved, NoDeath, Steady
<1>4. Sessions(r) /\ Timed(r)
  BY <1>1, <1>2 DEF Others, Fields, Good, Sessions, Timed
<1>5. Told(r)
  BY <1>1, <1>2 DEF Others, Fields, Good, Told
<1> QED BY <1>1, <1>3, <1>4, <1>5 DEF Good

LEMMA SetStateGood ==
    ASSUME NEW s, Good(s), NEW state, NEW r, r = SetState(s, state)
    PROVE  /\ Good(r) /\ NoDeath(s, r) /\ Steady(s, r)
           /\ Others(s, r, {"state", "evFollow", "fresh", "epoch", "workers"})
<1>1. CASE s.state = state
  BY <1>1 DEF SetState, NoDeath, Steady, Others
<1>2. CASE s.state # state
  <2> DEFINE a == [s EXCEPT !.state = state]
  <2>1. Others(s, a, {"state"})
    BY DEF Others, Good, Typed
  <2>2. Good(a) /\ NoDeath(s, a) /\ Steady(s, a)
    <3>1. Others(s, a, Minor \cup {"pc"}) /\ a.pc = s.pc
      BY <2>1 DEF Others, Minor, Fields
    <3> HIDE DEF a
    <3> QED BY <3>1, MinorGood
  <2>3. r = InvalidateEvidence(a)
    BY <1>2 DEF SetState
  <2> HIDE DEF a
  <2>4. Good(r) /\ NoDeath(a, r) /\ Steady(a, r) /\ Others(a, r, {"evFollow", "fresh", "epoch", "workers"})
    BY <2>2, <2>3, InvalidateEvidenceGood
  <2> QED BY <2>1, <2>2, <2>4, NoDeathThrough DEF Steady, Others
<1> QED BY <1>1, <1>2

\* What guard, or the end of a session, forgets.
LEMMA DiscardGood ==
    ASSUME NEW s, Good(s), NEW r, r = ClearRecent(s) \/ r = DiscardPending(s)
    PROVE  Good(r) /\ NoDeath(s, r) /\ Steady(s, r) /\ Others(s, r, {"okAge", "fails", "pending", "oldest"})
<1>1. /\ Others(s, r, {"okAge", "fails", "pending", "oldest"})
      /\ r.okAge \in {s.okAge, Window} /\ r.oldest \in {s.oldest, 0}
      /\ r.pending = s.pending \/ r.pending = [k \in Key |-> "none"]
  <2>1. Fields \subseteq DOMAIN s
    BY DEF Good, Typed
  <2>2. CASE r = ClearRecent(s)
    BY <2>1, <2>2 DEF ClearRecent, Fields, Others
  <2>3. CASE r = DiscardPending(s)
    BY <2>1, <2>3 DEF DiscardPending, Fields, Others
  <2> QED BY <2>2, <2>3
<1>2. r.okAge \in 0 .. Window /\ r.oldest \in 0 .. Window /\ env.outage <= r.okAge
      /\ r.pending \in [Key -> {"none"} \cup Rels]
  BY <1>1, MonitorAssumption DEF Good, Typed, Timed
<1>3. Typed(r) /\ Nested(r) /\ Deserved(r) /\ NoDeath(s, r) /\ Steady(s, r)
  BY <1>1, <1>2 DEF Others, Fields, Good, Typed, Nested, Deserved, NoDeath, Steady
<1>4. Sessions(r) /\ Timed(r) /\ Told(r)
  BY <1>1, <1>2 DEF Others, Fields, Good, Sessions, Timed, Told
<1> QED BY <1>1, <1>3, <1>4 DEF Good

Forgotten == {"session", "gone", "held", "rewritten", "inFlight", "workers", "okAge", "fails", "pending", "oldest",
              "evFollow", "fresh", "epoch"}

LEMMA ForgetSessionGood ==
    ASSUME NEW s, Good(s), NEW r, r = ForgetSession(s)
    PROVE  Good(r) /\ NoDeath(s, r) /\ r.session = "none" /\ Others(s, r, Forgotten)
<1> DEFINE a == [s EXCEPT !.session = "none", !.gone = FALSE, !.held = {}, !.rewritten = FALSE, !.inFlight = {},
                          !.workers = {Orphan(w) : w \in s.workers}]
           b == DiscardPending(a)
           c == ClearRecent(b)
<1>1. /\ Others(s, a, {"session", "gone", "held", "rewritten", "inFlight", "workers"})
      /\ a.session = "none" /\ a.held = {} /\ a.inFlight = {}
      /\ a.workers = {Orphan(w) : w \in s.workers}
  <2>1. Fields \subseteq DOMAIN s
    BY DEF Good, Typed
  <2>2. Others(s, a, {"session", "gone", "held", "rewritten", "inFlight", "workers"})
    BY <2>1 DEF Fields, Others
  <2>3. a.session = "none" /\ a.held = {} /\ a.inFlight = {} /\ a.workers = {Orphan(w) : w \in s.workers}
    BY <2>1 DEF Fields
  <2> QED BY <2>2, <2>3
<1>2. r = InvalidateEvidence(c)
  BY DEF ForgetSession
<1> HIDE DEF a
<1>3. \A v \in a.workers : v \in Worker /\ ~v.mine /\ v.rel = "before"
  <2> SUFFICES ASSUME NEW v \in a.workers PROVE v \in Worker /\ ~v.mine /\ v.rel = "before"
    OBVIOUS
  <2>1. PICK w \in s.workers : v = Orphan(w)
    BY <1>1
  <2>2. w \in Worker
    BY DEF Good, Typed
  <2> QED BY <2>1, <2>2, WorkerEdits
<1>4. Typed(a) /\ Nested(a) /\ Deserved(a) /\ NoDeath(s, a)
  BY <1>1, <1>3 DEF Others, Fields, Good, Typed, Nested, Deserved, NoDeath
<1>5. Sessions(a) /\ Timed(a) /\ Told(a)
  BY <1>1, <1>3 DEF Others, Fields, Good, Sessions, Timed, Told
<1>6. Good(a)
  BY <1>4, <1>5 DEF Good
<1>7. Good(b) /\ NoDeath(a, b) /\ Steady(a, b) /\ Others(a, b, {"okAge", "fails", "pending", "oldest"})
  BY <1>6, DiscardGood
<1>8. Good(c) /\ NoDeath(b, c) /\ Steady(b, c) /\ Others(b, c, {"okAge", "fails", "pending", "oldest"})
  BY <1>7, DiscardGood
<1> HIDE DEF b, c
<1>9. Good(r) /\ NoDeath(c, r) /\ Steady(c, r) /\ Others(c, r, {"evFollow", "fresh", "epoch", "workers"})
  BY <1>2, <1>8, InvalidateEvidenceGood
<1>10. NoDeath(s, r)
  BY <1>4, <1>7, <1>8, <1>9, NoDeathThrough
<1>11. Others(s, r, Forgotten) /\ r.session = "none"
  BY <1>1, <1>7, <1>8, <1>9 DEF Others, Forgotten, Steady
<1> QED BY <1>9, <1>10, <1>11

LEMMA StopSessionGood ==
    ASSUME NEW s, Good(s), NEW r, r = StopSession(s)
    PROVE  Good(r) /\ NoDeath(s, r) /\ r.session = "none" /\ Others(s, r, Forgotten)
BY ForgetSessionGood DEF StopSession, NoDeath, Others

LEMMA IdleGood ==
    ASSUME NEW s, Good(s), NEW state, NEW r, r = Idle(s, state)
    PROVE  Good(r) /\ NoDeath(s, r) /\ r.session = "none" /\ r.suspects = s.suspects
<1> DEFINE a == StopSession(s)
           b == ClearRecent(a)
<1>1. Good(a) /\ NoDeath(s, a) /\ a.session = "none" /\ Others(s, a, Forgotten)
  BY StopSessionGood
<1>2. a.suspects = s.suspects
  BY <1>1 DEF Others, Fields, Forgotten
<1> HIDE DEF a
<1>3. Good(b) /\ NoDeath(a, b) /\ Steady(a, b)
  BY <1>1, DiscardGood
<1>4. r = SetState(b, state)
  BY DEF Idle, a
<1> HIDE DEF b
<1>5. Good(r) /\ NoDeath(b, r) /\ Steady(b, r)
  BY <1>3, <1>4, SetStateGood
<1> QED BY <1>1, <1>2, <1>3, <1>5, NoDeathThrough DEF Steady

LEMMA StartFailedGood ==
    ASSUME NEW s, Good(s), NEW r, r = StartFailed(s)
    PROVE  Good(r) /\ NoDeath(s, r) /\ Steady(s, r)
<1> DEFINE a == [s EXCEPT !.wait = TRUE]
<1>1. Others(s, a, Minor \cup {"pc"}) /\ a.pc = s.pc
  BY DEF Others, Minor, Good, Typed, Fields
<1>2. r = a \/ r = SetState(a, "prober_error")
  BY DEF StartFailed
<1> HIDE DEF a
<1>3. Good(a) /\ NoDeath(s, a) /\ Steady(s, a)
  BY <1>1, MinorGood
<1>4. CASE r = SetState(a, "prober_error")
  <2>1. Good(r) /\ NoDeath(a, r) /\ Steady(a, r)
    BY <1>3, <1>4, SetStateGood
  <2> QED BY <1>3, <2>1, NoDeathThrough DEF Steady
<1> QED BY <1>2, <1>3, <1>4

-----------------------------------------------------------------------------
(* Methods that reject, readmit or take a new list                           *)

\* Less is asked, under check or recorded, and where something is, the status
\* is as it was, or says nothing of the server.
Lesser(s, r) ==
    /\ Others(s, r, Minor \cup {"known", "eps", "restored", "status", "sticky", "inFlight", "pending",
                                "urgent", "followUp", "evFollow", "due", "fresh", "since"})
    /\ r.known \subseteq Key /\ r.eps \subseteq r.known /\ r.due \subseteq r.known
    /\ r.inFlight \subseteq s.inFlight \cap r.known /\ r.urgent \subseteq s.urgent \cap r.known
    /\ r.followUp \subseteq s.followUp \cap r.known /\ r.evFollow \subseteq s.evFollow \cap r.known
    /\ r.fresh \subseteq s.fresh \cap r.known /\ r.since \subseteq s.since \cap r.known
    /\ r.status \in [Key -> Statuses] /\ r.pending \in [Key -> {"none"} \cup Rels]
    /\ \A k \in Key : r.pending[k] \in {"none", s.pending[k]}
    /\ \A k \in r.fresh \cup r.since : r.status[k] \in {s.status[k], "rejected", "unknown"}
    /\ r.sticky \subseteq Culprits
    /\ r.restored \in File /\ \A k \in Key : r.restored[k].sticky => k \in Culprits

LEMMA LesserGood ==
    ASSUME NEW s, Good(s), NEW r, Lesser(s, r)
    PROVE  Good(r) /\ NoDeath(s, r) /\ Steady(s, r) /\ r.pc = s.pc
<1>1. /\ DOMAIN r = DOMAIN s /\ r.pc = s.pc
      /\ r.oldest = s.oldest /\ r.session = s.session /\ r.held = s.held /\ r.control = s.control
      /\ r.okAge = s.okAge /\ r.suspects = s.suspects /\ r.crashes = s.crashes /\ r.launch = s.launch
      /\ r.refusals = s.refusals /\ r.lost = s.lost /\ r.workers = s.workers
  BY DEF Lesser, Others, Fields, Minor
<1>2. Typed(r) /\ Nested(r) /\ Deserved(r)
  BY <1>1 DEF Lesser, Good, Typed, Nested, Deserved
<1>3. Sessions(r) /\ Timed(r)
  BY <1>1 DEF Good, Sessions, Timed
<1>4. NoDeath(s, r)
  BY DEF Lesser, NoDeath
<1>5. Told(r)
  BY <1>1 DEF Lesser, Good, Told
<1> QED BY <1>1, <1>2, <1>3, <1>4, <1>5 DEF Good, Steady

RejectFields == {"status", "proved", "sticky", "inFlight", "pending", "urgent", "followUp", "evFollow",
                 "due", "same"}

\* For what Xray refused or died of, and for what the generator refuses.
RejectHeld(s, set) == Reject(s, set, TRUE)
RejectRefused(s, set) == Reject(s, set, FALSE)

LEMMA RejectKeeps ==
    ASSUME NEW s, Fields \subseteq DOMAIN s, s.status \in [Key -> Statuses],
           s.pending \in [Key -> {"none"} \cup Rels],
           NEW set \in SUBSET Key, NEW r, r = RejectHeld(s, set) \/ r = RejectRefused(s, set)
    PROVE  /\ Others(s, r, RejectFields)
           /\ r.status \in [Key -> Statuses] /\ r.pending \in [Key -> {"none"} \cup Rels]
           /\ \A k \in Key : r.status[k] = IF k \in set THEN "rejected" ELSE s.status[k]
           /\ \A k \in Key : r.pending[k] = IF k \in set THEN "none" ELSE s.pending[k]
           /\ r.sticky \in {s.sticky \cup set, s.sticky \ set}
           /\ r = RejectRefused(s, set) => r.sticky = s.sticky \ set
           /\ r.inFlight = s.inFlight \ set /\ r.urgent = s.urgent \ set
           /\ r.followUp = s.followUp \ set /\ r.evFollow = s.evFollow \ set /\ r.due = s.due \ set
<1>1. /\ r.status = With(s.status, set, "rejected") /\ r.pending = With(s.pending, set, "none")
      /\ r.sticky \in {s.sticky \cup set, s.sticky \ set}
      /\ r = RejectRefused(s, set) => r.sticky = s.sticky \ set
      /\ r.inFlight = s.inFlight \ set /\ r.urgent = s.urgent \ set
      /\ r.followUp = s.followUp \ set /\ r.evFollow = s.evFollow \ set /\ r.due = s.due \ set
      /\ Others(s, r, RejectFields)
  <2>1. CASE r = RejectHeld(s, set)
    <3>1. /\ r.status = With(s.status, set, "rejected") /\ r.pending = With(s.pending, set, "none")
          /\ r.sticky = s.sticky \cup set
          /\ r.inFlight = s.inFlight \ set /\ r.urgent = s.urgent \ set
          /\ r.followUp = s.followUp \ set /\ r.evFollow = s.evFollow \ set /\ r.due = s.due \ set
      BY <2>1 DEF RejectHeld, Reject, Fields
    <3>2. Others(s, r, RejectFields)
      <4>1. DOMAIN r = DOMAIN s
        BY <2>1 DEF RejectHeld, Reject
      <4>2. \A f \in DOMAIN s \ RejectFields : r[f] = s[f]
        BY <2>1 DEF RejectHeld, Reject, RejectFields
      <4> QED BY <4>1, <4>2 DEF Others
    <3>3. r = RejectRefused(s, set) => r.sticky = s.sticky \ set
      BY DEF RejectRefused, Reject, Fields
    <3> QED BY <3>1, <3>2, <3>3
  <2>2. CASE r = RejectRefused(s, set)
    <3>1. /\ r.status = With(s.status, set, "rejected") /\ r.pending = With(s.pending, set, "none")
          /\ r.sticky = s.sticky \ set
          /\ r.inFlight = s.inFlight \ set /\ r.urgent = s.urgent \ set
          /\ r.followUp = s.followUp \ set /\ r.evFollow = s.evFollow \ set /\ r.due = s.due \ set
      BY <2>2 DEF RejectRefused, Reject, Fields
    <3>2. Others(s, r, RejectFields)
      <4>1. DOMAIN r = DOMAIN s
        BY <2>2 DEF RejectRefused, Reject
      <4>2. \A f \in DOMAIN s \ RejectFields : r[f] = s[f]
        BY <2>2 DEF RejectRefused, Reject, RejectFields
      <4> QED BY <4>1, <4>2 DEF Others
    <3> QED BY <3>1, <3>2
  <2> QED BY <2>1, <2>2
<1> QED BY <1>1 DEF With, Statuses

ReadmitFields == {"status", "sticky", "proved", "due", "same"}

LEMMA ReadmitKeeps ==
    ASSUME NEW s, Fields \subseteq DOMAIN s, s.status \in [Key -> Statuses],
           NEW set \in SUBSET Key, NEW r, r = Readmit(s, set)
    PROVE  /\ Others(s, r, ReadmitFields)
           /\ r.status \in [Key -> Statuses]
           /\ \A k \in Key : r.status[k] = IF k \in set THEN "unknown" ELSE s.status[k]
           /\ r.sticky = s.sticky \ set /\ r.due = s.due \cup set
<1>1. /\ r.status = With(s.status, set, "unknown")
      /\ r.sticky = s.sticky \ set /\ r.due = s.due \cup set
  BY DEF Readmit, Fields
<1>2. Others(s, r, ReadmitFields)
  BY DEF Readmit, Fields, Others, ReadmitFields
<1> QED BY <1>1, <1>2 DEF With, Statuses

\* rejectKey: only what is at fault is held.
LEMMA RejectKeyGood ==
    ASSUME NEW s, Good(s), NEW k \in Key, k \in Culprits, NEW r, r = RejectKey(s, k)
    PROVE  Good(r) /\ NoDeath(s, r) /\ Steady(s, r) /\ r.pc = s.pc /\ r.launch = s.launch /\ r.refusals = s.refusals
<1> DEFINE a == RejectHeld(s, {k})
           b == [a EXCEPT !.statusDirty = TRUE]
<1>1. /\ Others(s, a, RejectFields)
      /\ a.status \in [Key -> Statuses] /\ a.pending \in [Key -> {"none"} \cup Rels]
      /\ \A j \in Key : a.status[j] = IF j \in {k} THEN "rejected" ELSE s.status[j]
      /\ \A j \in Key : a.pending[j] = IF j \in {k} THEN "none" ELSE s.pending[j]
      /\ a.sticky = s.sticky \cup {k}
      /\ a.inFlight = s.inFlight \ {k} /\ a.urgent = s.urgent \ {k}
      /\ a.followUp = s.followUp \ {k} /\ a.evFollow = s.evFollow \ {k} /\ a.due = s.due \ {k}
  <2>1. /\ Fields \subseteq DOMAIN s /\ s.status \in [Key -> Statuses]
        /\ s.pending \in [Key -> {"none"} \cup Rels]
    BY DEF Good, Typed
  <2>2. {k} \in SUBSET Key
    OBVIOUS
  <2>3. a = RejectHeld(s, {k})
    OBVIOUS
  <2> HIDE DEF a
  <2>4. a.sticky = s.sticky \cup {k}
    BY <2>1, <2>3 DEF RejectHeld, Reject, Fields
  <2> DEFINE one == {k}
  <2>5. one \in SUBSET Key /\ a = RejectHeld(s, one)
    BY <2>2, <2>3
  <2> HIDE DEF one
  <2>6. /\ Others(s, a, RejectFields)
        /\ a.status \in [Key -> Statuses] /\ a.pending \in [Key -> {"none"} \cup Rels]
        /\ \A j \in Key : a.status[j] = IF j \in one THEN "rejected" ELSE s.status[j]
        /\ \A j \in Key : a.pending[j] = IF j \in one THEN "none" ELSE s.pending[j]
        /\ a.inFlight = s.inFlight \ one /\ a.urgent = s.urgent \ one
        /\ a.followUp = s.followUp \ one /\ a.evFollow = s.evFollow \ one /\ a.due = s.due \ one
    BY <2>1, <2>5, RejectKeeps
  <2> QED BY <2>4, <2>6 DEF one
<1>2. r \in {s, a, InvalidateEvidence(b)}
  BY DEF RejectKey, RejectHeld
<1> HIDE DEF a
<1>3. Lesser(s, a)
  BY <1>1 DEF Lesser, Others, RejectFields, Fields, Minor, Good, Typed, Nested, Deserved
<1>4. Good(a) /\ NoDeath(s, a) /\ Steady(s, a) /\ a.pc = s.pc
  BY <1>3, LesserGood
<1>5. Others(a, b, Minor \cup {"pc"}) /\ b.pc = a.pc
  BY <1>4 DEF Others, Minor, Good, Typed, Fields
<1> HIDE DEF b
<1>6. Good(b) /\ NoDeath(a, b) /\ Steady(a, b)
  BY <1>4, <1>5, MinorGood
<1>7. CASE r = InvalidateEvidence(b)
  <2>1. Good(r) /\ NoDeath(b, r) /\ Steady(b, r) /\ Others(b, r, {"evFollow", "fresh", "epoch", "workers"})
    BY <1>6, <1>7, InvalidateEvidenceGood
  <2>2. NoDeath(s, r) /\ Steady(s, r)
    BY <1>4, <1>6, <2>1, NoDeathThrough DEF Steady
  <2>3. r.pc = s.pc /\ r.launch = s.launch /\ r.refusals = s.refusals
    BY <1>1, <1>5, <2>1 DEF Others, Fields, Minor, RejectFields
  <2> QED BY <2>1, <2>2, <2>3
<1>8. CASE r = a
  BY <1>1, <1>4, <1>8 DEF Others, Fields, RejectFields
<1>9. CASE r = s
  BY <1>9 DEF NoDeath, Steady
<1> QED BY <1>2, <1>7, <1>8, <1>9

LEMMA ReassessRejectedGood ==
    ASSUME NEW s, Good(s), NEW r, r = ReassessRejected(s)
    PROVE  Good(r) /\ NoDeath(s, r) /\ Steady(s, r) /\ r.pc = s.pc
<1> DEFINE again == {k \in s.eps : s.status[k] = "rejected"} \ s.proved
           a == Readmit(s, again)
           b == [a EXCEPT !.statusDirty = TRUE]
<1>1. r = s \/ r = InvalidateEvidence(b)
  BY DEF ReassessRejected
<1>2. again \subseteq s.known /\ again \in SUBSET Key
  BY DEF Good, Typed, Nested
<1> HIDE DEF again
<1>3. /\ Others(s, a, ReadmitFields)
      /\ a.status \in [Key -> Statuses]
      /\ \A k \in Key : a.status[k] = IF k \in again THEN "unknown" ELSE s.status[k]
      /\ a.sticky = s.sticky \ again /\ a.due = s.due \cup again
  <2>1. Fields \subseteq DOMAIN s /\ s.status \in [Key -> Statuses]
    BY DEF Good, Typed
  <2> QED BY <1>2, <2>1, ReadmitKeeps
<1> HIDE DEF a
<1>4. Lesser(s, a)
  BY <1>2, <1>3 DEF Lesser, Others, ReadmitFields, Fields, Minor, Good, Typed, Nested, Deserved
<1>5. Good(a) /\ NoDeath(s, a) /\ Steady(s, a) /\ a.pc = s.pc
  BY <1>4, LesserGood
<1>6. Others(a, b, Minor \cup {"pc"}) /\ b.pc = a.pc
  BY <1>5 DEF Others, Minor, Good, Typed, Fields
<1> HIDE DEF b
<1>7. Good(b) /\ NoDeath(a, b) /\ Steady(a, b)
  BY <1>5, <1>6, MinorGood
<1>8. CASE r = InvalidateEvidence(b)
  <2>1. Good(r) /\ NoDeath(b, r) /\ Steady(b, r) /\ Others(b, r, {"evFollow", "fresh", "epoch", "workers"})
    BY <1>7, <1>8, InvalidateEvidenceGood
  <2>2. NoDeath(s, r) /\ Steady(s, r)
    BY <1>5, <1>7, <2>1, NoDeathThrough DEF Steady
  <2>3. r.pc = s.pc
    BY <1>5, <1>6, <2>1 DEF Others, Fields
  <2> QED BY <2>1, <2>2, <2>3
<1>9. CASE r = s
  BY <1>9 DEF NoDeath, Steady
<1> QED BY <1>1, <1>8, <1>9

DropFields == RejectFields \cup {"fresh", "since"}

LEMMA DropKeeps ==
    ASSUME NEW s, Good(s), NEW gone \in SUBSET Key, NEW r, r = Drop(s, gone)
    PROVE  /\ Others(s, r, DropFields)
           /\ r.status \in [Key -> Statuses] /\ r.pending \in [Key -> {"none"} \cup Rels]
           /\ \A k \in Key : r.status[k] = IF k \in gone THEN "unknown" ELSE s.status[k]
           /\ \A k \in Key : r.pending[k] = IF k \in gone THEN "none" ELSE s.pending[k]
           /\ r.sticky = s.sticky \ gone
           /\ r.inFlight = s.inFlight \ gone /\ r.urgent = s.urgent \ gone
           /\ r.followUp = s.followUp \ gone /\ r.evFollow = s.evFollow \ gone /\ r.due = s.due \ gone
           /\ r.fresh = s.fresh \ gone /\ r.since = s.since \ gone
<1>1. /\ r.status = With(s.status, gone, "unknown") /\ r.pending = With(s.pending, gone, "none")
      /\ r.sticky = s.sticky \ gone
      /\ r.inFlight = s.inFlight \ gone /\ r.urgent = s.urgent \ gone
      /\ r.followUp = s.followUp \ gone /\ r.evFollow = s.evFollow \ gone /\ r.due = s.due \ gone
      /\ r.fresh = s.fresh \ gone /\ r.since = s.since \ gone
  BY DEF Drop, Fields, Good, Typed
<1>2. Others(s, r, DropFields)
  BY DEF Drop, Fields, Others, RejectFields, DropFields, Good, Typed
<1>3. s.status \in [Key -> Statuses] /\ s.pending \in [Key -> {"none"} \cup Rels]
  BY DEF Good, Typed
<1> QED BY <1>1, <1>2, <1>3 DEF With, Statuses

\* The statuses of all others stay.
Beside(s, r, set) == \A k \in Key : k \notin set => r.status[k] = s.status[k]

\* The saved record of an endpoint that is new.
LEMMA FromRestoredKeeps ==
    ASSUME NEW s, Fields \subseteq DOMAIN s, s.status \in [Key -> Statuses], s.restored \in File,
           NEW new \in SUBSET Key, NEW over, NEW r, r = FromRestored(s, new, over)
    PROVE  /\ Others(s, r, {"status", "sticky", "due"})
           /\ r.status \in [Key -> Statuses] /\ Beside(s, r, new)
           /\ \A k \in r.sticky : k \in s.sticky \/ (k \in new /\ s.restored[k].sticky)
           /\ r.due \subseteq s.due \cup new
<1>1. /\ r.status = [k \in Key |-> IF k \notin new THEN s.status[k]
                                   ELSE IF s.restored[k].status = "none" THEN "unknown"
                                   ELSE s.restored[k].status]
      /\ r.sticky = s.sticky \cup {k \in new : s.restored[k].sticky}
      /\ r.due \subseteq s.due \cup new
  BY DEF FromRestored, Fields
<1>2. Others(s, r, {"status", "sticky", "due"})
  BY DEF FromRestored, Fields, Others
<1>3. \A k \in Key : s.restored[k].status \in Statuses \cup {"none"}
  BY DEF File
<1> QED BY <1>1, <1>2, <1>3 DEF Statuses, Beside

\* merge: a new entry's saved status is neither fresh nor asked of any check.
LEMMA MergeGood ==
    ASSUME NEW s, Good(s), NEW eps \in SUBSET Key, NEW refused \in SUBSET Key, NEW rewritten,
           NEW over, NEW r, r = Merge(s, eps, refused, rewritten, over)
    PROVE  Good(r) /\ NoDeath(s, r) /\ Steady(s, r) /\ r.pc = s.pc
<1> DEFINE now   == eps \cup refused
           gone  == s.known \ now
           new   == now \ s.known
           d     == Drop(s, gone)
           a     == FromRestored(d, new, over)
           freed == {k \in eps : a.status[k] = "rejected" /\ k \notin a.sticky}
           other == IF rewritten THEN eps ELSE eps \ s.eps
           p     == [a EXCEPT !.proved = @ \ other]
           q     == Readmit(p, freed)
           b     == Reject(q, refused, FALSE)
           c     == [b EXCEPT !.known = now, !.eps = eps, !.rewritten = @ \/ rewritten,
                              !.restored = NothingSaved,
                              !.statusDirty = @ \/ \E k \in now : b.status[k] # a.status[k]]
           identity == \/ now # s.known \/ other # {} \/ freed # {}
                       \/ \E k \in refused : k \in s.eps \/ a.status[k] # "rejected" \/ k \in a.sticky
<1>1. r = c \/ r = InvalidateEvidence(c)
  <2>1. Merge(s, eps, refused, rewritten, over) = IF identity THEN InvalidateEvidence(c) ELSE c
    BY DEF Merge
  <2> HIDE DEF identity, c
  <2> QED BY <2>1
<1>2. /\ now \in SUBSET Key /\ gone \in SUBSET Key /\ new \in SUBSET Key /\ freed \in SUBSET Key
      /\ freed \subseteq now /\ eps \subseteq now
  <2> HIDE DEF a
  <2> QED BY DEF Good, Typed
<1>3. s.known \ gone \subseteq now /\ new \cap s.known = {} /\ new \subseteq now
  BY <1>2
<1>d. d = Drop(s, gone) /\ a = FromRestored(d, new, over)
  OBVIOUS
<1> HIDE DEF freed, other, gone, d, a
<1>4. /\ Others(s, d, DropFields)
      /\ d.status \in [Key -> Statuses] /\ d.pending \in [Key -> {"none"} \cup Rels]
      /\ \A k \in Key : d.status[k] = IF k \in gone THEN "unknown" ELSE s.status[k]
      /\ \A k \in Key : d.pending[k] = IF k \in gone THEN "none" ELSE s.pending[k]
      /\ d.sticky = s.sticky \ gone
      /\ d.inFlight = s.inFlight \ gone /\ d.urgent = s.urgent \ gone
      /\ d.followUp = s.followUp \ gone /\ d.evFollow = s.evFollow \ gone /\ d.due = s.due \ gone
      /\ d.fresh = s.fresh \ gone /\ d.since = s.since \ gone
  BY <1>2, <1>d, DropKeeps
<1>5. Fields \subseteq DOMAIN d /\ d.restored = s.restored
  BY <1>4 DEF Others, Fields, RejectFields, DropFields, Good, Typed
<1> HIDE DEF now, new
<1>6. /\ Others(d, a, {"status", "sticky", "due"})
      /\ a.status \in [Key -> Statuses] /\ \A k \in Key : k \notin new => a.status[k] = d.status[k]
      /\ \A k \in a.sticky : k \in d.sticky \/ (k \in new /\ s.restored[k].sticky)
      /\ a.due \subseteq d.due \cup new
  <2>1. d.restored \in File
    BY <1>5 DEF Good, Typed
  <2>2. /\ Others(d, a, {"status", "sticky", "due"})
        /\ a.status \in [Key -> Statuses] /\ Beside(d, a, new)
        /\ \A k \in a.sticky : k \in d.sticky \/ (k \in new /\ d.restored[k].sticky)
        /\ a.due \subseteq d.due \cup new
    <3>1. /\ Fields \subseteq DOMAIN d /\ d.status \in [Key -> Statuses] /\ d.restored \in File
          /\ new \in SUBSET Key /\ a = FromRestored(d, new, over)
      BY <1>2, <1>d, <1>4, <1>5, <2>1
    <3> QED BY <3>1, FromRestoredKeeps
  <2> QED BY <1>5, <2>2 DEF Beside
<1>7. /\ Others(s, a, DropFields)
      /\ a.pending = d.pending /\ a.inFlight = d.inFlight /\ a.urgent = d.urgent
      /\ a.followUp = d.followUp /\ a.evFollow = d.evFollow /\ a.fresh = d.fresh /\ a.since = d.since
      /\ a.sticky \subseteq Culprits
  BY <1>2, <1>4, <1>6 DEF Others, Fields, RejectFields, DropFields, Good, Deserved
<1>8. Others(a, p, {"proved"})
  BY <1>7 DEF Others, Fields, Good, Typed
<1>9. Fields \subseteq DOMAIN p /\ p.status = a.status /\ p.pending = a.pending /\ p.due = a.due
  BY <1>7, <1>8 DEF Others, Fields, Good, Typed
<1> HIDE DEF p
<1>10. /\ Others(p, q, ReadmitFields)
       /\ q.status \in [Key -> Statuses]
       /\ \A k \in Key : q.status[k] = IF k \in freed THEN "unknown" ELSE p.status[k]
       /\ q.sticky = p.sticky \ freed /\ q.due = p.due \cup freed
  BY <1>2, <1>6, <1>9, ReadmitKeeps
<1>11. Fields \subseteq DOMAIN q /\ q.pending = a.pending /\ q.sticky \subseteq Culprits
  BY <1>7, <1>8, <1>9, <1>10 DEF Others, Fields, ReadmitFields
<1> HIDE DEF q
<1>b. b = RejectRefused(q, refused)
  BY DEF RejectRefused
<1> HIDE DEF b
<1>12. /\ Others(q, b, RejectFields)
       /\ b.status \in [Key -> Statuses] /\ b.pending \in [Key -> {"none"} \cup Rels]
       /\ \A k \in Key : b.status[k] = IF k \in refused THEN "rejected" ELSE q.status[k]
       /\ \A k \in Key : b.pending[k] = IF k \in refused THEN "none" ELSE q.pending[k]
       /\ b.sticky = q.sticky \ refused
       /\ b.inFlight = q.inFlight \ refused /\ b.urgent = q.urgent \ refused
       /\ b.followUp = q.followUp \ refused /\ b.evFollow = q.evFollow \ refused /\ b.due = q.due \ refused
  BY <1>4, <1>7, <1>10, <1>11, <1>b, RejectKeeps
<1>13. Fields \subseteq DOMAIN b
  BY <1>11, <1>12 DEF Others
<1> HIDE DEF b
<1>14. /\ Others(b, c, {"known", "eps", "rewritten", "restored", "statusDirty"})
       /\ c.known = now /\ c.eps = eps /\ c.restored = NothingSaved
  BY <1>13 DEF Others, Fields
<1> HIDE DEF c
<1>15. Lesser(s, c)
  <2>1. Others(s, c, DropFields \cup {"known", "eps", "rewritten", "restored", "statusDirty"})
    BY <1>7, <1>8, <1>10, <1>12, <1>14 DEF Others, ReadmitFields, RejectFields, DropFields
  <2>2. /\ c.status = b.status /\ c.sticky = b.sticky /\ c.inFlight = b.inFlight /\ c.pending = b.pending
        /\ c.urgent = b.urgent /\ c.followUp = b.followUp /\ c.evFollow = b.evFollow /\ c.due = b.due
        /\ c.fresh = b.fresh /\ c.since = b.since
    BY <1>14 DEF Others, Fields
  <2>3. /\ q.inFlight = d.inFlight /\ q.urgent = d.urgent /\ q.followUp = d.followUp
        /\ q.evFollow = d.evFollow /\ b.fresh = d.fresh /\ b.since = d.since
    BY <1>7, <1>8, <1>10, <1>12 DEF Others, Fields, ReadmitFields, RejectFields
  <2>4. /\ c.inFlight \subseteq s.inFlight \cap now /\ c.urgent \subseteq s.urgent \cap now
        /\ c.followUp \subseteq s.followUp \cap now /\ c.evFollow \subseteq s.evFollow \cap now
        /\ c.fresh \subseteq s.fresh \cap now /\ c.since \subseteq s.since \cap now
    BY <1>3, <1>4, <1>12, <2>2, <2>3 DEF Good, Nested
  <2>5. c.due \subseteq now
    BY <1>2, <1>3, <1>4, <1>6, <1>9, <1>10, <1>12, <2>2 DEF Good, Nested
  <2>6. \A k \in Key : c.pending[k] \in {"none", s.pending[k]}
    BY <1>4, <1>7, <1>11, <1>12, <2>2
  <2>7. ASSUME NEW k \in c.fresh \cup c.since
        PROVE  c.status[k] \in {s.status[k], "rejected", "unknown"}
    <3>1. k \in s.known /\ k \in Key /\ k \notin new /\ k \notin gone
      BY <1>3, <1>4, <2>2, <2>3, <2>4 DEF Good, Nested, Typed
    <3> QED BY <1>4, <1>6, <1>9, <1>10, <1>12, <2>2, <3>1
  <2>8. NothingSaved \in File /\ \A k \in Key : ~NothingSaved[k].sticky
    BY DEF NothingSaved, File
  <2>9. Others(s, c, Minor \cup {"known", "eps", "restored", "status", "sticky", "inFlight", "pending",
                                 "urgent", "followUp", "evFollow", "due", "fresh", "since"})
    BY <2>1 DEF Others, RejectFields, DropFields, Minor
  <2> QED BY <1>2, <1>11, <1>12, <1>14, <2>2, <2>4, <2>5, <2>6, <2>7, <2>8, <2>9 DEF Lesser
<1>16. Good(c) /\ NoDeath(s, c) /\ Steady(s, c) /\ c.pc = s.pc
  BY <1>15, LesserGood
<1>17. CASE r = InvalidateEvidence(c)
  <2>1. Good(r) /\ NoDeath(c, r) /\ Steady(c, r) /\ Others(c, r, {"evFollow", "fresh", "epoch", "workers"})
    BY <1>16, <1>17, InvalidateEvidenceGood
  <2>2. NoDeath(s, r) /\ Steady(s, r)
    BY <1>16, <2>1, NoDeathThrough DEF Steady
  <2>3. r.pc = s.pc
    BY <1>16, <2>1 DEF Others, Fields
  <2> QED BY <2>1, <2>2, <2>3
<1> QED BY <1>1, <1>16, <1>17

-----------------------------------------------------------------------------
(* Refresh, and the start of a session                                       *)

LEMMA PcGood ==
    ASSUME NEW s, Good(s), NEW pc, pc \notin {"start", "isolate"}, NEW r, r = [s EXCEPT !.pc = pc]
    PROVE  Good(r) /\ NoDeath(s, r) /\ Steady(s, r)
<1>1. Others(s, r, Minor \cup {"pc"}) /\ r.pc = pc
  BY DEF Others, Minor, Good, Typed, Fields
<1> QED BY <1>1, MinorGood

Launching == {"pc", "crashes", "launch", "refusals", "held", "suspects"}

\* A start or an isolation is begun without a session, and a start without suspects.
LEMMA LaunchingGood ==
    ASSUME NEW s, Good(s), NEW r, Others(s, r, Minor \cup Launching),
           r.crashes \in 0 .. CrashLimit, r.launch \subseteq Key, r.refusals \in 0 .. MaxRefusals - 1,
           r.held \subseteq Key, r.suspects \subseteq Key, r.suspects # {} => s.session = "none",
           r.pc = "start" => s.session = "none" /\ r.suspects = {},
           r.pc = "isolate" => s.session = "none"
    PROVE  Good(r) /\ NoDeath(s, r) /\ r.session = s.session
<1>1. /\ DOMAIN r = DOMAIN s
      /\ r.known = s.known /\ r.eps = s.eps /\ r.restored = s.restored
      /\ r.status = s.status /\ r.sticky = s.sticky /\ r.inFlight = s.inFlight /\ r.pending = s.pending
      /\ r.oldest = s.oldest /\ r.urgent = s.urgent /\ r.followUp = s.followUp /\ r.due = s.due
      /\ r.evFollow = s.evFollow /\ r.fresh = s.fresh
      /\ r.since = s.since /\ r.session = s.session /\ r.control = s.control
      /\ r.okAge = s.okAge /\ r.lost = s.lost /\ r.workers = s.workers
  BY DEF Others, Fields, Minor, Launching
<1>2. Typed(r) /\ Nested(r) /\ Deserved(r)
  BY <1>1 DEF Good, Typed, Nested, Deserved
<1>3. Sessions(r) /\ Timed(r) /\ Told(r) /\ NoDeath(s, r)
  BY <1>1 DEF Good, Sessions, Timed, Told, NoDeath
<1> QED BY <1>1, <1>2, <1>3 DEF Good

LEMMA EnsureSessionGood ==
    ASSUME NEW s, Good(s), s.paused \/ s.suspects = {}, NEW r, r = EnsureSession(s)
    PROVE  Good(r) /\ NoDeath(s, r)
<1> DEFINE set  == CheckableSet(s)
           done == [s EXCEPT !.pc = "tick"]
           a    == StopSession(done)
           b    == StopSession(s)
           c    == [b EXCEPT !.pc = "start", !.launch = set, !.refusals = 0]
<1>1. r \in {done, SetState(done, "ok"), SetState(a, "ok")} \/ (~s.paused /\ r = c)
  BY DEF EnsureSession
<1>2. set \subseteq Key
  BY DEF CheckableSet, Checkable, Good, Typed
<1>3. Good(done) /\ NoDeath(s, done)
  BY PcGood
<1> HIDE DEF set, done
<1>4. Good(a) /\ NoDeath(done, a)
  BY <1>3, StopSessionGood
<1>5. Good(b) /\ NoDeath(s, b) /\ b.session = "none" /\ Others(s, b, Forgotten)
  BY StopSessionGood
<1> HIDE DEF a, b
<1>6. CASE r = done
  BY <1>3, <1>6
<1>7. CASE r = SetState(done, "ok")
  BY <1>3, <1>7, SetStateGood, NoDeathThrough
<1>8. CASE r = SetState(a, "ok")
  <2>1. Good(r) /\ NoDeath(a, r)
    BY <1>4, <1>8, SetStateGood
  <2> QED BY <1>3, <1>4, <2>1, NoDeathThrough
<1>9. CASE ~s.paused /\ r = c
  <2>1. b.suspects = {} /\ Fields \subseteq DOMAIN b /\ b.crashes \in 0 .. CrashLimit /\ b.held \subseteq Key
    BY <1>5, <1>9 DEF Others, Fields, Forgotten, Good, Typed
  <2>2. /\ Others(b, c, {"pc", "launch", "refusals"})
        /\ c.pc = "start" /\ c.launch = set /\ c.refusals = 0
    BY <2>1 DEF Others, Fields
  <2> HIDE DEF c
  <2>3. c.suspects = {} /\ c.crashes = b.crashes /\ c.held = b.held /\ Others(b, c, Minor \cup Launching)
    BY <2>1, <2>2 DEF Others, Fields, Launching
  <2>4. 0 \in 0 .. MaxRefusals - 1
    BY MonitorAssumption
  <2>5. Good(c) /\ NoDeath(b, c)
    BY <1>2, <1>5, <2>1, <2>2, <2>3, <2>4, LaunchingGood
  <2> QED BY <1>5, <1>9, <2>5, NoDeathThrough
<1> QED BY <1>1, <1>6, <1>7, <1>8, <1>9

LEMMA AfterIsolationGood ==
    ASSUME NEW s, Good(s), s.paused \/ s.suspects = {}, s.pc \notin {"start", "isolate"},
           NEW r, r = AfterIsolation(s)
    PROVE  Good(r) /\ NoDeath(s, r)
<1> DEFINE a == [s EXCEPT !.pc = "tick", !.crashes = 0, !.wait = TRUE, !.then = "ensure"]
           b == [s EXCEPT !.then = "ensure"]
<1>1. r \in {a, SetState(a, "prober_error"), EnsureSession(b)}
  BY DEF AfterIsolation
<1>2. /\ Others(s, a, {"pc", "crashes", "wait", "then"}) /\ a.pc = "tick" /\ a.crashes = 0
      /\ Others(s, b, {"then"})
  BY DEF Good, Typed, Others, Fields
<1> HIDE DEF a, b
<1>3. Good(a) /\ NoDeath(s, a)
  <2>1. /\ Others(s, a, Minor \cup Launching)
        /\ a.launch = s.launch /\ a.refusals = s.refusals /\ a.held = s.held /\ a.suspects = s.suspects
    BY <1>2 DEF Others, Fields, Minor, Launching
  <2>2. /\ s.launch \subseteq Key /\ s.refusals \in 0 .. MaxRefusals - 1 /\ s.held \subseteq Key
        /\ s.suspects \subseteq Key /\ (s.suspects # {} => s.session = "none")
    BY DEF Good, Typed, Sessions
  <2>3. 0 \in 0 .. CrashLimit
    BY MonitorAssumption
  <2> QED BY <1>2, <2>1, <2>2, <2>3, LaunchingGood
<1>4. Good(b) /\ NoDeath(s, b) /\ (b.paused \/ b.suspects = {})
  <2>1. Others(s, b, Minor \cup {"pc"}) /\ b.pc = s.pc /\ b.paused = s.paused /\ b.suspects = s.suspects
    BY <1>2 DEF Others, Fields, Minor
  <2> QED BY <2>1, MinorGood
<1>5. CASE r = SetState(a, "prober_error")
  BY <1>3, <1>5, SetStateGood, NoDeathThrough
<1>6. CASE r = EnsureSession(b)
  BY <1>4, <1>6, EnsureSessionGood, NoDeathThrough
<1> QED BY <1>1, <1>3, <1>5, <1>6

LEMMA IsolateGood ==
    ASSUME NEW s, Good(s), NEW r, r = Isolate(s)
    PROVE  Good(r) /\ NoDeath(s, r)
<1> DEFINE left == s.suspects \cap Checkable(s)
           a == [s EXCEPT !.suspects = left, !.pc = "tick"]
           b == [a EXCEPT !.pc = "isolate"]
<1>1. (left = {} /\ r = AfterIsolation(a)) \/ (left # {} /\ r = b)
  BY DEF Isolate
<1>2. left \subseteq Key /\ (left # {} => s.session = "none")
  BY DEF Good, Typed, Sessions
<1> HIDE DEF left
<1>3. Others(s, a, {"suspects", "pc"}) /\ a.suspects = left /\ a.pc = "tick"
  BY DEF Good, Typed, Others, Fields
<1>4. Others(s, b, {"suspects", "pc"}) /\ b.suspects = left /\ b.pc = "isolate"
  BY DEF Good, Typed, Others, Fields
<1> HIDE DEF a, b
<1>5. ASSUME NEW t \in {a, b}, t = b => left # {}
      PROVE  Good(t) /\ NoDeath(s, t)
  <2>1. /\ Others(s, t, {"suspects", "pc"}) /\ t.suspects = left
        /\ t.pc = "tick" \/ (t.pc = "isolate" /\ left # {})
    BY <1>3, <1>4, <1>5
  <2>2. /\ Others(s, t, Minor \cup Launching)
        /\ t.launch = s.launch /\ t.refusals = s.refusals /\ t.held = s.held /\ t.crashes = s.crashes
    BY <2>1 DEF Others, Fields, Minor, Launching
  <2>3. /\ s.launch \subseteq Key /\ s.refusals \in 0 .. MaxRefusals - 1 /\ s.held \subseteq Key
        /\ s.crashes \in 0 .. CrashLimit
    BY DEF Good, Typed
  <2> QED BY <1>2, <2>1, <2>2, <2>3, LaunchingGood
<1>6. CASE left = {} /\ r = AfterIsolation(a)
  <2>1. a # b
    BY <1>3, <1>4
  <2>2. Good(a) /\ NoDeath(s, a)
    BY <1>5, <2>1
  <2> QED BY <1>3, <1>6, <2>2, AfterIsolationGood, NoDeathThrough
<1>7. CASE left # {} /\ r = b
  BY <1>5, <1>7
<1> QED BY <1>1, <1>6, <1>7

LEMMA ResumeGood ==
    ASSUME NEW s, Good(s), NEW xray \in {"ok", "missing", "broken"}, NEW r, r = Resume(s, xray)
    PROVE  Good(r) /\ NoDeath(s, r)
<1> DEFINE a == Idle(s, "no_xray")
           b == StopSession(s)
           c == StartFailed(b)
           d == ReassessRejected(s)
           e == [d EXCEPT !.then = "ensure"]
<1>1. \/ r = [s EXCEPT !.pc = "tick"] \/ r = [a EXCEPT !.pc = "tick"]
      \/ r = [c EXCEPT !.pc = "tick"] \/ r = Isolate(e)
  BY DEF Resume
<1>2. Good(a) /\ NoDeath(s, a)
  BY IdleGood
<1>3. Good(b) /\ NoDeath(s, b)
  BY StopSessionGood
<1> HIDE DEF a, b
<1>4. Good(c) /\ NoDeath(b, c)
  BY <1>3, StartFailedGood
<1>5. Good(d) /\ NoDeath(s, d)
  BY ReassessRejectedGood
<1> HIDE DEF c, d
<1>6. Good(e) /\ NoDeath(d, e)
  <2>1. Others(d, e, Minor \cup {"pc"}) /\ e.pc = d.pc
    BY <1>5 DEF Others, Minor, Good, Typed, Fields
  <2> HIDE DEF e
  <2> QED BY <1>5, <2>1, MinorGood
<1> HIDE DEF e
<1>7. CASE r = [s EXCEPT !.pc = "tick"]
  BY <1>7, PcGood
<1>8. CASE r = [a EXCEPT !.pc = "tick"]
  BY <1>2, <1>8, PcGood, NoDeathThrough
<1>9. CASE r = [c EXCEPT !.pc = "tick"]
  <2>1. Good(r) /\ NoDeath(c, r)
    BY <1>4, <1>9, PcGood
  <2> QED BY <1>3, <1>4, <2>1, NoDeathThrough
<1>10. CASE r = Isolate(e)
  <2>1. Good(r) /\ NoDeath(e, r)
    BY <1>6, <1>10, IsolateGood
  <2> QED BY <1>5, <1>6, <2>1, NoDeathThrough
<1> QED BY <1>1, <1>7, <1>8, <1>9, <1>10

LEMMA RefreshGood ==
    ASSUME NEW s, Good(s), NEW w \in Worlds, NEW settingsRead, NEW subsRead, NEW rewritten,
           NEW over, NEW r, r = Refresh(s, w, settingsRead, subsRead, rewritten, over)
    PROVE  Good(r) /\ NoDeath(s, r)
<1> DEFINE a == IF settingsRead THEN [s EXCEPT !.enabled = w.enabled] ELSE s
           b == IF subsRead THEN Merge(a, w.eps, w.refused, rewritten, over) ELSE a
<1>1. w.eps \in SUBSET Key /\ w.refused \in SUBSET Key /\ w.xray \in {"ok", "missing", "broken"}
  BY MonitorAssumption
<1>2. \/ \E state : r = [Idle(b, state) EXCEPT !.pc = "tick"]
      \/ r = [SetState(b, "wan_down") EXCEPT !.pc = "tick"]
      \/ r = Resume(b, w.xray)
  BY DEF Refresh
<1>3. Good(a) /\ NoDeath(s, a)
  <2>1. Others(s, a, Minor \cup {"pc"}) /\ a.pc = s.pc
    BY DEF Others, Minor, Good, Typed, Fields
  <2> HIDE DEF a
  <2> QED BY <2>1, MinorGood
<1> HIDE DEF a
<1>4. Good(b) /\ NoDeath(a, b)
  <2>1. CASE subsRead
    <3>1. b = Merge(a, w.eps, w.refused, rewritten, over)
      BY <2>1
    <3> HIDE DEF b
    <3> QED BY <1>1, <1>3, <3>1, MergeGood
  <2>2. CASE ~subsRead
    BY <1>3, <2>2 DEF NoDeath
  <2> QED BY <2>1, <2>2
<1> HIDE DEF b
<1>5. NoDeath(s, b)
  BY <1>3, <1>4, NoDeathThrough
<1>6. ASSUME NEW c, Good(c), NoDeath(b, c), r = [c EXCEPT !.pc = "tick"]
      PROVE  Good(r) /\ NoDeath(s, r)
  <2>1. Good(r) /\ NoDeath(c, r)
    BY <1>6, PcGood
  <2> QED BY <1>5, <1>6, <2>1, NoDeathThrough
<1>7. CASE \E state : r = [Idle(b, state) EXCEPT !.pc = "tick"]
  <2>1. PICK state : r = [Idle(b, state) EXCEPT !.pc = "tick"]
    BY <1>7
  <2>2. Good(Idle(b, state)) /\ NoDeath(b, Idle(b, state))
    BY <1>4, IdleGood
  <2> QED BY <1>6, <2>1, <2>2
<1>8. CASE r = [SetState(b, "wan_down") EXCEPT !.pc = "tick"]
  <2>1. Good(SetState(b, "wan_down")) /\ NoDeath(b, SetState(b, "wan_down"))
    BY <1>4, SetStateGood
  <2> QED BY <1>6, <1>8, <2>1
<1>9. CASE r = Resume(b, w.xray)
  <2>1. Good(r) /\ NoDeath(b, r)
    BY <1>1, <1>4, <1>9, ResumeGood
  <2> QED BY <1>5, <2>1, NoDeathThrough
<1> QED BY <1>2, <1>7, <1>8, <1>9

-----------------------------------------------------------------------------
(* Answers                                                                   *)

CompletedFields == {"status", "due", "same", "fresh", "since", "followUp", "evFollow"}

\* Completions: what they answer of a call was true since the call began.
LEMMA CompletedGood ==
    ASSUME NEW s, Good(s), NEW set, set \subseteq s.known, NEW status \in {"alive", "dead"}, NEW rel,
           call.pc = "waiting" =>
               \A k \in set : rel[k] = "after" => k \in IF status = "alive" THEN seen.up ELSE seen.down,
           NEW r, r = Completed(Answered(s, set, status), set, rel)
    PROVE  /\ Good(r) /\ Others(s, r, CompletedFields)
           /\ \A k \in Key : r.status[k] = IF k \in set THEN status ELSE s.status[k]
<1> DEFINE a     == Answered(s, set, status)
           after == {k \in set : rel[k] = "after"}
<1>1. /\ Others(s, a, {"status", "due", "same"})
      /\ a.status = With(s.status, set, status) /\ a.due = s.due \ set
  BY DEF Answered, Good, Typed, Others, Fields
<1>2. Fields \subseteq DOMAIN a
  BY <1>1 DEF Others, Good, Typed
<1>3. r = Completed(a, set, rel)
  OBVIOUS
<1> HIDE DEF a
<1>4. /\ Others(a, r, {"fresh", "since", "followUp", "evFollow"})
      /\ r.fresh = a.fresh \cup set /\ r.followUp \subseteq a.followUp /\ r.evFollow \subseteq a.evFollow
      /\ r.since = IF call.pc = "waiting" THEN (a.since \ set) \cup after ELSE a.since
  <2>1. /\ r.fresh = a.fresh \cup set /\ r.evFollow = a.evFollow \ after
        /\ r.followUp = {k \in a.followUp : k \in set => rel[k] = "before"}
        /\ r.since = IF call.pc = "waiting" THEN (a.since \ set) \cup after ELSE a.since
    BY <1>2, <1>3 DEF Completed, Fields
  <2>2. Others(a, r, {"fresh", "since", "followUp", "evFollow"})
    BY <1>2, <1>3 DEF Completed, Others, Fields
  <2> QED BY <2>1, <2>2
<1>5. Others(s, r, CompletedFields)
  BY <1>1, <1>4 DEF Others, CompletedFields
<1>6. /\ DOMAIN r = DOMAIN s /\ r.pc = s.pc
      /\ r.known = s.known /\ r.eps = s.eps /\ r.restored = s.restored /\ r.sticky = s.sticky
      /\ r.inFlight = s.inFlight /\ r.pending = s.pending /\ r.oldest = s.oldest /\ r.urgent = s.urgent
      /\ r.session = s.session /\ r.held = s.held /\ r.control = s.control
      /\ r.okAge = s.okAge /\ r.suspects = s.suspects /\ r.crashes = s.crashes /\ r.launch = s.launch
      /\ r.refusals = s.refusals /\ r.lost = s.lost /\ r.workers = s.workers
  BY <1>5 DEF Others, Fields, CompletedFields
<1>7. /\ r.status = a.status /\ r.due = a.due
      /\ a.fresh = s.fresh /\ a.since = s.since /\ a.followUp = s.followUp /\ a.evFollow = s.evFollow
  BY <1>1, <1>4 DEF Others, Fields
<1>8. /\ r.status \in [Key -> Statuses]
      /\ \A k \in Key : r.status[k] = IF k \in set THEN status ELSE s.status[k]
  BY <1>1, <1>7 DEF With, Statuses, Good, Typed
<1>9. Typed(r) /\ Deserved(r) /\ Sessions(r) /\ Timed(r)
  BY <1>6, <1>8 DEF Good, Typed, Deserved, Sessions, Timed
<1>10. r.since \subseteq s.since \cup set /\ (call.pc = "waiting" => r.since = (s.since \ set) \cup after)
  BY <1>4, <1>7
<1>11. Nested(r)
  BY <1>1, <1>4, <1>6, <1>7, <1>10 DEF Good, Nested
<1>12. Told(r)
  <2> SUFFICES ASSUME call.pc = "waiting"
               PROVE  Told(r)
    BY DEF Told
  <2>1. ASSUME NEW k \in r.since
        PROVE  (r.status[k] = "alive" => k \in seen.up) /\ (r.status[k] = "dead" => k \in seen.down)
    <3>1. k \in Key
      BY <1>10 DEF Good, Nested, Typed
    <3>2. CASE k \in set
      BY <1>8, <1>10, <3>1, <3>2
    <3>3. CASE k \notin set
      BY <1>8, <1>10, <3>1, <3>3 DEF Good, Told
    <3> QED BY <3>2, <3>3
  <2> QED BY <1>6, <2>1 DEF Good, Told
<1> QED BY <1>5, <1>8, <1>9, <1>11, <1>12 DEF Good

\* publishPending: the failures that waited are of servers that were down.
LEMMA PublishGood ==
    ASSUME NEW s, Good(s), NEW r, r = Publish(s)
    PROVE  Good(r)
<1> DEFINE now == Pending(s) \cap Checkable(s)
           a == Completed(Answered(s, now, "dead"), now, s.pending)
           b == DiscardPending(a)
<1>1. now \subseteq s.known
  BY DEF Checkable
<1>2. call.pc = "waiting" => \A k \in now : s.pending[k] = "after" => k \in seen.down
  BY DEF Good, Told, Pending
<1>3. r = [b EXCEPT !.statusDirty = @ \/ \E k \in now : s.status[k] # "dead"]
  BY DEF Publish
<1> HIDE DEF now
<1>4. Good(a)
  <2>1. call.pc = "waiting" =>
            \A k \in now : s.pending[k] = "after" => k \in IF "dead" = "alive" THEN seen.up ELSE seen.down
    BY <1>2
  <2>2. "dead" \in {"alive", "dead"} /\ a = Completed(Answered(s, now, "dead"), now, s.pending)
    OBVIOUS
  <2> HIDE DEF a
  <2> QED BY <1>1, <2>1, <2>2, CompletedGood
<1> HIDE DEF a
<1>5. Good(b)
  BY <1>4, DiscardGood
<1> HIDE DEF b
<1>6. Others(b, r, Minor \cup {"pc"}) /\ r.pc = b.pc
  BY <1>3, <1>5 DEF Others, Minor, Good, Typed, Fields
<1> QED BY <1>5, <1>6, MinorGood

\* No server is newly dead, or the WAN was not down for as long as the guard's window.
Blameless(s, r) == NoDeath(s, r) \/ env.outage < Window

\* apply, a failed check of a prober that runs.
LEMMA FailureGood ==
    ASSUME NEW s, Good(s), s.pc \notin {"start", "isolate"},
           NEW w \in Worker, w.key \in s.known, w.at = "fail",
           call.pc = "waiting" /\ w.rel = "after" => w.key \in seen.down,
           NEW r, r = Failure(s, w)
    PROVE  Good(r) /\ Blameless(s, r)
<1> DEFINE f == [s EXCEPT !.fails[0] = Least(@ + 1, GuardMin), !.pending[w.key] = w.rel,
                          !.lost = IF w.at = "lost" THEN @ \cup {w.key} ELSE @ \ {w.key}]
           g == [f EXCEPT !.pc = "guard"]
<1>1. \/ WanEvidence(f) /\ r = Publish(f)
      \/ r = g \/ r = f
  BY DEF Failure
<1>2. /\ Others(s, f, {"fails", "pending", "lost"})
      /\ f.pending = [s.pending EXCEPT ![w.key] = w.rel] /\ f.lost = s.lost \ {w.key}
  BY DEF Good, Typed, Others, Fields
<1> HIDE DEF f
<1>3. /\ DOMAIN f = DOMAIN s /\ f.pc = s.pc
      /\ f.known = s.known /\ f.eps = s.eps /\ f.restored = s.restored /\ f.sticky = s.sticky
      /\ f.status = s.status /\ f.due = s.due /\ f.fresh = s.fresh /\ f.since = s.since
      /\ f.followUp = s.followUp /\ f.evFollow = s.evFollow
      /\ f.inFlight = s.inFlight /\ f.oldest = s.oldest /\ f.urgent = s.urgent
      /\ f.session = s.session /\ f.held = s.held /\ f.control = s.control
      /\ f.okAge = s.okAge /\ f.suspects = s.suspects /\ f.crashes = s.crashes /\ f.launch = s.launch
      /\ f.refusals = s.refusals /\ f.workers = s.workers
  BY <1>2 DEF Others, Fields
<1>4. /\ f.pending \in [Key -> {"none"} \cup Rels]
      /\ \A k \in Key : f.pending[k] = IF k = w.key THEN w.rel ELSE s.pending[k]
  BY <1>2 DEF Good, Typed, Worker
<1>5. f.lost = {}
  BY <1>2 DEF Good, Sessions
<1>6. Typed(f) /\ Nested(f) /\ Deserved(f) /\ NoDeath(s, f)
  BY <1>3, <1>4 DEF Good, Typed, Nested, Deserved, NoDeath
<1>7. Sessions(f) /\ Timed(f)
  BY <1>3, <1>5 DEF Good, Sessions, Timed
<1>8. Told(f)
  BY <1>3, <1>4 DEF Good, Told
<1>9. Good(f)
  BY <1>6, <1>7, <1>8 DEF Good
<1>10. CASE WanEvidence(f) /\ r = Publish(f)
  <2>1. Good(r)
    BY <1>9, <1>10, PublishGood
  <2>2. env.outage < Window
    BY <1>9, <1>10, MonitorAssumption DEF WanEvidence, Good, Timed, Typed
  <2> QED BY <2>1, <2>2 DEF Blameless
<1>11. CASE r = g
  <2>1. Good(r) /\ NoDeath(f, r)
    BY <1>9, <1>11, PcGood
  <2> QED BY <1>6, <2>1, NoDeathThrough DEF Blameless
<1>12. CASE r = f
  BY <1>6, <1>9, <1>12 DEF Blameless
<1> QED BY <1>1, <1>10, <1>11, <1>12

\* apply, a check that got its answer, and so is no older than any outage.
LEMMA SuccessGood ==
    ASSUME NEW s, Good(s), NEW w \in Worker, w.key \in s.known, env.outage = 0,
           call.pc = "waiting" /\ w.rel = "after" => w.key \in seen.up,
           NEW settled, NEW r, r = Success(s, w, settled)
    PROVE  Good(r) /\ Blameless(s, r)
<1> DEFINE one == {w.key}
           rel == [k \in Key |-> w.rel]
           a   == Completed(Answered(s, one, "alive"), one, rel)
           b   == [a EXCEPT !.okAge = 0, !.crashes = IF settled THEN 0 ELSE @,
                            !.statusDirty = @ \/ s.status[w.key] # "alive"]
<1>1. r = Publish(b)
  BY DEF Success
<1>2. one \subseteq s.known /\ \A k \in one : rel[k] = w.rel /\ k = w.key
  BY DEF Worker
<1>3. a = Completed(Answered(s, one, "alive"), one, rel)
  OBVIOUS
<1> HIDE DEF one, rel, a
<1>4. Good(a)
  <2>1. call.pc = "waiting" =>
            \A k \in one : rel[k] = "after" => k \in IF "alive" = "alive" THEN seen.up ELSE seen.down
    BY <1>2
  <2>2. "alive" \in {"alive", "dead"}
    OBVIOUS
  <2> QED BY <1>2, <1>3, <2>1, <2>2, CompletedGood
<1>5. /\ Others(a, b, {"okAge", "crashes", "statusDirty"})
      /\ b.okAge = 0 /\ b.crashes \in {0, a.crashes}
  BY <1>4 DEF Good, Typed, Others, Fields
<1> HIDE DEF b
<1>6. /\ DOMAIN b = DOMAIN a /\ b.pc = a.pc
      /\ b.known = a.known /\ b.eps = a.eps /\ b.restored = a.restored /\ b.sticky = a.sticky
      /\ b.status = a.status /\ b.due = a.due /\ b.fresh = a.fresh /\ b.since = a.since
      /\ b.followUp = a.followUp /\ b.evFollow = a.evFollow /\ b.pending = a.pending
      /\ b.inFlight = a.inFlight /\ b.oldest = a.oldest /\ b.urgent = a.urgent
      /\ b.session = a.session /\ b.held = a.held /\ b.control = a.control
      /\ b.suspects = a.suspects /\ b.launch = a.launch /\ b.lost = a.lost
      /\ b.refusals = a.refusals /\ b.workers = a.workers
  BY <1>5 DEF Others, Fields
<1>7. b.okAge \in 0 .. Window /\ b.crashes \in 0 .. CrashLimit
  BY <1>4, <1>5, MonitorAssumption DEF Good, Typed
<1>8. Typed(b) /\ Nested(b) /\ Deserved(b)
  BY <1>4, <1>6, <1>7 DEF Good, Typed, Nested, Deserved
<1>9. Sessions(b) /\ Timed(b) /\ Told(b)
  BY <1>4, <1>5, <1>6 DEF Good, Sessions, Timed, Told
<1>10. Good(b)
  BY <1>8, <1>9 DEF Good
<1>11. Good(r)
  BY <1>1, <1>10, PublishGood
<1> QED BY <1>11, MonitorAssumption DEF Blameless

\* apply: what counts is the answer of a prober that runs.
LEMMA ApplyGood ==
    ASSUME NEW s, Good(s), NEW w \in s.workers, w.at \in Answers, NEW settled,
           NEW r, r = Apply(s, w, settled)
    PROVE  Good(r) /\ Blameless(s, r)
<1> DEFINE a == [s EXCEPT !.pc = "top", !.workers = @ \ {w}]
           b == [a EXCEPT !.inFlight = @ \ {w.key}]
<1>1. \/ r = a \/ r = b
      \/ Counts(s, w) /\ w.at = "ok" /\ r = Success(b, w, settled)
      \/ Counts(s, w) /\ w.at # "ok" /\ r = Failure(b, w)
  BY DEF Apply
<1>2. /\ Others(s, a, {"pc", "workers"}) /\ a.pc = "top" /\ a.workers = s.workers \ {w}
      /\ Others(s, b, {"pc", "workers", "inFlight"}) /\ b.pc = "top" /\ b.workers = s.workers \ {w}
      /\ b.inFlight = s.inFlight \ {w.key}
  BY DEF Good, Typed, Others, Fields
<1> HIDE DEF a, b
<1>3. ASSUME NEW t \in {a, b}
      PROVE  Good(t) /\ NoDeath(s, t) /\ t.known = s.known /\ t.pc = "top"
  <2>1. /\ Others(s, t, {"pc", "workers", "inFlight"}) /\ t.pc = "top"
        /\ t.workers \subseteq s.workers /\ t.inFlight \subseteq s.inFlight
    BY <1>2 DEF Others, Fields
  <2>2. /\ DOMAIN t = DOMAIN s
        /\ t.known = s.known /\ t.eps = s.eps /\ t.restored = s.restored /\ t.sticky = s.sticky
        /\ t.status = s.status /\ t.due = s.due /\ t.fresh = s.fresh /\ t.since = s.since
        /\ t.followUp = s.followUp /\ t.evFollow = s.evFollow /\ t.pending = s.pending
        /\ t.oldest = s.oldest /\ t.urgent = s.urgent /\ t.okAge = s.okAge
        /\ t.session = s.session /\ t.held = s.held /\ t.control = s.control
        /\ t.suspects = s.suspects /\ t.launch = s.launch /\ t.lost = s.lost
        /\ t.refusals = s.refusals /\ t.crashes = s.crashes
    BY <2>1 DEF Others, Fields
  <2>3. Typed(t) /\ Nested(t) /\ Deserved(t) /\ NoDeath(s, t)
    BY <2>1, <2>2 DEF Good, Typed, Nested, Deserved, NoDeath
  <2>4. Sessions(t) /\ Timed(t) /\ Told(t)
    BY <2>1, <2>2 DEF Good, Sessions, Timed, Told
  <2> QED BY <2>1, <2>2, <2>3, <2>4 DEF Good
<1>4. w \in Worker
  BY DEF Good, Typed
<1>5. CASE r = a \/ r = b
  BY <1>3, <1>5 DEF Blameless
<1>6. CASE Counts(s, w) /\ w.at = "ok" /\ r = Success(b, w, settled)
  <2>1. w.key \in b.known /\ env.outage = 0
    BY <1>3, <1>6 DEF Counts, Good, Timed
  <2>2. call.pc = "waiting" /\ w.rel = "after" => w.key \in seen.up
    BY <1>6 DEF Good, Told
  <2>3. Good(r) /\ Blameless(b, r)
    BY <1>3, <1>4, <1>6, <2>1, <2>2, SuccessGood
  <2> QED BY <1>3, <2>3, NoDeathThrough DEF Blameless
<1>7. CASE Counts(s, w) /\ w.at # "ok" /\ r = Failure(b, w)
  <2>1. w.key \in b.known /\ w.at = "fail" /\ b.pc \notin {"start", "isolate"}
    BY <1>3, <1>7 DEF Counts, Good, Sessions, Answers
  <2>2. call.pc = "waiting" /\ w.rel = "after" => w.key \in seen.down
    BY <2>1 DEF Good, Told
  <2>3. Good(r) /\ Blameless(b, r)
    BY <1>3, <1>4, <1>7, <2>1, <2>2, FailureGood
  <2> QED BY <1>3, <2>3, NoDeathThrough DEF Blameless
<1> QED BY <1>1, <1>5, <1>6, <1>7

\* A control that answers now is no older than any outage.
LEMMA ControlGood ==
    ASSUME NEW s, Good(s), env.outage = 0, NEW r, Others(s, r, Minor \cup {"control", "due"}),
           r.control = 0, r.due \subseteq s.known
    PROVE  Good(r) /\ NoDeath(s, r)
<1>1. /\ DOMAIN r = DOMAIN s /\ r.pc = s.pc
      /\ r.known = s.known /\ r.eps = s.eps /\ r.restored = s.restored
      /\ r.status = s.status /\ r.sticky = s.sticky /\ r.inFlight = s.inFlight /\ r.pending = s.pending
      /\ r.oldest = s.oldest /\ r.urgent = s.urgent /\ r.followUp = s.followUp
      /\ r.evFollow = s.evFollow /\ r.fresh = s.fresh
      /\ r.since = s.since /\ r.session = s.session /\ r.held = s.held
      /\ r.okAge = s.okAge /\ r.suspects = s.suspects /\ r.crashes = s.crashes /\ r.launch = s.launch
      /\ r.refusals = s.refusals /\ r.lost = s.lost /\ r.workers = s.workers
  BY DEF Others, Fields, Minor
<1>2. r.control \in 0 .. Window
  BY MonitorAssumption
<1>3. Typed(r) /\ Nested(r) /\ Deserved(r) /\ NoDeath(s, r)
  BY <1>1, <1>2 DEF Good, Typed, Nested, Deserved, NoDeath
<1>4. Sessions(r) /\ Timed(r) /\ Told(r)
  BY <1>1 DEF Good, Sessions, Timed, Told
<1> QED BY <1>3, <1>4 DEF Good

LEMMA GuardGood ==
    ASSUME NEW s, Good(s), NEW up \in BOOLEAN, up => env.wan, NEW r, r = Guard(s, up)
    PROVE  Good(r) /\ Blameless(s, r)
<1>1. CASE up
  <2> DEFINE a == [s EXCEPT !.control = 0]
  <2>1. r = Publish(a)
    BY <1>1 DEF Guard
  <2>2. env.outage = 0
    BY <1>1 DEF Good, Timed
  <2>3. Others(s, a, {"control"}) /\ a.control = 0
    BY DEF Good, Typed, Others, Fields
  <2> HIDE DEF a
  <2>4. Others(s, a, Minor \cup {"control", "due"}) /\ a.due \subseteq s.known
    BY <2>3 DEF Others, Fields, Minor, Good, Nested
  <2>5. Good(a)
    BY <2>2, <2>3, <2>4, ControlGood
  <2>6. Good(r)
    BY <2>1, <2>5, PublishGood
  <2> QED BY <2>2, <2>6, MonitorAssumption DEF Blameless
<1>2. CASE ~up
  <2> DEFINE a == DiscardPending(s)
             b == ClearRecent(a)
             c == [b EXCEPT !.paused = TRUE, !.controlDue = FALSE]
  <2>1. r = SetState(c, "wan_down")
    BY <1>2 DEF Guard
  <2>2. Good(a) /\ NoDeath(s, a)
    BY DiscardGood
  <2> HIDE DEF a
  <2>3. Good(b) /\ NoDeath(a, b)
    BY <2>2, DiscardGood
  <2> HIDE DEF b
  <2>4. Others(b, c, Minor \cup {"pc"}) /\ c.pc = b.pc
    BY <2>3 DEF Others, Minor, Good, Typed, Fields
  <2> HIDE DEF c
  <2>5. Good(c) /\ NoDeath(b, c)
    BY <2>3, <2>4, MinorGood
  <2>6. Good(r) /\ NoDeath(c, r)
    BY <2>1, <2>5, SetStateGood
  <2>7. NoDeath(s, c)
    BY <2>2, <2>3, <2>5, NoDeathThrough
  <2> QED BY <2>6, <2>7, NoDeathThrough DEF Blameless
<1> QED BY <1>1, <1>2

LEMMA CrashedGood ==
    ASSUME NEW s, Good(s), s.pc \notin {"start", "isolate"}, NEW r, r = Crashed(s)
    PROVE  Good(r) /\ NoDeath(s, r)
<1> DEFINE suspects == s.suspects \cup (s.eps \cap s.inFlight)
           a == ForgetSession(s)
           b == [a EXCEPT !.suspects = suspects, !.then = "crashed", !.crashes = Least(@ + 1, CrashLimit)]
<1>1. (s.paused /\ r = AfterIsolation(b)) \/ (~s.paused /\ r = Isolate(b))
  BY DEF Crashed
<1>2. suspects \subseteq Key
  BY DEF Good, Typed, Nested
<1>3. Good(a) /\ NoDeath(s, a) /\ a.session = "none" /\ Others(s, a, Forgotten)
  BY ForgetSessionGood
<1>4. a.paused = s.paused /\ a.pc = s.pc
  BY <1>3 DEF Others, Fields, Forgotten
<1> HIDE DEF suspects, a
<1>5. /\ Others(a, b, {"suspects", "then", "crashes"}) /\ b.suspects = suspects
      /\ b.crashes = Least(a.crashes + 1, CrashLimit)
  BY <1>3 DEF Good, Typed, Others, Fields
<1> HIDE DEF b
<1>6. b.crashes \in 0 .. CrashLimit
  BY <1>3, <1>5, MonitorAssumption DEF Least, Good, Typed
<1>7. /\ Others(a, b, Minor \cup Launching) /\ b.paused = s.paused /\ b.pc = s.pc
      /\ b.launch = a.launch /\ b.refusals = a.refusals /\ b.held = a.held
  BY <1>4, <1>5 DEF Others, Fields, Minor, Launching
<1>8. a.launch \subseteq Key /\ a.refusals \in 0 .. MaxRefusals - 1 /\ a.held \subseteq Key
  BY <1>3 DEF Good, Typed
<1>9. Good(b) /\ NoDeath(a, b)
  BY <1>2, <1>3, <1>5, <1>6, <1>7, <1>8, LaunchingGood
<1>10. Good(r) /\ NoDeath(b, r)
  <2>1. CASE s.paused /\ r = AfterIsolation(b)
    BY <1>7, <1>9, <2>1, AfterIsolationGood
  <2>2. CASE ~s.paused /\ r = Isolate(b)
    BY <1>9, <2>2, IsolateGood
  <2> QED BY <1>1, <2>1, <2>2
<1> QED BY <1>3, <1>9, <1>10, NoDeathThrough

LEMMA WanBackGood ==
    ASSUME NEW s, Good(s), env.wan, NEW xray \in {"ok", "missing", "broken"}, NEW r, r = WanBack(s, xray)
    PROVE  Good(r) /\ NoDeath(s, r)
<1> DEFINE a == ClearRecent(s)
           b == [a EXCEPT !.due = @ \cup Checkable(s), !.control = 0, !.paused = FALSE]
           c == SetState(b, "prober_error")
<1>1. r = [c EXCEPT !.pc = "tick"] \/ r = Resume(b, xray)
  BY DEF WanBack
<1>2. Good(a) /\ NoDeath(s, a) /\ a.known = s.known
  <2>1. Good(a) /\ NoDeath(s, a) /\ Others(s, a, {"okAge", "fails", "pending", "oldest"})
    BY DiscardGood
  <2> QED BY <2>1 DEF Others, Fields
<1> HIDE DEF a
<1>3. /\ Others(a, b, {"due", "control", "paused"}) /\ b.control = 0
      /\ b.due = a.due \cup Checkable(s)
  BY <1>2 DEF Good, Typed, Others, Fields
<1> HIDE DEF b
<1>4. Good(b) /\ NoDeath(a, b)
  <2>1. Others(a, b, Minor \cup {"control", "due"}) /\ b.due \subseteq a.known
    BY <1>2, <1>3 DEF Others, Fields, Minor, Good, Nested, Checkable
  <2>2. env.outage = 0
    BY DEF Good, Timed
  <2> QED BY <1>2, <1>3, <2>1, <2>2, ControlGood
<1>5. NoDeath(s, b)
  BY <1>2, <1>4, NoDeathThrough
<1>6. Good(c) /\ NoDeath(b, c)
  BY <1>4, SetStateGood
<1> HIDE DEF c
<1>7. CASE r = [c EXCEPT !.pc = "tick"]
  <2>1. Good(r) /\ NoDeath(c, r)
    BY <1>6, <1>7, PcGood
  <2>2. NoDeath(s, c)
    BY <1>5, <1>6, NoDeathThrough
  <2> QED BY <2>1, <2>2, NoDeathThrough
<1>8. CASE r = Resume(b, xray)
  <2>1. Good(r) /\ NoDeath(b, r)
    BY <1>4, <1>8, ResumeGood
  <2> QED BY <1>5, <2>1, NoDeathThrough
<1> QED BY <1>1, <1>7, <1>8

-----------------------------------------------------------------------------
(* The inductive invariant                                                   *)

Environment == [wan : BOOLEAN, up : SUBSET Key, world : Worlds, outage : 0 .. Window, left : 0 .. MaxEvents,
                killed : SUBSET Key]

Calls == [pc : {"idle", "waiting", "got", "used"}, keys : SUBSET Key, got : [Key -> Statuses \cup {"none"}]]

\* What is true of a server now has been seen since the call began.
Seeing ==
    call.pc # "idle" => \A k \in Key : IF Reachable(k) THEN k \in seen.up ELSE k \in seen.down

Around ==
    /\ env \in Environment /\ call \in Calls /\ seen \in [up : SUBSET Key, down : SUBSET Key]
    /\ saved \in File /\ \A k \in Key : saved[k].sticky => k \in Culprits
    /\ Seeing /\ EvidenceIsTrue

IInv == Good(m) /\ Around

\* Something befalls the router.
LEMMA Befalls ==
    ASSUME NEW e \in Environment, e.left > 0, NEW f, f = [e EXCEPT !.left = @ - 1]
    PROVE  /\ f \in Environment /\ f.wan = e.wan /\ f.up = e.up /\ f.outage = e.outage
           /\ f.killed = e.killed
<1> DEFINE n == e.left - 1
<1>1. n \in 0 .. MaxEvents
  BY MonitorAssumption DEF Environment
<1>2. f = [e EXCEPT !.left = n]
  OBVIOUS
<1> HIDE DEF n
<1> QED BY <1>1, <1>2 DEF Environment

\* A step of the monitor, beside which the world, the call and what has been
\* seen of the servers stand still.
LEMMA QuietStep ==
    ASSUME IInv, UNCHANGED <<call, seen>>,
           env' = env \/ (env.left > 0 /\ env' = [env EXCEPT !.left = @ - 1]),
           saved' \in File, \A k \in Key : saved'[k].sticky => k \in Culprits,
           NEW r, r = m', Good(r)
    PROVE  IInv'
<1>1. /\ env' \in Environment /\ env'.wan = env.wan /\ env'.outage = env.outage /\ env'.up = env.up
      /\ Culprits' = Culprits
  BY Befalls DEF IInv, Around, Culprits
<1>2. Typed(m)' /\ Nested(m)' /\ Deserved(m)'
  BY <1>1 DEF Good, Typed, Nested, Deserved
<1>3. Sessions(m)' /\ Timed(m)' /\ Told(m)'
  BY <1>1 DEF Good, Sessions, Timed, Told
<1>4. Good(m)'
  BY <1>2, <1>3 DEF Good
<1>5. Seeing' /\ EvidenceIsTrue'
  BY <1>1 DEF IInv, Around, Seeing, Reachable, EvidenceIsTrue
<1> QED BY <1>1, <1>4, <1>5 DEF IInv, Around

\* As it leaves the state file alone too.
LEMMA LoopStep ==
    ASSUME IInv, UNCHANGED <<call, seen, saved>>,
           env' = env \/ (env.left > 0 /\ env' = [env EXCEPT !.left = @ - 1]),
           NEW r, r = m', Good(r)
    PROVE  IInv'
<1>1. saved' \in File /\ \A k \in Key : saved'[k].sticky => k \in Culprits
  BY DEF IInv, Around
<1> QED BY <1>1, QuietStep

LEMMA RefreshStep ==
    ASSUME IInv, RunRefresh
    PROVE  IInv' /\ Blameless(m, m')
<1>1. PICK rewritten \in BOOLEAN, settingsRead \in BOOLEAN, subsRead \in BOOLEAN,
           over \in SUBSET {k \in Key : m.restored[k].status # "none"} :
          /\ (rewritten \/ ~settingsRead \/ ~subsRead) => env.left > 0
          /\ env' = IF rewritten \/ ~settingsRead \/ ~subsRead
                    THEN [env EXCEPT !.left = @ - 1] ELSE env
          /\ m' = Refresh(m, env.world, settingsRead, subsRead, rewritten, over)
  BY DEF RunRefresh
<1> DEFINE r == m'
<1>2. Good(m) /\ env.world \in Worlds
  BY DEF IInv, Around, Environment
<1>3. r = Refresh(m, env.world, settingsRead, subsRead, rewritten, over)
  BY <1>1
<1> HIDE DEF r
<1>4. Good(r) /\ NoDeath(m, r)
  BY <1>2, <1>3, RefreshGood
<1>5. r = m' /\ UNCHANGED <<call, seen, saved>>
  BY DEF RunRefresh, r
<1>6. IInv'
  BY <1>1, <1>4, <1>5, LoopStep
<1> QED BY <1>4, <1>5, <1>6 DEF Blameless

\* dispatch: only a prober that runs is given checks.
LEMMA DispatchGood ==
    ASSUME NEW s, Good(s), s.session = "up", NEW r \in Dispatch(s)
    PROVE  Good(r) /\ NoDeath(s, r)
<1> DEFINE asked == s.urgent \cup s.followUp \cup s.evFollow
           busy  == s.inFlight \cap s.known
           due   == (Checkable(s) \cap (asked \cup s.due)) \ (busy \cup Pending(s))
           Given(d) == [key : d, mine : {TRUE}, gen : {TRUE}, rel : {"after"}, at : {"first"}]
<1>1. PICK d \in SUBSET due : r = [s EXCEPT !.inFlight = @ \cup d, !.urgent = @ \ d,
                                            !.workers = @ \cup Given(d)]
  BY DEF Dispatch
<1>2. d \subseteq s.known /\ d \subseteq Key
  BY DEF Checkable, Good, Typed
<1>3. \A v \in Given(d) : v \in Worker /\ v.at = "first" /\ v.rel = "after"
  BY <1>2 DEF Worker, Rels
<1> DEFINE new == Given(d)
<1> HIDE DEF due, Given
<1>4. /\ Others(s, r, {"inFlight", "urgent", "workers"})
      /\ r.inFlight = s.inFlight \cup d /\ r.urgent = s.urgent \ d /\ r.workers = s.workers \cup new
  BY <1>1 DEF Good, Typed, Others, Fields
<1> HIDE DEF new
<1>5. /\ DOMAIN r = DOMAIN s /\ r.pc = s.pc
      /\ r.known = s.known /\ r.eps = s.eps /\ r.restored = s.restored /\ r.sticky = s.sticky
      /\ r.status = s.status /\ r.due = s.due /\ r.fresh = s.fresh /\ r.since = s.since
      /\ r.followUp = s.followUp /\ r.evFollow = s.evFollow /\ r.pending = s.pending
      /\ r.oldest = s.oldest /\ r.okAge = s.okAge
      /\ r.session = s.session /\ r.held = s.held /\ r.control = s.control
      /\ r.suspects = s.suspects /\ r.launch = s.launch /\ r.lost = s.lost
      /\ r.refusals = s.refusals /\ r.crashes = s.crashes
  BY <1>4 DEF Others, Fields
<1>6. \A v \in r.workers : v \in s.workers \/ (v \in Worker /\ v.at = "first" /\ v.rel = "after")
  BY <1>3, <1>4 DEF new
<1>7. Typed(r) /\ Nested(r) /\ Deserved(r) /\ NoDeath(s, r)
  BY <1>2, <1>4, <1>5, <1>6 DEF Good, Typed, Nested, Deserved, NoDeath
<1>8. Sessions(r)
  BY <1>5, <1>6 DEF Good, Sessions
<1>9. Timed(r) /\ Told(r)
  BY <1>5, <1>6 DEF Good, Timed, Told
<1> QED BY <1>7, <1>8, <1>9 DEF Good

\* save: the file holds what the entries hold, and so no other rejection.
LEMMA ToSaveGood ==
    ASSUME NEW s, Good(s)
    PROVE  ToSave(s) \in File /\ \A k \in Key : ToSave(s)[k].sticky => k \in Culprits
<1> DEFINE file == ToSave(s)
<1>1. file = [k \in Key |-> IF k \in s.known THEN [status |-> s.status[k], sticky |-> k \in s.sticky]
                            ELSE s.restored[k]]
  BY DEF ToSave
<1> HIDE DEF file
<1>2. s.restored \in File /\ s.status \in [Key -> Statuses]
  BY DEF Good, Typed
<1>3. ASSUME NEW k \in Key
      PROVE  /\ file[k] \in [status : Statuses \cup {"none"}, sticky : BOOLEAN]
             /\ file[k].sticky => k \in Culprits
  <2>1. CASE k \in s.known
    <3> DEFINE held == k \in s.sticky
    <3>1. held \in BOOLEAN /\ (held => k \in Culprits)
      BY DEF Good, Deserved
    <3>2. file[k] = [status |-> s.status[k], sticky |-> held]
      BY <1>1, <2>1
    <3> HIDE DEF held
    <3>3. s.status[k] \in Statuses \cup {"none"}
      BY <1>2
    <3> QED BY <3>1, <3>2, <3>3
  <2>2. CASE k \notin s.known
    <3>1. file[k] = s.restored[k]
      BY <1>1, <2>2
    <3> QED BY <1>2, <3>1 DEF File, Good, Deserved
  <2> QED BY <2>1, <2>2
<1>4. file \in File
  BY <1>1, <1>3 DEF File
<1> QED BY <1>3, <1>4 DEF file

-----------------------------------------------------------------------------
(* The steps of the loop                                                     *)

LEMMA SaveAndWaitStep ==
    ASSUME IInv, UNCHANGED <<call, seen>>, NEW s, Good(s), NoDeath(m, s), SaveAndWait(s)
    PROVE  IInv' /\ Blameless(m, m')
<1> DEFINE r == m'
<1>1. \/ r = [s EXCEPT !.statusDirty = FALSE, !.pc = "wait"]
      \/ r = [s EXCEPT !.saveFailed = TRUE, !.pc = "wait"]
      \/ r = [s EXCEPT !.pc = "wait"]
  BY DEF SaveAndWait
<1>2. saved' = ToSave(s) \/ saved' = saved
  BY DEF SaveAndWait
<1>3. env' = env \/ (env.left > 0 /\ env' = [env EXCEPT !.left = @ - 1])
  BY DEF SaveAndWait
<1>4. saved' \in File /\ \A k \in Key : saved'[k].sticky => k \in Culprits
  BY <1>2, ToSaveGood DEF IInv, Around
<1>5. r = m'
  OBVIOUS
<1> HIDE DEF r
<1>6. Others(s, r, Minor \cup {"pc"}) /\ r.pc = "wait"
  <2>1. Fields \subseteq DOMAIN s
    BY DEF Good, Typed
  <2>2. DOMAIN r = DOMAIN s /\ r.pc = "wait"
    BY <1>1, <2>1 DEF Fields
  <2>3. \A f \in DOMAIN s \ {"statusDirty", "saveFailed", "pc"} : r[f] = s[f]
    BY <1>1
  <2> QED BY <2>1, <2>2, <2>3 DEF Others, Minor
<1>7. Good(r) /\ NoDeath(s, r)
  BY <1>6, MinorGood
<1>8. NoDeath(m, r)
  BY <1>7, NoDeathThrough
<1>9. IInv'
  BY <1>3, <1>4, <1>5, <1>7, QuietStep
<1> QED BY <1>5, <1>8, <1>9 DEF Blameless

LEMMA TickStep ==
    ASSUME IInv, RunTick
    PROVE  IInv' /\ Blameless(m, m')
<1>1. Good(m) /\ NoDeath(m, m) /\ UNCHANGED <<call, seen>>
  BY DEF IInv, RunTick, NoDeath
<1>2. \/ (m' = [m EXCEPT !.pc = "control"] \/ m' = [m EXCEPT !.pc = "tickGuard"]) /\ UNCHANGED <<saved, env>>
      \/ m.session = "up" /\ \E s \in Dispatch(m) : SaveAndWait(s)
      \/ SaveAndWait(m)
  BY DEF RunTick
<1>3. CASE (m' = [m EXCEPT !.pc = "control"] \/ m' = [m EXCEPT !.pc = "tickGuard"]) /\ UNCHANGED <<saved, env>>
  <2> DEFINE r == m'
  <2>1. r = [m EXCEPT !.pc = "control"] \/ r = [m EXCEPT !.pc = "tickGuard"]
    BY <1>3
  <2>2. r = m'
    OBVIOUS
  <2> HIDE DEF r
  <2>3. Good(r) /\ NoDeath(m, r)
    BY <1>1, <2>1, PcGood
  <2>4. IInv'
    BY <1>1, <1>3, <2>2, <2>3, LoopStep
  <2> QED BY <2>2, <2>3, <2>4 DEF Blameless
<1>4. CASE m.session = "up" /\ \E s \in Dispatch(m) : SaveAndWait(s)
  <2>1. PICK s \in Dispatch(m) : SaveAndWait(s)
    BY <1>4
  <2>2. Good(s) /\ NoDeath(m, s)
    BY <1>1, <1>4, DispatchGood
  <2> QED BY <1>1, <2>1, <2>2, SaveAndWaitStep
<1>5. CASE SaveAndWait(m)
  BY <1>1, <1>5, SaveAndWaitStep
<1> QED BY <1>2, <1>3, <1>4, <1>5

LEMMA WaitStep ==
    ASSUME IInv, RunWake \/ RunControl \/ RunGuard
    PROVE  IInv' /\ Blameless(m, m')
<1> DEFINE r == m'
<1>1. Good(m) /\ env.wan \in BOOLEAN /\ env.world.xray \in {"ok", "missing", "broken"}
  BY MonitorAssumption DEF IInv, Around, Environment
<1>2. r = m' /\ UNCHANGED <<call, seen, saved, env>>
  BY DEF RunWake, RunControl, RunGuard
<1>3. \/ r = [m EXCEPT !.pc = "top"]
      \/ env.wan /\ r = WanBack(m, env.world.xray)
      \/ r = [m EXCEPT !.controlDue = FALSE, !.pc = "tick"]
      \/ \E pc \in {"top", "tick"} : r = [Guard(m, env.wan) EXCEPT !.pc = pc]
  BY DEF RunWake, RunControl, RunGuard
<1> HIDE DEF r
<1>4. ASSUME r = [m EXCEPT !.pc = "top"]
      PROVE  Good(r) /\ Blameless(m, r)
  BY <1>1, <1>4, PcGood DEF Blameless
<1>5. ASSUME env.wan /\ r = WanBack(m, env.world.xray)
      PROVE  Good(r) /\ Blameless(m, r)
  BY <1>1, <1>5, WanBackGood DEF Blameless
<1>6. ASSUME r = [m EXCEPT !.controlDue = FALSE, !.pc = "tick"]
      PROVE  Good(r) /\ Blameless(m, r)
  <2>1. Others(m, r, Minor \cup {"pc"}) /\ r.pc = "tick"
    BY <1>1, <1>6 DEF Others, Minor, Good, Typed, Fields
  <2> QED BY <1>1, <2>1, MinorGood DEF Blameless
<1>7. ASSUME \E pc \in {"top", "tick"} : r = [Guard(m, env.wan) EXCEPT !.pc = pc]
      PROVE  Good(r) /\ Blameless(m, r)
  <2> DEFINE a == Guard(m, env.wan)
  <2>1. PICK pc \in {"top", "tick"} : r = [a EXCEPT !.pc = pc]
    BY <1>7
  <2>2. a = Guard(m, env.wan)
    OBVIOUS
  <2> HIDE DEF a
  <2>3. Good(a) /\ Blameless(m, a)
    <3> DEFINE up == env.wan
    <3>1. up \in BOOLEAN /\ (up => env.wan) /\ a = Guard(m, up)
      BY <1>1, <2>2
    <3> HIDE DEF up
    <3> QED BY <1>1, <3>1, GuardGood
  <2>4. Good(r) /\ NoDeath(a, r)
    BY <2>1, <2>3, PcGood
  <2> QED BY <2>3, <2>4, NoDeathThrough DEF Blameless
<1>8. Good(r) /\ Blameless(m, r)
  BY <1>3, <1>4, <1>5, <1>6, <1>7
<1>9. IInv'
  BY <1>2, <1>8, LoopStep
<1> QED BY <1>2, <1>8, <1>9

LEMMA AnswerStep ==
    ASSUME IInv, RunApply \/ RunCrashed
    PROVE  IInv' /\ Blameless(m, m')
<1> DEFINE r == m'
<1>1. Good(m) /\ m.pc = "wait"
  BY DEF IInv, RunApply, RunCrashed
<1>2. r = m' /\ UNCHANGED <<call, seen, saved, env>>
  BY DEF RunApply, RunCrashed
<1>3. \/ \E w \in m.workers, settled \in BOOLEAN : w.at \in Answers /\ r = Apply(m, w, settled)
      \/ r = Crashed(m)
  BY DEF RunApply, RunCrashed
<1> HIDE DEF r
<1>4. ASSUME \E w \in m.workers, settled \in BOOLEAN : w.at \in Answers /\ r = Apply(m, w, settled)
      PROVE  Good(r) /\ Blameless(m, r)
  <2>1. PICK w \in m.workers, settled \in BOOLEAN : w.at \in Answers /\ r = Apply(m, w, settled)
    BY <1>4
  <2> QED BY <1>1, <2>1, ApplyGood
<1>5. ASSUME r = Crashed(m)
      PROVE  Good(r) /\ Blameless(m, r)
  BY <1>1, <1>5, CrashedGood DEF Blameless
<1>6. Good(r) /\ Blameless(m, r)
  BY <1>3, <1>4, <1>5
<1>7. IInv'
  BY <1>2, <1>6, LoopStep
<1> QED BY <1>2, <1>6, <1>7

\* crashesAlone: a lone prober exits of its outbound, or of what has killed it.
LEMMA IsolatedStep ==
    ASSUME IInv, RunIsolated
    PROVE  IInv' /\ Blameless(m, m')
<1>k. PICK k \in m.suspects : \E crashed \in CrashesAlone(k) :
          LET r == IF crashed THEN RejectKey(m, k) ELSE m
          IN  m' = Isolate([r EXCEPT !.suspects = @ \ {k}])
  BY DEF RunIsolated
<1>1. PICK crashed \in CrashesAlone(k) :
          LET r == IF crashed THEN RejectKey(m, k) ELSE m
          IN  m' = Isolate([r EXCEPT !.suspects = @ \ {k}])
  BY <1>k
<1> DEFINE a == IF crashed THEN RejectKey(m, k) ELSE m
           b == [a EXCEPT !.suspects = @ \ {k}]
           r == m'
<1>2. r = Isolate(b)
  BY <1>1
<1>3. r = m' /\ UNCHANGED <<call, seen, saved, env>>
  BY DEF RunIsolated
<1>4. Good(m) /\ m.pc = "isolate"
  BY DEF IInv, RunIsolated
<1>5. Good(a) /\ NoDeath(m, a) /\ a.pc = "isolate"
  <2>1. CASE crashed
    <3>1. k \in Culprits /\ k \in Key
      BY <1>1, <2>1, MonitorAssumption DEF CrashesAlone, Culprits, IInv, Around, Environment
    <3>2. a = RejectKey(m, k)
      BY <2>1
    <3> HIDE DEF a
    <3> QED BY <1>4, <3>1, <3>2, RejectKeyGood
  <2>2. CASE ~crashed
    BY <1>4, <2>2 DEF NoDeath
  <2> QED BY <2>1, <2>2
<1> HIDE DEF a, r
<1>6. Others(a, b, {"suspects"}) /\ b.suspects = a.suspects \ {k}
  BY <1>5 DEF Good, Typed, Others, Fields
<1> HIDE DEF b
<1>7. Good(b) /\ NoDeath(a, b)
  <2>1. /\ Others(a, b, Minor \cup Launching) /\ b.pc = "isolate"
        /\ b.crashes = a.crashes /\ b.launch = a.launch /\ b.refusals = a.refusals /\ b.held = a.held
    BY <1>5, <1>6 DEF Others, Fields, Minor, Launching
  <2>2. /\ a.crashes \in 0 .. CrashLimit /\ a.launch \subseteq Key /\ a.refusals \in 0 .. MaxRefusals - 1
        /\ a.held \subseteq Key /\ b.suspects \subseteq Key /\ a.session = "none"
    BY <1>5, <1>6 DEF Good, Typed, Sessions
  <2> QED BY <1>5, <2>1, <2>2, LaunchingGood
<1>8. Good(r) /\ NoDeath(b, r)
  BY <1>2, <1>7, IsolateGood
<1>9. NoDeath(m, b)
  BY <1>5, <1>7, NoDeathThrough
<1>10. NoDeath(m, r)
  BY <1>8, <1>9, NoDeathThrough
<1>11. IInv'
  BY <1>3, <1>8, LoopStep
<1> QED BY <1>3, <1>10, <1>11 DEF Blameless

LEMMA LaunchedGood ==
    ASSUME NEW s, Good(s), NEW r, Others(s, r, {"pc", "launch", "refusals"}),
           r.pc = "tick", r.launch = {}, r.refusals = 0
    PROVE  Good(r) /\ NoDeath(s, r) /\ Steady(s, r)
<1>1. /\ Others(s, r, Minor \cup Launching)
      /\ r.crashes = s.crashes /\ r.held = s.held /\ r.suspects = s.suspects
  BY DEF Others, Fields, Minor, Launching
<1>2. /\ s.crashes \in 0 .. CrashLimit /\ s.held \subseteq Key /\ s.suspects \subseteq Key
      /\ (s.suspects # {} => s.session = "none") /\ 0 \in 0 .. MaxRefusals - 1
  BY MonitorAssumption DEF Good, Typed, Sessions
<1>3. Good(r) /\ NoDeath(s, r) /\ r.session = s.session
  BY <1>1, <1>2, LaunchingGood
<1> QED BY <1>1, <1>3 DEF Steady

\* ensureSession: whom Xray named, or refused alone, it refuses.
LEMMA RefusedGood ==
    ASSUME NEW s, Good(s), s.pc = "start", NEW k \in Bad, NEW r, r = Refused(s, k)
    PROVE  Good(r) /\ NoDeath(s, r)
<1> DEFINE a == RejectKey(s, k)
           b == [a EXCEPT !.launch = @ \ {k}, !.refusals = @ + 1]
           c == Launched(b)
<1>1. r = SetState(c, "ok") \/ r = StartFailed(c) \/ (r = b /\ b.refusals # MaxRefusals)
  BY DEF Refused
<1>2. Good(a) /\ NoDeath(s, a) /\ Steady(s, a) /\ a.pc = "start"
  <2>1. k \in Culprits /\ k \in Key
    BY MonitorAssumption DEF Culprits
  <2> QED BY <2>1, RejectKeyGood
<1> HIDE DEF a
<1>3. Others(a, b, {"launch", "refusals"}) /\ b.launch = a.launch \ {k} /\ b.refusals = a.refusals + 1
  BY <1>2 DEF Good, Typed, Others, Fields
<1>4. Others(b, c, {"pc", "launch", "refusals"}) /\ c.pc = "tick" /\ c.launch = {} /\ c.refusals = 0
  <2> HIDE DEF b
  <2>1. Fields \subseteq DOMAIN b
    BY <1>2, <1>3 DEF Good, Typed, Others
  <2> QED BY <2>1 DEF Launched, Others, Fields
<1> HIDE DEF b, c
<1>5. Good(c) /\ NoDeath(a, c)
  <2>1. Others(a, c, {"pc", "launch", "refusals"})
    BY <1>3, <1>4 DEF Others
  <2> QED BY <1>2, <1>4, <2>1, LaunchedGood
<1>6. NoDeath(s, c)
  BY <1>2, <1>5, NoDeathThrough
<1>7. CASE r = SetState(c, "ok")
  BY <1>5, <1>6, <1>7, SetStateGood, NoDeathThrough
<1>8. CASE r = StartFailed(c)
  BY <1>5, <1>6, <1>8, StartFailedGood, NoDeathThrough
<1>9. CASE r = b /\ b.refusals # MaxRefusals
  <2>1. /\ Others(a, b, Minor \cup Launching) /\ b.pc = "start" /\ b.held = a.held
        /\ b.crashes = a.crashes /\ b.suspects = a.suspects
    BY <1>2, <1>3 DEF Others, Fields, Minor, Launching
  <2>2. /\ a.crashes \in 0 .. CrashLimit /\ a.held \subseteq Key /\ b.launch \subseteq Key
        /\ a.refusals \in 0 .. MaxRefusals - 1 /\ a.suspects = {} /\ a.session = "none"
    BY <1>2, <1>3 DEF Good, Typed, Sessions
  <2>3. b.refusals \in 0 .. MaxRefusals - 1
    BY <1>3, <1>9, <2>2, MonitorAssumption
  <2>4. Good(b) /\ NoDeath(a, b)
    BY <1>2, <2>1, <2>2, <2>3, LaunchingGood
  <2> QED BY <1>2, <1>9, <2>4, NoDeathThrough
<1> QED BY <1>1, <1>7, <1>8, <1>9

\* ensureSession: the workers of earlier probers do not belong to the new one.
LEMMA UpGood ==
    ASSUME NEW s, Good(s), s.pc = "start",
           NEW r, r = SetState([InvalidateEvidence(Launched(s)) EXCEPT !.session = "up", !.held = s.launch,
                                                                      !.wait = FALSE], "ok")
    PROVE  Good(r) /\ NoDeath(s, r)
<1> DEFINE a == Launched(s)
           b == InvalidateEvidence(a)
           c == [b EXCEPT !.session = "up", !.held = s.launch, !.wait = FALSE]
<1>1. r = SetState(c, "ok")
  OBVIOUS
<1>2. Others(s, a, {"pc", "launch", "refusals"}) /\ a.pc = "tick" /\ a.launch = {} /\ a.refusals = 0
  BY DEF Launched, Others, Fields, Good, Typed
<1> HIDE DEF a
<1>3. Good(a) /\ NoDeath(s, a) /\ Steady(s, a)
  BY <1>2, LaunchedGood
<1>4. Good(b) /\ NoDeath(a, b) /\ Steady(a, b) /\ Others(a, b, {"evFollow", "fresh", "epoch", "workers"})
  BY <1>3, InvalidateEvidenceGood
<1>5. b.session = "none" /\ b.suspects = {} /\ b.pc = "tick"
  BY <1>2, <1>3, <1>4 DEF Steady, Good, Sessions, Others, Fields
<1> HIDE DEF b
<1>6. Others(b, c, {"session", "held", "wait"}) /\ c.session = "up" /\ c.held = s.launch
  BY <1>4 DEF Good, Typed, Others, Fields
<1> HIDE DEF c
<1>7. /\ DOMAIN c = DOMAIN b /\ c.pc = b.pc
      /\ c.known = b.known /\ c.eps = b.eps /\ c.restored = b.restored /\ c.sticky = b.sticky
      /\ c.status = b.status /\ c.due = b.due /\ c.fresh = b.fresh /\ c.since = b.since
      /\ c.followUp = b.followUp /\ c.evFollow = b.evFollow /\ c.pending = b.pending
      /\ c.inFlight = b.inFlight /\ c.urgent = b.urgent /\ c.workers = b.workers
      /\ c.oldest = b.oldest /\ c.okAge = b.okAge /\ c.control = b.control
      /\ c.suspects = b.suspects /\ c.launch = b.launch /\ c.lost = b.lost
      /\ c.refusals = b.refusals /\ c.crashes = b.crashes
  BY <1>6 DEF Others, Fields
<1>8. c.held \subseteq Key
  BY <1>6 DEF Good, Typed
<1>9. Typed(c) /\ Nested(c) /\ Deserved(c) /\ NoDeath(b, c)
  BY <1>4, <1>6, <1>7, <1>8 DEF Good, Typed, Nested, Deserved, NoDeath
<1>10. Sessions(c)
  BY <1>4, <1>5, <1>6, <1>7 DEF Good, Sessions
<1>11. Timed(c) /\ Told(c)
  BY <1>4, <1>7 DEF Good, Timed, Told
<1>12. Good(c)
  BY <1>9, <1>10, <1>11 DEF Good
<1>13. Good(r) /\ NoDeath(c, r)
  BY <1>1, <1>12, SetStateGood
<1>14. NoDeath(s, b)
  BY <1>3, <1>4, NoDeathThrough
<1>15. NoDeath(s, c)
  BY <1>9, <1>14, NoDeathThrough
<1> QED BY <1>13, <1>15, NoDeathThrough

LEMMA StartedStep ==
    ASSUME IInv, RunStarted
    PROVE  IInv' /\ Blameless(m, m')
<1> DEFINE r == m'
           a == Launched(m)
<1>1. Good(m) /\ m.pc = "start"
  BY DEF IInv, RunStarted
<1>2. r = m' /\ UNCHANGED <<call, seen, saved>>
      /\ (env' = env \/ (env.left > 0 /\ env' = [env EXCEPT !.left = @ - 1]))
  BY DEF RunStarted
<1>3. \/ r = SetState([InvalidateEvidence(a) EXCEPT !.session = "up", !.held = m.launch, !.wait = FALSE], "ok")
      \/ \E k \in Bad : r = Refused(m, k)
      \/ r = StartFailed(a)
  BY DEF RunStarted, Named, Bisect
<1> HIDE DEF r
<1>4. ASSUME r = SetState([InvalidateEvidence(a) EXCEPT !.session = "up", !.held = m.launch, !.wait = FALSE], "ok")
      PROVE  Good(r) /\ NoDeath(m, r)
  BY <1>1, <1>4, UpGood
<1>5. ASSUME \E k \in Bad : r = Refused(m, k)
      PROVE  Good(r) /\ NoDeath(m, r)
  BY <1>1, <1>5, RefusedGood
<1>6. ASSUME r = StartFailed(a)
      PROVE  Good(r) /\ NoDeath(m, r)
  <2>1. Others(m, a, {"pc", "launch", "refusals"}) /\ a.pc = "tick" /\ a.launch = {} /\ a.refusals = 0
    BY <1>1 DEF Launched, Others, Fields, Good, Typed
  <2> HIDE DEF a
  <2>2. Good(a) /\ NoDeath(m, a)
    BY <1>1, <2>1, LaunchedGood
  <2>3. Good(r) /\ NoDeath(a, r)
    BY <1>6, <2>2, StartFailedGood
  <2> QED BY <2>2, <2>3, NoDeathThrough
<1>7. Good(r) /\ NoDeath(m, r)
  BY <1>3, <1>4, <1>5, <1>6
<1>8. IInv'
  BY <1>2, <1>7, LoopStep
<1> QED BY <1>2, <1>7, <1>8 DEF Blameless

-----------------------------------------------------------------------------
(* The steps of the others                                                   *)

\* check: what an attempt finds is so at that moment.
LEMMA AttemptStep ==
    ASSUME IInv, NEW w \in m.workers, Attempt(w)
    PROVE  IInv' /\ Blameless(m, m')
<1> DEFINE running == w.mine /\ m.session = "up"
           at == IF ~running THEN "lost"
                 ELSE IF Reachable(w.key) THEN "ok"
                 ELSE IF w.at = "first" THEN "retry" ELSE "fail"
           v == [w EXCEPT !.at = at]
           r == m'
<1>1. Good(m) /\ w \in Worker
  BY DEF IInv, Good, Typed
<1>2. r = [m EXCEPT !.workers = (@ \ {w}) \cup {v}] /\ r = m' /\ UNCHANGED <<call, saved, env, seen>>
  BY DEF Attempt
<1>3. /\ at \in {"ok", "retry", "fail", "lost"} /\ (at = "lost" => ~running)
      /\ (at = "ok" => running /\ Reachable(w.key)) /\ (at = "fail" => running /\ ~Reachable(w.key))
  <2> HIDE DEF running
  <2> QED OBVIOUS
<1> HIDE DEF r, at
<1>4. /\ v \in Worker /\ v.key = w.key /\ v.mine = w.mine /\ v.rel = w.rel /\ v.at = at
  BY <1>1, <1>3 DEF Worker, Answers
<1> HIDE DEF v
<1>5. Others(m, r, {"workers"}) /\ r.workers = (m.workers \ {w}) \cup {v}
  BY <1>1, <1>2 DEF Good, Typed, Others, Fields
<1>6. /\ DOMAIN r = DOMAIN m /\ r.pc = m.pc
      /\ r.known = m.known /\ r.eps = m.eps /\ r.restored = m.restored /\ r.sticky = m.sticky
      /\ r.status = m.status /\ r.due = m.due /\ r.fresh = m.fresh /\ r.since = m.since
      /\ r.followUp = m.followUp /\ r.evFollow = m.evFollow /\ r.pending = m.pending
      /\ r.inFlight = m.inFlight /\ r.urgent = m.urgent /\ r.session = m.session /\ r.held = m.held
      /\ r.oldest = m.oldest /\ r.okAge = m.okAge /\ r.control = m.control
      /\ r.suspects = m.suspects /\ r.launch = m.launch /\ r.lost = m.lost
      /\ r.refusals = m.refusals /\ r.crashes = m.crashes
  BY <1>5 DEF Others, Fields
<1>7. Typed(r) /\ Nested(r) /\ Deserved(r) /\ NoDeath(m, r)
  BY <1>1, <1>4, <1>5, <1>6 DEF Good, Typed, Nested, Deserved, NoDeath
<1>8. Sessions(r)
  BY <1>1, <1>3, <1>4, <1>5, <1>6 DEF Good, Sessions
<1>9. Timed(r)
  BY <1>1, <1>3, <1>4, <1>5, <1>6 DEF Good, Timed, Reachable
<1>10. Told(r)
  <2>1. call.pc = "waiting" => (v.at = "ok" => v.key \in seen.up) /\ (v.at = "fail" => v.key \in seen.down)
    BY <1>1, <1>3, <1>4 DEF IInv, Around, Seeing, Worker
  <2> QED BY <1>1, <1>5, <1>6, <2>1 DEF Good, Told
<1>11. Good(r)
  BY <1>7, <1>8, <1>9, <1>10 DEF Good
<1>12. IInv'
  BY <1>2, <1>11, LoopStep
<1> QED BY <1>2, <1>7, <1>12 DEF Blameless

\* The prober dies: the checks that fail of it have been failed by it.
LEMMA DieStep ==
    ASSUME IInv, ProberDies
    PROVE  IInv' /\ Blameless(m, m')
<1> DEFINE mine == {w \in m.workers : w.mine /\ w.at \in {"first", "retry"}}
           r == m'
<1>1. Good(m) /\ m.session = "up" /\ UNCHANGED <<call, saved>>
  BY DEF IInv, ProberDies
<1>2. PICK failed \in SUBSET {w \in mine : w.at = "retry"} :
         /\ m' = IF failed = {} THEN [m EXCEPT !.session = "exited"]
                 ELSE [m EXCEPT !.gone = TRUE,
                          !.workers = (@ \ failed) \cup {[w EXCEPT !.at = "fail"] : w \in failed}]
         /\ seen' = IF call.pc = "idle" THEN seen
                    ELSE [seen EXCEPT !.down = @ \cup {w.key : w \in failed}]
  BY DEF ProberDies
<1>3. failed \subseteq m.workers /\ m.workers \subseteq Worker
  BY <1>1 DEF Good, Typed
<1>4. /\ Others(m, r, {"session", "gone", "workers"}) /\ r.session \in {"up", "exited"}
      /\ r.workers = (m.workers \ failed) \cup {[w EXCEPT !.at = "fail"] : w \in failed}
  <2>1. CASE failed = {}
    BY <1>1, <1>2, <2>1 DEF Good, Typed, Others, Fields
  <2>2. CASE failed # {}
    BY <1>1, <1>2, <2>2 DEF Good, Typed, Others, Fields
  <2> QED BY <2>1, <2>2
<1>5. r = m'
  OBVIOUS
<1> HIDE DEF r, mine
<1>6. \A v \in r.workers :
          v \in m.workers \/ (v \in Worker /\ v.at = "fail" /\ \E w \in failed : v.key = w.key)
  <2> SUFFICES ASSUME NEW v \in r.workers, v \notin m.workers
               PROVE  v \in Worker /\ v.at = "fail" /\ \E w \in failed : v.key = w.key
    OBVIOUS
  <2>1. PICK w \in failed : v = [w EXCEPT !.at = "fail"]
    BY <1>4
  <2>2. w \in Worker
    BY <1>3
  <2> QED BY <2>1, <2>2 DEF Worker, Answers
<1>7. /\ seen' \in [up : SUBSET Key, down : SUBSET Key]
      /\ seen'.up = seen.up /\ seen.down \subseteq seen'.down
      /\ call.pc # "idle" => \A w \in failed : w.key \in seen'.down
  <2>1. seen \in [up : SUBSET Key, down : SUBSET Key] /\ {w.key : w \in failed} \subseteq Key
    BY <1>3 DEF IInv, Around, Worker
  <2> QED BY <1>2, <2>1
<1>8. /\ env' \in Environment /\ env'.wan = env.wan /\ env'.outage = env.outage /\ env'.up = env.up
      /\ Culprits' = Culprits
  <2>1. env' = env \/ (env.left > 0 /\ env' = [env EXCEPT !.left = @ - 1])
    BY DEF ProberDies
  <2> QED BY <2>1, Befalls DEF IInv, Around, Culprits
<1>9. /\ DOMAIN r = DOMAIN m /\ r.pc = m.pc
      /\ r.known = m.known /\ r.eps = m.eps /\ r.restored = m.restored /\ r.sticky = m.sticky
      /\ r.status = m.status /\ r.due = m.due /\ r.fresh = m.fresh /\ r.since = m.since
      /\ r.followUp = m.followUp /\ r.evFollow = m.evFollow /\ r.pending = m.pending
      /\ r.inFlight = m.inFlight /\ r.urgent = m.urgent /\ r.held = m.held
      /\ r.oldest = m.oldest /\ r.okAge = m.okAge /\ r.control = m.control
      /\ r.suspects = m.suspects /\ r.launch = m.launch /\ r.lost = m.lost
      /\ r.refusals = m.refusals /\ r.crashes = m.crashes
  BY <1>4 DEF Others, Fields
<1>10. Typed(r) /\ Nested(r) /\ Deserved(r) /\ NoDeath(m, r)
  BY <1>1, <1>4, <1>6, <1>9 DEF Good, Typed, Nested, Deserved, NoDeath
<1>11. Sessions(r)
  BY <1>1, <1>4, <1>6, <1>9 DEF Good, Sessions
<1>12. Timed(r)
  BY <1>1, <1>6, <1>9 DEF Good, Timed
<1>13. Typed(m)' /\ Nested(m)' /\ Deserved(m)' /\ Sessions(m)' /\ Timed(m)'
  BY <1>5, <1>8, <1>10, <1>11, <1>12 DEF Typed, Nested, Deserved, Sessions, Timed
<1>14. Told(m)'
  BY <1>1, <1>5, <1>6, <1>7, <1>9 DEF Good, Told
<1>15. Seeing' /\ EvidenceIsTrue'
  BY <1>1, <1>7, <1>8 DEF IInv, Around, Seeing, Reachable, EvidenceIsTrue
<1>16. IInv'
  BY <1>1, <1>7, <1>8, <1>13, <1>14, <1>15 DEF IInv, Around, Good
<1> QED BY <1>5, <1>10, <1>16 DEF Blameless

LEMMA ExitStep ==
    ASSUME IInv, ProberExits
    PROVE  IInv' /\ Blameless(m, m')
<1> DEFINE r == m'
<1>1. Good(m) /\ m.session = "up"
  BY DEF IInv, ProberExits
<1>2. /\ r = [m EXCEPT !.session = "exited", !.gone = FALSE] /\ r = m'
      /\ UNCHANGED <<call, saved, env, seen>>
  BY DEF ProberExits
<1> HIDE DEF r
<1>3. Others(m, r, {"session", "gone"}) /\ r.session = "exited"
  <2>1. Fields \subseteq DOMAIN m
    BY <1>1 DEF Good, Typed
  <2>2. Others(m, r, {"session", "gone"})
    BY <1>2, <2>1 DEF Others, Fields
  <2>3. r.session = "exited"
    BY <1>2, <2>1 DEF Fields
  <2> QED BY <2>2, <2>3
<1>4. /\ DOMAIN r = DOMAIN m /\ r.pc = m.pc /\ r.workers = m.workers
      /\ r.known = m.known /\ r.eps = m.eps /\ r.restored = m.restored /\ r.sticky = m.sticky
      /\ r.status = m.status /\ r.due = m.due /\ r.fresh = m.fresh /\ r.since = m.since
      /\ r.followUp = m.followUp /\ r.evFollow = m.evFollow /\ r.pending = m.pending
      /\ r.inFlight = m.inFlight /\ r.urgent = m.urgent /\ r.held = m.held
      /\ r.oldest = m.oldest /\ r.okAge = m.okAge /\ r.control = m.control
      /\ r.suspects = m.suspects /\ r.launch = m.launch /\ r.lost = m.lost
      /\ r.refusals = m.refusals /\ r.crashes = m.crashes
  BY <1>3 DEF Others, Fields
<1>5. Typed(r) /\ Nested(r) /\ Deserved(r) /\ NoDeath(m, r)
  BY <1>1, <1>3, <1>4 DEF Good, Typed, Nested, Deserved, NoDeath
<1>6. Sessions(r) /\ Timed(r) /\ Told(r)
  BY <1>1, <1>3, <1>4 DEF Good, Sessions, Timed, Told
<1>7. Good(r)
  BY <1>5, <1>6 DEF Good
<1>8. IInv'
  BY <1>2, <1>7, LoopStep
<1> QED BY <1>2, <1>5, <1>8 DEF Blameless

LEMMA RequestStep ==
    ASSUME IInv, NEW keys \in SUBSET Key, Request(keys)
    PROVE  IInv' /\ Blameless(m, m')
<1> DEFINE r == m'
<1>1. Good(m)
  BY DEF IInv
<1>2. /\ r = [m EXCEPT !.urgent = @ \cup ((keys \cap Checkable(m)) \ m.inFlight)] /\ r = m'
      /\ UNCHANGED <<call, saved, seen>> /\ env.left > 0 /\ env' = [env EXCEPT !.left = @ - 1]
  BY DEF Request
<1> HIDE DEF r
<1>3. /\ Others(m, r, {"urgent"}) /\ r.urgent \subseteq m.urgent \cup m.known
  BY <1>1, <1>2 DEF Good, Typed, Others, Fields, Checkable
<1>4. /\ DOMAIN r = DOMAIN m /\ r.pc = m.pc /\ r.workers = m.workers /\ r.session = m.session
      /\ r.known = m.known /\ r.eps = m.eps /\ r.restored = m.restored /\ r.sticky = m.sticky
      /\ r.status = m.status /\ r.due = m.due /\ r.fresh = m.fresh /\ r.since = m.since
      /\ r.followUp = m.followUp /\ r.evFollow = m.evFollow /\ r.pending = m.pending
      /\ r.inFlight = m.inFlight /\ r.held = m.held
      /\ r.oldest = m.oldest /\ r.okAge = m.okAge /\ r.control = m.control
      /\ r.suspects = m.suspects /\ r.launch = m.launch /\ r.lost = m.lost
      /\ r.refusals = m.refusals /\ r.crashes = m.crashes
  BY <1>3 DEF Others, Fields
<1>5. Typed(r) /\ Nested(r) /\ Deserved(r) /\ NoDeath(m, r)
  BY <1>1, <1>3, <1>4 DEF Good, Typed, Nested, Deserved, NoDeath
<1>6. Sessions(r) /\ Timed(r) /\ Told(r)
  BY <1>1, <1>4 DEF Good, Sessions, Timed, Told
<1>7. Good(r)
  BY <1>5, <1>6 DEF Good
<1>8. IInv'
  BY <1>2, <1>7, LoopStep
<1> QED BY <1>2, <1>5, <1>8 DEF Blameless

\* CheckEvidence: no worker has begun a check since, and nothing is recorded yet.
LEMMA CheckEvidenceStep ==
    ASSUME IInv, NEW keys \in SUBSET Key, CheckEvidence(keys)
    PROVE  IInv' /\ Blameless(m, m')
<1> DEFINE asked == keys \cap Checkable(m)
           Relabelled(w) == [w EXCEPT !.rel = IF w.at \in Answers THEN "before" ELSE "during"]
           r == m'
<1>1. Good(m)
  BY DEF IInv
<1>2. /\ r = [m EXCEPT !.followUp = @ \cup asked, !.evFollow = @ \cup asked, !.since = {},
                       !.pending = With(m.pending, Pending(m), "before"),
                       !.workers = {Relabelled(w) : w \in m.workers}, !.epoch = TRUE]
      /\ r = m' /\ saved' = saved /\ call' = [NoCall EXCEPT !.pc = "waiting", !.keys = keys]
      /\ seen' = [up |-> {k \in Key : Reachable(k)}, down |-> {k \in Key : ~Reachable(k)}]
      /\ env.left > 0 /\ env' = [env EXCEPT !.left = @ - 1]
  BY DEF CheckEvidence
<1>3. asked \subseteq m.known
  BY DEF Checkable
<1> HIDE DEF r, asked
<1>4. /\ Others(m, r, {"followUp", "evFollow", "since", "pending", "workers", "epoch"})
      /\ r.followUp = m.followUp \cup asked /\ r.evFollow = m.evFollow \cup asked /\ r.since = {}
      /\ r.pending = With(m.pending, Pending(m), "before")
      /\ r.workers = {Relabelled(w) : w \in m.workers}
  <2>1. Fields \subseteq DOMAIN m
    BY <1>1 DEF Good, Typed
  <2> DEFINE edited == {"followUp", "evFollow", "since", "pending", "workers", "epoch"}
             workers == {Relabelled(w) : w \in m.workers}
  <2>2. workers = {Relabelled(w) : w \in m.workers}
    OBVIOUS
  <2>3. r = [m EXCEPT !.followUp = @ \cup asked, !.evFollow = @ \cup asked, !.since = {},
                      !.pending = With(m.pending, Pending(m), "before"),
                      !.workers = workers, !.epoch = TRUE]
    BY <1>2, <2>2
  <2> HIDE DEF workers
  <2>4. DOMAIN r = DOMAIN m
    BY <2>3
  <2>5. \A f \in DOMAIN m \ edited : r[f] = m[f]
    BY <2>3
  <2>6. /\ r.followUp = m.followUp \cup asked /\ r.evFollow = m.evFollow \cup asked /\ r.since = {}
        /\ r.pending = With(m.pending, Pending(m), "before")
        /\ r.workers = workers
    BY <2>1, <2>3 DEF Fields
  <2> QED BY <2>1, <2>2, <2>4, <2>5, <2>6 DEF Others
<1>5. /\ DOMAIN r = DOMAIN m /\ r.pc = m.pc /\ r.session = m.session
      /\ r.known = m.known /\ r.eps = m.eps /\ r.restored = m.restored /\ r.sticky = m.sticky
      /\ r.status = m.status /\ r.due = m.due /\ r.fresh = m.fresh /\ r.urgent = m.urgent
      /\ r.inFlight = m.inFlight /\ r.held = m.held
      /\ r.oldest = m.oldest /\ r.okAge = m.okAge /\ r.control = m.control
      /\ r.suspects = m.suspects /\ r.launch = m.launch /\ r.lost = m.lost
      /\ r.refusals = m.refusals /\ r.crashes = m.crashes
  BY <1>4 DEF Others, Fields
<1>6. \A v \in r.workers : /\ v \in Worker /\ v.rel # "after"
                           /\ \E w \in m.workers : v.mine = w.mine /\ v.at = w.at
  <2> SUFFICES ASSUME NEW v \in r.workers
               PROVE  /\ v \in Worker /\ v.rel # "after"
                      /\ \E w \in m.workers : v.mine = w.mine /\ v.at = w.at
    OBVIOUS
  <2>1. PICK w \in m.workers : v = Relabelled(w)
    BY <1>4
  <2>2. w \in Worker
    BY <1>1 DEF Good, Typed
  <2>3. v \in Worker /\ v.rel # "after" /\ v.mine = w.mine /\ v.at = w.at
    BY <2>1, <2>2 DEF Worker, Rels
  <2> QED BY <2>3
<1>7. /\ r.pending \in [Key -> {"none"} \cup Rels]
      /\ \A k \in Key : r.pending[k] # "after"
  BY <1>1, <1>4 DEF With, Pending, Rels, Good, Typed
<1>8. Typed(r) /\ Nested(r) /\ Deserved(r) /\ NoDeath(m, r)
  BY <1>1, <1>3, <1>4, <1>5, <1>6, <1>7 DEF Good, Typed, Nested, Deserved, NoDeath
<1>9. Sessions(r) /\ Timed(r)
  BY <1>1, <1>5, <1>6 DEF Good, Sessions, Timed
<1>10. /\ env' \in Environment /\ env'.wan = env.wan /\ env'.outage = env.outage /\ env'.up = env.up
       /\ Culprits' = Culprits
  BY <1>2, Befalls DEF IInv, Around, Culprits
<1>11. Good(m)'
  <2>1. Typed(m)' /\ Nested(m)' /\ Deserved(m)' /\ Sessions(m)'
    BY <1>2, <1>8, <1>9, <1>10 DEF Typed, Nested, Deserved, Sessions
  <2>2. Timed(m)'
    BY <1>2, <1>9, <1>10 DEF Timed
  <2>3. Told(m)'
    BY <1>2, <1>4, <1>6, <1>7 DEF Told
  <2> QED BY <2>1, <2>2, <2>3 DEF Good
<1>12. /\ call'.pc = "waiting" /\ call' \in Calls
  BY <1>2 DEF NoCall, Calls
<1>13. seen' \in [up : SUBSET Key, down : SUBSET Key] /\ Seeing'
  <2>1. \A k \in Key : Reachable(k)' <=> Reachable(k)
    BY <1>10 DEF Reachable
  <2>2. seen'.up = {k \in Key : Reachable(k)} /\ seen'.down = {k \in Key : ~Reachable(k)}
    BY <1>2
  <2>3. seen' \in [up : SUBSET Key, down : SUBSET Key]
    BY <1>2
  <2>4. \A k \in Key : IF Reachable(k)' THEN k \in seen'.up ELSE k \in seen'.down
    BY <2>1, <2>2
  <2> QED BY <2>3, <2>4 DEF Seeing
<1>14. EvidenceIsTrue'
  BY <1>12 DEF EvidenceIsTrue
<1>15. IInv'
  BY <1>2, <1>10, <1>11, <1>12, <1>13, <1>14 DEF IInv, Around
<1> QED BY <1>2, <1>8, <1>15 DEF Blameless

\* What CheckEvidence and its caller change of the struct.
LEMMA CallerGood ==
    ASSUME NEW s, Good(s), NEW r, Others(s, r, {"since", "same"}), r.since \subseteq s.since
    PROVE  Typed(r) /\ Nested(r) /\ Deserved(r) /\ Sessions(r) /\ Timed(r) /\ Told(r) /\ NoDeath(s, r)
<1>1. /\ DOMAIN r = DOMAIN s /\ r.pc = s.pc /\ r.session = s.session /\ r.workers = s.workers
      /\ r.known = s.known /\ r.eps = s.eps /\ r.restored = s.restored /\ r.sticky = s.sticky
      /\ r.status = s.status /\ r.due = s.due /\ r.fresh = s.fresh /\ r.urgent = s.urgent
      /\ r.inFlight = s.inFlight /\ r.held = s.held /\ r.followUp = s.followUp /\ r.evFollow = s.evFollow
      /\ r.oldest = s.oldest /\ r.okAge = s.okAge /\ r.control = s.control /\ r.pending = s.pending
      /\ r.suspects = s.suspects /\ r.launch = s.launch /\ r.lost = s.lost
      /\ r.refusals = s.refusals /\ r.crashes = s.crashes
  BY DEF Others, Fields
<1>2. Typed(r) /\ Nested(r) /\ Deserved(r) /\ NoDeath(s, r)
  BY <1>1 DEF Good, Typed, Nested, Deserved, NoDeath
<1>3. Sessions(r) /\ Timed(r) /\ Told(r)
  BY <1>1 DEF Good, Sessions, Timed, Told
<1> QED BY <1>2, <1>3

\* A step of the caller that leaves the call waiting no longer.
LEMMA CallerStep ==
    ASSUME IInv, UNCHANGED saved,
           env' = env \/ (env.left > 0 /\ env' = [env EXCEPT !.left = @ - 1]),
           NEW r, r = m', Others(m, r, {"since", "same"}), r.since \subseteq m.since,
           call' \in Calls, call'.pc # "waiting", EvidenceIsTrue',
           (call'.pc = "idle" /\ seen' = NothingSeen) \/ (call.pc # "idle" /\ seen' = seen)
    PROVE  IInv' /\ Blameless(m, m')
<1>1. Good(m)
  BY DEF IInv
<1>2. Typed(r) /\ Nested(r) /\ Deserved(r) /\ Sessions(r) /\ Timed(r) /\ NoDeath(m, r)
  BY <1>1, CallerGood
<1>3. /\ env' \in Environment /\ env'.wan = env.wan /\ env'.outage = env.outage /\ env'.up = env.up
      /\ Culprits' = Culprits
  BY Befalls DEF IInv, Around, Culprits
<1>4. Typed(m)' /\ Nested(m)' /\ Deserved(m)' /\ Sessions(m)'
  BY <1>2, <1>3 DEF Typed, Nested, Deserved, Sessions
<1>5. Timed(m)' /\ Told(m)'
  BY <1>2, <1>3 DEF Timed, Told
<1>6. seen' \in [up : SUBSET Key, down : SUBSET Key] /\ Seeing'
  BY <1>3 DEF IInv, Around, Seeing, Reachable, NothingSeen
<1>7. IInv'
  BY <1>3, <1>4, <1>5, <1>6 DEF IInv, Around, Good
<1> QED BY <1>2, <1>7 DEF Blameless

LEMMA ReturnStep ==
    ASSUME IInv, CheckReturns
    PROVE  IInv' /\ Blameless(m, m')
<1> DEFINE r == m'
<1>1. Good(m) /\ call.pc = "waiting" /\ UNCHANGED saved /\ call \in Calls
  BY DEF IInv, CheckReturns, Around
<1>2. env' = env \/ (env.left > 0 /\ env' = [env EXCEPT !.left = @ - 1])
  BY DEF CheckReturns
<1>3. r = [m EXCEPT !.same = call.keys, !.since = {}] \/ r = [m EXCEPT !.since = {}]
  BY DEF CheckReturns
<1>4. r = m'
  OBVIOUS
<1> HIDE DEF r
<1>5. Others(m, r, {"since", "same"}) /\ r.since \subseteq m.since
  BY <1>1, <1>3 DEF Good, Typed, Others, Fields
<1>6. CASE EvidenceActive /\ m.epoch /\ CheckDone
  <2> DEFINE got == [k \in Key |-> IF k \in call.keys THEN m.status[k] ELSE "none"]
  <2>1. call' = [call EXCEPT !.pc = "got", !.got = got] /\ seen' = seen
    BY <1>6 DEF CheckReturns
  <2>2. got \in [Key -> Statuses \cup {"none"}]
    BY <1>1 DEF Good, Typed
  <2>3. \A k \in call.keys : got[k] = m.status[k]
    BY <1>1 DEF Calls
  <2> HIDE DEF got
  <2>4. call' \in Calls /\ call'.pc = "got" /\ call'.keys = call.keys /\ call'.got = got
    BY <1>1, <2>1, <2>2 DEF Calls
  <2>5. EvidenceIsTrue'
    BY <1>1, <1>6, <2>1, <2>3, <2>4 DEF CheckDone, Good, Told, EvidenceIsTrue
  <2> QED BY <1>1, <1>2, <1>4, <1>5, <2>1, <2>4, <2>5, CallerStep
<1>7. CASE ~(EvidenceActive /\ m.epoch /\ CheckDone)
  <2>1. call' = NoCall /\ seen' = NothingSeen
    BY <1>7 DEF CheckReturns
  <2>2. call' \in Calls /\ call'.pc = "idle" /\ EvidenceIsTrue'
    BY <2>1 DEF NoCall, Calls, EvidenceIsTrue
  <2> QED BY <1>1, <1>2, <1>4, <1>5, <2>1, <2>2, CallerStep
<1> QED BY <1>6, <1>7

LEMMA UseStep ==
    ASSUME IInv, UseEvidence \/ EvidenceUsed
    PROVE  IInv' /\ Blameless(m, m')
<1> DEFINE r == m'
<1>1. Good(m) /\ call.pc \in {"got", "used"} /\ UNCHANGED <<saved, env>> /\ call \in Calls
  BY DEF IInv, UseEvidence, EvidenceUsed, Around
<1>2. r = [m EXCEPT !.same = {}] \/ r = m
  BY DEF UseEvidence, EvidenceUsed
<1>3. r = m'
  OBVIOUS
<1> HIDE DEF r
<1>4. Others(m, r, {"since", "same"}) /\ r.since \subseteq m.since
  BY <1>1, <1>2 DEF Good, Typed, Others, Fields
<1>5. \/ call' = [call EXCEPT !.pc = "used"] /\ seen' = seen
      \/ call' = NoCall /\ seen' = NothingSeen
  BY DEF UseEvidence, EvidenceUsed
<1>6. CASE call' = [call EXCEPT !.pc = "used"] /\ seen' = seen
  <2>1. call' \in Calls /\ call'.pc = "used" /\ call'.keys = call.keys /\ call'.got = call.got
    BY <1>1, <1>6 DEF Calls
  <2>2. EvidenceIsTrue'
    BY <1>1, <1>6, <2>1 DEF IInv, Around, EvidenceIsTrue
  <2> QED BY <1>1, <1>3, <1>4, <1>6, <2>1, <2>2, CallerStep
<1>7. CASE call' = NoCall /\ seen' = NothingSeen
  <2>1. call' \in Calls /\ call'.pc = "idle" /\ EvidenceIsTrue'
    BY <1>7 DEF NoCall, Calls, EvidenceIsTrue
  <2> QED BY <1>1, <1>3, <1>4, <1>7, <2>1, CallerStep
<1> QED BY <1>5, <1>6, <1>7

-----------------------------------------------------------------------------
(* The steps of the world                                                    *)

\* Time passes: every age grows as the outage does, and no answer of the
\* prober that runs is left waiting meanwhile.
LEMMA ClockStep ==
    ASSUME IInv, Clock
    PROVE  IInv' /\ Blameless(m, m')
<1>1. Good(m) /\ UNCHANGED <<call, saved, seen>> /\ env \in Environment /\ env.wan \in BOOLEAN
  BY DEF IInv, Clock, Around, Environment
<1>2. \A w \in m.workers : w.mine => w.at # "ok"
  BY <1>1 DEF Clock, Good, Sessions
<1>3. PICK long \in BOOLEAN :
          LET older(age) == IF long THEN Window ELSE Least(age + 1, Window)
          IN  /\ m' = [m EXCEPT
                  !.due = IF long THEN @ \cup Checkable(m) ELSE @,
                  !.oldest = IF Pending(m) = {} THEN 0 ELSE older(@),
                  !.control = older(@), !.okAge = older(@),
                  !.fails = [a \in 0 .. Window - 1 |-> IF a = 0 \/ long THEN 0 ELSE m.fails[a - 1]],
                  !.controlDue = m.paused, !.wait = @ /\ ~long, !.saveFailed = @ /\ ~long,
                  !.crashes = IF long THEN 0 ELSE @]
              /\ env' = [env EXCEPT !.outage = IF env.wan THEN 0 ELSE older(@)]
  BY DEF Clock
<1> DEFINE Older(age) == IF long THEN Window ELSE Least(age + 1, Window)
           outage == IF env.wan THEN 0 ELSE Older(env.outage)
           r == m'
<1>4. \A a, b \in 0 .. Window : a <= b => /\ Older(a) \in 0 .. Window /\ Older(b) \in 0 .. Window
                                          /\ Older(a) <= Older(b)
  BY MonitorAssumption DEF Least
<1>5. /\ Others(m, r, {"due", "oldest", "control", "okAge", "fails", "controlDue", "wait", "saveFailed", "crashes"})
      /\ r.control = Older(m.control) /\ r.okAge = Older(m.okAge)
      /\ r.oldest = 0 \/ r.oldest = Older(m.oldest)
      /\ r.crashes = 0 \/ r.crashes = m.crashes
      /\ r.due \subseteq m.due \cup m.known
  BY <1>1, <1>3 DEF Good, Typed, Others, Fields, Checkable
<1>6. env' = [env EXCEPT !.outage = outage]
  BY <1>3
<1>7. r = m'
  OBVIOUS
<1> HIDE DEF Older, r
<1>8. /\ DOMAIN r = DOMAIN m /\ r.pc = m.pc /\ r.workers = m.workers /\ r.session = m.session
      /\ r.known = m.known /\ r.eps = m.eps /\ r.restored = m.restored /\ r.sticky = m.sticky
      /\ r.status = m.status /\ r.fresh = m.fresh /\ r.since = m.since /\ r.urgent = m.urgent
      /\ r.followUp = m.followUp /\ r.evFollow = m.evFollow /\ r.pending = m.pending
      /\ r.inFlight = m.inFlight /\ r.held = m.held
      /\ r.suspects = m.suspects /\ r.launch = m.launch /\ r.lost = m.lost /\ r.refusals = m.refusals
  BY <1>5 DEF Others, Fields
<1>9. /\ outage \in 0 .. Window /\ (env.wan => outage = 0)
      /\ r.control \in 0 .. Window /\ r.okAge \in 0 .. Window
      /\ outage <= r.control /\ outage <= r.okAge
  <2>1. /\ m.control \in 0 .. Window /\ m.okAge \in 0 .. Window /\ env.outage \in 0 .. Window
        /\ env.outage <= m.control /\ env.outage <= m.okAge
    BY <1>1 DEF Good, Typed, Timed
  <2>2. /\ Older(env.outage) \in 0 .. Window /\ Older(m.control) \in 0 .. Window
        /\ Older(m.okAge) \in 0 .. Window
        /\ Older(env.outage) <= Older(m.control) /\ Older(env.outage) <= Older(m.okAge)
    BY <1>4, <2>1
  <2> QED BY <1>5, <2>2, MonitorAssumption
<1>10. r.oldest \in 0 .. Window /\ r.crashes \in 0 .. CrashLimit
  <2>1. m.oldest \in 0 .. Window /\ m.crashes \in 0 .. CrashLimit /\ 0 \in 0 .. Window /\ 0 \in 0 .. CrashLimit
    BY <1>1, MonitorAssumption DEF Good, Typed
  <2>2. m.oldest <= m.oldest
    BY <2>1
  <2>3. Older(m.oldest) \in 0 .. Window
    BY <1>4, <2>1, <2>2
  <2> QED BY <1>5, <2>1, <2>3
<1> HIDE DEF outage
<1>11. /\ env' \in Environment /\ env'.outage = outage /\ env'.wan = env.wan /\ env'.up = env.up
       /\ Culprits' = Culprits
  BY <1>1, <1>6, <1>9 DEF Environment, Culprits
<1>12. Typed(r) /\ Nested(r) /\ Deserved(r) /\ Sessions(r) /\ Told(r) /\ NoDeath(m, r)
  <2>1. Typed(r) /\ Nested(r) /\ Deserved(r) /\ NoDeath(m, r)
    BY <1>1, <1>5, <1>8, <1>9, <1>10 DEF Good, Typed, Nested, Deserved, NoDeath
  <2>2. Sessions(r) /\ Told(r)
    BY <1>1, <1>8 DEF Good, Sessions, Told
  <2> QED BY <2>1, <2>2
<1>13. Good(m)'
  <2>1. Typed(m)' /\ Nested(m)' /\ Deserved(m)' /\ Sessions(m)' /\ Told(m)'
    BY <1>1, <1>7, <1>11, <1>12 DEF Typed, Nested, Deserved, Sessions, Told
  <2>2. Timed(m)'
    BY <1>2, <1>7, <1>8, <1>9, <1>11 DEF Timed
  <2> QED BY <2>1, <2>2 DEF Good
<1>14. Seeing' /\ EvidenceIsTrue'
  BY <1>1, <1>11 DEF IInv, Around, Seeing, Reachable, EvidenceIsTrue
<1>15. IInv'
  BY <1>1, <1>11, <1>13, <1>14 DEF IInv, Around
<1> QED BY <1>7, <1>12, <1>15 DEF Blameless

\* The WAN, a server or a list changes: what is true of each server is seen.
LEMMA ChangesStep ==
    ASSUME IInv, NEW e \in Environment, e.left = env.left, e.outage \in {0, env.outage},
           e.killed = env.killed, e.wan => e.outage = 0, Changes(e)
    PROVE  IInv' /\ Blameless(m, m')
<1> DEFINE reach == {k \in Key : e.wan /\ k \in e.up}
<1>1. /\ Good(m) /\ UNCHANGED <<m, call, saved>> /\ env.left > 0 /\ env' = [e EXCEPT !.left = @ - 1]
      /\ seen' = IF call.pc = "idle" THEN NothingSeen
                 ELSE [up |-> seen.up \cup reach, down |-> seen.down \cup (Key \ reach)]
  BY DEF IInv, Changes
<1>2. /\ env' \in Environment /\ env'.wan = e.wan /\ env'.up = e.up /\ env'.outage = e.outage
      /\ Culprits' = Culprits
  BY <1>1, Befalls DEF Culprits
<1>3. seen' \in [up : SUBSET Key, down : SUBSET Key]
  BY <1>1 DEF IInv, Around, NothingSeen
<1>4. call.pc # "idle" =>
          /\ seen'.up = seen.up \cup reach /\ seen'.down = seen.down \cup (Key \ reach)
          /\ \A k \in Key : IF Reachable(k)' THEN k \in seen'.up ELSE k \in seen'.down
  <2>1. \A k \in Key : Reachable(k)' <=> k \in reach
    BY <1>2 DEF Reachable
  <2>2. call.pc # "idle" => seen'.up = seen.up \cup reach /\ seen'.down = seen.down \cup (Key \ reach)
    BY <1>1
  <2> HIDE DEF reach
  <2> QED BY <2>1, <2>2
<1> HIDE DEF reach
<1>5. Seeing' /\ EvidenceIsTrue'
  BY <1>1, <1>4 DEF IInv, Around, Seeing, EvidenceIsTrue
<1>6. Typed(m)' /\ Nested(m)' /\ Deserved(m)' /\ Sessions(m)'
  BY <1>1, <1>2 DEF Good, Typed, Nested, Deserved, Sessions
<1>7. Timed(m)'
  <2>1. e.outage \in 0 .. Window /\ e.outage <= m.control /\ e.outage <= m.okAge
    BY <1>1, MonitorAssumption DEF Good, Typed, Timed
  <2> QED BY <1>1, <1>2, <2>1 DEF Good, Timed
<1>8. Told(m)'
  BY <1>1, <1>4 DEF Good, Told
<1>9. IInv'
  BY <1>1, <1>2, <1>3, <1>5, <1>6, <1>7, <1>8 DEF IInv, Around, Good
<1> QED BY <1>1, <1>9 DEF Blameless, NoDeath

LEMMA WorldStep ==
    ASSUME IInv, \/ WanChanges
                 \/ \E k \in Key : ServerChanges(k)
                 \/ \E w \in Worlds : WorldChanges(w)
    PROVE  IInv' /\ Blameless(m, m')
<1>1. env \in Environment /\ env.wan \in BOOLEAN /\ (env.wan => env.outage = 0)
  BY DEF IInv, Around, Environment, Good, Timed
<1>2. CASE WanChanges
  <2> DEFINE wan == ~env.wan
             e == [env EXCEPT !.wan = wan, !.outage = 0]
  <2>1. Changes(e)
    BY <1>2 DEF WanChanges
  <2>2. wan \in BOOLEAN /\ 0 \in 0 .. Window
    BY MonitorAssumption
  <2> HIDE DEF wan
  <2>3. e \in Environment /\ e.left = env.left /\ e.outage = 0 /\ e.killed = env.killed
    BY <1>1, <2>2 DEF Environment
  <2> HIDE DEF e
  <2> QED BY <2>1, <2>3, ChangesStep
<1>3. CASE \E k \in Key : ServerChanges(k)
  <2>1. PICK k \in Key : ServerChanges(k)
    BY <1>3
  <2> DEFINE up == IF k \in env.up THEN env.up \ {k} ELSE env.up \cup {k}
             e == [env EXCEPT !.up = up]
  <2>2. Changes(e)
    BY <2>1 DEF ServerChanges
  <2>3. up \in SUBSET Key
    BY <1>1 DEF Environment
  <2> HIDE DEF up
  <2>4. /\ e \in Environment /\ e.left = env.left /\ e.outage = env.outage /\ e.wan = env.wan
        /\ e.killed = env.killed
    BY <1>1, <2>3 DEF Environment
  <2> HIDE DEF e
  <2> QED BY <1>1, <2>2, <2>4, ChangesStep
<1>4. CASE \E w \in Worlds : WorldChanges(w)
  <2>1. PICK w \in Worlds : WorldChanges(w)
    BY <1>4
  <2> DEFINE e == [env EXCEPT !.world = w]
  <2>2. Changes(e)
    BY <2>1 DEF WorldChanges
  <2>3. /\ e \in Environment /\ e.left = env.left /\ e.outage = env.outage /\ e.wan = env.wan
        /\ e.killed = env.killed
    BY <1>1 DEF Environment
  <2> HIDE DEF e
  <2> QED BY <1>1, <2>2, <2>3, ChangesStep
<1> QED BY <1>2, <1>3, <1>4

\* A lone prober is killed: the monitor learns of it when it looks.
LEMMA LoneStep ==
    ASSUME IInv, NEW k \in Key, LoneProberDies(k)
    PROVE  IInv' /\ Blameless(m, m')
<1> DEFINE e == [env EXCEPT !.killed = @ \cup {k}]
<1>1. /\ UNCHANGED <<m, call, saved, seen>> /\ env.left > 0
      /\ env' = [env EXCEPT !.left = @ - 1, !.killed = @ \cup {k}]
  BY DEF LoneProberDies
<1>2. /\ e \in Environment /\ e.left = env.left /\ e.wan = env.wan /\ e.up = env.up
      /\ e.outage = env.outage /\ env.killed \subseteq e.killed /\ env' = [e EXCEPT !.left = @ - 1]
  BY <1>1 DEF IInv, Around, Environment
<1> HIDE DEF e
<1>3. /\ env' \in Environment /\ env'.wan = env.wan /\ env'.up = env.up /\ env'.outage = env.outage
      /\ Culprits \subseteq Culprits'
  BY <1>1, <1>2, Befalls DEF Culprits
<1>4. Typed(m)' /\ Nested(m)' /\ Deserved(m)'
  BY <1>1, <1>3 DEF IInv, Good, Typed, Nested, Deserved
<1>5. Sessions(m)' /\ Timed(m)' /\ Told(m)'
  BY <1>1, <1>3 DEF IInv, Good, Sessions, Timed, Told
<1>6. Seeing' /\ EvidenceIsTrue'
  BY <1>1, <1>3 DEF IInv, Around, Seeing, Reachable, EvidenceIsTrue
<1>7. IInv'
  BY <1>1, <1>3, <1>4, <1>5, <1>6 DEF IInv, Around, Good
<1> QED BY <1>1, <1>7 DEF Blameless, NoDeath

\* New and restore: of what was saved nothing is fresh, and nobody is asked.
LEMMA NewGood ==
    ASSUME NEW file \in File, \A k \in Key : file[k].sticky => k \in Culprits,
           NEW s, s = New(file)
    PROVE  /\ Typed(s) /\ Nested(s) /\ Deserved(s) /\ Sessions(s)
           /\ s.fresh = {} /\ s.workers = {} /\ s.control = Window /\ s.okAge = Window
<1>1. Fields \subseteq DOMAIN s
  BY DEF New, Fields
<1>2. /\ s.known = {} /\ s.eps = {} /\ s.restored = file /\ s.sticky = {} /\ s.inFlight = {}
      /\ s.pc = "top" /\ s.session = "none" /\ s.held = {} /\ s.suspects = {} /\ s.launch = {} /\ s.lost = {}
      /\ s.due = {} /\ s.fresh = {} /\ s.since = {} /\ s.urgent = {} /\ s.followUp = {} /\ s.evFollow = {}
      /\ s.oldest = 0 /\ s.control = Window /\ s.okAge = Window /\ s.crashes = 0 /\ s.refusals = 0
      /\ s.workers = {}
  BY DEF New
<1>3. s.status = [k \in Key |-> "unknown"] /\ s.pending = [k \in Key |-> "none"]
  BY DEF New
<1>4. s.status \in [Key -> Statuses] /\ s.pending \in [Key -> {"none"} \cup Rels]
  BY <1>3 DEF Statuses
<1>5. 0 \in 0 .. Window /\ Window \in 0 .. Window /\ 0 \in 0 .. CrashLimit /\ 0 \in 0 .. MaxRefusals - 1
  BY MonitorAssumption
<1>6. Typed(s)
  BY <1>1, <1>2, <1>4, <1>5 DEF Typed
<1>7. Nested(s) /\ Deserved(s) /\ Sessions(s)
  BY <1>2 DEF Nested, Deserved, Sessions
<1> QED BY <1>2, <1>6, <1>7

LEMMA RestartStep ==
    ASSUME IInv, Restart
    PROVE  IInv' /\ Blameless(m, m')
<1>1. PICK file \in {saved, ToSave(m)} : saved' = file /\ m' = New(file)
  BY DEF Restart
<1>2. file \in File /\ \A k \in Key : file[k].sticky => k \in Culprits
  BY ToSaveGood DEF IInv, Around
<1>3. /\ env' \in Environment /\ env'.wan = env.wan /\ env'.outage = env.outage
      /\ call' = NoCall /\ seen' = NothingSeen /\ Culprits' = Culprits
  BY Befalls DEF Restart, IInv, Around, Culprits
<1> DEFINE r == m'
<1>4. r = New(file) /\ r = m'
  BY <1>1
<1> HIDE DEF r
<1>5. /\ Typed(r) /\ Nested(r) /\ Deserved(r) /\ Sessions(r)
      /\ r.fresh = {} /\ r.workers = {} /\ r.control = Window /\ r.okAge = Window
  BY <1>2, <1>4, NewGood
<1>6. Typed(m)' /\ Nested(m)' /\ Deserved(m)' /\ Sessions(m)'
  BY <1>3, <1>4, <1>5 DEF Typed, Nested, Deserved, Sessions
<1>7. call'.pc = "idle" /\ call' \in Calls /\ seen' \in [up : SUBSET Key, down : SUBSET Key]
  BY <1>3 DEF NoCall, Calls, NothingSeen
<1>8. Timed(m)' /\ Told(m)'
  BY <1>3, <1>4, <1>5, <1>7, MonitorAssumption DEF IInv, Good, Timed, Told
<1>9. Seeing' /\ EvidenceIsTrue'
  BY <1>7 DEF Seeing, EvidenceIsTrue
<1>10. IInv'
  BY <1>1, <1>2, <1>3, <1>6, <1>7, <1>8, <1>9 DEF IInv, Around, Good
<1>11. NoDeath(m, m')
  BY <1>4, <1>5 DEF NoDeath
<1> QED BY <1>10, <1>11 DEF Blameless

LEMMA InitGood ==
    ASSUME Init
    PROVE  IInv
<1>1. saved = NothingSaved /\ m = New(saved) /\ call = NoCall /\ seen = NothingSeen
  BY DEF Init
<1>2. PICK w \in FirstWorlds :
          env = [wan |-> TRUE, up |-> Key, world |-> w, outage |-> 0, left |-> MaxEvents,
                 killed |-> {}]
  BY DEF Init
<1>3. saved \in File /\ \A k \in Key : ~saved[k].sticky
  BY <1>1 DEF NothingSaved, File
<1>4. env \in Environment /\ env.outage = 0
  <2>1. w \in Worlds /\ 0 \in 0 .. Window /\ MaxEvents \in 0 .. MaxEvents
    BY MonitorAssumption
  <2> QED BY <1>2, <2>1 DEF Environment
<1>5. /\ Typed(m) /\ Nested(m) /\ Deserved(m) /\ Sessions(m)
      /\ m.workers = {} /\ m.control = Window /\ m.okAge = Window
  BY <1>1, <1>3, NewGood
<1>6. call.pc = "idle" /\ call \in Calls /\ seen \in [up : SUBSET Key, down : SUBSET Key]
  BY <1>1 DEF NoCall, Calls, NothingSeen
<1>7. Timed(m) /\ Told(m)
  BY <1>4, <1>5, <1>6, MonitorAssumption DEF Timed, Told
<1> QED BY <1>3, <1>4, <1>5, <1>6, <1>7 DEF IInv, Good, Around, Seeing, EvidenceIsTrue

-----------------------------------------------------------------------------
(* The theorems                                                              *)

LEMMA NextStep ==
    ASSUME IInv, [Next]_vars
    PROVE  IInv' /\ Blameless(m, m')
<1>1. CASE Run
  <2>1. CASE RunRefresh
    BY <2>1, RefreshStep
  <2>2. CASE RunTick
    BY <2>2, TickStep
  <2>3. CASE RunWake \/ RunControl \/ RunGuard
    BY <2>3, WaitStep
  <2>4. CASE RunApply \/ RunCrashed
    BY <2>4, AnswerStep
  <2>5. CASE RunIsolated
    BY <2>5, IsolatedStep
  <2>6. CASE RunStarted
    BY <2>6, StartedStep
  <2> QED BY <1>1, <2>1, <2>2, <2>3, <2>4, <2>5, <2>6 DEF Run
<1>2. CASE \E w \in m.workers : Attempt(w)
  BY <1>2, AttemptStep
<1>3. CASE ProberDies \/ ProberExits
  BY <1>3, DieStep, ExitStep
<1>4. CASE \E keys \in SUBSET Key : Request(keys) \/ CheckEvidence(keys)
  BY <1>4, RequestStep, CheckEvidenceStep
<1>5. CASE CheckReturns
  BY <1>5, ReturnStep
<1>6. CASE UseEvidence \/ EvidenceUsed
  BY <1>6, UseStep
<1>7. CASE Clock
  BY <1>7, ClockStep
<1>8. CASE \/ WanChanges
           \/ \E k \in Key : ServerChanges(k)
           \/ \E w \in Worlds : WorldChanges(w)
  BY <1>8, WorldStep
<1>11. CASE \E k \in Key : LoneProberDies(k)
  BY <1>11, LoneStep
<1>9. CASE Restart
  BY <1>9, RestartStep
<1>10. CASE UNCHANGED vars
  <2>1. UNCHANGED <<m, call, saved, env, seen>>
    BY <1>10 DEF vars
  <2>2. Good(m)'
    BY <2>1 DEF IInv, Good, Typed, Nested, Deserved, Sessions, Timed, Told, Culprits
  <2>3. Around'
    BY <2>1 DEF IInv, Around, Seeing, Reachable, EvidenceIsTrue, Culprits
  <2> QED BY <2>1, <2>2, <2>3 DEF IInv, Blameless, NoDeath
<1> QED BY <1>1, <1>2, <1>3, <1>4, <1>5, <1>6, <1>7, <1>8, <1>9, <1>10, <1>11 DEF Next

LEMMA AlwaysGood == Spec => []IInv
<1>1. Init => IInv
  BY InitGood
<1>2. IInv /\ [Next]_vars => IInv'
  BY NextStep
<1> QED BY <1>1, <1>2, PTL DEF Spec

\* The struct Monitor keeps its shape: what is asked of the workers, due or
\* under check has an entry, and no counter passes its limit.
THEOREM TypeCorrect == Spec => []TypeOK
<1>1. IInv => TypeOK
  <2> SUFFICES ASSUME IInv
               PROVE  TypeOK
    OBVIOUS
  <2>1. Typed(m) /\ Nested(m) /\ env.left \in 0 .. MaxEvents /\ call \in Calls
    BY DEF IInv, Around, Good, Environment
  <2>2. m.refusals \in 0 .. MaxRefusals
    BY <2>1, MonitorAssumption DEF Typed
  <2>3. m.workers \subseteq [key : Key, mine : BOOLEAN, gen : BOOLEAN, rel : {"before", "during", "after"},
                             at : {"first", "retry"} \cup Answers]
    BY <2>1 DEF Typed, Worker, Rels
  <2>4. m.pending \in [Key -> {"none", "before", "during", "after"}]
    <3>1. {"none"} \cup Rels = {"none", "before", "during", "after"}
      BY DEF Rels
    <3> QED BY <2>1, <3>1 DEF Typed
  <2> QED BY <2>1, <2>2, <2>3, <2>4 DEF TypeOK, Typed, Nested, Calls
<1> QED BY <1>1, AlwaysGood, PTL

\* CheckEvidence answers only what was true of the server since it was called -
\* a death of the prober that is not reported yet apart - whatever sessions,
\* lists, crashes and late answers came between.
THEOREM EvidenceTrue == Spec => []EvidenceIsTrue
<1>1. IInv => EvidenceIsTrue
  BY DEF IInv, Around
<1> QED BY <1>1, AlwaysGood, PTL

\* A rejection that is held until the outbound changes is of an outbound that
\* Xray refuses, that crashes it, or whose lone prober something else killed
\* while crashesAlone checked it, across restarts too: of no other that was
\* under check when the shared prober died.
THEOREM CulpritsHeld == Spec => []OnlyCulpritsHeld
<1>1. IInv => OnlyCulpritsHeld
  BY DEF IInv, Good, Deserved, OnlyCulpritsHeld, Culprits
<1> QED BY <1>1, AlwaysGood, PTL

\* The monitor declares no server dead for an outage of the WAN as long as the
\* guard's window, nor for the end of its own prober that is reported.
THEOREM DeathsAreDeserved == Spec => DeadIsItsOwnFault
<1>1. IInv /\ IInv' /\ [Next]_vars =>
          [\A k \in Key : (m'.status[k] = "dead" /\ k \in m'.fresh /\ m.status[k] # "dead")
                              => env.outage < Window /\ k \notin m'.lost]_vars
  <2> SUFFICES ASSUME IInv, IInv', [Next]_vars,
                      NEW k \in Key, m'.status[k] = "dead", k \in m'.fresh, m.status[k] # "dead"
               PROVE  env.outage < Window /\ k \notin m'.lost
    OBVIOUS
  <2>1. Blameless(m, m')
    BY NextStep
  <2>2. m'.lost = {}
    BY DEF IInv, Good, Sessions
  <2> QED BY <2>1, <2>2 DEF Blameless, NoDeath
<1> QED BY <1>1, AlwaysGood, PTL DEF Spec, DeadIsItsOwnFault

=============================================================================

------------------------------- MODULE Monitor -------------------------------
(***************************************************************************)
(* The server monitor of vpn-director-watchd: one goroutine (Run) that     *)
(* refreshes, dispatches checks to workers, applies their answers and      *)
(* keeps a prober process alive; workers that check an endpoint through    *)
(* the prober; and CheckEvidence, called from the failover watch.          *)
(*                                                                         *)
(* The variable "m" is the struct Monitor, and an operator named as a      *)
(* method takes the struct and returns it as the method leaves it.  A      *)
(* method that waits - for a dial, a prober's start, a suspect's check -   *)
(* leaves "pc" at the wait, and an action takes it up again.               *)
(*                                                                         *)
(* Counters that are only compared are kept as the outcomes of their       *)
(* comparisons.  "gen" of a worker and "epoch" of the evidence somebody    *)
(* holds: its generation is still Monitor.generation.  "mine" of a worker: *)
(* its session is still Monitor.session.  "rel": whether a check completed *)
(* before the last CheckEvidence, was dispatched before it or after it.    *)
(* Of the entries, "fresh" are those whose last completion is of this      *)
(* session and generation, "since" those where it was dispatched after the *)
(* last CheckEvidence, "same" those whose revision is the one the last     *)
(* evidence recorded.                                                      *)
(*                                                                         *)
(* Time is counted in ticks, "Window" of which are GuardWindow; whether a  *)
(* longer wait has ended is left open.  How long a pause is, latencies and *)
(* texts are left out.                                                     *)
(***************************************************************************)
EXTENDS Naturals, FiniteSets, Functions

CONSTANTS
    Key,           \* endpoints
    Poison,        \* those whose outbound crashes an Xray that checks it
    Bad,           \* those whose outbound Xray refuses to load
    FirstWorlds,   \* of Worlds, those the daemon starts in
    Worlds,        \* what the config, the subscriptions and the PATH may hold
    Concurrency,   \* workers
    GuardMin,      \* failures that ask whether the WAN is up
    Window,        \* GuardWindow, in ticks
    CrashLimit,    \* crashes that stop the restarts
    MaxRefusals,   \* outbounds one start may reject
    MaxEvents      \* bound on what befalls the router

ASSUME MonitorAssumption ==
    /\ Poison \subseteq Key /\ Bad \subseteq Key /\ IsFiniteSet(Key)
    /\ Worlds \subseteq [enabled : BOOLEAN, stopped : BOOLEAN, xray : {"ok", "missing", "broken"},
                         eps : SUBSET Key, refused : SUBSET Key]
    /\ FirstWorlds \subseteq Worlds
    /\ \A w \in Worlds : w.eps \cap w.refused = {}
    /\ Concurrency \in Nat \ {0} /\ GuardMin \in Nat \ {0} /\ Window \in Nat \ {0}
    /\ CrashLimit \in Nat \ {0} /\ MaxRefusals \in Nat \ {0} /\ MaxEvents \in Nat

VARIABLES
    m,       \* the struct Monitor
    call,    \* the goroutine in CheckEvidence, and what it got
    saved,   \* the state file
    env,     \* the world: WAN, servers, config, and the endpoints whose lone
             \* prober something else has killed
    seen     \* ghost: what was true of each server since the call began,
             \* "down" also of one checked through a prober that was dead

vars == <<m, call, saved, env, seen>>

\* How a check ended: answered, failed, or failed by the end of the prober -
\* which the code cannot tell from a failure.
Answers == {"ok", "fail", "lost"}

Statuses == {"unknown", "alive", "dead", "rejected"}

NoFails == [a \in 0 .. Window - 1 |-> 0]

\* New, then restore: what the first refresh finds in the saved state.  The
\* fields of struct entry are a function of the endpoints ("status", and
\* "pending" with the rel of the failure that waits) or the set of endpoints
\* that have them.  "gone": the session's process is dead, and Exited() does
\* not say so yet.  Ghost "lost": the last failure taken from a worker was its
\* prober's end, after Exited() said so.
New(file) ==
    [pc |-> "top", enabled |-> TRUE, state |-> "ok", known |-> {}, eps |-> {}, restored |-> file,
     status |-> [k \in Key |-> "unknown"], sticky |-> {}, proved |-> {}, inFlight |-> {},
     pending |-> [k \in Key |-> "none"], oldest |-> 0, urgent |-> {}, followUp |-> {},
     evFollow |-> {}, due |-> {}, fresh |-> {}, since |-> {}, same |-> {},
     session |-> "none", gone |-> FALSE, held |-> {}, rewritten |-> FALSE, workers |-> {}, epoch |-> FALSE,
     paused |-> FALSE, controlDue |-> FALSE, control |-> Window, okAge |-> Window,
     fails |-> NoFails, suspects |-> {}, crashes |-> 0, wait |-> FALSE, then |-> "ensure",
     launch |-> {}, refusals |-> 0, lost |-> {}, statusDirty |-> FALSE, saveFailed |-> FALSE]

NoCall == [pc |-> "idle", keys |-> {}, got |-> [k \in Key |-> "none"]]

NothingSaved == [k \in Key |-> [status |-> "none", sticky |-> FALSE]]

NothingSeen == [up |-> {}, down |-> {}]

Reachable(k) == env.wan /\ k \in env.up

-----------------------------------------------------------------------------
(* Entries                                                                 *)

\* entry.checkable, of an endpoint that has an entry.
Checkable(s) == {k \in s.known : s.status[k] # "rejected"}

CheckableSet(s) == s.eps \cap Checkable(s)

Pending(s) == {k \in Key : s.pending[k] # "none"}

\* f with the value v at the members of set.
With(f, set, v) == [k \in Key |-> IF k \in set THEN v ELSE f[k]]

\* entry.succeed and entry.fail: no check is due for a pause.
Answered(s, set, status) ==
    [s EXCEPT !.status = With(s.status, set, status), !.due = @ \ set, !.same = @ \ set]

\* entry.reject: out of the prober, and nothing asked of it any more.
Reject(s, set, sticky) ==
    LET unchanged(k) == s.status[k] = "rejected" /\ k \in s.proved /\ (k \in s.sticky <=> sticky)
    IN  [s EXCEPT !.status = With(s.status, set, "rejected"), !.proved = @ \cup set,
                  !.sticky = IF sticky THEN @ \cup set ELSE @ \ set,
                  !.inFlight = @ \ set, !.pending = With(s.pending, set, "none"),
                  !.urgent = @ \ set, !.followUp = @ \ set, !.evFollow = @ \ set,
                  !.due = @ \ set, !.same = {k \in @ : k \in set => unchanged(k)}]

\* Rejections not to be held: these may be checked again.
Readmit(s, set) ==
    [s EXCEPT !.status = With(s.status, set, "unknown"), !.sticky = @ \ set, !.proved = @ \ set,
              !.due = @ \cup set, !.same = @ \ set]

\* Mutant: the saved state is taken without looking whether it has the key.
FromRestored_Blind(s, new, over) ==
    [s EXCEPT !.status = [k \in Key |-> IF k \in new THEN s.restored[k].status ELSE s.status[k]],
              !.sticky = @ \cup {k \in new : s.restored[k].sticky}]

\* fromRestored: of the new endpoints, the saved status and stickiness, which
\* are of no session and no proof, and the saved pause, which is over for some;
\* an endpoint without them is due now.
FromRestored(s, new, over) ==
    LET file(k) == s.restored[k]
    IN  [s EXCEPT !.status = [k \in Key |-> IF k \notin new THEN s.status[k]
                                            ELSE IF file(k).status = "none" THEN "unknown"
                                            ELSE file(k).status],
                  !.sticky = @ \cup {k \in new : file(k).sticky},
                  !.due = @ \cup {k \in new : file(k).status = "none" \/ (k \in over /\ file(k).status # "rejected")}]

\* The entries of the endpoints in gone are dropped.
Drop(s, gone) ==
    [s EXCEPT !.status = With(s.status, gone, "unknown"), !.sticky = @ \ gone,
              !.proved = @ \ gone, !.inFlight = @ \ gone,
              !.pending = With(s.pending, gone, "none"), !.urgent = @ \ gone,
              !.followUp = @ \ gone, !.evFollow = @ \ gone, !.due = @ \ gone,
              !.fresh = @ \ gone, !.since = @ \ gone, !.same = @ \ gone]

\* invalidateEvidence: a new generation; public statuses stay.
InvalidateEvidence(s) ==
    [s EXCEPT !.evFollow = {}, !.fresh = {}, !.epoch = FALSE,
              !.workers = {[w EXCEPT !.gen = FALSE] : w \in s.workers}]

\* setState: another state is another generation.
SetState(s, state) ==
    IF s.state = state THEN s
    ELSE InvalidateEvidence([s EXCEPT !.state = state])

ClearRecent(s) == [s EXCEPT !.okAge = Window, !.fails = NoFails]

\* discardPending.
DiscardPending(s) == [s EXCEPT !.pending = [k \in Key |-> "none"], !.oldest = 0]

\* A worker whose prober has been stopped: whatever it still answers is of
\* another session and generation.
Orphan(w) == [w EXCEPT !.mine = FALSE, !.gen = FALSE, !.rel = "before", !.at = "lost"]

\* The session is forgotten, with what its workers had begun.
ForgetSession(s) ==
    InvalidateEvidence(ClearRecent(DiscardPending(
        [s EXCEPT !.session = "none", !.gone = FALSE, !.held = {}, !.rewritten = FALSE, !.inFlight = {},
                  !.workers = {Orphan(w) : w \in s.workers}])))

\* stopSession.
StopSession(s) == IF s.session = "none" THEN s ELSE ForgetSession(s)

\* idle: statuses stay as they were.
Idle(s, state) == SetState(ClearRecent(StopSession(s)), state)

\* rejectKey: Xray refused the outbound, or it crashed Xray alone.
RejectKey(s, k) ==
    IF k \notin s.known THEN s
    ELSE LET r == Reject(s, {k}, TRUE)
         IN  IF k \in Checkable(s) THEN InvalidateEvidence([r EXCEPT !.statusDirty = TRUE]) ELSE r

\* startFailed: no start before the back-off has passed.
StartFailed(s) ==
    LET r == [s EXCEPT !.wait = TRUE]
    IN  IF s.paused THEN r ELSE SetState(r, "prober_error")

-----------------------------------------------------------------------------
(* Refresh                                                                 *)

\* merge: a new endpoint set; "rewritten" when outbounds changed under their
\* keys.  Gone endpoints lose their entries, what the generator refused before
\* and does no longer is checked again, what it refuses is rejected.  "over":
\* of the saved entries, those whose pause has ended.
Merge(s, eps, refused, rewritten, over) ==
    LET now   == eps \cup refused
        a     == FromRestored(Drop(s, s.known \ now), now \ s.known, over)
        freed == {k \in eps : a.status[k] = "rejected" /\ k \notin a.sticky}
        other == IF rewritten THEN eps ELSE eps \ s.eps
        b     == Reject(Readmit([a EXCEPT !.proved = @ \ other], freed), refused, FALSE)
        identity == \/ now # s.known \/ other # {} \/ freed # {}
                    \/ \E k \in refused : k \in s.eps \/ a.status[k] # "rejected" \/ k \in a.sticky
        c     == [b EXCEPT !.known = now, !.eps = eps, !.rewritten = @ \/ rewritten,
                           !.restored = NothingSaved,
                           !.statusDirty = @ \/ \E k \in now : b.status[k] # a.status[k]]
    IN  IF identity THEN InvalidateEvidence(c) ELSE c

\* reassessRejected: rejections the present Xray has not made are tried again.
ReassessRejected(s) ==
    LET again == {k \in s.eps : s.status[k] = "rejected"} \ s.proved
    IN  IF again = {} THEN s
        ELSE InvalidateEvidence([Readmit(s, again) EXCEPT !.statusDirty = TRUE])

\* ensureSession, as far as the launcher's Start.
EnsureSession(s) ==
    LET set == CheckableSet(s)
        done == [s EXCEPT !.pc = "tick"]
    IN  CASE s.paused -> done
          [] ~s.paused /\ s.session # "none" /\ s.held = set /\ ~s.rewritten ->
                IF s.session = "up" THEN SetState(done, "ok") ELSE done
          [] ~s.paused /\ (s.session = "none" \/ s.held # set \/ s.rewritten) ->
                IF set = {} THEN SetState(StopSession(done), "ok")
                ELSE IF s.wait THEN done
                ELSE [StopSession(s) EXCEPT !.pc = "start", !.launch = set, !.refusals = 0]

\* What follows the isolation: in crashed, no restart after CrashLimit crashes.
AfterIsolation(s) ==
    IF s.then = "crashed" /\ s.crashes >= CrashLimit
    THEN LET r == [s EXCEPT !.pc = "tick", !.crashes = 0, !.wait = TRUE, !.then = "ensure"]
         IN  IF s.paused THEN r ELSE SetState(r, "prober_error")
    ELSE EnsureSession([s EXCEPT !.then = "ensure"])

\* isolate: the suspects one by one, those that may still be checked.
Isolate(s) ==
    LET left == s.suspects \cap Checkable(s)
        r == [s EXCEPT !.suspects = left, !.pc = "tick"]
    IN  IF left = {} THEN AfterIsolation(r) ELSE [r EXCEPT !.pc = "isolate"]

\* resume.
Resume(s, xray) ==
    CASE s.wait -> [s EXCEPT !.pc = "tick"]
      [] ~s.wait /\ xray = "missing" -> [Idle(s, "no_xray") EXCEPT !.pc = "tick"]
      [] ~s.wait /\ xray = "broken" -> [StartFailed(StopSession(s)) EXCEPT !.pc = "tick"]
      [] ~s.wait /\ xray = "ok" -> Isolate([ReassessRejected(s) EXCEPT !.then = "ensure"])

\* refresh; a file that cannot be read leaves what was read last.
Refresh(s, w, settingsRead, subsRead, rewritten, over) ==
    LET a == IF settingsRead THEN [s EXCEPT !.enabled = w.enabled] ELSE s
        b == IF subsRead THEN Merge(a, w.eps, w.refused, rewritten, over) ELSE a
        tick(r) == [r EXCEPT !.pc = "tick"]
    IN  CASE ~b.enabled -> tick(Idle(b, "disabled"))
          [] b.enabled /\ w.stopped -> tick(Idle(b, "stopped"))
          [] b.enabled /\ ~w.stopped /\ b.paused ->
                tick(IF w.xray = "missing" THEN Idle(b, "no_xray") ELSE SetState(b, "wan_down"))
          [] b.enabled /\ ~w.stopped /\ ~b.paused -> Resume(b, w.xray)

-----------------------------------------------------------------------------
(* Answers                                                                 *)

Total(fails) == FoldFunction(LAMBDA a, b : a + b, 0, fails)

Least(a, b) == IF a < b THEN a ELSE b

\* wanEvidence: a control or a server answered within the window.
WanEvidence(s) == s.control < Window \/ s.okAge < Window

\* guardDue: enough checks within the window, all failed, and no control.
GuardDue(s) ==
    LET need == Least(GuardMin, Cardinality(Checkable(s)))
    IN  need # 0 /\ Total(s.fails) >= need /\ ~WanEvidence(s)

\* completed: completions of this generation, rel[k] that of k, and what they
\* answer of the calls that wait for them.
Completed(s, set, rel) ==
    LET after == {k \in set : rel[k] = "after"}
    IN  [s EXCEPT !.fresh = @ \cup set, !.since = IF call.pc = "waiting" THEN (@ \ set) \cup after ELSE @,
                  !.followUp = {k \in @ : k \in set => rel[k] = "before"}, !.evFollow = @ \ after]

\* publishPending: the failures that waited count now.
Publish(s) ==
    LET now == Pending(s) \cap Checkable(s)
        r   == Completed(Answered(s, now, "dead"), now, s.pending)
    IN  [DiscardPending(r) EXCEPT !.statusDirty = @ \/ \E k \in now : s.status[k] # "dead"]

\* Mutant: the answer of a prober that has exited counts.
Counts_Exited(s, w) == w.key \in s.known /\ w.mine /\ s.session # "none"

\* apply: an answer of a prober that is gone or crashed is dropped whole.
Counts(s, w) == w.key \in s.known /\ w.mine /\ s.session = "up"

\* apply, a failed check: kept back until something shows that the WAN is up.
Failure(s, w) ==
    LET f == [s EXCEPT !.fails[0] = Least(@ + 1, GuardMin), !.pending[w.key] = w.rel,
                       !.lost = IF w.at = "lost" THEN @ \cup {w.key} ELSE @ \ {w.key}]
    IN  IF WanEvidence(f) THEN Publish(f)
        ELSE IF GuardDue(f) THEN [f EXCEPT !.pc = "guard"] ELSE f

\* apply, a check that got its answer; a prober that has lived CrashWindow
\* ("settled") has its crashes forgotten.
Success(s, w, settled) ==
    LET a == Completed(Answered(s, {w.key}, "alive"), {w.key}, [k \in Key |-> w.rel])
    IN  Publish([a EXCEPT !.okAge = 0, !.crashes = IF settled THEN 0 ELSE @,
                          !.statusDirty = @ \/ s.status[w.key] # "alive"])

\* apply.
Apply(s, w, settled) ==
    LET a == [s EXCEPT !.pc = "top", !.workers = @ \ {w}]
        b == [a EXCEPT !.inFlight = @ \ {w.key}]
    IN  CASE ~Counts(s, w) -> a
          [] Counts(s, w) /\ (~w.gen \/ s.state # "ok") -> b
          [] Counts(s, w) /\ w.gen /\ s.state = "ok" /\ w.at = "ok" -> Success(b, w, settled)
          [] Counts(s, w) /\ w.gen /\ s.state = "ok" /\ w.at # "ok" -> Failure(b, w)

\* guard, once the controls have answered or not.
Guard(s, up) ==
    IF up THEN Publish([s EXCEPT !.control = 0])
    ELSE SetState([ClearRecent(DiscardPending(s)) EXCEPT !.paused = TRUE, !.controlDue = FALSE],
                  "wan_down")

\* crashed: the endpoints under check are suspects.
Crashed(s) ==
    LET suspects == s.suspects \cup (s.eps \cap s.inFlight)
        r == [ForgetSession(s) EXCEPT !.suspects = suspects, !.then = "crashed",
                                      !.crashes = Least(@ + 1, CrashLimit)]
    IN  IF s.paused THEN AfterIsolation(r) ELSE Isolate(r)

\* tick, the WAN back: every server is due.
WanBack(s, xray) ==
    LET r == [ClearRecent(s) EXCEPT !.due = @ \cup Checkable(s), !.control = 0, !.paused = FALSE]
    IN  IF s.wait THEN [SetState(r, "prober_error") EXCEPT !.pc = "tick"] ELSE Resume(r, xray)

-----------------------------------------------------------------------------
(* The loop                                                                *)

\* save: what the file then holds.
ToSave(s) == [k \in Key |-> IF k \in s.known
                            THEN [status |-> s.status[k], sticky |-> k \in s.sticky]
                            ELSE s.restored[k]]

\* The end of a tick: a changed status is saved at once, and after a failed
\* save in SaveEvery.
SaveAndWait(s) ==
    IF s.statusDirty /\ ~s.saveFailed
    THEN \/ /\ saved' = ToSave(s)
            /\ m' = [s EXCEPT !.statusDirty = FALSE, !.pc = "wait"]
            /\ UNCHANGED env
         \/ /\ env.left > 0
            /\ env' = [env EXCEPT !.left = @ - 1]
            /\ m' = [s EXCEPT !.saveFailed = TRUE, !.pc = "wait"]
            /\ UNCHANGED saved
    ELSE m' = [s EXCEPT !.pc = "wait"] /\ UNCHANGED <<saved, env>>

\* dispatch: those asked for first, the others in any order.
Dispatch(s) ==
    LET asked == s.urgent \cup s.followUp \cup s.evFollow
        busy  == s.inFlight \cap s.known
        due   == (Checkable(s) \cap (asked \cup s.due)) \ (busy \cup Pending(s))
        free  == IF Cardinality(busy) < Concurrency THEN Concurrency - Cardinality(busy) ELSE 0
    IN  {[s EXCEPT !.inFlight = @ \cup d, !.urgent = @ \ d,
                   !.workers = @ \cup [key : d, mine : {TRUE}, gen : {TRUE}, rel : {"after"},
                                       at : {"first"}]]
         : d \in {d \in SUBSET due : /\ Cardinality(d) = Least(free, Cardinality(due))
                                     /\ (due \ d) \cap asked # {} => d \subseteq asked}}

\* The loop's top: a refresh that is due, reading the files as they are.
RunRefresh ==
    /\ m.pc = "top"
    /\ \E rewritten, settingsRead, subsRead \in BOOLEAN,
          over \in SUBSET {k \in Key : m.restored[k].status # "none"} :
          /\ (rewritten \/ ~settingsRead \/ ~subsRead) => env.left > 0
          /\ env' = IF rewritten \/ ~settingsRead \/ ~subsRead
                    THEN [env EXCEPT !.left = @ - 1] ELSE env
          /\ m' = Refresh(m, env.world, settingsRead, subsRead, rewritten, over)
    /\ UNCHANGED <<call, saved, seen>>

\* tick.
RunTick ==
    /\ m.pc \in {"top", "tick"}
    /\ LET overdue == Pending(m) # {} /\ m.oldest >= Window
       IN  CASE m.paused /\ m.state = "wan_down" /\ m.controlDue ->
                   m' = [m EXCEPT !.pc = "control"] /\ UNCHANGED <<saved, env>>
             [] ~(m.paused /\ m.state = "wan_down" /\ m.controlDue) ->
                   IF m.state = "ok" /\ m.session = "up"
                   THEN IF overdue THEN m' = [m EXCEPT !.pc = "tickGuard"] /\ UNCHANGED <<saved, env>>
                        ELSE \E s \in Dispatch(m) : SaveAndWait(s)
                   ELSE SaveAndWait(m)
    /\ UNCHANGED <<call, seen>>

\* The timer of untilNext, or wake, with nothing else for the select to take.
RunWake ==
    /\ m.pc = "wait" /\ m.session # "exited"
    /\ \A w \in m.workers : w.at \in {"first", "retry"}
    /\ m' = [m EXCEPT !.pc = "top"]
    /\ UNCHANGED <<call, saved, env, seen>>

\* tick, once the controls have answered the dial of a paused monitor or not.
RunControl ==
    /\ m.pc = "control"
    /\ m' = IF env.wan THEN WanBack(m, env.world.xray)
            ELSE [m EXCEPT !.controlDue = FALSE, !.pc = "tick"]
    /\ UNCHANGED <<call, saved, env, seen>>

RunGuard ==
    /\ m.pc \in {"guard", "tickGuard"}
    /\ m' = [Guard(m, env.wan) EXCEPT !.pc = IF m.pc = "guard" THEN "top" ELSE "tick"]
    /\ UNCHANGED <<call, saved, env, seen>>

RunApply ==
    /\ m.pc = "wait"
    /\ \E w \in {w \in m.workers : w.at \in Answers}, settled \in BOOLEAN :
          (settled => m.crashes > 0) /\ m' = Apply(m, w, settled)
    /\ UNCHANGED <<call, saved, env, seen>>

RunCrashed ==
    /\ m.pc = "wait" /\ m.session = "exited"
    /\ m' = Crashed(m)
    /\ UNCHANGED <<call, saved, env, seen>>

\* Mutant: whoever was under check when the prober crashed is rejected.
CrashesAlone_Suspected(k) == {TRUE}

\* crashesAlone: a prober of its own for the suspect, which its check crashes,
\* or which something else kills: any exit is taken for the outbound's.  Of one
\* that does not start nothing is known.
CrashesAlone(k) == IF k \in Poison \cup env.killed THEN BOOLEAN ELSE {FALSE}

RunIsolated ==
    /\ m.pc = "isolate"
    /\ \E k \in m.suspects : \E crashed \in CrashesAlone(k) :
          LET r == IF crashed THEN RejectKey(m, k) ELSE m
          IN  m' = Isolate([r EXCEPT !.suspects = @ \ {k}])
    /\ UNCHANGED <<call, saved, env, seen>>

Launched(s) == [s EXCEPT !.pc = "tick", !.launch = {}, !.refusals = 0]

\* XrayLauncher.Start: a prober that listens, or one that exits on its config
\* and says of which outbound, or does not say.  Local failures come on top.
LauncherStart(set) == IF set \cap Bad = {} THEN {"up"} ELSE {"named", "unnamed"}

\* bisect: halves are tested down to one outbound that Xray refuses alone, of
\* several any; a test that fails for reasons of its own ends it.
Bisect(set) == set \cap Bad

\* configRejection: the outbound whose tag is in Xray's output.
Named(set) == set \cap Bad

\* ensureSession, a refused outbound rejected: the start is tried without it.
Refused(s, k) ==
    LET r == [RejectKey(s, k) EXCEPT !.launch = @ \ {k}, !.refusals = @ + 1]
    IN  IF r.launch = {} THEN SetState(Launched(r), "ok")
        ELSE IF r.refusals = MaxRefusals THEN StartFailed(Launched(r))
        ELSE r

\* ensureSession, the launcher's Start having returned.
RunStarted ==
    /\ m.pc = "start"
    /\ \/ /\ "up" \in LauncherStart(m.launch)
          /\ m' = SetState([InvalidateEvidence(Launched(m)) EXCEPT !.session = "up",
                              !.held = m.launch, !.wait = FALSE], "ok")
          /\ UNCHANGED env
       \/ /\ "named" \in LauncherStart(m.launch)
          /\ \E k \in Named(m.launch) : m' = Refused(m, k)
          /\ UNCHANGED env
       \/ /\ "unnamed" \in LauncherStart(m.launch)
          /\ \E k \in Bisect(m.launch) : m' = Refused(m, k)
          /\ UNCHANGED env
       \/ /\ env.left > 0
          /\ m' = StartFailed(Launched(m))
          /\ env' = [env EXCEPT !.left = @ - 1]
    /\ UNCHANGED <<call, saved, seen>>

-----------------------------------------------------------------------------
(* Workers                                                                 *)

\* check, an attempt: after a failure one retry, unless the prober went.
Attempt(w) ==
    LET running == w.mine /\ m.session = "up"
        at == IF ~running THEN "lost"
              ELSE IF Reachable(w.key) THEN "ok"
              ELSE IF w.at = "first" THEN "retry" ELSE "fail"
    IN  /\ w \in m.workers /\ w.at \in {"first", "retry"}
        /\ ~(running /\ (w.key \in Poison \/ m.gone))
        /\ m' = [m EXCEPT !.workers = (@ \ {w}) \cup {[w EXCEPT !.at = at]}]
        /\ UNCHANGED <<call, saved, env, seen>>

\* Xray dies, of an endpoint it checks or of something else.  Of the attempts
\* under way some fail before Exited() is closed, and then the code takes a
\* failed retry for the server's own; the others see the prober gone.
ProberDies ==
    /\ m.session = "up" /\ ~m.gone
    /\ LET mine == {w \in m.workers : w.mine /\ w.at \in {"first", "retry"}}
           culprit == \E w \in mine : w.key \in Poison
       IN  /\ culprit \/ env.left > 0
           /\ env' = IF culprit THEN env ELSE [env EXCEPT !.left = @ - 1]
           /\ \E failed \in SUBSET {w \in mine : w.at = "retry"} :
                 /\ m' = IF failed = {} THEN [m EXCEPT !.session = "exited"]
                         ELSE [m EXCEPT !.gone = TRUE,
                                  !.workers = (@ \ failed) \cup {[w EXCEPT !.at = "fail"] : w \in failed}]
                 /\ seen' = IF call.pc = "idle" THEN seen
                            ELSE [seen EXCEPT !.down = @ \cup {w.key : w \in failed}]
    /\ UNCHANGED <<call, saved>>

\* startProcess: the process has been waited for, and Exited() is closed.
ProberExits ==
    /\ m.session = "up" /\ m.gone
    /\ m' = [m EXCEPT !.session = "exited", !.gone = FALSE]
    /\ UNCHANGED <<call, saved, env, seen>>

\* The memory runs out, or somebody kills it, while a suspect is checked alone.
LoneProberDies(k) ==
    /\ m.pc = "isolate" /\ k \in m.suspects /\ k \notin Poison \cup env.killed
    /\ env.left > 0
    /\ env' = [env EXCEPT !.left = @ - 1, !.killed = @ \cup {k}]
    /\ UNCHANGED <<m, call, saved, seen>>

-----------------------------------------------------------------------------
(* Callers from other goroutines                                           *)

\* evidenceActive.
EvidenceActive == m.enabled /\ m.state = "ok" /\ ~m.paused /\ m.session # "exited"

\* recordFor: no restored check and no rejection the present Xray did not make.
RecordFor(k) ==
    k \in m.known /\ CASE m.status[k] = "rejected" -> k \in m.proved
                        [] m.status[k] \in {"alive", "dead"} -> m.session # "none" /\ k \in m.fresh
                        [] m.status[k] = "unknown" -> FALSE

\* Request.
Request(keys) ==
    /\ m.state \notin {"stopped", "disabled"} /\ env.left > 0
    /\ m' = [m EXCEPT !.urgent = @ \cup ((keys \cap Checkable(m)) \ m.inFlight)]
    /\ env' = [env EXCEPT !.left = @ - 1]
    /\ UNCHANGED <<call, saved, seen>>

\* CheckEvidence, until it waits.
CheckEvidence(keys) ==
    /\ call.pc = "idle" /\ EvidenceActive /\ keys # {} /\ env.left > 0
    /\ LET asked == keys \cap Checkable(m)
           older(at) == IF at \in Answers THEN "before" ELSE "during"
       IN  m' = [m EXCEPT !.followUp = @ \cup asked, !.evFollow = @ \cup asked, !.since = {},
                          !.pending = With(m.pending, Pending(m), "before"),
                          !.workers = {[w EXCEPT !.rel = older(w.at)] : w \in m.workers},
                          !.epoch = TRUE]
    /\ call' = [NoCall EXCEPT !.pc = "waiting", !.keys = keys]
    /\ seen' = [up |-> {k \in Key : Reachable(k)}, down |-> {k \in Key : ~Reachable(k)}]
    /\ env' = [env EXCEPT !.left = @ - 1]
    /\ UNCHANGED saved

\* Mutant: a check under way at the call answers it.
CheckDone_AnyCompletion == \A k \in call.keys : RecordFor(k)

\* CheckEvidence: every key has a record of a check dispatched since the call.
CheckDone ==
    \A k \in call.keys : RecordFor(k) /\ (m.status[k] = "rejected" \/ k \in m.since)

\* CheckEvidence returns: inactive, stale, cancelled, or with evidence.
CheckReturns ==
    /\ call.pc = "waiting"
    /\ IF EvidenceActive /\ m.epoch /\ CheckDone
       THEN /\ call' = [call EXCEPT !.pc = "got",
                           !.got = [k \in Key |-> IF k \in call.keys THEN m.status[k] ELSE "none"]]
            /\ m' = [m EXCEPT !.same = call.keys, !.since = {}]
            /\ UNCHANGED env
            /\ UNCHANGED seen
       ELSE /\ call' = NoCall
            /\ seen' = NothingSeen
            /\ m' = [m EXCEPT !.since = {}]
            /\ IF EvidenceActive /\ m.epoch
               THEN env.left > 0 /\ env' = [env EXCEPT !.left = @ - 1]
               ELSE UNCHANGED env
    /\ UNCHANGED saved

\* ValidateEvidence: what was got is applicable still.
ValidateEvidence ==
    /\ EvidenceActive /\ m.epoch
    /\ \A k \in call.keys : RecordFor(k) /\ k \in m.same /\ m.status[k] = call.got[k]

\* The watch acts on the evidence it has validated, or lets it go.
UseEvidence ==
    /\ call.pc = "got"
    /\ IF ValidateEvidence THEN call' = [call EXCEPT !.pc = "used"] /\ UNCHANGED seen
       ELSE call' = NoCall /\ seen' = NothingSeen
    /\ m' = [m EXCEPT !.same = {}]
    /\ UNCHANGED <<saved, env>>

EvidenceUsed ==
    /\ call.pc = "used" /\ call' = NoCall /\ seen' = NothingSeen
    /\ UNCHANGED <<m, saved, env>>

-----------------------------------------------------------------------------
(* The world                                                               *)

\* Time passes while the loop waits: a tick, or so long that every wait of the
\* monitor is over.  A dial, the answers at hand and the report of a death are
\* short beside a tick.
Clock ==
    /\ m.pc \in {"wait", "start", "isolate"} /\ ~m.gone
    /\ m.pc = "wait" => \A w \in m.workers : w.mine => w.at \in {"first", "retry"}
    /\ \E long \in BOOLEAN :
          LET older(age) == IF long THEN Window ELSE Least(age + 1, Window)
          IN  /\ m' = [m EXCEPT
                  !.due = IF long THEN @ \cup Checkable(m) ELSE @,
                  !.oldest = IF Pending(m) = {} THEN 0 ELSE older(@),
                  !.control = older(@), !.okAge = older(@),
                  !.fails = [a \in 0 .. Window - 1 |-> IF a = 0 \/ long THEN 0 ELSE m.fails[a - 1]],
                  !.controlDue = m.paused, !.wait = @ /\ ~long, !.saveFailed = @ /\ ~long,
                  !.crashes = IF long THEN 0 ELSE @]
              /\ env' = [env EXCEPT !.outage = IF env.wan THEN 0 ELSE older(@)]
    /\ UNCHANGED <<call, saved, seen>>

Changes(e) ==
    /\ env.left > 0
    /\ env' = [e EXCEPT !.left = @ - 1]
    /\ LET reach == {k \in Key : e.wan /\ k \in e.up}
       IN  seen' = IF call.pc = "idle" THEN NothingSeen
                   ELSE [up |-> seen.up \cup reach, down |-> seen.down \cup (Key \ reach)]
    /\ UNCHANGED <<m, call, saved>>

WanChanges == Changes([env EXCEPT !.wan = ~@, !.outage = 0])
ServerChanges(k) == Changes([env EXCEPT !.up = IF k \in @ THEN @ \ {k} ELSE @ \cup {k}])
WorldChanges(w) == w # env.world /\ Changes([env EXCEPT !.world = w])

\* The daemon ends - by shutdown, which saves, or killed - and starts again.
Restart ==
    /\ env.left > 0 /\ env' = [env EXCEPT !.left = @ - 1]
    /\ \E file \in {saved, ToSave(m)} : saved' = file /\ m' = New(file)
    /\ call' = NoCall
    /\ seen' = NothingSeen

-----------------------------------------------------------------------------
Init ==
    /\ saved = NothingSaved
    /\ m = New(saved)
    /\ call = NoCall
    /\ \E w \in FirstWorlds : env = [wan |-> TRUE, up |-> Key, world |-> w, outage |-> 0, left |-> MaxEvents,
                                     killed |-> {}]
    /\ seen = NothingSeen

Run == \/ RunRefresh \/ RunTick \/ RunWake \/ RunControl \/ RunGuard
       \/ RunApply \/ RunCrashed \/ RunIsolated \/ RunStarted

Next ==
    \/ Run
    \/ \E w \in m.workers : Attempt(w)
    \/ ProberDies \/ ProberExits
    \/ \E keys \in SUBSET Key : Request(keys) \/ CheckEvidence(keys)
    \/ CheckReturns \/ UseEvidence \/ EvidenceUsed
    \/ Clock
    \/ WanChanges
    \/ \E k \in Key : ServerChanges(k) \/ LoneProberDies(k)
    \/ \E w \in Worlds : WorldChanges(w)
    \/ Restart

Spec == Init /\ [][Next]_vars

-----------------------------------------------------------------------------
TypeOK ==
    /\ m.status \in [Key -> Statuses] /\ m.oldest \in 0 .. Window
    /\ m.pending \in [Key -> {"none", "before", "during", "after"}]
    /\ m.inFlight \cup m.urgent \cup m.followUp \cup m.evFollow \cup m.due \subseteq m.known
    /\ m.workers \subseteq [key : Key, mine : BOOLEAN, gen : BOOLEAN,
                            rel : {"before", "during", "after"},
                            at : {"first", "retry"} \cup Answers]
    /\ m.known \subseteq Key /\ m.eps \subseteq m.known /\ m.held \subseteq Key
    /\ m.suspects \subseteq Key /\ m.launch \subseteq Key
    /\ m.session \in {"none", "up", "exited"}
    /\ m.control \in 0 .. Window /\ m.okAge \in 0 .. Window
    /\ m.crashes \in 0 .. CrashLimit /\ m.refusals \in 0 .. MaxRefusals
    /\ call.pc \in {"idle", "waiting", "got", "used"} /\ call.keys \subseteq Key
    /\ env.left \in 0 .. MaxEvents

\* What CheckEvidence returns was true of the server after the call began: one
\* it calls alive was reachable at some moment since, one it calls dead was
\* not, or was asked through a prober whose death was not reported yet -
\* whatever the prober crashed of, however late answers came, and whatever
\* sessions, lists and outages came between.
EvidenceIsTrue ==
    call.pc \in {"got", "used"} =>
        \A k \in call.keys : /\ call.got[k] = "alive" => k \in seen.up
                             /\ call.got[k] = "dead" => k \in seen.down

\* A server is declared dead for its own failures: not for an outage of the
\* WAN once it has lasted GuardWindow, and not because the prober ended under
\* its check, once the end is reported.
DeadIsItsOwnFault ==
    [][\A k \in Key : (m'.status[k] = "dead" /\ k \in m'.fresh /\ m.status[k] # "dead")
                         => env.outage < Window /\ k \notin m'.lost]_vars

\* A rejection that holds until the outbound changes is of an outbound that
\* Xray refuses, that crashes it, or whose lone prober was killed by something
\* else when it was checked alone: the code cannot tell the two.  No endpoint is
\* held for having been under check when the shared prober died, or for another
\* one's death, across restarts too.
OnlyCulpritsHeld ==
    m.sticky \subseteq Poison \cup Bad \cup env.killed
=============================================================================

--------------------------- MODULE DirectorProofs ---------------------------
(* Theorems about Director, for any clients, tunnels, slots, configs and     *)
(* number of faults.                                                         *)
EXTENDS Director, TLAPS

-----------------------------------------------------------------------------
(* Types, and which command a step belongs to                                *)

\* Steps of tproxy_apply and its prune, of tunnel_apply, of tunnel_stop.
TproxyPart == {"clients", "chain", "prune"}
Rebuild == {"collect", "slots", "swap", "release"}
TunnelPart == Rebuild \cup {"tunnel", "record", "ready", "refresh", "refreshed"}
StopPart == {"stopChain", "stopRules", "stopTables"}

\* tunnel_apply runs tunnel_stop where no client has a tunnel.
Commanded ==
    /\ pc \in TproxyPart => kind \in {"all", "xray"}
    /\ pc \in TunnelPart => kind \in {"all", "tunnel"}
    /\ pc = "stopXray" => kind \in {"stop", "stop xray"}
    /\ pc \in StopPart => \/ kind \in {"stop", "stop tunnel"}
                          \/ kind \in {"all", "tunnel"} /\ tunnel_clients = {}

KernelTyped ==
    /\ xset \in (SUBSET Client) \cup {Nil}
    /\ xjump \in SUBSET Client
    /\ mark \in [Client -> Mark]
    /\ shadow \in [Client -> Mark] \cup {Nil}
    /\ rule \in SUBSET Slot /\ block \in SUBSET Slot
    /\ via \in [Slot -> Tunnel \cup {Nil}]
    /\ up \in SUBSET Tunnel

FilesTyped ==
    /\ tables \in (SUBSET Pair) \cup {Nil}
    /\ hash \in {HashOf(f) : f \in Configs} \cup {Nil}
    /\ foReady \in Tunnel \cup {Nil}
    /\ xready \in BOOLEAN

RunTyped ==
    /\ disturbed \in BOOLEAN /\ faults \in 0 .. MaxFaults
    /\ pc \in Step /\ kind \in Kind /\ want \in Configs /\ mem \in Memory

Typed == KernelTyped /\ FilesTyped /\ RunTyped /\ Commanded

LEMMA FaultsTyped ==
    ASSUME faults \in 0 .. MaxFaults, NEW b, Faulty(b)
    PROVE  faults' \in 0 .. MaxFaults
BY DirectorConstants DEF Faulty

LEMMA EachFaultTyped ==
    ASSUME faults \in 0 .. MaxFaults, Fault \/ Smooth
    PROVE  faults' \in 0 .. MaxFaults
BY FaultsTyped DEF Fault, Smooth

\* One field of the run's memory changes, or two.
LEMMA MemoryTyped ==
    ASSUME mem \in Memory
    PROVE  /\ NoMemory \in Memory
           /\ \A S \in SUBSET Pair : [mem EXCEPT !.todo = S] \in Memory
           /\ \A b \in BOOLEAN : [mem EXCEPT !.clientsOk = b] \in Memory
BY DEF Memory, NoMemory

LEMMA ConfigTyped ==
    ASSUME want \in Configs
    PROVE  /\ want.xray \in SUBSET Client
           /\ want.tun \in [Client -> Tunnel \cup {Nil}]
           /\ want.fo \in Tunnel \cup {Nil}
           /\ want.snap \in SUBSET Client
           /\ tunnel_clients \in SUBSET Client
           /\ FailoverClients \in SUBSET Client
           /\ \A t : ClientsOf(t) \in SUBSET Client
BY DirectorConstants DEF Config, tunnel_clients, ClientsOf, FailoverClients

\* The run ends.
LEMMA EndTyped ==
    ASSUME Typed, NEW how \in {"idle", "done"}, End(how), UNCHANGED run,
           disturbed' \in BOOLEAN, faults' \in 0 .. MaxFaults
    PROVE  RunTyped' /\ Commanded'
BY MemoryTyped DEF Typed, RunTyped, End, run, Step, Commanded, TproxyPart, Rebuild, TunnelPart, StopPart

\* A step of tproxy_apply, or of tunnel_apply, goes on to another.
LEMMA TunnelGoesOn ==
    ASSUME Typed, pc \in TunnelPart, pc' \in TunnelPart, mem' \in Memory,
           UNCHANGED <<run, disturbed>>, faults' \in 0 .. MaxFaults
    PROVE  RunTyped' /\ Commanded'
BY DEF Typed, RunTyped, run, Step, Commanded, TproxyPart, Rebuild, TunnelPart, StopPart

LEMMA TproxyGoesOn ==
    ASSUME Typed, pc \in TproxyPart, pc' \in TproxyPart \/ (pc' = "tunnel" /\ kind = "all"),
           mem' \in Memory, UNCHANGED <<run, disturbed>>, faults' \in 0 .. MaxFaults
    PROVE  RunTyped' /\ Commanded'
BY DEF Typed, RunTyped, run, Step, Commanded, TproxyPart, Rebuild, TunnelPart, StopPart

LEMMA StopGoesOn ==
    ASSUME Typed, pc \in StopPart, pc' \in StopPart, mem' \in Memory,
           UNCHANGED <<run, disturbed>>, faults' \in 0 .. MaxFaults
    PROVE  RunTyped' /\ Commanded'
BY DEF Typed, RunTyped, run, Step, Commanded, TproxyPart, Rebuild, TunnelPart, StopPart, tunnel_clients

LEMMA TunnelEnds ==
    ASSUME Typed, pc \in TunnelPart \cup StopPart, AfterTunnel,
           UNCHANGED <<run, disturbed>>, faults' \in 0 .. MaxFaults
    PROVE  RunTyped' /\ Commanded'
<1>1. CASE kind = "all"
  BY <1>1 DEF AfterTunnel, Goto, Typed, RunTyped, run, Step, Commanded, TproxyPart, Rebuild,
              TunnelPart, StopPart
<1>2. CASE kind # "all"
  BY <1>2, EndTyped DEF AfterTunnel, Typed, RunTyped
<1> QED BY <1>1, <1>2

-----------------------------------------------------------------------------
(* Types: the steps                                                          *)

LEMMA BeginTyped ==
    ASSUME Typed, NEW k \in Kind, NEW f \in Configs, Begin(k, f)
    PROVE  Typed'
<1>1. KernelTyped' /\ FilesTyped'
  BY DEF Begin, Typed, KernelTyped, FilesTyped, kernel, files
<1>2. pc' \in {"clients", "tunnel", "stopXray", "stopChain"}
  BY DEF Begin, Goto, Kind, Stopping
<1>3. RunTyped'
  BY <1>2 DEF Begin, Typed, RunTyped, Goto, Step
<1>4. Commanded'
  BY DEF Begin, Goto, Kind, Stopping, Commanded, TproxyPart, Rebuild, TunnelPart, StopPart
<1> QED BY <1>1, <1>3, <1>4 DEF Typed

LEMMA TproxyTyped ==
    ASSUME Typed, TproxySoftFail \/ SetupClients \/ SetupChain \/ Prune
    PROVE  Typed'
<1> USE MemoryTyped, ConfigTyped
<1>1. CASE TproxySoftFail
  <2>1. faults' \in 0 .. MaxFaults
    BY <1>1, EachFaultTyped DEF TproxySoftFail, Typed, RunTyped
  <2>2. pc \in TproxyPart /\ (pc' = "prune" \/ (pc' = "tunnel" /\ kind = "all"))
    BY <1>1 DEF TproxySoftFail, Goto, AfterTproxy, TproxyPart
  <2>3. RunTyped' /\ Commanded'
    BY <1>1, <2>1, <2>2, TproxyGoesOn DEF TproxySoftFail, Goto, Typed, RunTyped, TproxyPart
  <2>4. KernelTyped' /\ FilesTyped'
    BY <1>1 DEF TproxySoftFail, Typed, KernelTyped, FilesTyped, RunTyped
  <2> QED BY <2>3, <2>4 DEF Typed
<1>2. CASE SetupClients
  <2>1. faults' \in 0 .. MaxFaults
    BY <1>2, FaultsTyped, EachFaultTyped DEF SetupClients, Typed, RunTyped
  <2>2. mem' \in Memory
    <3>1. \E b \in BOOLEAN : mem' = [mem EXCEPT !.clientsOk = b]
      BY <1>2 DEF SetupClients
    <3> QED BY <3>1 DEF Typed, RunTyped
  <2>3. RunTyped' /\ Commanded'
    BY <1>2, <2>1, <2>2, TproxyGoesOn DEF SetupClients, TproxyPart
  <2>4. KernelTyped' /\ FilesTyped'
    BY <1>2 DEF SetupClients, Typed, KernelTyped, FilesTyped, RunTyped, files
  <2> QED BY <2>3, <2>4 DEF Typed
<1>3. CASE SetupChain
  <2>1. faults' \in 0 .. MaxFaults
    BY <1>3, FaultsTyped, EachFaultTyped DEF SetupChain, Typed, RunTyped
  <2>2. pc \in TproxyPart /\ (pc' = "prune" \/ (pc' = "tunnel" /\ kind = "all"))
    BY <1>3 DEF SetupChain, Goto, AfterTproxy, TproxyPart
  <2>3. RunTyped' /\ Commanded'
    BY <1>3, <2>1, <2>2, TproxyGoesOn DEF SetupChain, Goto, Typed, RunTyped, TproxyPart
  <2>4. xjump' \in SUBSET Client /\ xready' \in BOOLEAN
    BY <1>3 DEF SetupChain, Typed, KernelTyped, RunTyped, Memory
  <2>5. KernelTyped' /\ FilesTyped'
    BY <1>3, <2>4 DEF SetupChain, Typed, KernelTyped, FilesTyped
  <2> QED BY <2>3, <2>5 DEF Typed
<1>4. CASE Prune
  <2>1. faults' \in 0 .. MaxFaults
    BY <1>4, FaultsTyped, EachFaultTyped DEF Prune, Typed, RunTyped
  <2>2. RunTyped' /\ Commanded'
    BY <1>4, <2>1, EndTyped DEF Prune, Typed, RunTyped
  <2>3. xset' \in (SUBSET Client) \cup {Nil}
    <3>1. (xset # Nil /\ \E A : xset' = want.xray \cup (xset \cap A)) \/ xset' = xset
      BY <1>4 DEF Prune
    <3> QED BY <3>1 DEF Typed, KernelTyped, RunTyped
  <2>4. KernelTyped' /\ FilesTyped'
    BY <1>4, <2>3 DEF Prune, Typed, KernelTyped, FilesTyped, files
  <2> QED BY <2>2, <2>4 DEF Typed
<1> QED BY <1>1, <1>2, <1>3, <1>4

\* The steps of tunnel_apply that change nothing but the hash and the marker.
LEMMA BookkeepingTyped ==
    ASSUME Typed,
           \/ NoTunnels \/ InvalidTunnels \/ StartRefresh \/ StartRebuild \/ TablesUnwritten
           \/ SlotsDone \/ ReleaseDone \/ Record \/ WriteReady \/ JumpsEnsure \/ RefreshReady
    PROVE  Typed'
<1> USE MemoryTyped, ConfigTyped
<1>0. mem \in Memory /\ want \in Configs /\ faults \in 0 .. MaxFaults /\ disturbed \in BOOLEAN
  BY DEF Typed, RunTyped
<1>1. CASE NoTunnels
  <2>1. KernelTyped' /\ FilesTyped'
    BY <1>1 DEF NoTunnels, Typed, KernelTyped, FilesTyped, kernel, files
  <2>2. CASE Goto("stopChain")
    BY <1>0, <1>1, <2>1, <2>2 DEF NoTunnels, Typed, RunTyped, Goto, Step, run, env, Commanded,
                TproxyPart, Rebuild, TunnelPart, StopPart, tunnel_clients
  <2>3. CASE AfterTunnel
    BY <1>0, <1>1, <2>1, <2>3, TunnelEnds DEF NoTunnels, Typed, TunnelPart, env
  <2> QED BY <1>1, <2>2, <2>3 DEF NoTunnels
<1>2. CASE InvalidTunnels
  BY <1>0, <1>2, EachFaultTyped, EndTyped DEF InvalidTunnels, Typed, KernelTyped, FilesTyped, kernel, files
<1>3. CASE StartRefresh
  <2>1. Recorded \in SUBSET Pair
    BY DEF Typed, FilesTyped, Recorded
  <2>2. mem' \in Memory
    BY <1>0, <1>3, <2>1 DEF StartRefresh
  <2> QED BY <1>0, <1>3, <2>2, TunnelGoesOn
          DEF StartRefresh, Typed, KernelTyped, FilesTyped, kernel, files, env, TunnelPart
<1>4. CASE StartRebuild
  <2>1. faults' \in 0 .. MaxFaults
    BY <1>0, <1>4, EachFaultTyped DEF StartRebuild
  <2>2. KernelTyped' /\ FilesTyped'
    BY <1>4 DEF StartRebuild, Typed, KernelTyped, FilesTyped, kernel
  <2>3. CASE Goto("collect")
    BY <1>0, <1>4, <2>1, <2>2, <2>3, TunnelGoesOn DEF StartRebuild, Goto, Typed, TunnelPart, Rebuild
  <2>4. CASE End("idle")
    BY <1>0, <1>4, <2>1, <2>2, <2>4, EndTyped DEF StartRebuild, Typed
  <2> QED BY <1>4, <2>3, <2>4 DEF StartRebuild
<1>5. CASE TablesUnwritten
  BY <1>0, <1>5, EachFaultTyped, EndTyped DEF TablesUnwritten, Typed, KernelTyped, FilesTyped, kernel, files
<1>6. CASE SlotsDone
  BY <1>0, <1>6, TunnelGoesOn DEF SlotsDone, Goto, Typed, KernelTyped, FilesTyped, kernel, files,
                                  env, TunnelPart, Rebuild
<1>7. CASE ReleaseDone
  <2>1. mem.layout \in SUBSET Pair
    BY <1>0 DEF Memory
  <2> QED BY <1>0, <1>7, <2>1, TunnelGoesOn
          DEF ReleaseDone, Goto, Typed, KernelTyped, FilesTyped, kernel, env, TunnelPart, Rebuild
<1>8. CASE Record
  <2>1. FilesTyped'
    BY <1>0, <1>8 DEF Record, Typed, FilesTyped
  <2> QED BY <1>0, <1>8, <2>1, TunnelGoesOn DEF Record, Goto, Typed, KernelTyped, kernel, env, TunnelPart
<1>9. CASE WriteReady
  <2>1. ReadyMarker(mem.layout, mem.foOk) \in Tunnel \cup {Nil}
    BY <1>0 DEF ReadyMarker
  <2>2. FilesTyped'
    BY <1>9, <2>1 DEF WriteReady, Typed, FilesTyped
  <2> QED BY <1>0, <1>9, <2>2, TunnelEnds DEF WriteReady, Typed, KernelTyped, kernel, env, TunnelPart
<1>10. CASE JumpsEnsure
  <2>1. faults' \in 0 .. MaxFaults
    BY <1>0, <1>10, EachFaultTyped DEF JumpsEnsure
  <2>2. mem' \in Memory
    <3>1. mem.uncarried \cup tunnel_clients \in SUBSET Client
      BY <1>0 DEF Memory
    <3>2. \A S \in SUBSET Client : [mem EXCEPT !.uncarried = S, !.foOk = FALSE] \in Memory
      BY <1>0 DEF Memory
    <3> QED BY <1>0, <1>10, <3>1, <3>2 DEF JumpsEnsure
  <2> QED BY <1>0, <1>10, <2>1, <2>2, TunnelGoesOn
          DEF JumpsEnsure, Typed, KernelTyped, FilesTyped, kernel, files, TunnelPart
<1>11. CASE RefreshReady
  <2>1. ReadyMarker(Recorded, mem.foOk) \in Tunnel \cup {Nil}
    BY <1>0 DEF ReadyMarker
  <2>2. FilesTyped'
    BY <1>11, <2>1 DEF RefreshReady, Typed, FilesTyped
  <2> QED BY <1>0, <1>11, <2>2, TunnelEnds DEF RefreshReady, Typed, KernelTyped, kernel, env, TunnelPart
<1> QED BY <1>1, <1>2, <1>3, <1>4, <1>5, <1>6, <1>7, <1>8, <1>9, <1>10, <1>11

\* CollectApplied, named: the tunnels with clients, those of them without a
\* slot, and what the step does with the unlisted U, the placed and their slots.
Needed == {t \in Tunnel : ClientsOf(t) # {}}
New == Needed \ {p[2] : p \in Kept(Needed)}
Added(placed, at) == {<<at[t], t>> : t \in placed}
Slotted(placed, at) == Kept(Needed) \cup Added(placed, at)

CollectedAs(U, placed, at) ==
    /\ U \in SUBSET Needed /\ placed \in SUBSET New
    /\ at \in [placed -> FreeSlots]
    /\ \A t, u \in placed : at[t] = at[u] => t = u
    /\ Faulty(U # {})
    /\ tables' = Recorded \cup Added(placed, at)
    /\ pc' = "slots"
    /\ mem' = [mem EXCEPT !.layout = Slotted(placed, at), !.fresh = Added(placed, at),
                          !.todo = Slotted(placed, at), !.unlisted = U,
                          !.uncarried = UNION {ClientsOf(t) : t \in U \cup (New \ placed)},
                          !.complete = (U = {} /\ placed = New)]

LEMMA CollectPicks ==
    ASSUME CollectApplied
    PROVE  \E U, placed, at : CollectedAs(U, placed, at)
<1> DEFINE room == Min({Cardinality(New), Cardinality(FreeSlots)})
<1>1. PICK U \in SUBSET Needed, placed \in kSubset(room, New) :
        \E at \in Bijection(placed, LowestFree(room)) :
           /\ Faulty(U # {})
           /\ tables' = Recorded \cup Added(placed, at)
           /\ pc' = "slots"
           /\ mem' = [mem EXCEPT !.layout = Slotted(placed, at), !.fresh = Added(placed, at),
                                 !.todo = Slotted(placed, at), !.unlisted = U,
                                 !.uncarried = UNION {ClientsOf(t) : t \in U \cup (New \ placed)},
                                 !.complete = (U = {} /\ placed = New)]
  BY DEF CollectApplied, Needed, New, Added, Slotted
<1> HIDE DEF room
<1>2. PICK at \in Bijection(placed, LowestFree(room)) :
           /\ Faulty(U # {})
           /\ tables' = Recorded \cup Added(placed, at)
           /\ pc' = "slots"
           /\ mem' = [mem EXCEPT !.layout = Slotted(placed, at), !.fresh = Added(placed, at),
                                 !.todo = Slotted(placed, at), !.unlisted = U,
                                 !.uncarried = UNION {ClientsOf(t) : t \in U \cup (New \ placed)},
                                 !.complete = (U = {} /\ placed = New)]
  BY <1>1
<1>3. placed \in SUBSET New
  BY DEF kSubset
<1>4. at \in [placed -> FreeSlots] /\ \A t, u \in placed : at[t] = at[u] => t = u
  <2>1. at \in [placed -> LowestFree(room)] /\ IsInjective(at)
    BY DEF Bijection, Injection
  <2>2. LowestFree(room) \subseteq FreeSlots
    BY DEF LowestFree
  <2> QED BY <2>1, <2>2 DEF IsInjective
<1> QED BY <1>1, <1>2, <1>3, <1>4 DEF CollectedAs

LEMMA CollectTyped ==
    ASSUME Typed, CollectApplied
    PROVE  Typed'
<1>1. PICK U, placed, at : CollectedAs(U, placed, at)
  BY CollectPicks
<1>2. faults' \in 0 .. MaxFaults
  BY <1>1, FaultsTyped DEF CollectedAs, Typed, RunTyped
<1>3. Recorded \in SUBSET Pair /\ Added(placed, at) \in SUBSET Pair
  <2>1. placed \subseteq Tunnel /\ at \in [placed -> Slot]
    BY <1>1 DEF CollectedAs, New, Needed, FreeSlots
  <2> QED BY <2>1 DEF Typed, FilesTyped, Recorded, Added, Pair
<1>4. Slotted(placed, at) \in SUBSET Pair /\ U \in SUBSET Tunnel
      /\ UNION {ClientsOf(t) : t \in U \cup (New \ placed)} \in SUBSET Client
  BY <1>1, <1>3, ConfigTyped DEF Slotted, Kept, CollectedAs, Needed, Typed, RunTyped
<1>5. mem' \in Memory
  <2> DEFINE l == Slotted(placed, at)
             r == Added(placed, at)
             w == UNION {ClientsOf(t) : t \in U \cup (New \ placed)}
             b == (U = {} /\ placed = New)
  <2>1. mem' = [mem EXCEPT !.layout = l, !.fresh = r, !.todo = l, !.unlisted = U,
                           !.uncarried = w, !.complete = b]
    BY <1>1 DEF CollectedAs
  <2>2. b \in BOOLEAN /\ mem \in Memory
    BY DEF Typed, RunTyped
  <2> HIDE DEF l, r, w, b
  <2> QED BY <1>3, <1>4, <2>1, <2>2 DEF Memory, l, r, w
<1>6. RunTyped' /\ Commanded'
  BY <1>1, <1>2, <1>5, TunnelGoesOn DEF CollectApplied, CollectedAs, TunnelPart, Rebuild
<1> QED BY <1>1, <1>3, <1>6 DEF CollectApplied, CollectedAs, Typed, KernelTyped, FilesTyped, kernel

LEMMA SlotDoneTyped ==
    ASSUME mem \in Memory, want \in Configs, NEW p, NEW ok \in BOOLEAN, SlotDone(p, ok)
    PROVE  mem' \in Memory
<1> DEFINE w == IF ok THEN mem.uncarried ELSE mem.uncarried \cup ClientsOf(p[2])
           b == mem.foOk /\ (ok \/ p[2] # want.fo)
           l == mem.todo \ {p}
<1>1. mem' = [mem EXCEPT !.todo = l, !.uncarried = w, !.foOk = b]
  BY DEF SlotDone
<1>2. w \in SUBSET Client /\ b \in BOOLEAN /\ l \in SUBSET Pair
  BY ConfigTyped DEF Memory
<1> HIDE DEF w, b, l
<1> QED BY <1>1, <1>2 DEF Memory

LEMMA EnsureSlotTyped ==
    ASSUME Typed, NEW p \in Pair, EnsureSlot(p)
    PROVE  /\ rule' \in SUBSET Slot /\ block' \in SUBSET Slot
           /\ via' \in [Slot -> Tunnel \cup {Nil}]
           /\ mem' \in Memory /\ faults' \in 0 .. MaxFaults
<1>1. PICK blockOk, routeOk, ruleOk \in BOOLEAN :
           /\ BlockEnsure(p[1], blockOk)
           /\ RouteEnsure(p, routeOk)
           /\ RuleEnsure(p, ruleOk)
           /\ Faulty(~blockOk \/ ~ruleOk \/ (~routeOk /\ p[2] \in up))
           /\ SlotDone(p, blockOk /\ routeOk /\ ruleOk)
  BY DEF EnsureSlot
<1>2. p[1] \in Slot /\ p[2] \in Tunnel
  BY DEF Pair
<1>3. rule' \in SUBSET Slot /\ block' \in SUBSET Slot
  BY <1>1, <1>2 DEF BlockEnsure, RuleEnsure, Typed, KernelTyped
<1>4. via' \in [Slot -> Tunnel \cup {Nil}]
  <2>1. PICK v : v \in Tunnel \cup {Nil} /\ via' = [via EXCEPT ![p[1]] = v]
    BY <1>1, <1>2 DEF RouteEnsure, Typed, KernelTyped
  <2> QED BY <1>2, <2>1 DEF Typed, KernelTyped
<1>5. mem' \in Memory
  BY <1>1, SlotDoneTyped DEF Typed, RunTyped
<1>6. faults' \in 0 .. MaxFaults
  BY <1>1, FaultsTyped DEF Typed, RunTyped
<1> QED BY <1>3, <1>4, <1>5, <1>6

LEMMA UnrouteSlotTyped ==
    ASSUME Typed, NEW p \in Pair, UnrouteSlot(p)
    PROVE  /\ rule' \in SUBSET Slot /\ block' \in SUBSET Slot
           /\ via' \in [Slot -> Tunnel \cup {Nil}]
           /\ mem' \in Memory /\ faults' \in 0 .. MaxFaults
<1>1. p[1] \in Slot
  BY DEF Pair
<1>2. rule' \in SUBSET Slot /\ block' \in SUBSET Slot
  BY <1>1 DEF UnrouteSlot, BlockEnsure, Typed, KernelTyped
<1>3. via' \in [Slot -> Tunnel \cup {Nil}]
  BY <1>1 DEF UnrouteSlot, Typed, KernelTyped
<1>4. mem' \in Memory
  BY SlotDoneTyped DEF UnrouteSlot, Typed, RunTyped
<1>5. faults' \in 0 .. MaxFaults
  BY FaultsTyped DEF UnrouteSlot, Typed, RunTyped
<1> QED BY <1>2, <1>3, <1>4, <1>5

LEMMA SlotsTyped ==
    ASSUME Typed, NEW p \in Pair, SlotStep(p) \/ RefreshSlot(p) \/ ReleaseSlot(p)
    PROVE  Typed'
<1>1. CASE SlotStep(p) \/ RefreshSlot(p)
  <2>1. /\ rule' \in SUBSET Slot /\ block' \in SUBSET Slot
        /\ via' \in [Slot -> Tunnel \cup {Nil}]
        /\ mem' \in Memory /\ faults' \in 0 .. MaxFaults
    BY <1>1, EnsureSlotTyped, UnrouteSlotTyped DEF SlotStep, RefreshSlot
  <2>2. /\ pc \in TunnelPart /\ pc' \in TunnelPart
        /\ UNCHANGED <<xset, xjump, mark, shadow, up, files, run, disturbed>>
    BY <1>1 DEF SlotStep, RefreshSlot, TunnelPart, Rebuild
  <2>3. RunTyped' /\ Commanded'
    BY <2>1, <2>2, TunnelGoesOn
  <2> QED BY <2>1, <2>2, <2>3 DEF Typed, KernelTyped, FilesTyped, files
<1>2. CASE ReleaseSlot(p)
  <2>1. p[1] \in Slot
    BY DEF Pair
  <2>2. rule' \in SUBSET Slot /\ block' \in SUBSET Slot /\ via' \in [Slot -> Tunnel \cup {Nil}]
    BY <1>2, <2>1 DEF ReleaseSlot, Typed, KernelTyped
  <2>3. mem' \in Memory
    <3>1. mem.todo \ {p} \in SUBSET Pair
      BY DEF Typed, RunTyped, Memory
    <3> QED BY <1>2, <3>1, MemoryTyped DEF ReleaseSlot, Typed, RunTyped
  <2>4. faults' \in 0 .. MaxFaults
    BY <1>2, FaultsTyped DEF ReleaseSlot, Typed, RunTyped
  <2>5. RunTyped' /\ Commanded'
    BY <1>2, <2>3, <2>4, TunnelGoesOn DEF ReleaseSlot, TunnelPart, Rebuild
  <2> QED BY <1>2, <2>2, <2>5 DEF ReleaseSlot, Typed, KernelTyped, FilesTyped, files
<1> QED BY <1>1, <1>2

\* What the new chain marks a client with: the pair of the layout for its tunnel.
LEMMA ChainMarks ==
    ASSUME NEW refused, NEW c \in Client
    PROVE  /\ BuiltChain(refused)[c] # Nil =>
                 /\ BuiltChain(refused)[c] \in mem.layout
                 /\ BuiltChain(refused)[c][2] = want.tun[c]
           /\ c \notin refused /\ (\E p \in mem.layout : p[2] = want.tun[c]) =>
                 /\ BuiltChain(refused)[c] \in mem.layout
                 /\ BuiltChain(refused)[c][2] = want.tun[c]
BY DEF BuiltChain

LEMMA ChainTyped ==
    ASSUME mem \in Memory, NEW refused
    PROVE  BuiltChain(refused) \in [Client -> Mark]
<1>1. \A c \in Client : BuiltChain(refused)[c] \in Mark
  BY ChainMarks DEF Memory, Mark
<1> QED BY <1>1 DEF BuiltChain

LEMMA MoveToTyped ==
    ASSUME mark \in [Client -> Mark], NEW chain \in [Client -> Mark], NEW M, MoveTo(chain, M)
    PROVE  mark' \in [Client -> Mark]
BY DEF MoveTo

LEMMA SwapFailedTyped ==
    ASSUME mem \in Memory, want \in Configs, NEW refused \in SUBSET Client, SwapFailed(refused)
    PROVE  mem' \in Memory /\ pc' = "record"
<1> DEFINE w == mem.uncarried \cup tunnel_clients
<1>1. w \in SUBSET Client
  BY ConfigTyped DEF Memory
<1>2. mem' = [mem EXCEPT !.uncarried = w, !.complete = FALSE, !.foOk = FALSE, !.refused = refused]
  BY DEF SwapFailed
<1> HIDE DEF w
<1> QED BY <1>1, <1>2 DEF Memory, SwapFailed

LEMMA SwapTyped ==
    ASSUME Typed, Swap \/ FinishSwap
    PROVE  Typed'
<1>0. /\ mem \in Memory /\ want \in Configs /\ faults \in 0 .. MaxFaults /\ disturbed \in BOOLEAN
      /\ mark \in [Client -> Mark]
  BY DEF Typed, RunTyped, KernelTyped
<1>1. CASE Swap
  <2>1. PICK refused \in SUBSET tunnel_clients :
          \/ /\ Faulty(refused # {})
             /\ MoveTo(BuiltChain(refused), Client)
             /\ UNCHANGED shadow
             /\ pc' = "release"
             /\ mem' = [mem EXCEPT
                    !.uncarried = mem.uncarried \cup refused,
                    !.complete  = mem.complete /\ refused = {},
                    !.foOk      = mem.foOk /\ refused \cap FailoverClients = {},
                    !.todo      = Recorded \ mem.layout,
                    !.refused   = refused]
          \/ /\ Fault
             /\ \E M \in SUBSET Client :
                   /\ MoveTo(BuiltChain(refused), M)
                   /\ shadow' = IF M = {} THEN Nil ELSE BuiltChain(refused)
             /\ SwapFailed(refused)
    BY <1>1 DEF Swap
  <2>2. refused \in SUBSET Client
    BY <1>0, ConfigTyped
  <2>3. BuiltChain(refused) \in [Client -> Mark]
    BY <1>0, ChainTyped
  <2>4. mark' \in [Client -> Mark] /\ shadow' \in [Client -> Mark] \cup {Nil}
    <3>1. (\E M : MoveTo(BuiltChain(refused), M)) /\ shadow' \in {shadow, Nil, BuiltChain(refused)}
      BY <2>1
    <3>2. mark' \in [Client -> Mark]
      BY <1>0, <2>3, <3>1, MoveToTyped
    <3> QED BY <2>3, <3>1, <3>2 DEF Typed, KernelTyped
  <2>5. mem' \in Memory /\ pc' \in {"release", "record"}
    <3>1. CASE SwapFailed(refused)
      BY <1>0, <2>2, <3>1, SwapFailedTyped
    <3>2. CASE /\ pc' = "release"
               /\ mem' = [mem EXCEPT
                    !.uncarried = mem.uncarried \cup refused,
                    !.complete  = mem.complete /\ refused = {},
                    !.foOk      = mem.foOk /\ refused \cap FailoverClients = {},
                    !.todo      = Recorded \ mem.layout,
                    !.refused   = refused]
      <4> DEFINE w == mem.uncarried \cup refused
                 b == mem.complete /\ refused = {}
                 f == mem.foOk /\ refused \cap FailoverClients = {}
                 l == Recorded \ mem.layout
      <4>1. w \in SUBSET Client /\ l \in SUBSET Pair
        BY <1>0, <2>2 DEF Memory, Recorded, Typed, FilesTyped
      <4>2. b \in BOOLEAN /\ f \in BOOLEAN
        OBVIOUS
      <4>3. mem' = [mem EXCEPT !.uncarried = w, !.complete = b, !.foOk = f, !.todo = l,
                               !.refused = refused]
        BY <3>2
      <4> HIDE DEF w, b, f, l
      <4> QED BY <1>0, <2>2, <3>2, <4>1, <4>2, <4>3 DEF Memory
    <3> QED BY <2>1, <3>1, <3>2
  <2>6. faults' \in 0 .. MaxFaults
    BY <1>0, <2>1, FaultsTyped, EachFaultTyped
  <2>7. RunTyped' /\ Commanded'
    BY <1>1, <2>5, <2>6, TunnelGoesOn DEF Swap, TunnelPart, Rebuild
  <2> QED BY <1>1, <2>4, <2>7 DEF Swap, Typed, KernelTyped, FilesTyped, files
<1>2. CASE FinishSwap
  <2>1. /\ \E M : MoveTo(shadow, M)
        /\ shadow \in [Client -> Mark] /\ shadow' \in [Client -> Mark] \cup {Nil}
        /\ UNCHANGED <<pc, mem>> \/ SwapFailed({})
    BY <1>2 DEF FinishSwap, Typed, KernelTyped
  <2>2. mark' \in [Client -> Mark]
    BY <1>0, <2>1, MoveToTyped
  <2>3. mem' \in Memory /\ pc' \in {"swap", "record"}
    BY <1>0, <1>2, <2>1, SwapFailedTyped DEF FinishSwap
  <2>4. faults' \in 0 .. MaxFaults
    BY <1>0, <1>2, EachFaultTyped DEF FinishSwap
  <2>5. RunTyped' /\ Commanded'
    BY <1>2, <2>3, <2>4, TunnelGoesOn DEF FinishSwap, TunnelPart, Rebuild
  <2> QED BY <1>2, <2>1, <2>2, <2>5 DEF FinishSwap, Typed, KernelTyped, FilesTyped, files
<1> QED BY <1>1, <1>2

LEMMA StopTyped ==
    ASSUME Typed, StopXray \/ StopChain \/ StopRules \/ StopTables
    PROVE  Typed'
<1>0. /\ mem \in Memory /\ want \in Configs /\ faults \in 0 .. MaxFaults /\ disturbed \in BOOLEAN
      /\ mark \in [Client -> Mark] /\ via \in [Slot -> Tunnel \cup {Nil}]
  BY DEF Typed, RunTyped, KernelTyped
<1>1. CASE StopXray
  <2>1. faults' \in 0 .. MaxFaults
    BY <1>0, <1>1, EachFaultTyped DEF StopXray
  <2>2. KernelTyped' /\ FilesTyped'
    BY <1>1 DEF StopXray, Typed, KernelTyped, FilesTyped
  <2>3. CASE kind = "stop" /\ Goto("stopChain")
    BY <1>0, <1>1, <2>1, <2>2, <2>3 DEF StopXray, Typed, RunTyped, Goto, Step, run, Commanded,
                TproxyPart, Rebuild, TunnelPart, StopPart
  <2>4. CASE End("done") \/ End("idle")
    BY <1>0, <1>1, <2>1, <2>2, <2>4, EndTyped DEF StopXray, Typed
  <2> QED BY <1>1, <2>3, <2>4 DEF StopXray
<1>2. CASE StopChain
  <2>1. faults' \in 0 .. MaxFaults
    BY <1>0, <1>2, EachFaultTyped DEF StopChain
  <2>2. [c \in Client |-> Nil] \in [Client -> Mark]
    BY DEF Mark
  <2>3. mark' \in [Client -> Mark]
    BY <1>0, <1>2, <2>2, MoveToTyped DEF StopChain
  <2>4. KernelTyped' /\ FilesTyped'
    BY <1>2, <2>3 DEF StopChain, Typed, KernelTyped, FilesTyped, files
  <2>5. CASE Goto("stopRules")
    BY <1>0, <1>2, <2>1, <2>4, <2>5, StopGoesOn DEF StopChain, Goto, Typed, StopPart
  <2>6. CASE End("idle")
    BY <1>0, <1>2, <2>1, <2>4, <2>6, EndTyped DEF StopChain, Typed
  <2> QED BY <1>2, <2>5, <2>6 DEF StopChain
<1>3. CASE StopRules
  <2>1. faults' \in 0 .. MaxFaults
    BY <1>0, <1>3, FaultsTyped DEF StopRules
  <2>2. KernelTyped' /\ FilesTyped'
    BY <1>3 DEF StopRules, Typed, KernelTyped, FilesTyped, files
  <2> QED BY <1>0, <1>3, <2>1, <2>2, StopGoesOn DEF StopRules, Goto, Typed, StopPart
<1>4. CASE StopTables
  <2>1. faults' \in 0 .. MaxFaults
    BY <1>0, <1>4, EachFaultTyped DEF StopTables
  <2>2. via' \in [Slot -> Tunnel \cup {Nil}]
    <3>1. \A s \in Slot : (IF \E p \in Recorded : p[1] = s THEN Nil ELSE via[s]) \in Tunnel \cup {Nil}
      BY <1>0
    <3> QED BY <1>4, <3>1 DEF StopTables
  <2>3. KernelTyped' /\ FilesTyped'
    BY <1>4, <2>2 DEF StopTables, Typed, KernelTyped, FilesTyped
  <2>4. CASE AfterTunnel
    BY <1>0, <1>4, <2>1, <2>3, <2>4, TunnelEnds DEF StopTables, Typed, StopPart
  <2>5. CASE End("idle")
    BY <1>0, <1>4, <2>1, <2>3, <2>5, EndTyped DEF StopTables, Typed
  <2> QED BY <1>4, <2>4, <2>5 DEF StopTables
<1> QED BY <1>1, <1>2, <1>3, <1>4

LEMMA EnvironmentTyped ==
    ASSUME Typed, Environment
    PROVE  Typed'
<1>0. mem \in Memory /\ want \in Configs /\ faults \in 0 .. MaxFaults /\ disturbed \in BOOLEAN
  BY DEF Typed, RunTyped
<1>1. CASE Kill
  BY <1>0, <1>1, EachFaultTyped, EndTyped DEF Kill, Typed, KernelTyped, FilesTyped, kernel, files
<1>2. CASE Flush
  <2>1. faults' \in 0 .. MaxFaults
    BY <1>0, <1>2, EachFaultTyped DEF Flush
  <2>2. mark' \in [Client -> Mark]
    BY <1>2 DEF Flush, Mark
  <2> QED BY <1>2, <2>1, <2>2 DEF Flush, Typed, KernelTyped, FilesTyped, RunTyped, Commanded, files,
             run, tunnel_clients
<1>3. CASE CalmDown
  <2>1. faults' \in 0 .. MaxFaults
    BY <1>3, DirectorConstants DEF CalmDown
  <2>2. UNCHANGED <<kernel, files, pc, run, mem, disturbed>>
    BY <1>3 DEF CalmDown
  <2>3. KernelTyped' /\ FilesTyped'
    BY <2>2 DEF Typed, KernelTyped, FilesTyped, kernel, files
  <2>4. Commanded'
    BY <2>2 DEF Typed, Commanded, run, tunnel_clients
  <2>5. RunTyped'
    BY <1>0, <2>1, <2>2 DEF Typed, RunTyped, run
  <2> QED BY <2>3, <2>4, <2>5 DEF Typed
<1>4. CASE \E t \in Tunnel : LinkDown(t) \/ LinkUp(t)
  <2>1. PICK t \in Tunnel : LinkDown(t) \/ LinkUp(t)
    BY <1>4
  <2>2. CASE LinkDown(t)
    <3>1. faults' \in 0 .. MaxFaults
      BY <1>0, <2>2, EachFaultTyped DEF LinkDown
    <3>2. via' \in [Slot -> Tunnel \cup {Nil}]
      BY <2>2 DEF LinkDown, Typed, KernelTyped
    <3> QED BY <2>2, <3>1, <3>2 DEF LinkDown, Typed, KernelTyped, FilesTyped, RunTyped, Commanded, files,
               run, tunnel_clients
  <2>3. CASE LinkUp(t)
    <3>1. UNCHANGED <<files, pc, run, mem, env>>
      BY <2>3 DEF LinkUp
    <3>2. KernelTyped'
      BY <2>3 DEF LinkUp, Typed, KernelTyped
    <3>3. FilesTyped' /\ Commanded'
      BY <3>1 DEF Typed, FilesTyped, Commanded, files, run, tunnel_clients
    <3>4. RunTyped'
      BY <1>0, <3>1 DEF Typed, RunTyped, run, env
    <3> QED BY <3>2, <3>3, <3>4 DEF Typed
  <2> QED BY <2>1, <2>2, <2>3
<1> QED BY <1>1, <1>2, <1>3, <1>4 DEF Environment

LEMMA InitTyped == Init => Typed
<1> SUFFICES ASSUME Init PROVE Typed
  OBVIOUS
<1>1. KernelTyped
  BY DEF Init, KernelTyped, Mark
<1>2. FilesTyped
  BY DEF Init, FilesTyped
<1>3. RunTyped
  <2>1. NoMemory \in Memory
    BY DEF NoMemory, Memory
  <2>2. faults \in 0 .. MaxFaults
    BY DirectorConstants DEF Init
  <2> QED BY <2>1, <2>2 DEF Init, RunTyped, Step, Kind
<1>4. Commanded
  BY DEF Init, Commanded, TproxyPart, Rebuild, TunnelPart, StopPart
<1> QED BY <1>1, <1>2, <1>3, <1>4 DEF Typed

LEMMA NextTyped ==
    ASSUME Typed, [Next]_vars
    PROVE  Typed'
<1>1. CASE UNCHANGED vars
  <2>1. UNCHANGED <<kernel, files, pc, run, mem, env>>
    BY <1>1 DEF vars
  <2>2. KernelTyped' /\ FilesTyped'
    BY <2>1 DEF Typed, KernelTyped, FilesTyped, kernel, files
  <2>3. RunTyped' /\ Commanded'
    BY <2>1 DEF Typed, RunTyped, Commanded, run, env, tunnel_clients
  <2> QED BY <2>2, <2>3 DEF Typed
<1>2. CASE Next
  BY <1>2, BeginTyped, TproxyTyped, BookkeepingTyped, CollectTyped, SlotsTyped, SwapTyped, StopTyped,
     EnvironmentTyped DEF Next, ScriptStep
<1> QED BY <1>1, <1>2

LEMMA AlwaysTyped == Spec => []Typed
BY InitTyped, NextTyped, PTL DEF Spec

-----------------------------------------------------------------------------
(* The slots on record: every mark and every route is of one of them         *)

OneToOne(S) == \A p, q \in S : p[1] = q[1] <=> p[2] = q[2]

MarksIn(m, S) == \A c \in Client : m[c] # Nil => m[c] \in S

ShadowIn(h, S) == h # Nil => MarksIn(h, S)

RoutesIn(v, S) == \A s \in Slot : v[s] # Nil => <<s, v[s]>> \in S

Routed == /\ OneToOne(Recorded)
          /\ MarksIn(mark, Recorded) /\ ShadowIn(shadow, Recorded)
          /\ RoutesIn(via, Recorded)

\* How the layout a run works towards relates to the record: its slots are on
\* record, those a tunnel of the config keeps are in it, and once the chain is
\* swapped nothing is marked for the others, whose routes go one by one.
Laid ==
    /\ pc = "slots" => mem.todo \subseteq mem.layout
    /\ pc = "refresh" => mem.todo \subseteq Recorded
    /\ pc = "release" => /\ mem.todo \subseteq Recorded \ mem.layout
                         /\ MarksIn(mark, mem.layout) /\ shadow = Nil
                         /\ RoutesIn(via, mem.layout \cup mem.todo)
    /\ pc \in {"slots", "swap", "release", "record", "ready"} => mem.layout \subseteq Recorded
    /\ pc \in {"slots", "swap"} => \A p \in Recorded : ClientsOf(p[2]) # {} => p \in mem.layout
    /\ pc \in {"stopRules", "stopTables"} => shadow = Nil /\ \A c \in Client : mark[c] = Nil

LayoutSteps == {"slots", "refresh", "swap", "release", "record", "ready", "stopRules", "stopTables"}

\* Marks and routes are only lost.
Fewer ==
    /\ \A c \in Client : mark'[c] \in {Nil, mark[c]}
    /\ shadow' \in {Nil, shadow}
    /\ \A s \in Slot : via'[s] \in {Nil, via[s]}

LEMMA NothingIsFewer ==
    ASSUME UNCHANGED <<mark, shadow, via>>
    PROVE  Fewer
BY DEF Fewer

LEMMA FewerIn ==
    ASSUME Fewer, NEW S
    PROVE  /\ MarksIn(mark, S) => MarksIn(mark', S)
           /\ ShadowIn(shadow, S) => ShadowIn(shadow', S)
           /\ RoutesIn(via, S) => RoutesIn(via', S)
BY DEF Fewer, MarksIn, ShadowIn, RoutesIn

LEMMA FewerRouted ==
    ASSUME Routed, Fewer, UNCHANGED tables
    PROVE  Routed' /\ Recorded' = Recorded
<1>1. Recorded' = Recorded
  BY DEF Recorded
<1> QED BY <1>1, FewerIn DEF Routed

\* The steps for which there is nothing to say.
LEMMA ElsewhereLaid ==
    ASSUME pc' \notin LayoutSteps
    PROVE  Laid'
BY DEF Laid, LayoutSteps

LEMMA FewerElsewhere ==
    ASSUME Routed, UNCHANGED <<mark, shadow, via, tables>>, pc' \notin LayoutSteps
    PROVE  Routed' /\ Laid'
BY FewerRouted, NothingIsFewer, ElsewhereLaid

LEMMA BeginRouted ==
    ASSUME Routed, NEW k \in Kind, NEW f \in Configs, Begin(k, f)
    PROVE  Routed' /\ Laid'
<1>1. pc' \notin LayoutSteps
  BY DEF Begin, Goto, Kind, Stopping, LayoutSteps
<1> QED BY <1>1, FewerElsewhere DEF Begin, kernel, files

LEMMA TproxyRouted ==
    ASSUME Routed, TproxySoftFail \/ SetupClients \/ SetupChain \/ Prune \/ StopXray
    PROVE  Routed' /\ Laid'
<1>1. pc' \notin LayoutSteps
  BY DEF TproxySoftFail, SetupClients, SetupChain, Prune, StopXray, Goto, End, AfterTproxy, LayoutSteps
<1>2. UNCHANGED <<mark, shadow, via, tables>>
  BY DEF TproxySoftFail, SetupClients, SetupChain, Prune, StopXray, files
<1> QED BY <1>1, <1>2, FewerElsewhere

LEMMA AfterTunnelElsewhere ==
    ASSUME AfterTunnel
    PROVE  pc' \notin LayoutSteps
BY DEF AfterTunnel, Goto, End, LayoutSteps

LEMMA BookkeepingRouted ==
    ASSUME Typed, Routed, Laid,
           \/ NoTunnels \/ InvalidTunnels \/ StartRefresh \/ StartRebuild \/ TablesUnwritten
           \/ SlotsDone \/ Record \/ WriteReady \/ JumpsEnsure \/ RefreshReady
    PROVE  Routed' /\ Laid'
<1>1. UNCHANGED <<mark, shadow, via, tables>>
  BY DEF NoTunnels, InvalidTunnels, StartRefresh, StartRebuild, TablesUnwritten, SlotsDone, Record,
         WriteReady, JumpsEnsure, RefreshReady, kernel, files
<1>2. Routed' /\ Recorded' = Recorded
  BY <1>1, FewerRouted, NothingIsFewer
<1>3. CASE NoTunnels \/ InvalidTunnels \/ StartRebuild \/ TablesUnwritten \/ WriteReady
           \/ JumpsEnsure \/ RefreshReady
  <2>1. pc' \notin LayoutSteps
    BY <1>3, AfterTunnelElsewhere DEF NoTunnels, InvalidTunnels, StartRebuild, TablesUnwritten, WriteReady,
       JumpsEnsure, RefreshReady, Goto, End, LayoutSteps
  <2> QED BY <1>2, <2>1, ElsewhereLaid
<1>4. CASE StartRefresh
  <2>1. mem'.todo = Recorded /\ pc' = "refresh"
    BY <1>4 DEF StartRefresh, Typed, RunTyped, Memory
  <2> QED BY <1>2, <2>1 DEF Laid
<1>5. CASE SlotsDone
  BY <1>2, <1>5 DEF SlotsDone, Goto, Laid, run, ClientsOf
<1>6. CASE Record
  BY <1>2, <1>6 DEF Record, Goto, Laid
<1> QED BY <1>3, <1>4, <1>5, <1>6

\* The new slots are free ones, for tunnels without one: the record stays
\* one-to-one, and it holds the layout and every slot a tunnel keeps.
LEMMA CollectRouted ==
    ASSUME Typed, Routed, CollectApplied
    PROVE  Routed' /\ Laid'
<1>1. PICK U, placed, at : CollectedAs(U, placed, at)
  BY CollectPicks
<1> DEFINE added == Added(placed, at)
           layout == Slotted(placed, at)
<1>2. Recorded \in SUBSET Pair /\ mem \in Memory
  BY DEF Typed, FilesTyped, RunTyped, Recorded
<1>3. \A p \in added : p[2] \in placed /\ p[1] = at[p[2]] /\ p[1] \in FreeSlots
  BY <1>1 DEF CollectedAs, Added
<1>4. added \in SUBSET Pair
  <2>1. placed \subseteq Tunnel /\ at \in [placed -> Slot]
    BY <1>1 DEF CollectedAs, New, Needed, FreeSlots
  <2> QED BY <2>1 DEF Added, Pair
<1>5. Recorded' = Recorded \cup added
  <2>1. Recorded \cup added # Nil
    BY <1>2, <1>4, NilAssumption
  <2> QED BY <1>1, <2>1 DEF CollectedAs, Recorded
<1>6. \A p \in Recorded, q \in added : p[1] # q[1] /\ p[2] # q[2]
  <2> SUFFICES ASSUME NEW p \in Recorded, NEW q \in added PROVE p[1] # q[1] /\ p[2] # q[2]
    OBVIOUS
  <2>1. p[1] # q[1]
    BY <1>3 DEF FreeSlots
  <2>2. q[2] \in New
    BY <1>1, <1>3 DEF CollectedAs
  <2>3. p[2] # q[2]
    BY <2>2 DEF New, Kept
  <2> QED BY <2>1, <2>3
<1>7. OneToOne(added)
  BY <1>1, <1>3 DEF OneToOne, CollectedAs
<1>8. OneToOne(Recorded \cup added)
  BY <1>6, <1>7 DEF OneToOne, Routed
<1>9. UNCHANGED <<mark, shadow, via>>
  BY DEF CollectApplied, kernel
<1>10. Routed'
  BY <1>5, <1>8, <1>9 DEF Routed, MarksIn, ShadowIn, RoutesIn
<1>11. pc' = "slots" /\ mem'.layout = layout /\ mem'.todo = layout
  BY <1>1, <1>2 DEF CollectedAs, Memory
<1>12. layout \subseteq Recorded'
  BY <1>5 DEF Slotted, Kept
<1>13. UNCHANGED want
  BY DEF CollectApplied, run
<1>14. \A p \in Recorded' : ClientsOf(p[2])' # {} => p \in layout
  <2> SUFFICES ASSUME NEW p \in Recorded \cup added, ClientsOf(p[2]) # {} PROVE p \in layout
    BY <1>5, <1>13 DEF ClientsOf
  <2>1. CASE p \in added
    BY <2>1 DEF Slotted
  <2>2. CASE p \in Recorded
    <3>1. p[2] \in Tunnel
      BY <1>2, <2>2 DEF Pair
    <3> QED BY <2>2, <3>1 DEF Slotted, Kept, Needed
  <2> QED BY <2>1, <2>2
<1> HIDE DEF layout, added
<1> QED BY <1>10, <1>11, <1>12, <1>14 DEF Laid

\* A slot's route is the one it is on record for, or nothing.
LEMMA SlotRoutes ==
    ASSUME Typed, NEW p \in Pair, EnsureSlot(p) \/ UnrouteSlot(p)
    PROVE  /\ \A s \in Slot : s # p[1] => via'[s] = via[s]
           /\ via'[p[1]] \in {Nil, p[2], via[p[1]]}
           /\ mem'.todo = mem.todo \ {p} /\ mem'.layout = mem.layout
<1>1. p[1] \in Slot /\ mem \in Memory /\ via \in [Slot -> Tunnel \cup {Nil}]
  BY DEF Pair, Typed, RunTyped, KernelTyped
<1>2. PICK v \in {Nil, p[2], via[p[1]]} : via' = [via EXCEPT ![p[1]] = v]
  <2>1. CASE EnsureSlot(p)
    BY <2>1 DEF EnsureSlot, RouteEnsure
  <2>2. CASE UnrouteSlot(p)
    BY <2>2 DEF UnrouteSlot
  <2> QED BY <2>1, <2>2
<1>3. \E ok : SlotDone(p, ok)
  BY DEF EnsureSlot, UnrouteSlot
<1>4. mem'.todo = mem.todo \ {p} /\ mem'.layout = mem.layout
  BY <1>1, <1>3 DEF SlotDone, Memory
<1> QED BY <1>1, <1>2, <1>4

LEMMA SlotRouted ==
    ASSUME Typed, Routed, Laid, NEW p \in Pair, SlotStep(p) \/ RefreshSlot(p)
    PROVE  Routed' /\ Laid'
<1>1. /\ \A s \in Slot : s # p[1] => via'[s] = via[s]
      /\ via'[p[1]] \in {Nil, p[2], via[p[1]]}
      /\ mem'.todo = mem.todo \ {p} /\ mem'.layout = mem.layout
  BY SlotRoutes DEF SlotStep, RefreshSlot
<1>2. /\ p \in mem.todo /\ pc \in {"slots", "refresh"}
      /\ UNCHANGED <<mark, shadow, tables, pc, want>>
  BY DEF SlotStep, RefreshSlot, files, run
<1>3. Recorded' = Recorded /\ p \in Recorded
  BY <1>2 DEF Recorded, Laid
<1>4. p = <<p[1], p[2]>>
  BY DEF Pair
<1>5. RoutesIn(via', Recorded)
  BY <1>1, <1>3, <1>4 DEF Routed, RoutesIn
<1>6. Routed'
  BY <1>2, <1>3, <1>5 DEF Routed
<1>7. Laid'
  BY <1>1, <1>2, <1>3 DEF Laid, ClientsOf
<1> QED BY <1>6, <1>7

\* A chain moves clients to the marks it has for them.
LEMMA MoveMarks ==
    ASSUME NEW chain, NEW M, MoveTo(chain, M), NEW S, MarksIn(chain, S), MarksIn(mark, S)
    PROVE  MarksIn(mark', S)
BY DEF MoveTo, MarksIn

LEMMA SwapRouted ==
    ASSUME Typed, Routed, Laid, Swap \/ FinishSwap
    PROVE  Routed' /\ Laid'
<1>1. mem \in Memory /\ pc = "swap" /\ UNCHANGED <<via, tables, want>>
  BY DEF Typed, RunTyped, Swap, FinishSwap, files, run
<1>2. Recorded' = Recorded /\ mem.layout \subseteq Recorded
  BY <1>1 DEF Recorded, Laid
<1>3. CASE FinishSwap
  <2>1. shadow # Nil /\ (\E M : MoveTo(shadow, M)) /\ shadow' \in {Nil, shadow}
    BY <1>3 DEF FinishSwap
  <2>2. MarksIn(mark', Recorded) /\ ShadowIn(shadow', Recorded)
    BY <2>1, MoveMarks DEF Routed, ShadowIn
  <2>3. Routed'
    BY <1>1, <1>2, <2>2 DEF Routed
  <2>4. CASE UNCHANGED <<pc, mem>>
    <3>1. pc' = "swap" /\ mem' = mem
      BY <1>1, <2>4
    <3> QED BY <1>1, <1>2, <2>3, <3>1 DEF Laid, ClientsOf
  <2>5. CASE SwapFailed({})
    <3>1. mem'.layout = mem.layout /\ pc' = "record"
      BY <1>1, <2>5 DEF SwapFailed, Memory
    <3> QED BY <1>2, <2>3, <3>1 DEF Laid
  <2> QED BY <1>3, <2>3, <2>4, <2>5 DEF FinishSwap
<1>4. CASE Swap
  <2>1. PICK refused : \/ /\ MoveTo(BuiltChain(refused), Client) /\ UNCHANGED shadow
                          /\ pc' = "release"
                          /\ mem' = [mem EXCEPT
                                 !.uncarried = mem.uncarried \cup refused,
                                 !.complete  = mem.complete /\ refused = {},
                                 !.foOk      = mem.foOk /\ refused \cap FailoverClients = {},
                                 !.todo      = Recorded \ mem.layout,
                                 !.refused   = refused]
                       \/ /\ \E M : MoveTo(BuiltChain(refused), M)
                          /\ shadow' \in {Nil, BuiltChain(refused)}
                          /\ SwapFailed(refused)
    BY <1>4 DEF Swap
  <2>2. MarksIn(BuiltChain(refused), mem.layout)
    BY ChainMarks DEF MarksIn
  <2>3. MarksIn(BuiltChain(refused), Recorded)
    BY <1>2, <2>2 DEF MarksIn
  <2>4. MarksIn(mark', Recorded)
    BY <2>1, <2>3, MoveMarks DEF Routed
  <2>5. ShadowIn(shadow', Recorded)
    BY <2>1, <2>3 DEF ShadowIn, Routed
  <2>6. Routed'
    BY <1>1, <1>2, <2>4, <2>5 DEF Routed
  <2>7. CASE SwapFailed(refused)
    <3>1. mem'.layout = mem.layout /\ pc' = "record"
      BY <1>1, <2>7 DEF SwapFailed, Memory
    <3> QED BY <1>2, <2>6, <3>1 DEF Laid
  <2>8. CASE ~SwapFailed(refused)
    <3>1. mem'.layout = mem.layout /\ mem'.todo = Recorded \ mem.layout /\ pc' = "release"
      BY <1>1, <2>1, <2>8 DEF Memory
    <3>2. MarksIn(mark', mem.layout)
      BY <2>1, <2>2, <2>8 DEF MoveTo, MarksIn
    <3>3. RoutesIn(via', mem.layout \cup (Recorded \ mem.layout))
      BY <1>1 DEF Routed, RoutesIn
    <3>4. shadow' = Nil
      BY <1>4, <2>1, <2>8 DEF Swap
    <3> QED BY <1>2, <2>6, <3>1, <3>2, <3>3, <3>4 DEF Laid
  <2> QED BY <2>7, <2>8
<1> QED BY <1>3, <1>4

\* What the new layout dropped goes off the record after its route is gone.
LEMMA ReleaseRouted ==
    ASSUME Typed, Routed, Laid, ReleaseDone \/ \E p \in Pair : ReleaseSlot(p)
    PROVE  Routed' /\ Laid'
<1>1. mem \in Memory /\ pc = "release" /\ Recorded \in SUBSET Pair /\ UNCHANGED <<mark, shadow, want>>
      /\ via \in [Slot -> Tunnel \cup {Nil}]
  BY DEF Typed, RunTyped, FilesTyped, KernelTyped, ReleaseDone, ReleaseSlot, Recorded, kernel, run
<1>2. /\ mem.todo \subseteq Recorded \ mem.layout /\ mem.layout \subseteq Recorded
      /\ MarksIn(mark, mem.layout) /\ shadow = Nil
      /\ RoutesIn(via, mem.layout \cup mem.todo)
  BY <1>1 DEF Laid
<1>3. CASE ReleaseDone
  <2>1. mem.layout # Nil
    BY <1>1, <1>2, NilAssumption
  <2>2. Recorded' = mem.layout /\ UNCHANGED via /\ pc' = "record" /\ mem' = mem /\ mem.todo = {}
    BY <1>3, <2>1 DEF ReleaseDone, Recorded, Goto, kernel
  <2>3. OneToOne(mem.layout)
    BY <1>2 DEF Routed, OneToOne
  <2>4. Routed'
    BY <1>1, <1>2, <2>2, <2>3 DEF Routed, ShadowIn
  <2> QED BY <2>2, <2>4 DEF Laid
<1>4. ASSUME NEW p \in Pair, ReleaseSlot(p) PROVE Routed' /\ Laid'
  <2>1. UNCHANGED <<tables, pc>> /\ via' = [via EXCEPT ![p[1]] = Nil] /\ p \in mem.todo
    BY <1>4 DEF ReleaseSlot, files
  <2>2. mem'.todo = mem.todo \ {p} /\ mem'.layout = mem.layout
    BY <1>1, <1>4 DEF ReleaseSlot, Memory
  <2>3. Fewer
    BY <1>1, <2>1 DEF Fewer
  <2>4. Routed' /\ Recorded' = Recorded
    BY <2>1, <2>3, FewerRouted
  <2>5. RoutesIn(via', mem.layout \cup (mem.todo \ {p}))
    <3> SUFFICES ASSUME NEW s \in Slot, via'[s] # Nil
                 PROVE  <<s, via'[s]>> \in mem.layout \cup (mem.todo \ {p})
      BY DEF RoutesIn
    <3>1. s # p[1] /\ via'[s] = via[s]
      BY <1>1, <2>1
    <3> QED BY <1>2, <3>1 DEF RoutesIn
  <2> QED BY <1>1, <1>2, <2>1, <2>2, <2>4, <2>5 DEF Laid
<1> QED BY <1>3, <1>4

LEMMA StopRouted ==
    ASSUME Typed, Routed, Laid, StopChain \/ StopRules \/ StopTables
    PROVE  Routed' /\ Laid'
<1>1. CASE StopChain
  <2>1. /\ \E M : MoveTo([c \in Client |-> Nil], M)
        /\ shadow' \in {Nil, shadow} /\ UNCHANGED <<via, tables>>
    BY <1>1 DEF StopChain, files
  <2>2. \A c \in Client : mark'[c] \in {Nil, mark[c]}
    BY <2>1 DEF MoveTo
  <2>3. Routed'
    BY <2>1, <2>2, FewerRouted DEF Fewer
  <2>4. CASE Goto("stopRules")
    <3>1. MoveTo([c \in Client |-> Nil], Client) /\ shadow' = Nil
      BY <1>1, <2>4 DEF StopChain, Goto, End
    <3>2. \A c \in Client : mark'[c] = Nil
      BY <3>1 DEF MoveTo
    <3> QED BY <2>3, <2>4, <3>1, <3>2 DEF Goto, Laid
  <2>5. CASE End("idle")
    BY <2>3, <2>5, ElsewhereLaid DEF End, LayoutSteps
  <2> QED BY <1>1, <2>4, <2>5 DEF StopChain
<1>2. CASE StopRules
  <2>1. UNCHANGED <<mark, shadow, via, tables>>
    BY <1>2 DEF StopRules, files
  <2>2. Routed'
    BY <2>1, FewerRouted, NothingIsFewer
  <2> QED BY <1>2, <2>1, <2>2 DEF StopRules, Goto, Laid
<1>3. CASE StopTables
  <2>1. UNCHANGED <<mark, shadow>> /\ tables' = Nil /\ pc = "stopTables"
        /\ via' = [s \in Slot |-> IF \E p \in Recorded : p[1] = s THEN Nil ELSE via[s]]
    BY <1>3 DEF StopTables
  <2>2. Recorded' = {}
    BY <2>1 DEF Recorded
  <2>3. \A s \in Slot : via'[s] = Nil
    <3> SUFFICES ASSUME NEW s \in Slot, via'[s] # Nil PROVE FALSE
      OBVIOUS
    <3>1. via'[s] = via[s] /\ ~\E p \in Recorded : p[1] = s
      BY <2>1
    <3>2. <<s, via[s]>> \in Recorded
      BY <3>1 DEF Routed, RoutesIn
    <3> QED BY <3>1, <3>2
  <2>4. (\A c \in Client : mark[c] = Nil) /\ shadow = Nil
    BY <2>1 DEF Laid
  <2>5. Routed'
    BY <2>1, <2>2, <2>3, <2>4 DEF Routed, OneToOne, MarksIn, ShadowIn, RoutesIn
  <2>6. pc' \notin LayoutSteps
    BY <1>3, AfterTunnelElsewhere DEF StopTables, End, LayoutSteps
  <2> QED BY <2>5, <2>6, ElsewhereLaid
<1> QED BY <1>1, <1>2, <1>3

LEMMA EnvironmentRouted ==
    ASSUME Typed, Routed, Laid, Environment
    PROVE  Routed' /\ Laid'
<1>1. CASE Kill
  BY <1>1, FewerElsewhere DEF Kill, End, LayoutSteps, kernel, files
<1>2. CASE Flush \/ CalmDown \/ \E t \in Tunnel : LinkDown(t) \/ LinkUp(t)
  <2>1. UNCHANGED <<tables, pc, mem, want>>
    BY <1>2 DEF Flush, CalmDown, LinkDown, LinkUp, files, run
  <2>2. Fewer
    BY <1>2 DEF Flush, CalmDown, LinkDown, LinkUp, Fewer, kernel
  <2>3. Routed' /\ Recorded' = Recorded
    BY <2>1, <2>2, FewerRouted
  <2>4. \A S : (MarksIn(mark, S) => MarksIn(mark', S)) /\ (RoutesIn(via, S) => RoutesIn(via', S))
    BY <2>2, FewerIn
  <2>5. (shadow = Nil => shadow' = Nil)
        /\ ((\A c \in Client : mark[c] = Nil) => \A c \in Client : mark'[c] = Nil)
    BY <2>2 DEF Fewer
  <2> QED BY <2>1, <2>3, <2>4, <2>5 DEF Laid, ClientsOf
<1> QED BY <1>1, <1>2 DEF Environment

LEMMA InitRouted == Init => Routed /\ Laid
BY DEF Init, Recorded, Routed, OneToOne, MarksIn, ShadowIn, RoutesIn, Laid

LEMMA NextRouted ==
    ASSUME Typed, Routed, Laid, [Next]_vars
    PROVE  Routed' /\ Laid'
<1>1. CASE UNCHANGED vars
  BY <1>1 DEF vars, kernel, files, run, Routed, Laid, Recorded, ClientsOf
<1>2. CASE Next
  BY <1>2, BeginRouted, TproxyRouted, BookkeepingRouted, CollectRouted, SlotRouted, SwapRouted,
     ReleaseRouted, StopRouted, EnvironmentRouted DEF Next, ScriptStep
<1> QED BY <1>1, <1>2

LEMMA AlwaysRouted == Spec => [](Routed /\ Laid)
BY InitRouted, NextRouted, AlwaysTyped, PTL DEF Spec

\* A run, whatever is refused, killed, flushed or lost, leaves the types and
\* gives no slot twice: TUN_DIR_TABLES is one-to-one.
THEOREM TypeCorrect == Spec => []TypeOK
<1>1. Typed /\ Routed => TypeOK
  BY DEF Typed, KernelTyped, FilesTyped, RunTyped, Routed, OneToOne, TypeOK
<1> QED BY <1>1, AlwaysTyped, AlwaysRouted, PTL

\* A client marked for a tunnel comes out of no other one: a slot is released,
\* route and all, before it goes off the record and may be handed out again,
\* and no mark outlives its slot's place on record.
THEOREM NoOtherTunnel == Spec => []NeverAnotherTunnel
<1>1. ASSUME Typed, Routed PROVE NeverAnotherTunnel
  <2> SUFFICES ASSUME NEW c \in Client, mark[c] # Nil
               PROVE  TunnelPath(c) \in {mark[c][2], "refused", "wan"}
    BY DEF NeverAnotherTunnel
  <2>1. mark[c] \in Recorded /\ Recorded \in SUBSET Pair
    BY <1>1 DEF Routed, MarksIn, Typed, FilesTyped, Recorded
  <2>2. mark[c][1] \in Slot
    BY <2>1 DEF Pair
  <2>3. via[mark[c][1]] # Nil => <<mark[c][1], via[mark[c][1]]>> \in Recorded
    BY <1>1, <2>2 DEF Routed, RoutesIn
  <2>4. via[mark[c][1]] # Nil => via[mark[c][1]] = mark[c][2]
    BY <1>1, <2>1, <2>3 DEF Routed, OneToOne
  <2> QED BY <2>4 DEF TunnelPath
<1> QED BY <1>1, AlwaysTyped, AlwaysRouted, PTL

-----------------------------------------------------------------------------
(* The TPROXY marker                                                         *)

\* While it builds the chain the run knows whether XRAY_CLIENTS has everybody;
\* from then on the marker says so.
Tproxied ==
    /\ pc = "chain" /\ mem.clientsOk => xset # Nil /\ want.xray \subseteq xset
    /\ pc \notin {"idle", "clients", "chain"} /\ kind \in {"all", "xray"} /\ xready /\ ~disturbed =>
          xset # Nil /\ want.xray \subseteq xset \cap xjump

\* The steps that have nothing to do with it.
LEMMA ElsewhereTproxied ==
    ASSUME Tproxied, UNCHANGED <<xset, xjump, xready, kind, want, disturbed>>,
           pc \notin {"idle", "clients", "chain"}, pc' # "chain"
    PROVE  Tproxied'
BY DEF Tproxied

LEMMA TunnelTproxied ==
    ASSUME Tproxied,
           \/ NoTunnels \/ InvalidTunnels \/ StartRefresh \/ StartRebuild
           \/ CollectApplied \/ TablesUnwritten
           \/ \E p \in Pair : SlotStep(p) \/ ReleaseSlot(p) \/ RefreshSlot(p)
           \/ SlotsDone \/ FinishSwap \/ Swap \/ ReleaseDone \/ Record \/ WriteReady
           \/ JumpsEnsure \/ RefreshReady
           \/ StopChain \/ StopRules \/ StopTables
    PROVE  Tproxied'
<1>1. CASE NoTunnels \/ InvalidTunnels \/ StartRefresh \/ StartRebuild
           \/ TablesUnwritten \/ SlotsDone \/ ReleaseDone \/ Record \/ WriteReady
           \/ JumpsEnsure \/ RefreshReady
  <2>1. pc \notin {"idle", "clients", "chain"} /\ pc' # "chain"
    BY <1>1 DEF NoTunnels, InvalidTunnels, StartRefresh, StartRebuild, TablesUnwritten, SlotsDone,
       ReleaseDone, Record, WriteReady, JumpsEnsure, RefreshReady, Goto, End, AfterTunnel
  <2>2. UNCHANGED <<xset, xjump, xready, kind, want, disturbed>>
    BY <1>1 DEF NoTunnels, InvalidTunnels, StartRefresh, StartRebuild, TablesUnwritten, SlotsDone,
       ReleaseDone, Record, WriteReady, JumpsEnsure, RefreshReady, kernel, files, run, env
  <2> QED BY <2>1, <2>2, ElsewhereTproxied
<1>2. CASE CollectApplied \/ FinishSwap \/ Swap
  <2>1. pc \notin {"idle", "clients", "chain"} /\ pc' # "chain"
    BY <1>2, CollectPicks DEF CollectApplied, CollectedAs, FinishSwap, Swap, SwapFailed
  <2>2. UNCHANGED <<xset, xjump, xready, kind, want, disturbed>>
    BY <1>2 DEF CollectApplied, FinishSwap, Swap, kernel, files, run
  <2> QED BY <2>1, <2>2, ElsewhereTproxied
<1>3. CASE \E p \in Pair : SlotStep(p) \/ ReleaseSlot(p) \/ RefreshSlot(p)
  BY <1>3, ElsewhereTproxied DEF SlotStep, ReleaseSlot, RefreshSlot, files, run
<1>4. CASE StopChain \/ StopRules \/ StopTables
  <2>1. pc \notin {"idle", "clients", "chain"} /\ pc' # "chain"
    BY <1>4 DEF StopChain, StopRules, StopTables, Goto, End, AfterTunnel
  <2>2. UNCHANGED <<xset, xjump, xready, kind, want, disturbed>>
    BY <1>4 DEF StopChain, StopRules, StopTables, files, run
  <2> QED BY <2>1, <2>2, ElsewhereTproxied
<1> QED BY <1>1, <1>2, <1>3, <1>4

LEMMA NextTproxied ==
    ASSUME Typed, Typed', Tproxied, [Next]_vars
    PROVE  Tproxied'
<1>0. want.xray \in SUBSET Client
  BY ConfigTyped DEF Typed, RunTyped
<1>1. CASE UNCHANGED vars
  BY <1>1 DEF vars, kernel, files, run, env, Tproxied
<1>2. CASE \E k \in Kind, f \in Configs : Begin(k, f)
  BY <1>2 DEF Begin, Goto, Kind, Stopping, Tproxied
<1>3. CASE TproxySoftFail
  BY <1>3 DEF TproxySoftFail, Goto, AfterTproxy, Tproxied
<1>4. CASE SetupClients
  <2>1. pc' = "chain" /\ want' = want /\ mem \in Memory
    BY <1>4 DEF SetupClients, run, Typed, RunTyped
  <2>2. mem'.clientsOk => xset' # Nil /\ want.xray \subseteq xset'
    <3>1. CASE mem' = [mem EXCEPT !.clientsOk = FALSE]
      BY <2>1, <3>1 DEF Memory
    <3>2. ASSUME NEW S \in SUBSET want.xray,
                 xset' = (IF xset = Nil THEN {} ELSE xset) \cup S,
                 mem' = [mem EXCEPT !.clientsOk = (S = want.xray)]
          PROVE  mem'.clientsOk => xset' # Nil /\ want.xray \subseteq xset'
      <4>1. mem'.clientsOk = (S = want.xray)
        BY <2>1, <3>2 DEF Memory
      <4>2. xset' \in SUBSET Client
        BY <1>0, <3>2 DEF Typed, KernelTyped
      <4> QED BY <3>2, <4>1, <4>2, NilAssumption
    <3> QED BY <1>4, <3>1, <3>2 DEF SetupClients
  <2> QED BY <2>1, <2>2 DEF Tproxied
<1>5. CASE SetupChain
  <2>1. UNCHANGED <<xset, want, mem>> /\ pc = "chain" /\ pc' # "chain"
    BY <1>5 DEF SetupChain, Goto, AfterTproxy, run
  <2>2. xready' => mem.clientsOk /\ xjump' = Client
    BY <1>5 DEF SetupChain
  <2> QED BY <1>0, <2>1, <2>2 DEF Tproxied
<1>6. CASE Prune
  <2>1. UNCHANGED <<xjump, xready, kind, want, disturbed>> /\ pc = "prune" /\ pc' = "done"
    BY <1>6 DEF Prune, End, files, run
  <2>2. xset' = xset \/ (xset # Nil /\ want.xray \subseteq xset' /\ xset' # Nil)
    <3>1. CASE \E A : xset # Nil /\ xset' = want.xray \cup (xset \cap A)
      <4>1. xset' \in SUBSET Client
        BY <1>0, <3>1 DEF Typed, KernelTyped
      <4> QED BY <3>1, <4>1, NilAssumption
    <3> QED BY <1>6, <3>1 DEF Prune
  <2> QED BY <2>1, <2>2 DEF Tproxied
<1>7. CASE StopXray
  <2>1. kind' = kind /\ pc' \in {"stopChain", "done", "idle"} /\ kind \notin {"all", "xray"}
    BY <1>7 DEF StopXray, Goto, End, run, Typed, Commanded
  <2> QED BY <2>1 DEF Tproxied
<1>8. CASE Kill
  BY <1>8 DEF Kill, End, Tproxied
<1>9. CASE Flush \/ CalmDown \/ \E t \in Tunnel : LinkDown(t) \/ LinkUp(t)
  <2>1. UNCHANGED <<pc, mem, xset, want, kind, xready>>
    BY <1>9 DEF Flush, CalmDown, LinkDown, LinkUp, kernel, files, run
  <2>2. disturbed' \/ UNCHANGED <<xjump, disturbed>>
    BY <1>9 DEF Flush, CalmDown, LinkDown, LinkUp, kernel, env
  <2> QED BY <2>1, <2>2 DEF Tproxied
<1> QED BY <1>1, <1>2, <1>3, <1>4, <1>5, <1>6, <1>7, <1>8, <1>9, TunnelTproxied
        DEF Next, ScriptStep, Environment

\* The marker the watch begins a restore on: after an apply that left it, every
\* Xray client of the config the run read is in XRAY_CLIENTS and its interface
\* jumps to the chain.
THEOREM TproxyMarkerHonest == Spec => []TproxyReadyHonest
<1>1. Init => Tproxied
  BY DEF Init, Tproxied
<1>2. Typed /\ Typed' /\ Tproxied /\ [Next]_vars => Tproxied'
  BY NextTproxied
<1>3. Tproxied => TproxyReadyHonest
  BY DEF Tproxied, TproxyReadyHonest, Proxied
<1> QED BY <1>1, <1>2, <1>3, AlwaysTyped, PTL DEF Spec

-----------------------------------------------------------------------------
(* The recorded hash: of a config every tunnel of which has a slot           *)

HasSlot(S, t) == \E p \in S : p[2] = t

\* A rebuild starts by taking the hash away, and one that leaves a tunnel
\* without a slot does not put it back.
Complete ==
    /\ pc \in Rebuild => hash = Nil
    /\ pc \in {"slots", "swap", "release", "record"} /\ mem.complete =>
          \A c \in tunnel_clients : HasSlot(mem.layout, want.tun[c])
    /\ \A f \in Configs : hash = HashOf(f) /\ tables # Nil =>
          \A c \in Client : f.tun[c] # Nil => HasSlot(Recorded, f.tun[c])

\* What a slot leaves in the run's memory.
LEMMA SlotDoneFields ==
    ASSUME mem \in Memory, NEW p, NEW ok \in BOOLEAN, SlotDone(p, ok)
    PROVE  /\ mem'.layout = mem.layout /\ mem'.complete = mem.complete
           /\ mem'.todo = mem.todo \ {p} /\ mem'.refused = mem.refused
           /\ mem.uncarried \subseteq mem'.uncarried
           /\ ok \/ ClientsOf(p[2]) \subseteq mem'.uncarried
           /\ mem'.foOk => mem.foOk /\ (ok \/ p[2] # want.fo)
BY DEF SlotDone, Memory

LEMMA SwapFailedFields ==
    ASSUME mem \in Memory, NEW refused, SwapFailed(refused)
    PROVE  /\ pc' = "record" /\ mem'.layout = mem.layout /\ mem'.complete = FALSE
           /\ mem'.foOk = FALSE /\ mem'.refused = refused
           /\ mem'.uncarried = mem.uncarried \cup tunnel_clients
BY DEF SwapFailed, Memory

\* The chain that took over every interface.
Swapped(refused) ==
    /\ MoveTo(BuiltChain(refused), Client)
    /\ UNCHANGED shadow
    /\ pc' = "release"
    /\ mem' = [mem EXCEPT
           !.uncarried = mem.uncarried \cup refused,
           !.complete  = mem.complete /\ refused = {},
           !.foOk      = mem.foOk /\ refused \cap FailoverClients = {},
           !.todo      = Recorded \ mem.layout,
           !.refused   = refused]

LEMMA SwapCases ==
    ASSUME Swap
    PROVE  \E refused \in SUBSET tunnel_clients :
              \/ Swapped(refused)
              \/ /\ \E M \in SUBSET Client : MoveTo(BuiltChain(refused), M)
                 /\ SwapFailed(refused)
BY DEF Swap, Swapped

LEMMA SwappedFields ==
    ASSUME mem \in Memory, NEW refused, Swapped(refused)
    PROVE  /\ mem'.layout = mem.layout
           /\ mem'.complete = (mem.complete /\ refused = {})
           /\ mem'.foOk = (mem.foOk /\ refused \cap FailoverClients = {})
           /\ mem'.uncarried = mem.uncarried \cup refused
           /\ mem'.refused = refused
<1> DEFINE w == mem.uncarried \cup refused
           b == (mem.complete /\ refused = {})
           f == (mem.foOk /\ refused \cap FailoverClients = {})
           l == Recorded \ mem.layout
<1>1. mem' = [mem EXCEPT !.uncarried = w, !.complete = b, !.foOk = f, !.todo = l, !.refused = refused]
  BY DEF Swapped
<1> HIDE DEF w, b, f, l
<1>2. /\ mem'.layout = mem.layout /\ mem'.complete = b /\ mem'.foOk = f /\ mem'.uncarried = w
      /\ mem'.refused = refused
  BY <1>1 DEF Memory
<1> QED BY <1>2 DEF w, b, f

\* The steps that keep the hash, the record and what a rebuild works towards.
LEMMA SameComplete ==
    ASSUME Complete, UNCHANGED <<hash, tables, want>>,
           \/ pc' \notin Rebuild \cup {"record"}
           \/ /\ pc \in {"slots", "swap", "release"}
              /\ mem'.layout = mem.layout
              /\ mem'.complete => mem.complete
    PROVE  Complete'
<1>1. Recorded' = Recorded /\ tunnel_clients' = tunnel_clients
  BY DEF Recorded, tunnel_clients
<1>2. pc' \in Rebuild => hash' = Nil
  BY DEF Complete, Rebuild
<1>3. pc' \in {"slots", "swap", "release", "record"} /\ mem'.complete =>
         \A c \in tunnel_clients : HasSlot(mem'.layout, want.tun[c])
  BY DEF Complete, Rebuild
<1>4. \A f \in Configs : hash = HashOf(f) /\ tables # Nil =>
          \A c \in Client : f.tun[c] # Nil => HasSlot(Recorded, f.tun[c])
  BY DEF Complete
<1> QED BY <1>1, <1>2, <1>3, <1>4 DEF Complete, HashOf, HasSlot

\* Where nothing is complete and no hash is about to be recorded.
LEMMA CollectComplete ==
    ASSUME Typed, Complete, CollectApplied
    PROVE  Complete'
<1>1. PICK U, placed, at : CollectedAs(U, placed, at)
  BY CollectPicks
<1>2. hash = Nil /\ UNCHANGED <<hash, want>> /\ pc' = "slots" /\ mem \in Memory
  BY <1>1 DEF CollectApplied, CollectedAs, Complete, Rebuild, run, Typed, RunTyped
<1>3. mem'.layout = Slotted(placed, at) /\ mem'.complete = (U = {} /\ placed = New)
  <2> DEFINE l == Slotted(placed, at)
             r == Added(placed, at)
             w == UNION {ClientsOf(t) : t \in U \cup (New \ placed)}
             b == (U = {} /\ placed = New)
  <2>1. mem' = [mem EXCEPT !.layout = l, !.fresh = r, !.todo = l, !.unlisted = U,
                           !.uncarried = w, !.complete = b]
    BY <1>1 DEF CollectedAs
  <2> HIDE DEF l, r, w, b
  <2>2. mem'.layout = l /\ mem'.complete = b
    BY <1>2, <2>1 DEF Memory
  <2> QED BY <2>2 DEF l, b
<1>4. mem'.complete => \A c \in tunnel_clients : HasSlot(Slotted(placed, at), want.tun[c])
  <2> SUFFICES ASSUME placed = New, NEW c \in tunnel_clients
               PROVE  HasSlot(Slotted(placed, at), want.tun[c])
    BY <1>3
  <2>1. want.tun[c] \in Needed
    <3>1. c \in Client /\ want.tun[c] \in Tunnel
      BY ConfigTyped DEF Typed, RunTyped, tunnel_clients
    <3> QED BY <3>1 DEF Needed, ClientsOf
  <2>2. CASE want.tun[c] \in New
    <3>1. <<at[want.tun[c]], want.tun[c]>> \in Added(placed, at)
      BY <2>2 DEF Added
    <3> QED BY <3>1 DEF HasSlot, Slotted
  <2>3. CASE want.tun[c] \notin New
    <3>1. PICK p \in Kept(Needed) : p[2] = want.tun[c]
      BY <2>1, <2>3 DEF New
    <3> QED BY <3>1 DEF HasSlot, Slotted
  <2> QED BY <2>2, <2>3
<1>5. tunnel_clients' = tunnel_clients
  BY <1>2 DEF tunnel_clients
<1>6. \A f \in Configs : HashOf(f) # Nil
  BY NilAssumption
<1>7. pc' \in {"slots", "swap", "release", "record"} /\ mem'.complete =>
         \A c \in tunnel_clients' : HasSlot(mem'.layout, want'.tun[c])
  BY <1>2, <1>3, <1>4, <1>5
<1> QED BY <1>2, <1>6, <1>7 DEF Complete, HashOf, HasSlot

LEMMA RebuildComplete ==
    ASSUME Typed, Routed, Laid, Complete,
           \/ CollectApplied \/ SlotsDone \/ FinishSwap \/ Swap \/ ReleaseDone
           \/ \E p \in Pair : SlotStep(p) \/ ReleaseSlot(p)
    PROVE  Complete'
<1>0. mem \in Memory
  BY DEF Typed, RunTyped
<1>1. CASE SlotsDone
  BY <1>1, SameComplete DEF SlotsDone, Goto, files, run
<1>2. CASE FinishSwap
  <2>1. UNCHANGED <<hash, tables, want>> /\ pc = "swap"
    BY <1>2 DEF FinishSwap, files, run
  <2>2. mem'.layout = mem.layout /\ (mem'.complete => mem.complete)
    BY <1>0, <1>2, SwapFailedFields DEF FinishSwap
  <2> QED BY <2>1, <2>2, SameComplete
<1>3. CASE Swap
  <2>1. UNCHANGED <<hash, tables, want>> /\ pc = "swap"
    BY <1>3 DEF Swap, files, run
  <2>2. mem'.layout = mem.layout /\ (mem'.complete => mem.complete)
    BY <1>0, <1>3, SwapCases, SwapFailedFields, SwappedFields
  <2> QED BY <2>1, <2>2, SameComplete
<1>4. ASSUME NEW p \in Pair, SlotStep(p) PROVE Complete'
  <2>1. UNCHANGED <<hash, tables, want>> /\ pc = "slots"
    BY <1>4 DEF SlotStep, files, run
  <2>2. \E ok \in BOOLEAN : SlotDone(p, ok)
    BY <1>4 DEF SlotStep, EnsureSlot, UnrouteSlot
  <2>3. mem'.layout = mem.layout /\ mem'.complete = mem.complete
    BY <1>0, <2>2, SlotDoneFields
  <2> QED BY <2>1, <2>3, SameComplete
<1>5. ASSUME NEW p \in Pair, ReleaseSlot(p) PROVE Complete'
  <2>1. UNCHANGED <<hash, tables, want>> /\ pc = "release"
    BY <1>5 DEF ReleaseSlot, files, run
  <2>2. mem'.layout = mem.layout /\ mem'.complete = mem.complete
    BY <1>0, <1>5 DEF ReleaseSlot, Memory
  <2> QED BY <2>1, <2>2, SameComplete
<1>6. CASE ReleaseDone
  <2>1. hash = Nil /\ UNCHANGED <<hash, want, mem>> /\ pc = "release" /\ pc' = "record"
    BY <1>6 DEF ReleaseDone, Goto, Complete, Rebuild, run
  <2>2. \A f \in Configs : HashOf(f) # Nil
    BY NilAssumption
  <2>3. mem.complete => \A c \in tunnel_clients : HasSlot(mem.layout, want.tun[c])
    BY <2>1 DEF Complete
  <2>4. tunnel_clients' = tunnel_clients
    BY <2>1 DEF tunnel_clients
  <2> QED BY <2>1, <2>2, <2>3, <2>4 DEF Complete, HashOf, HasSlot
<1> QED BY <1>1, <1>2, <1>3, <1>4, <1>5, <1>6, CollectComplete

LEMMA NextComplete ==
    ASSUME Typed, Routed, Laid, Complete, [Next]_vars
    PROVE  Complete'
<1>1. CASE UNCHANGED vars
  BY <1>1 DEF vars, files, run, Complete, Recorded, HashOf, HasSlot, tunnel_clients
<1>2. CASE \E k \in Kind, f \in Configs : Begin(k, f)
  <2>1. UNCHANGED <<hash, tables>> /\ pc' \notin Rebuild \cup {"record"}
    BY <1>2 DEF Begin, Goto, Kind, Stopping, Rebuild, files
  <2> QED BY <2>1 DEF Complete, Recorded, HashOf, HasSlot, Rebuild
<1>3. CASE TproxySoftFail \/ SetupClients \/ SetupChain \/ Prune \/ StopXray
  <2>1. UNCHANGED <<hash, tables, want>> /\ pc' \notin Rebuild \cup {"record"}
    BY <1>3 DEF TproxySoftFail, SetupClients, SetupChain, Prune, StopXray, Goto, End, AfterTproxy,
       Rebuild, files, run
  <2> QED BY <2>1, SameComplete
<1>4. CASE NoTunnels \/ InvalidTunnels \/ StartRefresh \/ TablesUnwritten \/ WriteReady
           \/ JumpsEnsure \/ RefreshReady \/ StopChain \/ StopRules \/ Kill
  <2>1. UNCHANGED <<hash, tables, want>>
    BY <1>4 DEF NoTunnels, InvalidTunnels, StartRefresh, TablesUnwritten, WriteReady, JumpsEnsure,
       RefreshReady, StopChain, StopRules, Kill, files, run
  <2>2. pc' \notin Rebuild \cup {"record"}
    BY <1>4 DEF NoTunnels, InvalidTunnels, StartRefresh, TablesUnwritten, WriteReady, JumpsEnsure,
       RefreshReady, StopChain, StopRules, Kill, Goto, End, AfterTunnel, Rebuild
  <2> QED BY <2>1, <2>2, SameComplete
<1>5. ASSUME NEW p \in Pair, RefreshSlot(p) PROVE Complete'
  <2>1. UNCHANGED <<hash, tables, want>> /\ pc' = "refresh"
    BY <1>5 DEF RefreshSlot, files, run
  <2> QED BY <2>1, SameComplete DEF Rebuild
<1>6. CASE StartRebuild
  <2>1. hash' = Nil /\ pc' \in {"collect", "idle"}
    BY <1>6 DEF StartRebuild, Goto, End
  <2>2. \A f \in Configs : HashOf(f) # Nil
    BY NilAssumption
  <2> QED BY <2>1, <2>2 DEF Complete, HashOf
<1>7. CASE Record
  <2>1. /\ UNCHANGED <<tables, want, mem>> /\ pc = "record" /\ pc' = "ready"
        /\ hash' = IF mem.complete THEN HashOf(want) ELSE hash
    BY <1>7 DEF Record, Goto, run
  <2>2. CASE mem.complete
    <3>1. mem.layout \subseteq Recorded /\ \A c \in tunnel_clients : HasSlot(mem.layout, want.tun[c])
      BY <2>1, <2>2 DEF Laid, Complete
    <3>2. \A f \in Configs : hash' = HashOf(f) => f.tun = want.tun
      BY <2>1, <2>2 DEF HashOf
    <3>3. \A f \in Configs : hash' = HashOf(f) =>
             \A c \in Client : f.tun[c] # Nil => HasSlot(Recorded, f.tun[c])
      BY <3>1, <3>2 DEF tunnel_clients, HasSlot
    <3> QED BY <2>1, <3>3 DEF Complete, Recorded, HashOf, HasSlot, Rebuild
  <2>3. CASE ~mem.complete
    BY <2>1, <2>3, SameComplete DEF Rebuild
  <2> QED BY <2>2, <2>3
<1>8. CASE StopTables
  <2>1. tables' = Nil /\ pc' \notin Rebuild \cup {"record"}
    BY <1>8 DEF StopTables, AfterTunnel, Goto, End, Rebuild
  <2> QED BY <2>1 DEF Complete, Rebuild
<1>9. CASE Flush \/ CalmDown \/ \E t \in Tunnel : LinkDown(t) \/ LinkUp(t)
  <2>1. UNCHANGED <<hash, tables, pc, mem, want>>
    BY <1>9 DEF Flush, CalmDown, LinkDown, LinkUp, files, run
  <2> QED BY <2>1 DEF Complete, Recorded, HashOf, HasSlot, tunnel_clients
<1> QED BY <1>1, <1>2, <1>3, <1>4, <1>5, <1>6, <1>7, <1>8, <1>9, RebuildComplete
        DEF Next, ScriptStep, Environment

LEMMA AlwaysComplete == Spec => []Complete
<1>1. Init => Complete
  BY DEF Init, Complete, Rebuild
<1> QED BY <1>1, NextComplete, AlwaysTyped, AlwaysRouted, PTL DEF Spec

-----------------------------------------------------------------------------
(* What a run reports of the slots it has done and the clients it has marked *)

\* The slot of p is as the run put it: what came after, a flush or a lost
\* interface, leaves at least the block rule.
InPlace(p) ==
    /\ p[1] \in block
    /\ ~disturbed => p[1] \in rule /\ via[p[1]] = p[2]

SlotsReported(S) ==
    \A p \in S : /\ ClientsOf(p[2]) \subseteq mem.uncarried \/ InPlace(p)
                 /\ mem.foOk /\ p[2] = want.fo => InPlace(p)

\* A flush takes the marks, and Xray's jumps with them.
Intact(c) == c \in xjump \/ ~disturbed

MarkedFor(c, S) == mark[c] \in S /\ mark[c][2] = want.tun[c]

\* Every client the run does not report is marked for its tunnel.
ClientsReported(S) ==
    /\ \A c \in tunnel_clients \ mem.uncarried : Intact(c) => MarkedFor(c, S)
    /\ mem.foOk /\ HasSlot(S, want.fo) => \A c \in FailoverClients : Intact(c) => MarkedFor(c, S)

Reported ==
    /\ pc \in {"slots", "swap"} =>
          \A c \in tunnel_clients \ mem.uncarried : HasSlot(mem.layout, want.tun[c])
    /\ pc = "slots" => SlotsReported(mem.layout \ mem.todo)
    /\ pc \in {"swap", "release", "record", "ready"} => SlotsReported(mem.layout)
    /\ pc \in {"release", "record", "ready"} => ClientsReported(mem.layout)
    /\ pc = "refresh" => SlotsReported(Recorded \ mem.todo)
    /\ pc = "refreshed" => SlotsReported(Recorded)
    /\ pc \in {"refresh", "refreshed"} => ClientsReported(Recorded)

ReportSteps == {"slots", "swap", "release", "record", "ready", "refresh", "refreshed"}

LEMMA ElsewhereReported ==
    ASSUME pc' \notin ReportSteps
    PROVE  Reported'
BY DEF Reported, ReportSteps

\* A slot step touches its own slot alone, and does not report it only when all
\* of it went in.
LEMMA SlotInPlace ==
    ASSUME Typed, NEW p \in Pair, EnsureSlot(p) \/ UnrouteSlot(p), UNCHANGED disturbed
    PROVE  /\ \A q \in Pair : q[1] # p[1] /\ InPlace(q) => InPlace(q)'
           /\ \E ok \in BOOLEAN : SlotDone(p, ok) /\ (ok => InPlace(p)')
<1>1. p[1] \in Slot /\ via \in [Slot -> Tunnel \cup {Nil}]
  BY DEF Pair, Typed, KernelTyped
<1>2. CASE EnsureSlot(p)
  <2>1. PICK blockOk, routeOk, ruleOk \in BOOLEAN :
           /\ BlockEnsure(p[1], blockOk)
           /\ RouteEnsure(p, routeOk)
           /\ RuleEnsure(p, ruleOk)
           /\ SlotDone(p, blockOk /\ routeOk /\ ruleOk)
    BY <1>2 DEF EnsureSlot
  <2>2. PICK v : via' = [via EXCEPT ![p[1]] = v] /\ (routeOk => v = p[2])
    BY <2>1 DEF RouteEnsure
  <2>3. \A q \in Pair : q[1] # p[1] /\ InPlace(q) => InPlace(q)'
    <3> SUFFICES ASSUME NEW q \in Pair, q[1] # p[1], InPlace(q) PROVE InPlace(q)'
      OBVIOUS
    <3>1. q[1] \in block'
      BY <2>1 DEF InPlace, BlockEnsure
    <3>2. ~disturbed => q[1] \in rule' /\ via'[q[1]] = q[2]
      BY <1>1, <2>1, <2>2 DEF InPlace, RuleEnsure, Pair
    <3> QED BY <3>1, <3>2 DEF InPlace
  <2>4. blockOk /\ routeOk /\ ruleOk => InPlace(p)'
    BY <1>1, <2>1, <2>2 DEF InPlace, BlockEnsure, RuleEnsure
  <2>5. (blockOk /\ routeOk /\ ruleOk) \in BOOLEAN
    OBVIOUS
  <2> QED BY <2>1, <2>3, <2>4, <2>5
<1>3. CASE UnrouteSlot(p)
  <2>1. \A q \in Pair : q[1] # p[1] /\ InPlace(q) => InPlace(q)'
    BY <1>1, <1>3 DEF UnrouteSlot, BlockEnsure, InPlace, Pair
  <2> QED BY <1>3, <2>1 DEF UnrouteSlot
<1> QED BY <1>2, <1>3

LEMMA SlotReported ==
    ASSUME Typed, Routed, NEW p \in Pair, EnsureSlot(p) \/ UnrouteSlot(p), UNCHANGED <<disturbed, want>>,
           NEW S, S \subseteq Recorded, p \in S, SlotsReported(S \ mem.todo)
    PROVE  /\ \A q \in S \ mem'.todo :
                 /\ ClientsOf(q[2]) \subseteq mem'.uncarried \/ InPlace(q)'
                 /\ mem'.foOk /\ q[2] = want.fo => InPlace(q)'
           /\ mem.uncarried \subseteq mem'.uncarried /\ (mem'.foOk => mem.foOk)
           /\ mem'.layout = mem.layout /\ mem'.todo = mem.todo \ {p}
<1>1. PICK ok \in BOOLEAN : SlotDone(p, ok) /\ (ok => InPlace(p)')
  BY SlotInPlace
<1>2. /\ mem'.layout = mem.layout /\ mem'.todo = mem.todo \ {p}
      /\ mem.uncarried \subseteq mem'.uncarried
      /\ ok \/ ClientsOf(p[2]) \subseteq mem'.uncarried
      /\ mem'.foOk => mem.foOk /\ (ok \/ p[2] # want.fo)
  BY <1>1, SlotDoneFields DEF Typed, RunTyped
<1>3. ASSUME NEW q \in S \ mem'.todo
      PROVE  /\ ClientsOf(q[2]) \subseteq mem'.uncarried \/ InPlace(q)'
             /\ mem'.foOk /\ q[2] = want.fo => InPlace(q)'
  <2>1. CASE q = p
    BY <1>1, <1>2, <2>1
  <2>2. CASE q # p
    <3>1. q \in S \ mem.todo
      BY <1>2, <2>2
    <3>2. q[1] # p[1] /\ q \in Pair
      <4>1. q \in Pair /\ (q[1] = p[1] <=> q[2] = p[2])
        BY <3>1 DEF Typed, FilesTyped, Recorded, Routed, OneToOne
      <4> QED BY <2>2, <4>1 DEF Pair
    <3>3. InPlace(q) => InPlace(q)'
      BY <3>2, SlotInPlace
    <3> QED BY <1>2, <3>1, <3>3 DEF SlotsReported
  <2> QED BY <2>1, <2>2
<1> QED BY <1>2, <1>3

\* A step that keeps what it reports and touches none of the slots of S.
LEMMA SlotsStay ==
    ASSUME NEW S, SlotsReported(S), UNCHANGED want,
           mem.uncarried \subseteq mem'.uncarried, mem'.foOk => mem.foOk,
           \A q \in S : InPlace(q) => InPlace(q)'
    PROVE  \A q \in S : /\ ClientsOf(q[2])' \subseteq mem'.uncarried \/ InPlace(q)'
                        /\ mem'.foOk /\ q[2] = want'.fo => InPlace(q)'
BY DEF SlotsReported, ClientsOf

\* Nor the marks.
LEMMA ClientsStay ==
    ASSUME NEW S, ClientsReported(S), UNCHANGED <<want, mark>>,
           mem.uncarried \subseteq mem'.uncarried, mem'.foOk => mem.foOk,
           \A c \in Client : Intact(c)' => Intact(c),
           want \in Configs
    PROVE  /\ \A c \in tunnel_clients' \ mem'.uncarried : Intact(c)' => MarkedFor(c, S)
           /\ mem'.foOk /\ HasSlot(S, want'.fo) =>
                 \A c \in FailoverClients' : Intact(c)' => MarkedFor(c, S)
<1>1. tunnel_clients' = tunnel_clients /\ FailoverClients' = FailoverClients
  BY DEF tunnel_clients, FailoverClients, ClientsOf
<1>2. tunnel_clients \in SUBSET Client /\ FailoverClients \in SUBSET Client
  BY ConfigTyped
<1> QED BY <1>1, <1>2 DEF ClientsReported

LEMMA SlotStepReported ==
    ASSUME Typed, Routed, Laid, Reported, NEW p \in Pair, SlotStep(p)
    PROVE  Reported'
<1>1. /\ pc = "slots" /\ p \in mem.todo /\ (EnsureSlot(p) \/ UnrouteSlot(p))
      /\ UNCHANGED <<pc, want, disturbed>>
  BY DEF SlotStep, run
<1>2. /\ mem.layout \subseteq Recorded /\ p \in mem.layout
      /\ SlotsReported(mem.layout \ mem.todo)
      /\ \A c \in tunnel_clients \ mem.uncarried : HasSlot(mem.layout, want.tun[c])
  BY <1>1 DEF Laid, Reported
<1>3. /\ \A q \in mem.layout \ mem'.todo :
                 /\ ClientsOf(q[2]) \subseteq mem'.uncarried \/ InPlace(q)'
                 /\ mem'.foOk /\ q[2] = want.fo => InPlace(q)'
      /\ mem.uncarried \subseteq mem'.uncarried
      /\ mem'.layout = mem.layout
  BY <1>1, <1>2, SlotReported
<1>4. tunnel_clients' = tunnel_clients /\ \A t : ClientsOf(t)' = ClientsOf(t)
  BY <1>1 DEF tunnel_clients, ClientsOf
<1>5. SlotsReported(mem.layout \ mem.todo)'
  BY <1>1, <1>3, <1>4 DEF SlotsReported
<1>6. \A c \in tunnel_clients' \ mem'.uncarried : HasSlot(mem'.layout, want'.tun[c])
  BY <1>1, <1>2, <1>3, <1>4
<1>7. pc' = "slots"
  BY <1>1
<1> QED BY <1>5, <1>6, <1>7 DEF Reported

LEMMA RefreshSlotReported ==
    ASSUME Typed, Routed, Laid, Reported, NEW p \in Pair, RefreshSlot(p)
    PROVE  Reported'
<1>1. /\ pc = "refresh" /\ p \in mem.todo /\ EnsureSlot(p)
      /\ UNCHANGED <<pc, want, disturbed, mark, xjump, tables>>
  BY DEF RefreshSlot, run, files
<1>2. /\ p \in Recorded /\ SlotsReported(Recorded \ mem.todo) /\ ClientsReported(Recorded)
  BY <1>1 DEF Laid, Reported
<1>3. /\ \A q \in Recorded \ mem'.todo :
                 /\ ClientsOf(q[2]) \subseteq mem'.uncarried \/ InPlace(q)'
                 /\ mem'.foOk /\ q[2] = want.fo => InPlace(q)'
      /\ mem.uncarried \subseteq mem'.uncarried /\ (mem'.foOk => mem.foOk)
  BY <1>1, <1>2, SlotReported
<1>4. Recorded' = Recorded /\ \A t : ClientsOf(t)' = ClientsOf(t)
  BY <1>1 DEF Recorded, ClientsOf
<1>5. SlotsReported(Recorded \ mem.todo)'
  BY <1>1, <1>3, <1>4 DEF SlotsReported
<1>6. want \in Configs /\ \A c \in Client : Intact(c)' => Intact(c)
  BY <1>1 DEF Intact, Typed, RunTyped
<1>7. /\ \A c \in tunnel_clients' \ mem'.uncarried : Intact(c)' => MarkedFor(c, Recorded)
      /\ mem'.foOk /\ HasSlot(Recorded, want'.fo) =>
            \A c \in FailoverClients' : Intact(c)' => MarkedFor(c, Recorded)
  BY <1>1, <1>2, <1>3, <1>6, ClientsStay
<1>8. ClientsReported(Recorded)'
  BY <1>1, <1>4, <1>7 DEF ClientsReported, MarkedFor, HasSlot
<1>9. pc' = "refresh"
  BY <1>1
<1> QED BY <1>5, <1>8, <1>9 DEF Reported

LEMMA SwapReported ==
    ASSUME Typed, Routed, Laid, Reported, Swap \/ FinishSwap
    PROVE  Reported'
<1>1. /\ pc = "swap" /\ UNCHANGED <<want, disturbed, rule, block, via>>
      /\ mem \in Memory /\ want \in Configs
  BY DEF Swap, FinishSwap, run, Typed, RunTyped
<1>2. /\ SlotsReported(mem.layout)
      /\ \A c \in tunnel_clients \ mem.uncarried : HasSlot(mem.layout, want.tun[c])
  BY <1>1 DEF Reported
<1>3. \A q : InPlace(q) => InPlace(q)'
  BY <1>1 DEF InPlace
<1>4. tunnel_clients' = tunnel_clients /\ FailoverClients' = FailoverClients
  BY <1>1 DEF tunnel_clients, FailoverClients, ClientsOf
<1>5. ASSUME mem'.layout = mem.layout, mem.uncarried \subseteq mem'.uncarried, mem'.foOk => mem.foOk
      PROVE  SlotsReported(mem.layout)'
  <2>1. \A q \in mem.layout : /\ ClientsOf(q[2])' \subseteq mem'.uncarried \/ InPlace(q)'
                              /\ mem'.foOk /\ q[2] = want'.fo => InPlace(q)'
    BY <1>1, <1>2, <1>3, <1>5, SlotsStay
  <2> QED BY <1>5, <2>1 DEF SlotsReported
<1>6. ASSUME NEW refused, SwapFailed(refused) PROVE Reported'
  <2>1. /\ pc' = "record" /\ mem'.layout = mem.layout /\ mem'.foOk = FALSE
        /\ mem'.uncarried = mem.uncarried \cup tunnel_clients
    BY <1>1, <1>6, SwapFailedFields
  <2>2. SlotsReported(mem.layout)'
    BY <1>5, <2>1
  <2>3. ClientsReported(mem.layout)'
    BY <1>4, <2>1 DEF ClientsReported
  <2> QED BY <2>1, <2>2, <2>3 DEF Reported
<1>7. CASE UNCHANGED <<pc, mem>>
  <2>1. pc' = "swap" /\ mem' = mem
    BY <1>1, <1>7
  <2>2. SlotsReported(mem.layout)'
    BY <1>5, <2>1
  <2> QED BY <1>1, <1>2, <1>4, <2>1, <2>2 DEF Reported
<1>8. ASSUME NEW refused \in SUBSET tunnel_clients, Swapped(refused) PROVE Reported'
  <2>1. /\ mem'.layout = mem.layout
        /\ mem'.foOk = (mem.foOk /\ refused \cap FailoverClients = {})
        /\ mem'.uncarried = mem.uncarried \cup refused
    BY <1>1, <1>8, SwappedFields
  <2>2. pc' = "release" /\ \A c \in Client : mark'[c] = BuiltChain(refused)[c]
    BY <1>8 DEF Swapped, MoveTo
  <2>3. SlotsReported(mem.layout)'
    BY <1>5, <2>1
  <2>4. \A c \in Client \ refused :
           HasSlot(mem.layout, want.tun[c]) => MarkedFor(c, mem.layout)'
    BY <1>1, <2>1, <2>2, ChainMarks DEF HasSlot, MarkedFor
  <2>5. \A c \in tunnel_clients' \ mem'.uncarried : MarkedFor(c, mem.layout)'
    BY <1>1, <1>2, <1>4, <2>1, <2>4, ConfigTyped
  <2>6. mem'.foOk /\ HasSlot(mem'.layout, want'.fo) => \A c \in FailoverClients' : MarkedFor(c, mem.layout)'
    <3> SUFFICES ASSUME mem'.foOk, HasSlot(mem.layout, want.fo), NEW c \in FailoverClients
                 PROVE  MarkedFor(c, mem.layout)'
      BY <1>1, <1>4, <2>1
    <3>1. c \in Client \ refused /\ want.tun[c] = want.fo
      BY <2>1 DEF FailoverClients, ClientsOf
    <3> QED BY <2>4, <3>1
  <2>7. ClientsReported(mem.layout)'
    BY <2>5, <2>6 DEF ClientsReported
  <2> QED BY <2>2, <2>3, <2>7 DEF Reported
<1> QED BY <1>6, <1>7, <1>8, SwapCases DEF FinishSwap

LEMMA ReleaseReported ==
    ASSUME Typed, Routed, Laid, Reported,
           SlotsDone \/ ReleaseDone \/ Record \/ \E p \in Pair : ReleaseSlot(p)
    PROVE  Reported'
<1>1. mem \in Memory /\ want \in Configs /\ via \in [Slot -> Tunnel \cup {Nil}]
  BY DEF Typed, RunTyped, KernelTyped
<1>2. CASE SlotsDone
  <2>1. /\ pc = "slots" /\ pc' = "swap" /\ mem' = mem /\ mem.todo = {}
        /\ UNCHANGED <<rule, block, via, disturbed, want>>
    BY <1>2 DEF SlotsDone, Goto, kernel, run, env
  <2>2. SlotsReported(mem.layout)
    <3>1. mem.layout \ mem.todo = mem.layout
      BY <2>1
    <3> QED BY <2>1, <3>1 DEF Reported
  <2>3. SlotsReported(mem.layout)'
    BY <2>1, <2>2 DEF SlotsReported, InPlace, ClientsOf
  <2> QED BY <2>1, <2>3 DEF Reported, tunnel_clients
<1>3. CASE ReleaseDone \/ Record
  <2>1. /\ pc \in {"release", "record"} /\ pc' \in {"record", "ready"} /\ mem' = mem
        /\ UNCHANGED <<mark, xjump, rule, block, via, disturbed, want>>
    BY <1>3 DEF ReleaseDone, Record, Goto, kernel, run, env
  <2>2. SlotsReported(mem.layout) /\ ClientsReported(mem.layout)
    BY <2>1 DEF Reported
  <2>3. SlotsReported(mem.layout)'
    BY <2>1, <2>2 DEF SlotsReported, InPlace, ClientsOf
  <2>4. ClientsReported(mem.layout)'
    BY <2>1, <2>2 DEF ClientsReported, Intact, MarkedFor, FailoverClients, tunnel_clients, ClientsOf
  <2> QED BY <2>1, <2>3, <2>4 DEF Reported
<1>4. ASSUME NEW p \in Pair, ReleaseSlot(p) PROVE Reported'
  <2>1. /\ pc = "release" /\ p \in mem.todo /\ UNCHANGED <<pc, mark, xjump, want, disturbed>>
        /\ rule' \in {rule, rule \ {p[1]}} /\ block' \in {block, block \ {p[1]}}
        /\ via' = [via EXCEPT ![p[1]] = Nil] /\ mem' = [mem EXCEPT !.todo = mem.todo \ {p}]
    BY <1>4 DEF ReleaseSlot, run
  <2>2. /\ mem'.layout = mem.layout /\ mem'.uncarried = mem.uncarried /\ mem'.foOk = mem.foOk
    BY <1>1, <2>1 DEF Memory
  <2>3. SlotsReported(mem.layout) /\ ClientsReported(mem.layout)
    BY <2>1 DEF Reported
  <2>4. \A q \in mem.layout : q \in Pair /\ q[1] # p[1]
    <3> SUFFICES ASSUME NEW q \in mem.layout PROVE q \in Pair /\ q[1] # p[1]
      OBVIOUS
    <3>1. q \in Recorded /\ p \in Recorded /\ p # q /\ q \in Pair
      BY <1>1, <2>1 DEF Laid, Memory
    <3>2. q[1] = p[1] => q[2] = p[2]
      BY <3>1 DEF Routed, OneToOne
    <3> QED BY <3>1, <3>2 DEF Pair
  <2>5. \A q \in mem.layout : InPlace(q) => InPlace(q)'
    <3> SUFFICES ASSUME NEW q \in mem.layout, InPlace(q) PROVE InPlace(q)'
      OBVIOUS
    <3>1. q[1] \in Slot /\ q[1] # p[1]
      BY <2>4 DEF Pair
    <3> QED BY <1>1, <2>1, <3>1 DEF InPlace
  <2>6. \A q \in mem.layout : /\ ClientsOf(q[2])' \subseteq mem'.uncarried \/ InPlace(q)'
                              /\ mem'.foOk /\ q[2] = want'.fo => InPlace(q)'
    BY <2>1, <2>2, <2>3, <2>5, SlotsStay
  <2>7. SlotsReported(mem.layout)'
    BY <2>2, <2>6 DEF SlotsReported
  <2>8. ClientsReported(mem.layout)'
    BY <2>1, <2>2, <2>3 DEF ClientsReported, Intact, MarkedFor, FailoverClients, tunnel_clients, ClientsOf
  <2> QED BY <2>1, <2>7, <2>8 DEF Reported
<1> QED BY <1>2, <1>3, <1>4

\* An unchanged config is refreshed only where every client's mark is that of
\* the slot on record for its tunnel, and every tunnel has one.
LEMMA RefreshReported ==
    ASSUME Typed, Routed, Laid, Complete, Reported, StartRefresh \/ JumpsEnsure
    PROVE  Reported'
<1>1. /\ mem \in Memory /\ want \in Configs /\ Recorded' = Recorded
      /\ UNCHANGED <<mark, xjump, rule, block, via, want>>
  BY DEF StartRefresh, JumpsEnsure, kernel, files, run, Recorded, Typed, RunTyped
<1>2. CASE StartRefresh
  <2>1. /\ UpToDate /\ pc' = "refresh" /\ mem'.todo = Recorded
    BY <1>1, <1>2 DEF StartRefresh, Memory
  <2>2. \A c \in tunnel_clients : MarkedFor(c, Recorded)
    <3> SUFFICES ASSUME NEW c \in tunnel_clients PROVE MarkedFor(c, Recorded)
      OBVIOUS
    <3>1. c \in Client /\ want.tun[c] # Nil
      BY DEF tunnel_clients
    <3>2. HasSlot(Recorded, want.tun[c])
      BY <1>1, <2>1, <3>1 DEF UpToDate, Complete
    <3>3. PICK p \in Recorded : p[2] = want.tun[c]
      BY <3>2 DEF HasSlot
    <3>4. mark[c] # Nil /\ mark[c][1] = p[1]
      BY <2>1, <3>1, <3>3 DEF UpToDate, _tunnel_marks_present, ClientsOf
    <3>5. mark[c] \in Recorded
      BY <3>1, <3>4 DEF Routed, MarksIn
    <3> QED BY <3>3, <3>4, <3>5 DEF Routed, OneToOne, MarkedFor
  <2>3. FailoverClients \subseteq tunnel_clients
    BY DEF FailoverClients, tunnel_clients, ClientsOf
  <2>4. \A c \in tunnel_clients' \cup FailoverClients' : MarkedFor(c, Recorded)'
    BY <1>1, <2>2, <2>3 DEF MarkedFor, tunnel_clients, FailoverClients, ClientsOf
  <2>5. ClientsReported(Recorded)'
    BY <2>4 DEF ClientsReported
  <2>6. SlotsReported(Recorded \ mem.todo)'
    <3>1. Recorded' \ mem'.todo = {}
      BY <1>1, <2>1
    <3> QED BY <3>1 DEF SlotsReported
  <2> QED BY <2>1, <2>5, <2>6 DEF Reported
<1>3. CASE JumpsEnsure
  <2>1. /\ pc = "refresh" /\ pc' = "refreshed" /\ mem.todo = {} /\ UNCHANGED disturbed
        /\ UNCHANGED mem \/ mem' = [mem EXCEPT !.uncarried = mem.uncarried \cup tunnel_clients,
                                               !.foOk = FALSE]
    BY <1>3 DEF JumpsEnsure
  <2>2. mem.uncarried \subseteq mem'.uncarried /\ (mem'.foOk => mem.foOk)
    BY <1>1, <2>1 DEF Memory
  <2>3. SlotsReported(Recorded) /\ ClientsReported(Recorded)
    <3>1. Recorded \ mem.todo = Recorded
      BY <2>1
    <3> QED BY <2>1, <3>1 DEF Reported
  <2>4. \A q \in Recorded : /\ ClientsOf(q[2])' \subseteq mem'.uncarried \/ InPlace(q)'
                            /\ mem'.foOk /\ q[2] = want'.fo => InPlace(q)'
    BY <1>1, <2>1, <2>2, <2>3, SlotsStay DEF InPlace
  <2>5. /\ \A c \in tunnel_clients' \ mem'.uncarried : Intact(c)' => MarkedFor(c, Recorded)
        /\ mem'.foOk /\ HasSlot(Recorded, want'.fo) =>
              \A c \in FailoverClients' : Intact(c)' => MarkedFor(c, Recorded)
    BY <1>1, <2>1, <2>2, <2>3, ClientsStay DEF Intact
  <2>6. SlotsReported(Recorded)'
    BY <1>1, <2>4 DEF SlotsReported
  <2>7. ClientsReported(Recorded)'
    BY <1>1, <2>5 DEF ClientsReported, MarkedFor, HasSlot
  <2> QED BY <2>1, <2>6, <2>7 DEF Reported
<1> QED BY <1>2, <1>3

\* A client that is not reported from the start has a slot to go to.
LEMMA CollectReported ==
    ASSUME Typed, CollectApplied
    PROVE  Reported'
<1>1. PICK U, placed, at : CollectedAs(U, placed, at)
  BY CollectPicks
<1>2. pc' = "slots" /\ want' = want /\ mem \in Memory
  BY <1>1 DEF CollectApplied, CollectedAs, run, Typed, RunTyped
<1> DEFINE l == Slotted(placed, at)
           r == Added(placed, at)
           w == UNION {ClientsOf(t) : t \in U \cup (New \ placed)}
           b == (U = {} /\ placed = New)
<1>3. mem'.layout = l /\ mem'.todo = l /\ mem'.uncarried = w
  <2>1. mem' = [mem EXCEPT !.layout = l, !.fresh = r, !.todo = l, !.unlisted = U,
                           !.uncarried = w, !.complete = b]
    BY <1>1 DEF CollectedAs
  <2> HIDE DEF l, r, w, b
  <2> QED BY <1>2, <2>1 DEF Memory
<1>4. \A c \in tunnel_clients \ w : HasSlot(l, want.tun[c])
  <2> SUFFICES ASSUME NEW c \in tunnel_clients \ w PROVE HasSlot(l, want.tun[c])
    OBVIOUS
  <2>1. c \in Client /\ want.tun[c] \in Tunnel /\ c \in ClientsOf(want.tun[c])
    BY ConfigTyped DEF Typed, RunTyped, tunnel_clients, ClientsOf
  <2>2. want.tun[c] \in Needed
    BY <2>1 DEF Needed
  <2>3. want.tun[c] \notin New \ placed
    BY <2>1
  <2>4. CASE want.tun[c] \in New
    <3>1. <<at[want.tun[c]], want.tun[c]>> \in Added(placed, at)
      BY <2>3, <2>4 DEF Added
    <3> QED BY <3>1 DEF HasSlot, Slotted
  <2>5. CASE want.tun[c] \notin New
    <3>1. PICK p \in Kept(Needed) : p[2] = want.tun[c]
      BY <2>2, <2>5 DEF New
    <3> QED BY <3>1 DEF HasSlot, Slotted
  <2> QED BY <2>4, <2>5
<1> HIDE DEF l, r, w, b
<1>5. \A c \in tunnel_clients' \ mem'.uncarried : HasSlot(mem'.layout, want'.tun[c])
  BY <1>2, <1>3, <1>4 DEF tunnel_clients
<1>6. SlotsReported(mem.layout \ mem.todo)'
  BY <1>3 DEF SlotsReported
<1> QED BY <1>2, <1>5, <1>6 DEF Reported

\* A flush leaves no mark and no jump of Xray's; an interface that goes leaves
\* the block rule.
LEMMA EnvironmentReported ==
    ASSUME Typed, Reported, Flush \/ CalmDown \/ \E t \in Tunnel : LinkDown(t) \/ LinkUp(t)
    PROVE  Reported'
<1>1. /\ UNCHANGED <<pc, mem, want, tables, block>> /\ want \in Configs
      /\ disturbed' \/ UNCHANGED <<disturbed, rule, via>>
  BY DEF Flush, CalmDown, LinkDown, LinkUp, kernel, files, run, env, Typed, RunTyped
<1>2. \A q : InPlace(q) => InPlace(q)'
  BY <1>1 DEF InPlace
<1>3. UNCHANGED mark \/ \A c \in Client : ~Intact(c)'
  BY DEF Flush, CalmDown, LinkDown, LinkUp, kernel, Intact
<1>4. UNCHANGED mark => \A c \in Client : Intact(c)' => Intact(c)
  <2>1. CASE Flush
    BY <2>1 DEF Flush, Intact
  <2>2. CASE CalmDown \/ \E t \in Tunnel : LinkDown(t) \/ LinkUp(t)
    BY <2>2 DEF CalmDown, LinkDown, LinkUp, kernel, env, Intact
  <2> QED BY <2>1, <2>2
<1>5. Recorded' = Recorded /\ tunnel_clients' = tunnel_clients /\ FailoverClients' = FailoverClients
      /\ \A t : ClientsOf(t)' = ClientsOf(t)
  BY <1>1 DEF Recorded, tunnel_clients, FailoverClients, ClientsOf
<1>6. \A S : SlotsReported(S) => \A q \in S : /\ ClientsOf(q[2])' \subseteq mem'.uncarried \/ InPlace(q)'
                                              /\ mem'.foOk /\ q[2] = want'.fo => InPlace(q)'
  BY <1>1, <1>2, <1>5 DEF SlotsReported
<1>7. /\ SlotsReported(mem.layout) => SlotsReported(mem.layout)'
      /\ SlotsReported(mem.layout \ mem.todo) => SlotsReported(mem.layout \ mem.todo)'
      /\ SlotsReported(Recorded) => SlotsReported(Recorded)'
      /\ SlotsReported(Recorded \ mem.todo) => SlotsReported(Recorded \ mem.todo)'
  BY <1>1, <1>5, <1>6 DEF SlotsReported
<1>8. tunnel_clients \in SUBSET Client /\ FailoverClients \in SUBSET Client
  BY <1>1, ConfigTyped
<1>9. /\ ClientsReported(mem.layout) => ClientsReported(mem.layout)'
      /\ ClientsReported(Recorded) => ClientsReported(Recorded)'
  <2>1. CASE UNCHANGED mark
    BY <1>1, <1>4, <1>5, <1>8, <2>1 DEF ClientsReported, MarkedFor
  <2>2. CASE \A c \in Client : ~Intact(c)'
    BY <1>5, <1>8, <2>2 DEF ClientsReported
  <2> QED BY <1>3, <2>1, <2>2
<1> QED BY <1>1, <1>5, <1>7, <1>9 DEF Reported

LEMMA NextReported ==
    ASSUME Typed, Routed, Laid, Complete, Reported, [Next]_vars
    PROVE  Reported'
<1>1. CASE UNCHANGED vars
  BY <1>1 DEF vars, kernel, files, run, env, Reported, SlotsReported, ClientsReported, InPlace, Intact,
     MarkedFor, Recorded, HasSlot, tunnel_clients, FailoverClients, ClientsOf
<1>2. CASE \E k \in Kind, f \in Configs : Begin(k, f)
  BY <1>2, ElsewhereReported DEF Begin, Goto, Kind, Stopping, ReportSteps
<1>3. CASE TproxySoftFail \/ SetupClients \/ SetupChain \/ Prune \/ StopXray
  BY <1>3, ElsewhereReported DEF TproxySoftFail, SetupClients, SetupChain, Prune, StopXray, Goto, End,
     AfterTproxy, ReportSteps
<1>4. CASE NoTunnels \/ InvalidTunnels \/ StartRebuild \/ TablesUnwritten \/ WriteReady
           \/ RefreshReady \/ StopChain \/ StopRules \/ StopTables \/ Kill
  BY <1>4, ElsewhereReported DEF NoTunnels, InvalidTunnels, StartRebuild, TablesUnwritten, WriteReady,
     RefreshReady, StopChain, StopRules, StopTables, Kill, Goto, End, AfterTunnel, ReportSteps
<1> QED BY <1>1, <1>2, <1>3, <1>4, SlotStepReported, RefreshSlotReported, SwapReported, ReleaseReported,
           RefreshReported, CollectReported, EnvironmentReported DEF Next, ScriptStep, Environment

LEMMA AlwaysReported == Spec => []Reported
<1>1. Init => Reported
  BY DEF Init, Reported
<1> QED BY <1>1, NextReported, AlwaysTyped, AlwaysRouted, AlwaysComplete, PTL DEF Spec

-----------------------------------------------------------------------------
(* What the prune and the watch read                                         *)

Carried(c) == mark[c] # Nil /\ mark[c][2] = want.tun[c] /\ InPlace(mark[c])

\* tunnel_apply has been through, and only the prune may come.
Applied == \/ pc = "done" /\ kind \in {"all", "tunnel"}
           \/ pc = "prune" /\ kind = "all"

Handed ==
    /\ pc = "prune" /\ kind = "all" =>
          \A c \in tunnel_clients \ mem.uncarried : Intact(c) => Carried(c)
    /\ Applied /\ tunnel_clients # {} /\ foReady # Nil =>
          /\ foReady = want.fo
          /\ ~disturbed => \A c \in FailoverClients : Carried(c)

LEMMA ElsewhereHanded ==
    ASSUME pc' \notin {"done", "prune"}
    PROVE  Handed'
BY DEF Handed, Applied

LEMMA NoTunnelHanded ==
    ASSUME tunnel_clients' = {}
    PROVE  Handed'
BY DEF Handed

\* The failover marker and the report, from the slots and the marks of S.
LEMMA ReadyHanded ==
    ASSUME Typed, NEW S, S \subseteq Recorded, SlotsReported(S), ClientsReported(S),
           pc \in TunnelPart, AfterTunnel, foReady' = ReadyMarker(S, mem.foOk),
           UNCHANGED <<mark, rule, block, via, xjump, want, kind, disturbed>>
    PROVE  Handed'
<1>1. want \in Configs /\ Recorded \subseteq Pair
  BY DEF Typed, RunTyped, FilesTyped, Recorded
<1>2. ASSUME NEW c \in Client, MarkedFor(c, S), InPlace(mark[c]) PROVE Carried(c)'
  <2>1. mark[c] # Nil
    BY <1>1, <1>2, DirectorConstants DEF MarkedFor
  <2> QED BY <1>2, <2>1 DEF MarkedFor, Carried, InPlace
<1>3. tunnel_clients' = tunnel_clients /\ FailoverClients' = FailoverClients
  BY DEF tunnel_clients, FailoverClients, ClientsOf
<1>4. ASSUME NEW c \in tunnel_clients \ mem.uncarried, Intact(c) PROVE Carried(c)'
  <2>1. c \in Client /\ MarkedFor(c, S)
    BY <1>1, <1>4, ConfigTyped DEF ClientsReported
  <2>2. ~(ClientsOf(mark[c][2]) \subseteq mem.uncarried)
    BY <1>4, <2>1 DEF ClientsOf, MarkedFor
  <2>3. InPlace(mark[c])
    BY <2>1, <2>2 DEF SlotsReported, MarkedFor
  <2> QED BY <1>2, <2>1, <2>3
<1>5. ASSUME foReady' # Nil, ~disturbed, NEW c \in FailoverClients PROVE Carried(c)'
  <2>1. mem.foOk /\ HasSlot(S, want.fo) /\ Intact(c)
    BY <1>5 DEF ReadyMarker, HasSlot, Intact
  <2>2. c \in Client /\ MarkedFor(c, S) /\ want.tun[c] = want.fo
    BY <1>1, <1>5, <2>1, ConfigTyped DEF ClientsReported, FailoverClients, ClientsOf
  <2>3. InPlace(mark[c])
    BY <2>1, <2>2 DEF SlotsReported, MarkedFor
  <2> QED BY <1>2, <2>2, <2>3
<1>6. foReady' \in {Nil, want.fo}
  BY DEF ReadyMarker
<1>7. pc' = "prune" => mem' = mem
  BY DEF AfterTunnel, Goto, End
<1>8. pc' = "prune" => \A c \in tunnel_clients' \ mem'.uncarried : Intact(c)' => Carried(c)'
  BY <1>3, <1>4, <1>7 DEF Intact
<1> QED BY <1>3, <1>5, <1>6, <1>8 DEF Handed

LEMMA ScriptHanded ==
    ASSUME Typed, Laid, Reported, Handed,
           \/ NoTunnels \/ WriteReady \/ RefreshReady \/ StopTables \/ StopXray \/ Prune
    PROVE  Handed'
<1>1. tunnel_clients = {} => tunnel_clients' = {}
  BY DEF NoTunnels, WriteReady, RefreshReady, StopTables, StopXray, Prune, run, tunnel_clients
<1>2. CASE NoTunnels
  BY <1>1, <1>2, NoTunnelHanded DEF NoTunnels
<1>3. CASE WriteReady
  <2>1. /\ pc = "ready" /\ AfterTunnel /\ foReady' = ReadyMarker(mem.layout, mem.foOk)
        /\ UNCHANGED <<mark, rule, block, via, xjump, want, kind, disturbed>>
    BY <1>3 DEF WriteReady, kernel, run, env
  <2>2. mem.layout \subseteq Recorded /\ SlotsReported(mem.layout) /\ ClientsReported(mem.layout)
    BY <2>1 DEF Laid, Reported
  <2> QED BY <2>1, <2>2, ReadyHanded DEF TunnelPart
<1>4. CASE RefreshReady
  <2>1. /\ pc = "refreshed" /\ AfterTunnel /\ foReady' = ReadyMarker(Recorded, mem.foOk)
        /\ UNCHANGED <<mark, rule, block, via, xjump, want, kind, disturbed>>
    BY <1>4 DEF RefreshReady, kernel, run, env
  <2>2. SlotsReported(Recorded) /\ ClientsReported(Recorded)
    BY <2>1 DEF Reported
  <2> QED BY <2>1, <2>2, ReadyHanded DEF TunnelPart
<1>5. CASE StopTables
  <2>1. /\ kind' = kind /\ (AfterTunnel \/ End("idle"))
        /\ kind \in {"stop", "stop tunnel"} \/ tunnel_clients = {}
    BY <1>5 DEF StopTables, run, Typed, Commanded, StopPart
  <2>2. CASE kind \in {"stop", "stop tunnel"}
    BY <2>1, <2>2 DEF AfterTunnel, End, Handed, Applied
  <2>3. CASE tunnel_clients = {}
    BY <1>1, <2>3, NoTunnelHanded
  <2> QED BY <2>1, <2>2, <2>3
<1>6. CASE StopXray
  <2>1. kind' = kind /\ kind \in {"stop", "stop xray"} /\ pc' # "prune"
    BY <1>6 DEF StopXray, run, Goto, End, Typed, Commanded
  <2> QED BY <2>1 DEF Handed, Applied
<1>7. CASE Prune
  <2>1. /\ pc = "prune" /\ pc' = "done"
        /\ UNCHANGED <<mark, rule, block, via, foReady, want, kind, disturbed>>
    BY <1>7 DEF Prune, End, files, run
  <2>2. kind' # "xray" => kind = "all"
    BY <2>1 DEF Typed, Commanded, TproxyPart
  <2>3. /\ tunnel_clients' = tunnel_clients /\ FailoverClients' = FailoverClients
        /\ \A c : Carried(c) => Carried(c)'
    BY <2>1 DEF tunnel_clients, FailoverClients, ClientsOf, Carried, InPlace
  <2> QED BY <2>1, <2>2, <2>3 DEF Handed, Applied
<1> QED BY <1>2, <1>3, <1>4, <1>5, <1>6, <1>7

LEMMA EnvironmentHanded ==
    ASSUME Typed, Handed, Flush \/ CalmDown \/ \E t \in Tunnel : LinkDown(t) \/ LinkUp(t)
    PROVE  Handed'
<1>1. UNCHANGED <<pc, mem, want, kind, foReady>>
  BY DEF Flush, CalmDown, LinkDown, LinkUp, files, run, kernel
<1>2. tunnel_clients' = tunnel_clients /\ FailoverClients' = FailoverClients /\ Applied' = Applied
      /\ tunnel_clients \in SUBSET Client
  BY <1>1, ConfigTyped DEF Applied, tunnel_clients, FailoverClients, ClientsOf, Typed, RunTyped
<1>3. CASE Flush
  <2>1. disturbed' /\ \A c : ~Intact(c)'
    BY <1>3 DEF Flush, Intact
  <2> QED BY <1>1, <1>2, <2>1 DEF Handed
<1>4. CASE CalmDown \/ \E t \in Tunnel : LinkDown(t) \/ LinkUp(t)
  <2>1. UNCHANGED <<mark, xjump, block>> /\ (disturbed' \/ UNCHANGED <<disturbed, rule, via>>)
    BY <1>4 DEF CalmDown, LinkDown, LinkUp, kernel, env
  <2>2. \A c : (Carried(c) => Carried(c)') /\ (Intact(c)' => Intact(c))
    <3> SUFFICES ASSUME NEW c PROVE (Carried(c) => Carried(c)') /\ (Intact(c)' => Intact(c))
      OBVIOUS
    <3>1. Intact(c)' => Intact(c)
      BY <1>4 DEF CalmDown, LinkDown, LinkUp, kernel, env, Intact
    <3>2. Carried(c) => Carried(c)'
      BY <1>1, <2>1 DEF Carried, InPlace
    <3> QED BY <3>1, <3>2
  <2>3. ~disturbed' => ~disturbed
    <3>1. disturbed' \/ disturbed' = disturbed
      BY <2>1
    <3> QED BY <3>1
  <2> QED BY <1>1, <1>2, <2>2, <2>3 DEF Handed
<1> QED BY <1>3, <1>4

LEMMA NextHanded ==
    ASSUME Typed, Laid, Reported, Handed, [Next]_vars
    PROVE  Handed'
<1>1. CASE UNCHANGED vars
  BY <1>1 DEF vars, kernel, files, run, env, Handed, Applied, Carried, InPlace, Intact,
     tunnel_clients, FailoverClients, ClientsOf
<1>2. CASE \E k \in Kind, f \in Configs : Begin(k, f)
  BY <1>2, ElsewhereHanded DEF Begin, Goto, Kind, Stopping
<1>3. CASE TproxySoftFail \/ SetupClients \/ SetupChain
  <2>1. kind' = kind /\ (pc' \in {"chain", "tunnel"} \/ (pc' = "prune" /\ kind # "all"))
    BY <1>3 DEF TproxySoftFail, SetupClients, SetupChain, Goto, AfterTproxy, run
  <2> QED BY <2>1 DEF Handed, Applied
<1>4. CASE InvalidTunnels \/ StartRefresh \/ StartRebuild \/ TablesUnwritten \/ SlotsDone
           \/ ReleaseDone \/ Record \/ JumpsEnsure \/ StopChain \/ StopRules \/ Kill
  BY <1>4, ElsewhereHanded DEF InvalidTunnels, StartRefresh, StartRebuild, TablesUnwritten, SlotsDone,
     ReleaseDone, Record, JumpsEnsure, StopChain, StopRules, Kill, Goto, End
<1>5. CASE CollectApplied \/ FinishSwap \/ Swap
  BY <1>5, CollectPicks, ElsewhereHanded DEF CollectedAs, FinishSwap, Swap, SwapFailed
<1>6. CASE \E p \in Pair : SlotStep(p) \/ ReleaseSlot(p) \/ RefreshSlot(p)
  BY <1>6, ElsewhereHanded DEF SlotStep, ReleaseSlot, RefreshSlot
<1> QED BY <1>1, <1>2, <1>3, <1>4, <1>5, <1>6, ScriptHanded, EnvironmentHanded
        DEF Next, ScriptStep, Environment

LEMMA AlwaysHanded == Spec => []Handed
<1>1. Init => Handed
  BY DEF Init, Handed, Applied
<1> QED BY <1>1, NextHanded, AlwaysTyped, AlwaysRouted, AlwaysReported, PTL DEF Spec

\* A client that its slot carries is in its tunnel; after a flush or a lost
\* interface it is refused at least.
LEMMA CarriedPath ==
    ASSUME Typed, NEW c \in Client, Carried(c)
    PROVE  /\ TunnelPath(c) # "wan"
           /\ ~disturbed /\ want.tun[c] # Nil => TunnelPath(c) = want.tun[c]
<1>1. mark[c] \in Pair /\ via \in [Slot -> Tunnel \cup {Nil}]
  BY DEF Typed, KernelTyped, Mark, Carried
<1>2. mark[c][1] \in Slot /\ "wan" \notin Tunnel \cup {Nil}
  BY <1>1, DirectorConstants DEF Pair
<1> QED BY <1>1, <1>2 DEF Carried, InPlace, TunnelPath

\* When the prune of an apply reads TUNNEL_UNCARRIED, every tunnel client it
\* does not name leaves through its tunnel, whatever part of the apply failed.
THEOREM UncarriedIsHonest == Spec => []ReportHonest
<1>1. ASSUME Typed, Handed PROVE ReportHonest
  <2> SUFFICES ASSUME pc = "prune", kind = "all", ~disturbed, NEW c \in tunnel_clients \ mem.uncarried
               PROVE  TunnelPath(c) = want.tun[c]
    BY DEF ReportHonest
  <2>1. c \in Client /\ want.tun[c] # Nil
    BY DEF tunnel_clients
  <2>2. Carried(c)
    BY <1>1 DEF Handed, Intact
  <2> QED BY <1>1, <2>1, <2>2, CarriedPath
<1> QED BY <1>1, AlwaysTyped, AlwaysHanded, PTL

\* The marker the watch commits a failover on is the config's, and every
\* failover client leaves through that tunnel.
THEOREM FailoverMarkerHonest == Spec => []FailoverReadyHonest
<1>1. ASSUME Typed, Handed PROVE FailoverReadyHonest
  <2> SUFFICES ASSUME pc = "done", kind \in {"all", "tunnel"}, foReady # Nil, tunnel_clients # {},
                      ~disturbed
               PROVE  foReady = want.fo /\ \A c \in FailoverClients : TunnelPath(c) = want.fo
    BY DEF FailoverReadyHonest
  <2>1. foReady = want.fo /\ \A c \in FailoverClients : Carried(c)
    BY <1>1 DEF Handed, Applied
  <2>2. \A c \in FailoverClients : c \in Client /\ want.tun[c] = want.fo /\ want.fo # Nil
    BY DEF FailoverClients, ClientsOf
  <2> QED BY <1>1, <2>1, <2>2, CarriedPath
<1> QED BY <1>1, AlwaysTyped, AlwaysHanded, PTL

-----------------------------------------------------------------------------
(* What a step of the script may do to a client                              *)

\* Steps that only add to XRAY_CLIENTS and to its jumps.
LEMMA ProxiedStays ==
    ASSUME Typed, UNCHANGED xset \/ (\E S \in SUBSET Client : xset' = xset \cup S),
           xset # Nil, xjump \subseteq xjump', NEW c \in Client, Proxied(c)
    PROVE  Proxied(c)'
<1>1. xset \in SUBSET Client
  BY DEF Typed, KernelTyped
<1>2. xset' \in SUBSET Client /\ xset \subseteq xset'
  BY <1>1
<1> QED BY <1>2, NilAssumption DEF Proxied

\* The steps of tunnel_apply leave Xray alone, and an apply stops a tunnel only
\* where no client has one.
LEMMA TunnelStepsKeepXray ==
    ASSUME Typed, kind \notin Stopping,
           \/ NoTunnels \/ InvalidTunnels \/ StartRefresh \/ StartRebuild
           \/ CollectApplied \/ TablesUnwritten
           \/ \E p \in Pair : SlotStep(p) \/ ReleaseSlot(p) \/ RefreshSlot(p)
           \/ SlotsDone \/ FinishSwap \/ Swap \/ ReleaseDone \/ Record \/ WriteReady
           \/ JumpsEnsure \/ RefreshReady \/ StopChain \/ StopRules \/ StopTables
    PROVE  UNCHANGED <<xset, xjump>>
BY DEF NoTunnels, InvalidTunnels, StartRefresh, StartRebuild, CollectApplied, TablesUnwritten, SlotStep,
       ReleaseSlot, RefreshSlot, SlotsDone, FinishSwap, Swap, ReleaseDone, Record, WriteReady, JumpsEnsure,
       RefreshReady, StopChain, StopRules, StopTables, kernel

LEMMA PruneHandsOver ==
    ASSUME Typed, Handed, Prune, kind \notin Stopping, NEW c \in Client, Proxied(c)
    PROVE  /\ c \in want.xray => Proxied(c)'
           /\ c \in tunnel_clients => Path(c)' # "wan"
<1>1. /\ pc = "prune" /\ xset \in SUBSET Client /\ c \in xset /\ c \in xjump /\ want.xray \in SUBSET Client
      /\ UNCHANGED <<xjump, mark, rule, block, via>>
  BY ConfigTyped DEF Prune, Typed, KernelTyped, RunTyped, Proxied
<1>2. CASE UNCHANGED xset
  BY <1>1, <1>2 DEF Proxied, Path
<1>3. CASE xset' = want.xray \cup (xset \cap (IF kind = "all" THEN mem.uncarried ELSE tunnel_clients))
  <2>1. xset' # Nil
    BY <1>1, <1>3, NilAssumption
  <2>2. c \in xset' => Proxied(c)'
    BY <1>1, <2>1 DEF Proxied
  <2>3. CASE c \in xset'
    BY <2>2, <2>3 DEF Path
  <2>4. CASE c \notin xset'
    <3>1. c \notin want.xray /\ (c \in tunnel_clients => kind = "all" /\ c \notin mem.uncarried)
      BY <1>1, <1>3, <2>4
    <3>2. ASSUME c \in tunnel_clients PROVE TunnelPath(c) # "wan"
      BY <1>1, <3>1, <3>2, CarriedPath DEF Handed, Intact
    <3>3. TunnelPath(c)' = TunnelPath(c)
      BY <1>1 DEF TunnelPath
    <3>4. Path(c)' \in {"xray", TunnelPath(c)'}
      BY DEF Path
    <3> QED BY <3>1, <3>2, <3>3, <3>4
  <2> QED BY <2>3, <2>4
<1> QED BY <1>2, <1>3 DEF Prune

\* No step of an apply, a restart or an update lets go of a client Xray has: it
\* stays there while the config has it there, and a client on its way to a
\* tunnel is let go only where that carries or refuses it.
THEOREM MakeBeforeBreak == Spec => HandedOver
<1>1. ASSUME Typed, Typed', Handed, ScriptStep, kind \notin Stopping, NEW c \in Client, Proxied(c)
      PROVE  /\ c \in want.xray => Proxied(c)'
             /\ c \in tunnel_clients => Path(c)' # "wan"
  <2> USE <1>1
  <2>1. Proxied(c)' => Path(c)' = "xray"
    BY DEF Path
  <2>2. xset # Nil /\ want.xray \in SUBSET Client
    BY ConfigTyped DEF Proxied, Typed, RunTyped
  <2>3. CASE TproxySoftFail \/ SetupClients \/ SetupChain
    <3>1. UNCHANGED xset \/ (\E S \in SUBSET Client : xset' = xset \cup S)
      BY <2>2, <2>3 DEF TproxySoftFail, SetupClients, SetupChain
    <3>2. xjump \subseteq xjump'
      BY <2>3 DEF TproxySoftFail, SetupClients, SetupChain, Typed, KernelTyped
    <3> QED BY <2>1, <2>2, <3>1, <3>2, ProxiedStays
  <2>4. CASE Prune
    BY <2>4, PruneHandsOver
  <2>5. CASE StopXray
    BY <2>5 DEF StopXray, Typed, Commanded, Stopping
  <2>6. CASE UNCHANGED <<xset, xjump>>
    BY <2>1, <2>6 DEF Proxied
  <2> QED BY <2>3, <2>4, <2>5, <2>6, TunnelStepsKeepXray DEF ScriptStep
<1>2. Typed /\ Typed' /\ Handed /\ [Next]_vars =>
        [ScriptStep /\ kind \notin Stopping =>
            \A c \in Client : Proxied(c) =>
               /\ c \in want.xray => Proxied(c)'
               /\ c \in tunnel_clients => Path(c)' # "wan"]_vars
  BY <1>1
<1> QED BY <1>2, AlwaysTyped, AlwaysHanded, PTL DEF Spec, HandedOver

\* Where a client keeps a mark, its slot's block rule keeps it off the WAN.
LEMMA MarkedStaysIn ==
    ASSUME Typed', NEW c \in Client, mark'[c] # Nil, mark'[c][1] \in block => mark'[c][1] \in block'
    PROVE  TunnelPath(c)' # "wan" \/ mark'[c][1] \notin block \cup block'
<1>1. mark'[c] \in Pair /\ via' \in [Slot -> Tunnel \cup {Nil}]
  BY DEF Typed, KernelTyped, Mark
<1>2. mark'[c][1] \in Slot /\ "wan" \notin Tunnel \cup {Nil}
  BY <1>1, DirectorConstants DEF Pair
<1> QED BY <1>1, <1>2 DEF TunnelPath

\* The steps that keep every mark and every block rule.
LEMMA MarksStay ==
    ASSUME kind \notin Stopping,
           \/ TproxySoftFail \/ SetupClients \/ SetupChain \/ Prune
           \/ NoTunnels \/ InvalidTunnels \/ StartRefresh \/ StartRebuild
           \/ CollectApplied \/ TablesUnwritten
           \/ \E p \in Pair : SlotStep(p) \/ RefreshSlot(p)
           \/ SlotsDone \/ ReleaseDone \/ Record \/ WriteReady \/ JumpsEnsure \/ RefreshReady
           \/ StopXray \/ StopTables
    PROVE  UNCHANGED mark /\ block \subseteq block'
<1>1. CASE TproxySoftFail \/ SetupClients \/ SetupChain \/ Prune \/ StopXray \/ StopTables
  BY <1>1 DEF TproxySoftFail, SetupClients, SetupChain, Prune, StopXray, StopTables
<1>2. CASE NoTunnels \/ InvalidTunnels \/ StartRefresh \/ StartRebuild \/ CollectApplied
           \/ TablesUnwritten \/ SlotsDone \/ ReleaseDone \/ Record \/ WriteReady \/ JumpsEnsure
           \/ RefreshReady
  BY <1>2 DEF NoTunnels, InvalidTunnels, StartRefresh, StartRebuild, CollectApplied, TablesUnwritten,
     SlotsDone, ReleaseDone, Record, WriteReady, JumpsEnsure, RefreshReady, kernel
<1>3. CASE \E p \in Pair : SlotStep(p) \/ RefreshSlot(p)
  BY <1>3 DEF SlotStep, RefreshSlot, EnsureSlot, UnrouteSlot, BlockEnsure
<1> QED BY <1>1, <1>2, <1>3

\* The new chain marks every client that has a slot and was not refused.
LEMMA SwapMarks ==
    ASSUME Typed, Laid, Swap, NEW c \in tunnel_clients, mark[c] # Nil, HasSlot(Recorded, want.tun[c])
    PROVE  c \in mem'.refused \/ mark'[c] # Nil
<1>1. /\ mem \in Memory /\ pc = "swap" /\ Recorded \subseteq Pair /\ mem.layout \subseteq Pair
      /\ c \in ClientsOf(want.tun[c]) /\ c \in Client
  BY DEF Swap, Typed, RunTyped, FilesTyped, Recorded, Memory, tunnel_clients, ClientsOf
<1>2. HasSlot(mem.layout, want.tun[c])
  <2>1. PICK p \in Recorded : p[2] = want.tun[c]
    BY DEF HasSlot
  <2>2. p \in mem.layout
    BY <1>1, <2>1 DEF Laid
  <2> QED BY <2>1, <2>2 DEF HasSlot
<1>3. PICK refused : /\ \E M : MoveTo(BuiltChain(refused), M)
                     /\ Swapped(refused) \/ SwapFailed(refused)
  BY SwapCases DEF Swapped
<1>4. mem'.refused = refused
  BY <1>1, <1>3, SwappedFields, SwapFailedFields
<1>5. c \notin refused => BuiltChain(refused)[c] \in Pair
  BY <1>1, <1>2, ChainMarks DEF HasSlot
<1> QED BY <1>1, <1>3, <1>4, <1>5, DirectorConstants DEF MoveTo

\* A tunnel client comes out on the WAN through no step of an apply, a restart
\* or an update, but for the four reasons the property names.
THEOREM NothingLeaks == Spec => NoLeak
<1>1. ASSUME Typed, Typed', Routed, Laid, ScriptStep, kind \notin Stopping, NEW c \in tunnel_clients,
             TunnelPath(c) # "wan"
      PROVE  \/ TunnelPath(c)' # "wan"
             \/ shadow # Nil \/ c \in mem'.refused
             \/ mark'[c] # Nil /\ mark'[c][1] \notin block \cup block'
             \/ \A p \in Recorded : p[2] # want.tun[c]
  <2> USE <1>1
  <2>1. c \in Client /\ mark[c] # Nil
    BY DEF tunnel_clients, TunnelPath
  <2>2. CASE UNCHANGED mark /\ block \subseteq block'
    BY <2>1, <2>2, MarkedStaysIn
  <2>3. CASE FinishSwap
    BY <2>3 DEF FinishSwap
  <2>4. CASE Swap
    <3>1. UNCHANGED block
      BY <2>4 DEF Swap
    <3> QED BY <2>1, <2>4, <3>1, SwapMarks, MarkedStaysIn DEF HasSlot
  <2>5. ASSUME NEW p \in Pair, ReleaseSlot(p) PROVE TunnelPath(c)' # "wan" \/ mark'[c][1] \notin block \cup block'
    <3>1. /\ pc = "release" /\ p \in mem.todo /\ UNCHANGED mark /\ block' \in {block, block \ {p[1]}}
      BY <2>5 DEF ReleaseSlot
    <3>2. mark[c] \in mem.layout /\ mark[c] \in Recorded /\ p \in Recorded \ mem.layout
          /\ Recorded \subseteq Pair
      BY <2>1, <3>1 DEF Laid, Routed, MarksIn, Typed, FilesTyped, Recorded
    <3>3. mark[c][1] # p[1]
      <4>1. mark[c] # p /\ (mark[c][1] = p[1] => mark[c][2] = p[2])
        BY <3>2 DEF Routed, OneToOne
      <4> QED BY <3>2, <4>1 DEF Pair
    <3> QED BY <2>1, <3>1, <3>3, MarkedStaysIn
  <2>6. CASE StopChain \/ StopRules
    <3>1. tunnel_clients = {}
      BY <2>6 DEF StopChain, StopRules, Typed, Commanded, StopPart, Stopping
    <3> QED BY <3>1
  <2>7. mark'[c] # Nil \/ ~\E p \in Pair : ReleaseSlot(p)
    BY <2>1 DEF ReleaseSlot
  <2> QED BY <2>2, <2>3, <2>4, <2>5, <2>6, <2>7, MarksStay DEF ScriptStep
<1>2. Typed /\ Typed' /\ Routed /\ Laid /\ [Next]_vars =>
        [ScriptStep /\ kind \notin Stopping =>
            \A c \in tunnel_clients :
               TunnelPath(c) # "wan" =>
                  \/ TunnelPath(c)' # "wan"
                  \/ shadow # Nil \/ c \in mem'.refused
                  \/ mark'[c] # Nil /\ mark'[c][1] \notin block \cup block'
                  \/ \A p \in Recorded : p[2] # want.tun[c]]_vars
  BY <1>1
<1> QED BY <1>2, AlwaysTyped, AlwaysRouted, PTL DEF Spec, NoLeak

=============================================================================

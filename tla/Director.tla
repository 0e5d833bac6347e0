------------------------------ MODULE Director ------------------------------
(***************************************************************************)
(* vpn-director.sh: apply, restart, update and stop, over the routing      *)
(* state they leave in the kernel and in /tmp.                             *)
(*                                                                         *)
(* The script takes its lock before it reads the config, so one run        *)
(* follows another, each with the config it finds.  A run is a sequence of *)
(* steps; any command of a step may be refused, the script may be killed   *)
(* between two steps, the firmware may flush the mangle table and a        *)
(* tunnel's interface may go and come back at any moment.                  *)
(*                                                                         *)
(* A tunnel has a slot: its fwmark, its ip rules and - on KeeneticOS, and  *)
(* for an interface tunnel everywhere - its routing table.  How a chain is *)
(* swapped is module ChainSwap's; here a swap moves some of the clients,   *)
(* all of them or none.                                                    *)
(***************************************************************************)
EXTENDS Naturals, FiniteSets, FiniteSetsExt, Functions

CONSTANTS
    Client,      \* LAN clients; each reaches the router by one interface
    Tunnel,      \* tunnel ids
    Slots,       \* how many slots the mark field has
    Configs,     \* the configs a run may find
    MaxFaults,   \* bound on the steps in which something is refused, killed or lost
    Nil          \* nothing: no tunnel, no mark, no file

Slot == 0 .. Slots - 1

\* What config.sh makes of vpn-director.json, paused clients subtracted: the
\* Xray clients, each client's tunnel, the failover tunnel and the clients of
\* the failover's snapshot.  A client staged for a failover is on both.
Config == [xray : SUBSET Client, tun : [Client -> Tunnel \cup {Nil}],
           fo : Tunnel \cup {Nil}, snap : SUBSET Client]

Pair == Slot \X Tunnel

Mark == Pair \cup {Nil}

\* apply, restart or update of a component, and stop of one.
Stopping == {"stop", "stop tunnel", "stop xray"}
Kind == {"all", "tunnel", "xray"} \cup Stopping

\* "idle": no run yet, or the last one died; "done": the last one returned 0.
Step == {"idle", "done", "clients", "chain", "tunnel", "collect", "slots", "swap", "release",
         "record", "ready", "refresh", "refreshed", "stopXray", "stopChain", "stopRules",
         "stopTables", "prune"}

ASSUME DirectorConstants ==
    /\ Slots \in Nat \ {0}
    /\ Configs \subseteq Config
    /\ MaxFaults \in Nat
    /\ Nil \notin Tunnel \cup Pair
    /\ {"xray", "wan", "refused"} \cap (Tunnel \cup {Nil}) = {}

VARIABLES
    xset,        \* ipset XRAY_CLIENTS, or Nil
    xjump,       \* the clients whose interface jumps to a whole XRAY_TPROXY
    mark,        \* the MARK rule each client's packets meet in TUN_DIR
    shadow,      \* the TUN_DIR_NEW an interrupted swap left jumps to, or Nil
    rule,        \* slots whose lookup rule is in place
    block,       \* slots whose block rule is in place
    via,         \* the tunnel each slot's table routes into
    up,          \* tunnels whose interface is up
    tables,      \* TUN_DIR_TABLES, or Nil
    hash,        \* TUN_DIR_HASH, or Nil
    xready,      \* the TPROXY ready marker
    foReady      \* the tunnel the failover ready marker names, or Nil

VARIABLES
    pc,          \* the running script
    kind,        \* its command and component
    want,        \* the config it read
    mem,         \* its other variables, gone when it ends
    disturbed,   \* ghost: a flush or an interface changed since the run began
    faults       \* how many faults are still to come

\* layout: the slots of the new layout; fresh: those of them TUN_DIR_TABLES did
\* not hold; todo: slots the current step has not come to; unlisted: tunnels
\* the platform does not list this time; uncarried: TUNNEL_UNCARRIED; complete,
\* foOk: nothing keeps the hash, or the failover marker, from being written;
\* clientsOk: every Xray client is in XRAY_CLIENTS; refused: ghost, the clients
\* whose MARK rule the chain just built lacks.
Memory == [layout : SUBSET Pair, fresh : SUBSET Pair, todo : SUBSET Pair,
           unlisted : SUBSET Tunnel, uncarried : SUBSET Client, complete : BOOLEAN,
           foOk : BOOLEAN, clientsOk : BOOLEAN, refused : SUBSET Client]

NoMemory == [layout |-> {}, fresh |-> {}, todo |-> {}, unlisted |-> {}, uncarried |-> {},
             complete |-> TRUE, foOk |-> TRUE, clientsOk |-> TRUE, refused |-> {}]

kernel == <<xset, xjump, mark, shadow, rule, block, via, up>>
files  == <<tables, hash, xready, foReady>>
run    == <<kind, want>>
env    == <<disturbed, faults>>
vars   == <<kernel, files, pc, run, mem, env>>

-----------------------------------------------------------------------------
(* Where a packet goes                                                     *)

Proxied(c) == c \in xjump /\ xset # Nil /\ c \in xset

TunnelPath(c) ==
    IF mark[c] = Nil THEN "wan"
    ELSE LET s == mark[c][1]
         IN  IF s \in rule /\ via[s] # Nil THEN via[s]
             ELSE IF s \in block THEN "refused" ELSE "wan"

\* XRAY_TPROXY comes before TUN_DIR.
Path(c) == IF Proxied(c) THEN "xray" ELSE TunnelPath(c)

-----------------------------------------------------------------------------
(* Helpers                                                                 *)

\* A step in which b: something is refused, killed or lost.
Faulty(b) == IF b THEN faults > 0 /\ faults' = faults - 1 ELSE UNCHANGED faults
Fault == Faulty(TRUE)
Smooth == Faulty(FALSE)

\* Nothing disturbs the router any more.
calm == faults = 0

\* The script goes on, or ends: killed, refused or with a return code of 0.
Goto(step) == pc' = step /\ UNCHANGED mem
End(how) == pc' = how /\ mem' = NoMemory

ClientsOf(t) == {c \in Client : want.tun[c] = t}

tunnel_clients == {c \in Client : want.tun[c] # Nil}

\* The snapshot clients that are still on the failover tunnel.
FailoverClients == IF want.fo = Nil THEN {} ELSE want.snap \cap ClientsOf(want.fo)

\* The part of the config the hash covers.
HashOf(f) == <<f.tun, f.fo, f.snap>>

ASSUME NilAssumption ==
    /\ \A S \in SUBSET Client : S # Nil
    /\ \A S \in SUBSET Pair : S # Nil
    /\ \A f \in Configs : HashOf(f) # Nil

Recorded == IF tables = Nil THEN {} ELSE tables

AfterTunnel == IF kind = "all" THEN Goto("prune") ELSE End("done")

-----------------------------------------------------------------------------
(* A run begins                                                            *)

Begin(k, f) ==
    /\ pc \in {"idle", "done"}
    /\ kind' = k
    /\ want' = f
    /\ Goto(CASE k \in {"all", "xray"} -> "clients" [] k = "tunnel" -> "tunnel"
              [] k \in {"stop", "stop xray"} -> "stopXray" [] k = "stop tunnel" -> "stopChain")
    /\ disturbed' = FALSE
    /\ UNCHANGED <<kernel, files, faults>>

-----------------------------------------------------------------------------
(* tproxy_apply: adds, and removes nobody                                  *)

AfterTproxy == IF kind = "all" THEN "tunnel" ELSE "prune"

\* No xt_TPROXY, or an exclusion set missing: readiness goes, and a live
\* XRAY_CLIENTS still gets every client.
TproxySoftFail ==
    /\ pc = "clients"
    /\ Fault
    /\ xready' = FALSE
    /\ \/ xset = Nil /\ UNCHANGED xset
       \/ xset # Nil /\ \E S \in SUBSET want.xray : xset' = xset \cup S
    /\ Goto(AfterTproxy)
    /\ UNCHANGED <<xjump, mark, shadow, rule, block, via, up, tables, hash, foReady, run, disturbed>>

\* _tproxy_setup_clients_ipset.
SetupClients ==
    /\ pc = "clients"
    /\ \/ xset = Nil /\ Fault /\ UNCHANGED xset /\ mem' = [mem EXCEPT !.clientsOk = FALSE]
       \/ \E S \in SUBSET want.xray :
             /\ Faulty(S # want.xray)
             /\ xset' = (IF xset = Nil THEN {} ELSE xset) \cup S
             /\ mem' = [mem EXCEPT !.clientsOk = (S = want.xray)]
    /\ pc' = "chain"
    /\ UNCHANGED <<xjump, mark, shadow, rule, block, via, up, files, run, disturbed>>

\* Mutant: ready once the chain is in, whatever the set took.
SetupChain_Ready ==
    /\ pc = "chain"
    /\ Smooth
    /\ xjump' = IF xset = Nil THEN xjump ELSE Client
    /\ xready' = (xset # Nil)
    /\ Goto(AfterTproxy)
    /\ UNCHANGED <<xset, mark, shadow, rule, block, via, up, tables, hash, foReady, run, disturbed>>

\* _tproxy_setup_iptables: the chain names XRAY_CLIENTS, so without that set it
\* cannot be built.
SetupChain ==
    /\ pc = "chain"
    /\ \/ xset # Nil /\ Smooth /\ xjump' = Client /\ xready' = mem.clientsOk
       \/ /\ Faulty(xset # Nil)
          /\ \E M \in SUBSET Client : (xset = Nil => M = {}) /\ xjump' = xjump \cup M
          /\ xready' = FALSE
    /\ Goto(AfterTproxy)
    /\ UNCHANGED <<xset, mark, shadow, rule, block, via, up, tables, hash, foReady, run, disturbed>>

-----------------------------------------------------------------------------
(* tunnel_apply                                                            *)

_tunnel_marks_present ==
    \A p \in Recorded : \A c \in ClientsOf(p[2]) : mark[c] # Nil /\ mark[c][1] = p[1]

\* Mutant: the recorded hash alone.
UpToDate_HashOnly == hash = HashOf(want) /\ tables # Nil

UpToDate == hash = HashOf(want) /\ tables # Nil /\ _tunnel_marks_present

\* No tunnel in the config: what is left of one is torn down.  A config whose
\* tunnels have no clients is applied like any other.
NoTunnels ==
    /\ pc = "tunnel"
    /\ tunnel_clients = {}
    /\ \/ Goto("stopChain")
       \/ hash = Nil /\ tables = Nil /\ mark = [c \in Client |-> Nil] /\ AfterTunnel
    /\ UNCHANGED <<kernel, files, run, env>>

\* A config tunnel_apply refuses: the run ends before its prune.
InvalidTunnels ==
    /\ pc = "tunnel"
    /\ Fault
    /\ End("idle")
    /\ UNCHANGED <<kernel, files, run, disturbed>>

StartRefresh ==
    /\ pc = "tunnel"
    /\ UpToDate
    /\ pc' = "refresh"
    /\ mem' = [mem EXCEPT !.todo = Recorded]
    /\ UNCHANGED <<kernel, files, run, env>>

\* The hash and the failover marker go first; a platform that cannot name its
\* LAN interfaces ends the run.  A restart rebuilds what is up to date, too.
StartRebuild ==
    /\ pc = "tunnel"
    /\ hash' = Nil
    /\ foReady' = Nil
    /\ \/ Smooth /\ Goto("collect")
       \/ Fault /\ End("idle")
    /\ UNCHANGED <<kernel, tables, xready, run, disturbed>>

\* The recorded slots of tunnels that keep theirs.
Kept_None(needed) == {}
Kept(needed) == {p \in Recorded : p[2] \in needed}

\* Mutant: a slot this apply frees is handed out at once.
FreeSlots_Dropped == Slot \ {p[1] : p \in {q \in Recorded : ClientsOf(q[2]) # {}}}
FreeSlots == Slot \ {p[1] : p \in Recorded}

LowestFree(n) == {s \in FreeSlots : Cardinality({r \in FreeSlots : r < s}) < n}

\* _tunnel_collect_applied: a recorded tunnel keeps its slot, a new one takes
\* the lowest slot neither layout holds, in the order of the config's keys,
\* while there is one.  A tunnel the platform does not list keeps its slot, and
\* its clients are reported.  TUN_DIR_TABLES then holds both layouts.
CollectApplied ==
    /\ pc = "collect"
    /\ LET needed == {t \in Tunnel : ClientsOf(t) # {}}
           kept   == Kept(needed)
           new    == needed \ {p[2] : p \in kept}
           room   == Min({Cardinality(new), Cardinality(FreeSlots)})
       IN  \E U \in SUBSET needed, placed \in kSubset(room, new) :
           \E at \in Bijection(placed, LowestFree(room)) :
              LET added == {<<at[t], t>> : t \in placed}
              IN  /\ Faulty(U # {})
                  /\ tables' = Recorded \cup added
                  /\ pc' = "slots"
                  /\ mem' = [mem EXCEPT
                         !.layout = kept \cup added, !.fresh = added, !.todo = kept \cup added,
                         !.unlisted = U,
                         !.uncarried = UNION {ClientsOf(t) : t \in U \cup (new \ placed)},
                         !.complete = (U = {} /\ placed = new)]
    /\ UNCHANGED <<kernel, hash, xready, foReady, run, disturbed>>

\* TUN_DIR_TABLES cannot be written.
TablesUnwritten ==
    /\ pc \in {"collect", "release"}
    /\ Fault
    /\ End("idle")
    /\ UNCHANGED <<kernel, files, run, disturbed>>

\* Mutant: the clients of a slot that did not go in are not reported.
SlotDone_Silent(p, ok) ==
    mem' = [mem EXCEPT !.todo = mem.todo \ {p}, !.foOk = mem.foOk /\ (ok \/ p[2] # want.fo)]

\* The slot of p is done; unless all of it went in, its clients are reported
\* and its failover is not ready.
SlotDone(p, ok) ==
    mem' = [mem EXCEPT !.todo = mem.todo \ {p},
                       !.uncarried = IF ok THEN mem.uncarried ELSE mem.uncarried \cup ClientsOf(p[2]),
                       !.foOk = mem.foOk /\ (ok \/ p[2] # want.fo)]

BlockEnsure(s, ok) ==
    /\ ok \/ s \notin block
    /\ block' = IF ok THEN block \cup {s} ELSE block

\* The route of a slot: a fresh one starts from an empty table; one that does
\* not go in leaves the table as it was or without its route.
RouteEnsure(p, ok) ==
    /\ ok => p[2] \in up
    /\ \E left \in {Nil} \cup (IF p \in mem.fresh THEN {} ELSE {via[p[1]]}) :
          via' = [via EXCEPT ![p[1]] = IF ok THEN p[2] ELSE left]

\* A lookup rule in place stays; on a fresh slot what is there makes way.
RuleEnsure(p, ok) ==
    /\ ok \/ p[1] \notin rule \/ p \in mem.fresh
    /\ rule' = IF ok THEN rule \cup {p[1]} ELSE rule \ {p[1]}

EnsureSlot(p) ==
    \E blockOk, routeOk, ruleOk \in BOOLEAN :
       /\ BlockEnsure(p[1], blockOk)
       /\ RouteEnsure(p, routeOk)
       /\ RuleEnsure(p, ruleOk)
       /\ Faulty(~blockOk \/ ~ruleOk \/ (~routeOk /\ p[2] \in up))
       /\ SlotDone(p, blockOk /\ routeOk /\ ruleOk)

\* _tunnel_unroute: a tunnel nobody lists keeps its block rule alone.
UnrouteSlot(p) ==
    /\ p[2] \in mem.unlisted
    /\ \E blockOk, ruleGone \in BOOLEAN :
          /\ BlockEnsure(p[1], blockOk)
          /\ rule' = IF ruleGone THEN rule \ {p[1]} ELSE rule
          /\ Faulty(~blockOk \/ ~ruleGone)
    /\ via' = [via EXCEPT ![p[1]] = Nil]
    /\ SlotDone(p, FALSE)

SlotStep(p) ==
    /\ pc = "slots"
    /\ p \in mem.todo
    /\ EnsureSlot(p) \/ UnrouteSlot(p)
    /\ UNCHANGED <<xset, xjump, mark, shadow, up, files, pc, run, disturbed>>

SlotsDone ==
    /\ pc = "slots"
    /\ mem.todo = {}
    /\ Goto("swap")
    /\ UNCHANGED <<kernel, files, run, env>>

\* Some of the clients are on the new chain: the ones whose interface moved.
MoveTo(chain, M) == mark' = [c \in Client |-> IF c \in M THEN chain[c] ELSE mark[c]]

\* The chain did not take over every interface.
SwapFailed(refused) ==
    /\ pc' = "record"
    /\ mem' = [mem EXCEPT !.uncarried = mem.uncarried \cup tunnel_clients, !.complete = FALSE,
                          !.foOk = FALSE, !.refused = refused]

\* swap_fw_chain finishes the cutover an interrupted swap left.
FinishSwap ==
    /\ pc = "swap"
    /\ shadow # Nil
    /\ \/ Smooth /\ MoveTo(shadow, Client) /\ shadow' = Nil /\ UNCHANGED <<pc, mem>>
       \/ /\ Fault
          /\ \E M \in SUBSET Client : MoveTo(shadow, M)
          /\ SwapFailed({})
          /\ UNCHANGED shadow
    /\ UNCHANGED <<xset, xjump, rule, block, via, up, files, run, disturbed>>

\* Mutant: a tunnel the platform does not list is skipped.
BuiltChain_ListedOnly(refused) ==
    [c \in Client |->
        IF c \in refused \/ ~\E p \in mem.layout : p[2] = want.tun[c] /\ p[2] \notin mem.unlisted
        THEN Nil ELSE CHOOSE p \in mem.layout : p[2] = want.tun[c]]

\* The chain _tunnel_build_chain makes, but for the clients whose MARK rule was
\* refused.
BuiltChain(refused) ==
    [c \in Client |->
        IF c \in refused \/ ~\E p \in mem.layout : p[2] = want.tun[c] THEN Nil
        ELSE CHOOSE p \in mem.layout : p[2] = want.tun[c]]

Swap ==
    /\ pc = "swap"
    /\ shadow = Nil
    /\ \E refused \in SUBSET tunnel_clients :
          /\ \/ /\ Faulty(refused # {})
                /\ MoveTo(BuiltChain(refused), Client)
                /\ UNCHANGED shadow
                /\ pc' = "release"
                /\ mem' = [mem EXCEPT
                       !.uncarried = mem.uncarried \cup refused,
                       !.complete  = mem.complete /\ refused = {},
                       !.foOk      = mem.foOk /\ refused \cap FailoverClients = {},
                       !.todo      = Recorded \ mem.layout,
                       !.refused   = refused]
             \/ /\ Fault
                /\ \E M \in SUBSET Client :
                      /\ MoveTo(BuiltChain(refused), M)
                      /\ shadow' = IF M = {} THEN Nil ELSE BuiltChain(refused)
                /\ SwapFailed(refused)
    /\ UNCHANGED <<xset, xjump, rule, block, via, up, files, run, disturbed>>

\* _tunnel_slot_release: a slot the new layout dropped.
ReleaseSlot(p) ==
    /\ pc = "release"
    /\ p \in mem.todo
    /\ mem' = [mem EXCEPT !.todo = mem.todo \ {p}]
    /\ \E ruleGone, blockGone \in BOOLEAN :
          /\ rule' = IF ruleGone THEN rule \ {p[1]} ELSE rule
          /\ block' = IF blockGone THEN block \ {p[1]} ELSE block
          /\ Faulty(~ruleGone \/ ~blockGone)
    /\ via' = [via EXCEPT ![p[1]] = Nil]
    /\ UNCHANGED <<xset, xjump, mark, shadow, up, files, pc, run, disturbed>>

ReleaseDone ==
    /\ pc = "release"
    /\ mem.todo = {}
    /\ tables' = mem.layout
    /\ Goto("record")
    /\ UNCHANGED <<kernel, hash, xready, foReady, run, env>>

Record ==
    /\ pc = "record"
    /\ hash' = IF mem.complete THEN HashOf(want) ELSE hash
    /\ Goto("ready")
    /\ UNCHANGED <<kernel, tables, xready, foReady, run, env>>

\* Mutant: the layout alone.
ReadyMarker_Layout(T, ok) ==
    IF want.fo # Nil /\ ClientsOf(want.fo) # {} /\ \E p \in T : p[2] = want.fo THEN want.fo ELSE Nil

\* The marker, where the failover tunnel has clients and a slot of T.
ReadyMarker(T, ok) ==
    IF want.fo # Nil /\ ClientsOf(want.fo) # {} /\ ok /\ \E p \in T : p[2] = want.fo
    THEN want.fo ELSE Nil

WriteReady ==
    /\ pc = "ready"
    /\ foReady' = ReadyMarker(mem.layout, mem.foOk)
    /\ AfterTunnel
    /\ UNCHANGED <<kernel, tables, hash, xready, run, env>>

\* _tunnel_ensure_routes, on the up-to-date path.
RefreshSlot(p) ==
    /\ pc = "refresh"
    /\ p \in mem.todo
    /\ EnsureSlot(p)
    /\ UNCHANGED <<xset, xjump, mark, shadow, up, files, pc, run, disturbed>>

\* _tunnel_jumps_ensure: only a flush takes a jump from under a recorded hash.
JumpsEnsure ==
    /\ pc = "refresh"
    /\ mem.todo = {}
    /\ pc' = "refreshed"
    /\ \/ Smooth /\ UNCHANGED mem
       \/ /\ Fault /\ disturbed
          /\ mem' = [mem EXCEPT !.uncarried = mem.uncarried \cup tunnel_clients, !.foOk = FALSE]
    /\ UNCHANGED <<kernel, files, run, disturbed>>

RefreshReady ==
    /\ pc = "refreshed"
    /\ foReady' = ReadyMarker(Recorded, mem.foOk)
    /\ AfterTunnel
    /\ UNCHANGED <<kernel, tables, hash, xready, run, env>>

-----------------------------------------------------------------------------
(* tproxy_prune: only now the clients that left Xray are let go            *)

\* Mutant: no keep list.
Prune_All ==
    /\ pc = "prune"
    /\ xset' = IF xset = Nil THEN Nil ELSE want.xray
    /\ Smooth
    /\ End("done")
    /\ UNCHANGED <<xjump, mark, shadow, rule, block, via, up, files, run, disturbed>>

Prune ==
    /\ pc = "prune"
    /\ \/ xset # Nil /\ Smooth /\ xset' = want.xray \cup (xset \cap (IF kind = "all" THEN mem.uncarried
                                                          ELSE tunnel_clients))
       \/ Faulty(xset # Nil) /\ UNCHANGED xset
    /\ End("done")
    /\ UNCHANGED <<xjump, mark, shadow, rule, block, via, up, files, run, disturbed>>

-----------------------------------------------------------------------------
(* tproxy_stop, tunnel_stop                                                *)

\* The jumps are purged and the chain is deleted; one that does not go ends the
\* run, whatever part of the clients has lost its jump by then.
StopXray ==
    /\ pc = "stopXray"
    /\ \/ /\ xjump' = {}
          /\ (Smooth /\ xset' = Nil) \/ (Fault /\ UNCHANGED xset)
          /\ xready' = FALSE
          /\ IF kind = "stop" THEN Goto("stopChain") ELSE End("done")
       \/ /\ Fault
          /\ xjump' \in SUBSET xjump
          /\ UNCHANGED <<xset, xready>>
          /\ End("idle")
    /\ UNCHANGED <<mark, shadow, rule, block, via, up, tables, hash, foReady, run, disturbed>>

StopChain ==
    /\ pc = "stopChain"
    /\ \/ Smooth /\ MoveTo([c \in Client |-> Nil], Client) /\ shadow' = Nil /\ Goto("stopRules")
       \/ /\ Fault
          /\ \E M \in SUBSET Client : MoveTo([c \in Client |-> Nil], M)
          /\ shadow' \in {shadow, Nil}
          /\ End("idle")
    /\ UNCHANGED <<xset, xjump, rule, block, via, up, files, run, disturbed>>

StopRules ==
    /\ pc = "stopRules"
    /\ rule' \in SUBSET rule
    /\ block' \in SUBSET block
    /\ Faulty(rule' \cup block' # {})
    /\ Goto("stopTables")
    /\ UNCHANGED <<xset, xjump, mark, shadow, via, up, files, run, disturbed>>

StopTables ==
    /\ pc = "stopTables"
    /\ via' = [s \in Slot |-> IF \E p \in Recorded : p[1] = s THEN Nil ELSE via[s]]
    /\ tables' = Nil
    /\ \/ Smooth /\ hash' = Nil /\ foReady' = Nil /\ AfterTunnel
       \/ Fault /\ UNCHANGED <<hash, foReady>> /\ End("idle")
    /\ UNCHANGED <<xset, xjump, mark, shadow, rule, block, up, xready, run, disturbed>>

-----------------------------------------------------------------------------
(* The environment                                                         *)

Kill ==
    /\ pc \notin {"idle", "done"}
    /\ Fault
    /\ End("idle")
    /\ UNCHANGED <<kernel, files, run, disturbed>>

\* Merlin's "iptables -t mangle -F".
Flush ==
    /\ Fault
    /\ mark' = [c \in Client |-> Nil]
    /\ shadow' = Nil
    /\ xjump' = {}
    /\ disturbed' = TRUE
    /\ UNCHANGED <<xset, rule, block, via, up, files, pc, run, mem>>

\* An interface that goes takes its routes along.
LinkDown(t) ==
    /\ Fault
    /\ t \in up
    /\ up' = up \ {t}
    /\ via' = [s \in Slot |-> IF via[s] = t THEN Nil ELSE via[s]]
    /\ disturbed' = TRUE
    /\ UNCHANGED <<xset, xjump, mark, shadow, rule, block, files, pc, run, mem>>

LinkUp(t) ==
    /\ t \notin up
    /\ up' = up \cup {t}
    /\ UNCHANGED <<xset, xjump, mark, shadow, rule, block, via, files, pc, run, mem, env>>

\* No more faults come.
CalmDown ==
    /\ ~calm
    /\ faults' = 0
    /\ UNCHANGED <<kernel, files, pc, run, mem, disturbed>>

-----------------------------------------------------------------------------
\* A router that has just booted.
Init ==
    /\ xset = Nil /\ xjump = {} /\ mark = [c \in Client |-> Nil] /\ shadow = Nil
    /\ rule = {} /\ block = {} /\ via = [s \in Slot |-> Nil] /\ up \in SUBSET Tunnel
    /\ tables = Nil /\ hash = Nil /\ xready = FALSE /\ foReady = Nil
    /\ pc = "idle" /\ kind = "all" /\ want \in Configs /\ mem = NoMemory
    /\ disturbed = FALSE /\ faults = MaxFaults

\* One step of the running script.
ScriptStep ==
    \/ TproxySoftFail \/ SetupClients \/ SetupChain
    \/ NoTunnels \/ InvalidTunnels \/ StartRefresh \/ StartRebuild
    \/ CollectApplied \/ TablesUnwritten
    \/ \E p \in Pair : SlotStep(p) \/ ReleaseSlot(p) \/ RefreshSlot(p)
    \/ SlotsDone \/ FinishSwap \/ Swap \/ ReleaseDone \/ Record \/ WriteReady
    \/ JumpsEnsure \/ RefreshReady \/ Prune
    \/ StopXray \/ StopChain \/ StopRules \/ StopTables

Environment ==
    \/ Kill \/ Flush \/ CalmDown
    \/ \E t \in Tunnel : LinkDown(t) \/ LinkUp(t)

Next ==
    \/ \E k \in Kind, f \in Configs : Begin(k, f)
    \/ ScriptStep
    \/ Environment

Spec == Init /\ [][Next]_vars

\* A router that settles: once no fault comes any more, nobody edits the config
\* or stops the router, and the applies of hooks, cron and the watch go on.
SettledApply == calm /\ Begin("all", want)

SettlingNext ==
    \/ \E k \in Kind, f \in Configs : ~calm /\ Begin(k, f)
    \/ SettledApply
    \/ ScriptStep
    \/ Environment

FairSpec == Init /\ [][SettlingNext]_vars /\ WF_vars(ScriptStep) /\ WF_vars(SettledApply)

-----------------------------------------------------------------------------
(* Properties                                                              *)

\* Type correctness; no slot is given twice and no tunnel has two.
TypeOK ==
    /\ xset \in (SUBSET Client) \cup {Nil}
    /\ xjump \in SUBSET Client
    /\ mark \in [Client -> Mark]
    /\ shadow \in [Client -> Mark] \cup {Nil}
    /\ rule \in SUBSET Slot /\ block \in SUBSET Slot
    /\ via \in [Slot -> Tunnel \cup {Nil}]
    /\ up \in SUBSET Tunnel
    /\ tables \in (SUBSET Pair) \cup {Nil}
    /\ \A p, q \in Recorded : p[1] = q[1] <=> p[2] = q[2]
    /\ hash \in {HashOf(f) : f \in Configs} \cup {Nil}
    /\ foReady \in Tunnel \cup {Nil}
    /\ {xready, disturbed} \subseteq BOOLEAN /\ faults \in 0 .. MaxFaults
    /\ pc \in Step /\ kind \in Kind /\ want \in Configs /\ mem \in Memory

\* A client marked for a tunnel never comes out of another one: no slot changes
\* hands while a chain still marks with it, whatever was killed in between.
NeverAnotherTunnel ==
    \A c \in Client : mark[c] # Nil => TunnelPath(c) \in {mark[c][2], "refused", "wan"}

\* An apply, a restart or an update makes before it breaks: a client Xray has
\* stays there while the config has it there, and one the config puts on a
\* tunnel is never let go to the WAN, whatever was refused, flushed or went down
\* meanwhile.
HandedOver ==
    [][ScriptStep /\ kind \notin Stopping =>
          \A c \in Client : Proxied(c) =>
             /\ c \in want.xray => Proxied(c)'
             /\ c \in tunnel_clients => Path(c)' # "wan"]_vars

\* Nor does a tunnel client that its tunnel carries or refuses come out on the
\* WAN.  What may cost it its way is its own MARK rule refused, a mark field with
\* no slot left for its tunnel, a slot whose block rule had been refused before
\* and is again, or the chain of an earlier, interrupted swap that comes first.
NoLeak ==
    [][ScriptStep /\ kind \notin Stopping =>
          \A c \in tunnel_clients :
             TunnelPath(c) # "wan" =>
                \/ TunnelPath(c)' # "wan"
                \/ shadow # Nil \/ c \in mem'.refused
                \/ mark'[c] # Nil /\ mark'[c][1] \notin block \cup block'
                \/ \A p \in Recorded : p[2] # want.tun[c]]_vars

\* TUNNEL_UNCARRIED is honest: when the prune reads it, every tunnel client it
\* does not name leaves through its tunnel.
ReportHonest ==
    pc = "prune" /\ kind = "all" /\ ~disturbed =>
        \A c \in tunnel_clients \ mem.uncarried : TunnelPath(c) = want.tun[c]

\* The failover marker the watch commits a failover on: after an apply that
\* left it, every failover client leaves through the failover tunnel.  A config
\* with nothing on a tunnel is the exception: its apply may find nothing to tear
\* down and leave the marker of a stop that died before it took it away.
FailoverReadyHonest ==
    pc = "done" /\ kind \in {"all", "tunnel"} /\ foReady # Nil /\ tunnel_clients # {} /\ ~disturbed =>
        /\ foReady = want.fo
        /\ \A c \in FailoverClients : TunnelPath(c) = want.fo

\* The TPROXY marker the watch begins a restore on: after an apply that left
\* it, every Xray client of the config is intercepted.
TproxyReadyHonest ==
    pc = "done" /\ kind \in {"all", "xray"} /\ xready /\ ~disturbed =>
        \A c \in want.xray : Proxied(c)

\* Where an applied config has a client: on Xray, out on the WAN, or in its
\* tunnel; while that is down it is refused, or still on Xray.
Placed(c) ==
    CASE c \in want.xray -> Path(c) = "xray"
      [] c \notin want.xray /\ want.tun[c] = Nil -> Path(c) = "wan"
      [] c \notin want.xray /\ want.tun[c] \in up -> Path(c) = want.tun[c]
      [] OTHER -> Path(c) \in {"refused", "xray"}

\* Whatever was refused, killed, flushed or half stopped before, once nothing
\* disturbs the router any more the applies that follow put every client where
\* the config has it, and it stays there.
EventuallyApplied == calm ~> []\A c \in Client : Placed(c)

=============================================================================

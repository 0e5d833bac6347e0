# A TLA+ model of VPN Director

VPN Director turns a home router (Asuswrt-Merlin or KeeneticOS) into a policy
router: each LAN client leaves through Xray (a TPROXY interception), through one
of the router's VPN tunnels ("Tunnel Director"), or directly. Three Go daemons
(Web UI, Telegram bot, `vpn-director-watchd`) edit one JSON file and run one
shell CLI, `vpn-director.sh`, which turns that file into iptables chains, ipsets,
ip rules and routing tables. The watch inside watchd moves all Xray clients to a
tunnel when Xray's outbound dies (a *failover*) and back when it recovers (a
*restore*).

What can go badly wrong is easy to say: a client's packets leave through the WAN
or through somebody else's tunnel, the user's own assignment of clients is lost in a
failover, Xray runs a server nobody chose, or the message that says so never comes.
None of it shows in a unit test of one function: it takes a kill between two
commands, a refused rule, a firmware flush, an answer that comes late, or an edit
between two writes of the watch.

## Inventory

| Component | State it keeps | Operations | Talks to | What is hard | What makes it correct |
|---|---|---|---|---|---|
| `vpnconfig` (failover, pending restore, clients) | `vpn-director.json`: `xray.clients`, `tunnel_director.tunnels`, `paused_clients`, `xray.failover`, `xray.pending_restore`, `xray.active_server` | stage, commit, extend, restore, begin restore, snapshot, detach, move | every daemon, under the config lock | several writers, several writes per failover | the user's assignment survives; no residue; one record |
| `subwatch` | its timers, probe history, and the records above | `Tick`: probe, declare dead, stage, apply, commit, extend, retarget, walk the servers, restore | `vpnconfig`, the CLI, ready markers in `/tmp` | timers, waits between check and use, stop marker | commits and restores only what the router carries; comes back |
| `webapi`, `handler`, `wizard`, `configure.sh` | dialogue state | add, move, pause, resume, delete, whole-assignment save, select a server | the config lock, the CLI | reads before the lock | a user's edit is final |
| `service`, `vpnconfig` (servers, subscriptions) | config lock, `config.json`, `active_server`, `preferred_server`, the subscription files | generate and record, refresh, add, delete | all daemons, panels | two files for one fact, downloads outside the lock | the file Xray runs is the one on record; no newer list is lost |
| `vpn-director.sh` | run lock, stop marker | `apply`, `restart`, `update`, `stop`, `ensure-routes` | hooks, cron, daemons | runs queue on a lock; any command can be refused; kill | make before break |
| `lib/tproxy.sh` | ipset `XRAY_CLIENTS`, chain `XRAY_TPROXY`, ready marker | `tproxy_apply`, `tproxy_prune`, `tproxy_stop` | `firewall.sh`, ipset | partial failure | marker honest |
| `lib/tunnel.sh`, `lib/iftunnel.sh` | chain `TUN_DIR`, slots (`TUN_DIR_TABLES`), lookup and block rules, tables, hash, failover marker | `tunnel_apply`, `tunnel_stop`, route repair | platform layer, `firewall.sh` | two layouts alive at once, stale hash, full mark field | kill switch; no slot reused while marked |
| `lib/firewall.sh` | two chains and the PREROUTING jumps | `swap_fw_chain` | iptables | interrupted swap | never without a whole chain |
| hooks, init scripts | - | `--wait apply` after a flush, WAN or link event | the run lock | queueing | an apply follows the last event |
| `monitor` | schedule, prober sessions, evidence | probe, apply a result, isolate a crash | Xray prober, the watch | late results, generations | counts only what was measured |
| `notifications`, `watchdapi` | event log, per-chat queues, epochs | publish, page, acknowledge, save, reload | Unix socket | crash between saves | no number used twice, an acknowledgement is for good |
| `bot` delivery, `chatstore`, PathManager | receipts, jobs, recipients, current path | sync, poll, send, acknowledge, select a path, report a failure | watchd, Telegram | lost and late answers, late failures | no event closed unsent, none repeated while its chat is listed, each that is kept delivered |
| `updater`, `updateflow`, `updatechecker` | update lock, payload directory | claim, download, hand over, reap | installer | stale-lock races | one update at a time |
| `watchcompat` | cached identity of the daemons | check | /proc | stale cache | refuses on doubt |
| `auth`, login limiter | attempts by address | allow, record | Web UI | window edge | bounded attempts |
| parsers (`subscription`, `lib/subscription.sh`), `netpath`, `ssrf`, `install.sh`, the web pages | none, or pure I/O | - | - | - | not modelled |

`PROJECT.json` has every component with its files and its status, and every
hazard at the line where it bites.

## Modules

| Module | Models | Used by |
|---|---|---|
| `FailoverConfig` | the config file and its writers | `MCFailoverConfig`, `FailoverConfigProofs` |
| `ChainSwap` | `swap_fw_chain`, command by command | `ChainSwapProofs` |
| `Director` | runs of `vpn-director.sh` over kernel and `/tmp` state | `MCDirector`, `DirectorProofs` |
| `Watch` | `Watch.Tick` and all it calls, over `FailoverConfig`'s file | `MCWatch`, `WatchProofs`; implements `FailoverConfig` |
| `Monitor` | the server monitor and `CheckEvidence` | `MCMonitor`, `MonitorProofs` |
| `Mailbox` | what the notification store promises | abstract; `NotificationStore`, `Delivery` |
| `NotificationStore` | watchd's notification store | `MCNotificationStore`, `NotificationStoreProofs`; implements `Mailbox` |
| `Delivery` | the bot's delivery of events, with its path manager | `MCDelivery`, `DeliveryProofs`; its watchd is a memory and a file |
| `Selection` | which server Xray runs: the user, the keeper, the refresh | `MCSelection`, `SelectionProofs` |

### FailoverConfig

`cfg` is the file: `xray`, `tun` (the clients of each tunnel), `keys` (the tunnels
in the file), `paused`, `fo` (`xray.failover`), `pend` (`xray.pending_restore`) and
`active` (the write counter of `active_server`, bounded by `MaxActive`). The
operators carry the names of the Go functions they translate. Each action is one
`UpdateVPNConfig` callback, which runs whole under the config lock. The bot's
`/clients` handlers read the file, show a menu and write later, so `BotReads` and
`BotWrites` are two actions. The watch's actions are the writes of `failOutbound`,
`applyFailover`, `extendFailover`, `retryOrSwitchFallback`/`watchFallback`,
`commitRestore` and `finalizeRestore`/`reconcileRestore`; *when* Tick makes them is
left open, so every property holds for any timing. A crash of watchd needs no
action of its own: all of its state in this model is in the file, and after any
prefix of its writes the users' actions and the recovery actions are enabled.

Two ghosts: `want`, the routes the user last gave each client, and `shared`, the
clients the user ever had on two routes at once. Nothing stops a wizard from
listing a client twice, and for such a client the record cannot tell which of the
two memberships is the failover's; the tunnel properties leave these out.

Abstracted: an address's spelling (`addrKey`, CIDR forms) - a client is one value;
`Carriable` is the set for which `TDCarries` is true. A failover record of an
older version (no `added` list: `legacy`) may be there at the start, with carriable
clients only, which is what that version staged.

### ChainSwap

`chain` holds `<chain>` ("live") and `<chain>_NEW` ("shadow"), each absent or with
the halves of its rules that are in; `jump` is the set of chains PREROUTING jumps to
for each interface. One action is one iptables command (a purge: one batch). Any
command may be refused, any existence check or listing may fail and be read the way
the code reads it, `Kill` ends the script between two commands, and `Flush` is the
firmware's `iptables -t mangle -F`. `MaxFaults` bounds these together.

### Director

Kernel state (`xset`, `xjump`, `mark`, `shadow`, `rule`, `block`, `via`, `up`) and
files (`tables`, `hash`, `xready`, `foReady`) survive a run; `mem` is the memory of
the running script. `Path(c)` says where a packet of client `c` goes: to Xray, into
a tunnel, refused by its slot's block rule (the kill switch), or out on the WAN.
`Begin` is a command with the config it found: the run lock is taken before the
config is read, so runs do not overlap. The steps then follow `tproxy_apply`
(`SetupClients`, `SetupChain`), `tunnel_apply` (`StartRefresh` or `StartRebuild`,
`CollectApplied`, one `SlotStep` per slot, `FinishSwap`/`Swap`, `ReleaseSlot`,
`Record`, `WriteReady`) and `tproxy_prune`. A swap is abstracted to its outcome -
ChainSwap is its detail: all clients on the new chain, some of them, or none.
A restart takes the rebuild path of an up-to-date config, an apply does not;
`StartRebuild` is therefore enabled also when `UpToDate`.

Not in Director: the `main` pseudo tunnel, Merlin's firmware-owned tables, a
changed `pref_base`, non-RFC1918 clients, the bypass set, the stop marker. Each
client is one address behind one interface, and a swap of `XRAY_TPROXY` that an
earlier run left half-way is not told from one that moved some interfaces. Flushing
a routing table is assumed not to be refused.

### Watch

Watch shares FailoverConfig's variables (`FC == INSTANCE FailoverConfig`) and adds
what the tick works with: `kernel` (whom the router carries, and the two ready
markers), `stopped`, `cancelled` (the context the stop poller cancels), `mem` (the
fields of `Watch` that outlive a tick: `pendingApply`, `reconciled`,
`fallbackTried`) and `loc` (the tick's own variables). `pc` is the place in Tick: a
step ends where the code waits - for the config lock, the script, a probe, a
lookup - so users, other applies, `Stop`, `StartAgain` and `Crash` come in exactly
there. `loc.snap` is the config the tick read, which it goes on using after waits as
the code does; a write's guard reads the file again. `Refused` is `mutationAllowed`
and `Owned` is `outboundAllowedNow`. An apply is atomic here (Director has its
detail): it installs what the file says, TPROXY intercepting or not and the
fallback tunnel ready or not, and a failed one may have installed everything or
nothing; a stop or a selection that arrives while the script runs is a failed apply
followed by it.

Clocks are open: wherever the code compares times, both outcomes are possible
(`Perhaps`), until `calm`. Left out: which server a walk tries and in what order
(a walk moves the write counter, or fails to save it), the fast path's evidence
(a death may carry its ownership guard or not), the keeper, the returns and the
refresh, which touch only `active_server` (`RecordActiveServer`) - Selection has all
of these. Reads of the file do not fail. A firmware flush, after which a marker
promises rules that are gone, and a stop of one component are not in Watch; Director
has the flush. The stop and its marker are one step, in the order of `cmd_stop`:
marker first.

Two ghosts in `loc` - whom the router carried when the tick found a marker
(`seen`), and which record its probe was of (`probed`) - and `edited`, the clients
the user touched since the watch's last write, serve `MakeBeforeBreak` and
`RestoredToProbedServer`. `MakeBeforeBreak` is about the two writes that end a route
because a marker shows the other one: the commit, and the restore's second write. It
claims nothing of the three that reread no such marker: `Retarget` takes clients off a
tunnel that does not carry them, to Xray or to the next tunnel, which the apply after it
installs; `Unstage` sends them back to the tunnel after a restore that failed
(`CommitXrayFailover`); `Finalize` reinstates a failover (`ApplyFailoverSnapshot`) when
Xray does not take its clients.

### Monitor

`m` is the struct `Monitor`; an operator named as a method takes the struct and
returns it as the method leaves it, and a method that waits (for a dial, a prober's
start, a suspect's check) leaves `pc` at the wait. `Run*` are the cases of `Run`'s
select loop: refresh, tick, wake, control probe, the guard's dial, a result, a
prober that ended, an isolation's outcome, a start. `Attempt` is a worker; `ProberDies`
the death of an Xray that checks a `Poison` outbound, or that something else kills, and
`ProberExits` the moment `Exited()` tells of it. `CheckEvidence`, `CheckDone`,
`CheckReturns` and `UseEvidence` are the call the watch's fast path makes and what it does
with the answer (`ValidateEvidence`). `env` is the world: WAN, servers, settings, lists,
Xray missing or broken, and the lone probers something else has killed. `Restart` is a
restart of watchd, with the state file of the last save; which of the saved pauses are
over at the first refresh is open.

Two things the code takes for what they may not be, and the properties say so. Between
the death of the prober and `Exited()` a failed retry counts as the server's own
(monitor.go:835 asks only `Exited()`), so `EvidenceIsTrue` allows "dead" of a server asked
through such a prober and `DeadIsItsOwnFault` speaks of a death that is reported. And
`crashesAlone` (monitor.go:1097) takes any exit of a suspect's lone prober for the
outbound's: `LoneProberDies` lets the memory run out, or somebody kill it, just then, and
`OnlyCulpritsHeld` names those endpoints beside the two kinds that deserve it. What it
excludes is that an endpoint is held for having been under check when the shared prober
died.

Counters that are only compared - generations, sessions, sequence numbers of checks -
are kept as the outcomes of their comparisons, which is why `gen`, `mine` and `rel`
appear on a worker instead of numbers. Time is counted in ticks of the guard's
window; whether a longer wait has ended is open. The ghost `seen` holds which servers
were reachable and which were not at some moment since the call began.

### Mailbox, NotificationStore

`Mailbox` is the promise: an event is numbered once, with a number no event had, in
the order of publication; only open events are offered, at most `MaxPerChat` a chat;
an acknowledgement answered OK is for good. What is offered may otherwise change at
any time.

`NotificationStore` has the store's mutex as the grain of its actions. A save (`Flush`,
`FlushLease`, `FlushAck`) takes a snapshot under the mutex and ends in `SaveOk` or
`SaveFails` later, so memory moves on meanwhile; `Publish` numbers its event at once, after
a lease of numbers is saved, or leaves it in the backlog that `Drain` empties, as many as
the lease has numbers for (`Events` numbers such a batch, `Appended` puts it into the log
and the queues); `Ack` answers OK only after its flush. `Crash` comes at any step and `Load`
reads back what a save left, or finds the file unreadable and starts an epoch (`Anew`). An
event's text, time and place in the order are one number, so "first seen" and "too old" are
comparisons with it.

### Delivery

Four threads: the update loop (`Interact`, `UpdateSync`), the poll (`PollSync`,
`PollRead`, `PollInstall`), a worker a chat (`Work*`, `Send*`) and the path manager's
cycle (`SelectProbe`, `SelectSet`). A sync (`syncing`, one at a time) is three steps: the
list of recipients is read (`BeginSync`), receipts are pruned by it (`PruneSync`), watchd
is told it (`EndSync`); users, workers and paths go on between any two, so the list may be
stale at the second and the third. `poll` holds what a read copied under the mutex (the
receipts of the chats that were free) and what it was offered, until `PollInstall` makes
jobs of it; a job's `messages` are a set, sent in the order of publication, which is
watchd's order. A read takes one step and its pages come all or none; `Allowed` and the
receipt that follows it are one step, as are an acknowledgement's answer and `forget`.

watchd is two copies of one record: its memory (`store`) and its file (`disk`). The log
(`recent`) and a chat's queue hold the newest `MaxPerChat` events each, and what they push
out is gone for good (`Appended`, `Newest`); a new list of recipients fills a queue from
the two (`Replaced`). A save follows every change and may fail, the ticker saves again
(`WatchdSave`), and `WatchdRestart` goes back to the file: what was not saved - an event,
an acknowledgement without an answer, a list - is lost. A list sent to watchd may be lost,
applied without an answer or applied after the bot gave up (`late`, `ApplyLate`); an
acknowledgement may be lost either way. Numbers given anew after a crash, the two halves
of a save and a file that cannot be read are NotificationStore's, and left out here.

Which paths work is `alive`, and changes. A send goes by the path the transport was bound
to when it began (`via`), so it may fail after that path was left: `ReportFailure` drops
such a report, as it drops one made during a cycle. A tick's cycle that has not answered
yet is not told from none: a report of the path in use starts the same one, and another
is dropped in both cases. No property rests on the check for a path already left: without
it there would be needless cycles, which leave the path in use only for direct, or when
it is dead. `BotRestart` forgets receipts and jobs. An interaction that changes no user is
left out: all it can do is start a sync that the poll starts as well.

Two ghosts: `answered`, the events Telegram gave a final answer for, and `since`, those
of them answered since the bot started which the chat could have ever since, each with
the events answered after it. A user who leaves takes the chat's entries out of it
(`Outlasts`), and so does a sync that prunes by a list without the chat. That is where the
code does send an event twice: a user leaves, a sync reads the list, the user is back,
Telegram answers for an event in flight, and the sync drops its receipt; if the
acknowledgement is lost as well, the event is offered and sent again. `NoRepeat` is about
everything else: a chat that its users and every list a sync pruned by allowed an event
all along.

### Selection

The files `active_server` and `preferred_server` (`active`, `preferred`),
`config.json` (`conf`), what the running Xray dials (`xray`) and the subscriptions
(`files`), under one `lock`. The user selects a server (`UserPicks`, `UserGenerates`,
`UserRecords`, `UserRestarts`), refreshes or adds subscriptions (`UserDownloads`,
`UserPublishes`) and deletes one (`UserDeletes`). The watch, in keeper mode, probes and
then follows a server its panel has changed (`FollowActive`), replaces one that is
gone (`ReplaceActive`) or dead (`FastFailover` with evidence, `ReplaceDead` after
`DeadTicks`), or returns to the server the user chose; each of these writes candidates
one by one (`WatchGenerates` to `WatchKeeps` or `WatchDrops`) until one answers or they
run out (`Exhausts`). `Round*` are the periodic refresh with its download outside the
lock. Every write of the watch is fenced by the counter it read (`Owns`, `Fenced`);
`same` says which remembered counters still equal the file's. `PanelChanges` and
`WorldChanges` are what happens outside.

The model has keeper mode only (no client on Xray to carry); armed mode is Watch's.
A round refreshes one subscription and the stamp of a list moves with every write of
it.

## Runs

| Run | Instance | Shows |
|---|---|---|
| `failover_config` | two clients, one of them not carriable, two tunnels, one server selection | `TypeOK`, `XrayChoiceKept`, `TunnelsAsChosen`, `OnlyCarriedLeaveXray` |
| `failover_bot_remove` | the same | **violation** of `RemovedIsGone`, a finding |
| `failover_shell` | the same, with `configure.sh` (`SpecShell`) | **violation** of `NotTakenBack`, a finding |
| `chain_swap` | two interfaces, four faults, `FairSpec` | `TypeOK`, `SuccessMeansInstalled`, `CarriedStaysCarried`, `EventuallyInstalled` |
| `director` | one client, two tunnels, two slots, two faults, every placement | `TypeOK`, `NeverAnotherTunnel`, `TproxyReadyHonest`, `HandedOver`, `NoLeak` |
| `director_failover` | two clients, three tunnels, two slots, one fault, the configs of a failover, `FairSpec` | `ReportHonest`, `FailoverReadyHonest`, `EventuallyApplied` |
| `watch` | two clients, one tunnel, one write of the user's, one of the walk's or a selection | `TypeOK`, `ImplementsFailoverConfig`, `MakeBeforeBreak`, `RestoredToProbedServer`, `StoppedStaysStopped` |
| `watch_live` | two clients, two tunnels, no edits, `MCFairSpec` | `ClientsComeBack`, `OutageIsCarried` |
| `monitor` | three endpoints (one crashes Xray, one is refused by it), two workers, two events of the world | `TypeOK`, `EvidenceIsTrue`, `OnlyCulpritsHeld`, `DeadIsItsOwnFault` |
| `notification_store` | one chat, one subscription, queue of two, two publications, two faults, three moves | `TypeOK`, `SavedIsSound`, `ImplementsMailbox` |
| `delivery` | one user, one chat, direct and one other path, queue of one, two publications, two faults and two moves, three of them at most, `FairSpec` | `TypeOK`, `ClosedWasAnswered`, `NoRepeat`, `EventuallyDelivered` |
| `selection` | two panels, three connections, two names; a move of the world, an operation, a fault: any two, `FairSpec` | `TypeOK`, `ConfIsRecorded`, `ChoiceKept`, `SelectionStands`, `NewerListStands`, `EventuallyWorks` |

**Bounds.** In FailoverConfig a property speaks of one client at a time, and an
operation treats clients alike but for `Carriable`: one of each kind reaches every
case, two tunnels give a failover a target and a place to retarget to, and one
change of `active_server` is what makes a pending restore stale. An instance with
two carriable clients is past TLC's reach in minutes; the theorems cover it. In
ChainSwap two interfaces make "some but not all moved" possible, and four faults
let a swap fail, its finish fail, and a flush come on top. In Director two tunnels
and two slots make a move between tunnels, with both layouts alive; two faults let a
run be killed after a refusal. In `director_failover` a second client on the fallback
tunnel tells the failover's own clients from its neighbours, and its move to a third
tunnel finds both slots taken: the full mark field. In Watch stops, starts, crashes, other
applies and failures are not bounded at all; one write of the user's (`MaxEdits`)
between any two steps is enough to make any one read stale, and one client is there
to be moved while the other makes a tunnel an exit. `watch_live` has the second exit
that turns and retargets need.

In Monitor two healthy endpoints would be one too few to tell a culprit from a
bystander and a refused outbound from both, so there are three of three kinds; two
workers put two checks under way when the prober dies; `GuardMin` 2 makes the WAN
question depend on more than one failure, and two events are an outage and its end, or
a list and a restart, or a lone prober killed and a restart. The scheduler, the deaths of
the prober that an outbound causes and lost answers are not bounded. (The exception
`EvidenceIsTrue` makes for a death not reported yet needs more than two events, and is
covered by the proof alone.) In NotificationStore the limits are cut to what makes them bite: with a
lease of one number publications outrun what a save leased, and with a log of one event
the second pushes the first out; two faults are a failed save and a crash after it, or
two crashes. In Delivery two events with a queue of one make an event and a receipt pushed
out; two faults are an acknowledgement lost and a restart; two moves are a user who leaves
and is back, which with one fault is all that a stale list needs to drop a receipt and an
event to come twice (without its exception for such lists the run violates `NoRepeat`), or
a path that dies and another that lives. `MaxEvents` keeps TLC within minutes: of the two
faults and two moves a run has three (602 145 states). In Selection `k1` and `k2` share
address and name in two kinds, `k1` is dead at first and its panel has renamed it, and
`k3` is what a second panel lists: a follow, a fast replacement, a return and an
exhausted walk all happen, with any two of an operation of the user's, a change of the
world and a fault beside them; `DeadTicks` 2 is the least that tells a first failure from a last.

**Fairness.** A script that runs goes on (`WF` of its steps), and applies come again:
firmware hooks queue one after every event, cron runs `ensure-routes`, and the watch applies
while a failover lasts. Faults are bounded in ChainSwap; in Director `CalmDown` may end them
at any time and `calm` never ends, so `EventuallyApplied` speaks of a router nobody disturbs
or edits any more. Watch's `CalmDown` also fixes whether Xray answers and which tunnels are
up; `WF` of its steps is the ticker of `Watch.Start` and the time limit every wait has, and
that all clocks have run out once calm. No fairness is assumed of users or of faults, nor of
the walk: `ClientsComeBack` rests on the tick's own probe. In Delivery a sync under way
ends, the poll and the workers go on, the path manager's tick comes (`WF`), and the poll and
a worker that wait for the sync mutex get it (`SF`: Go's mutex hands over to a waiter that
starves); the update loop, watchd's saves, late lists, users, paths and faults have no
fairness. `EventuallyDelivered` asks that some path to Telegram stays, and is about what
watchd still holds: an event pushed out, aged or lost with a restart is not due. In
Selection the tick and its clock go on, whoever holds the lock or has Xray to restart goes
on to the end, and a refresh round, which needs the mutex the tick holds, gets it (`SF`);
the user need never act. `EventuallyWorks` asks that from some time on the WAN works and a
saved subscription's panel lists a working server.

**Reading the Director properties.** `HandedOver` and `NoLeak` are what "make
before break" and the kill switch promise together: a client on its way is carried by
the old half until the new one has it, and a client that stays with Xray stays
intercepted. `NoLeak` names the ways in
which the code does let a tunnel client out: its own MARK rule refused, its slot's
block rule refused, no slot left in the mark field, and the chain of an earlier
interrupted swap, which `swap_fw_chain` installs first. The last three are
consequences of the code worth knowing; the code logs each.

## Findings

* **`failover_bot_remove`**: the bot's `handleRemove` takes a client off the one
  route it read before the lock. A failover staged in between has the client on
  Xray and on the fallback tunnel; it stays on the tunnel, and nothing remembers
  why. The Web UI's delete takes it off every route under the lock.
* **`failover_shell`**: `configure.sh` rewrites the assignment and leaves
  `xray.failover`. A client the user puts on the fallback tunnel meanwhile is taken
  back to Xray by the restore, which the Web UI and the bot's wizard take care to
  prevent.

## Proofs

Eight modules prove theorems about every value of the constants: any sets of clients,
tunnels, interfaces, servers, chats and subscriptions, any limits and any number of
faults. Every safety property a passing run checks is proved. TLC checks them on the
instances above; the proofs take the bounds away.

| Module | Theorems about what runs check |
|---|---|
| `FailoverConfigProofs` | `TypeOK`, `XrayChoiceKept`, `TunnelsAsChosen`, `OnlyCarriedLeaveXray` |
| `ChainSwapProofs` | `TypeOK`, `SuccessMeansInstalled`, `CarriedStaysCarried` |
| `DirectorProofs` | `TypeOK`, `NeverAnotherTunnel`, `TproxyReadyHonest`, `ReportHonest`, `FailoverReadyHonest`, `HandedOver`, `NoLeak` |
| `WatchProofs` | `TypeOK`, `ImplementsFailoverConfig`, `MakeBeforeBreak`, `RestoredToProbedServer`, `StoppedStaysStopped` |
| `MonitorProofs` | `TypeOK`, `EvidenceIsTrue`, `OnlyCulpritsHeld`, `DeadIsItsOwnFault` |
| `NotificationStoreProofs` | `TypeOK`, `SavedIsSound`, `ImplementsMailbox` |
| `DeliveryProofs` | `TypeOK`, `ClosedWasAnswered`, `NoRepeat` |
| `SelectionProofs` | `TypeOK`, `ConfIsRecorded`, `ChoiceKept`, `SelectionStands`, `NewerListStands` |

The assumptions are those on the constants, named in the module that declares them and
evaluated by TLC on every run: sets have the shapes their comments say, limits are
numbers (and positive where a limit of zero has no meaning in the code), and a value
that stands for "nothing" (`Nil`, "none") is not a value of the set it is added to.
None says anything about how the program behaves. `Director`'s `NilAssumption` is the
last kind for the sets, pairs and hashes that may be absent.

*FailoverConfig.* `IndInv` adds `RecordsHonest` to the properties: a failover holds
only carriable clients the user has on Xray; for clients not in `shared`, whatever
a record holds it also recorded as `added`; and the same for the snapshot of a
pending restore. Without the last, `ReinstateFailover` could bring back a record
that forgets which memberships it made, and the next restore would leave residue.
The proof has a lemma per action. `OneClientStep` is the shape of every edit of one
client: it changes nothing about the others and detaches its own from the records.
`Settled` is the shape between records: a restore reaches it and a stage leaves it,
so `RetargetFailover` is the composition of the two. `OnlyCarriedLeave` joins two
facts: the guards of the watch's writes leave paused clients on Xray, and a client on
Xray that cannot be carried is one the user has there, which `UncarriableStays` keeps
there. Assumption: the one on the
constants in `FailoverConfig`.

*ChainSwap.* `IndInv` adds to the types: `OffTheRoad` (nothing jumps to a shadow
that is being dropped, built or discarded), `NothingToLose` (the chain the jumps
move to is finished, unless the live one is not either), `AfterFlush` (after a flush
in the course of a swap no chain an earlier swap finished is left), `Moves` (an
interface counted as moved has its jump as long as no flush came, and the old chain
is retired only when every interface moved) and `BuiltHere` (the shadow this swap
built is whole and current through its cutover). `JumpedShadowIsWhole` is not
inductive by itself: a cutover that has inserted no jump yet already needs the
shadow finished. `CarriedStaysCarried` follows from `IndInv` step by step.
Assumption: `SwapConstants`.

*Watch.* `StoppedStaysStopped` (`StopIsFinal`) needs no invariant: each step either starts
with the check that refuses it or changes nothing but the tick's own variables, so the proof
is a case split over the steps. The rest does. `Inv` says at each place of a tick what the
step there may rely on (`Stand`): a tick past its look at the failover (`Holding`) still
finds one in the file, since no user ends a failover, and one past a probe that passed
(`Restoring`) has read the counter of `active_server` before the probe did, and the file's
is no older. That gives the refinement and `RestoredToProbedServer`.
`WatchImplementsFailoverConfig` maps the file to itself and each step of a tick to a write
of FailoverConfig or to a stutter; under it, everything proved of FailoverConfig holds of
the watch as it really runs, stale reads included. `MakeBeforeBreak`, of those two writes,
adds `Beliefs`: unless an apply is owed or about to run (`Behind`), a marker vouches for
every client now lent (`Fresh`), and what the tick saw under it (`loc.seen`) holds until the
write that goes by it. `edited` is what makes this true in the presence of users: they move
a client whenever they like, and the marker says nothing of that client until the next
apply. The one place where the belief is won is an installation; where it could be lost is a
write of the watch, each of which leads to a step that applies.

*Director.* Six parts, each inductive with the ones before it. `Commanded` ties a step
to the commands that have it. `Routed` - every mark and every route is of a slot on
record, and the record gives no slot twice - is what `NeverAnotherTunnel` needs: a slot
must not go off the record before the last mark with it. `Laid` is the order that
keeps it so: what the run builds is recorded before the swap, and only what no chain
marks any more is released. `Complete` says that the hash is of a config every tunnel of
which has a slot, which a refresh, the short way through an apply, relies on without
looking. `Reported` says that what the run has not put into `TUNNEL_UNCARRIED` has its
slot in place and its client marked, `Handed` that the prune and the markers find it so,
and `Tproxied` the same of Xray's side. `disturbed` (a flush, an interface that went)
excuses routes and jumps but not the block rules, so `HandedOver` holds under a flush
too: the flush takes Xray's jumps together with the marks, and a client that still has
its jump (`Intact`) still has its mark.
Two properties were too strong as first stated, for instances larger than a run has:
`NoLeak` did not see that a block rule can be refused for a slot two clients share,
and `FailoverReadyHonest` that an apply of a config without tunnels finds nothing to
tear down after a stop was killed half-way, and leaves that stop's marker. Both are what
the code does, and both are now named in the properties.

*Monitor.* `Good` is what holds of the struct between any two calls of its methods, and
each method is shown to keep it, so that an action is the composition of its calls; it
joins `Typed`, `Nested` (what is asked, due or under check has an entry), `Deserved`,
`Sessions`, `Timed` and `Told`. `Sessions` says when suspects may be: only without a
session, and workers of a session that is gone have lost their answer rather than
failed; so what an isolation condemns is what was alone with the prober when it ended, of the
outbound or of what `env.killed` records, which is `OnlyCulpritsHeld`, and no end of the
prober that is reported is read as a failure of a server. `Timed`
says that no sign of the WAN is newer than the WAN: the last answer and the last
control probe are at least as old as an outage, hence a failure the guard lets through
is not the outage's. `Told` is the point of the evidence: whatever a check dispatched
since the call began has told or will tell was true at some moment since then, and what
was dispatched before is not told at all. `Around` adds the types of the world and the
call, the state file (deserved like the memory it was written from) and `Seeing`.
`DeadIsItsOwnFault` comes with the step itself (`Blameless`): each action either makes
no server dead or does so in `Apply` with the guard passed.

*NotificationStore.* `Leases` is what makes a number unique across crashes: memory
numbers within its lease, and the lease in the file, or in the save under way, covers
every number of its epoch. `Order` keeps what waits for a number (the backlog, a
publication that waits for its lease) younger than all that has one. `Contents` says of
memory, the snapshot being written and the file that each is one `restore` accepts and
holds what it must hold closed - the file what was answered OK, memory also what is being
acknowledged. `Clean` is the meaning of the two revisions. The refinement
(`StoreImplementsMailbox`) hides the saves: a number is Mailbox's when it is given,
an acknowledgement when it is answered.

*Delivery.* `Stores` says of watchd's memory and of its file alike: what waits was published
and is not acknowledged, every acknowledgement answered OK is in both, and none is of an
event Telegram did not answer for. `Chats` says of each chat, for events it may still have
(`Listed`, and not too old): an event answered for has a receipt or an acknowledgement
answered OK, unless its receipt was pushed out (`Receipted`), and the receipts are of
different events, each standing before those of later answers (`Lined`). So a receipt that
goes because the list is full goes with a whole list of later answers behind it, which is
what `NoRepeat` counts. `Covered` carries this across the gap between a read and a send: an
event a worker has yet to send, or a poll has yet to hand to one, has no receipt but one the
worker goes through first. It holds at the read because what watchd offers it has not
acknowledged, and it lasts because only the chat's own worker adds receipts; the chats left
out of a read (`free` has the others) are those where another worker could. A prune by a
stale list takes receipts and history together (`Pruned`): what is left of the history keeps
its receipts. What receipts a sync or an acknowledgement leaves is `Only`, a recursive
function. An induction over the sequence is not to be had, so `OnlyKeeps` is proved by the
least place where it would fail. The first form of `NoRepeat` counted the events *published*
later and was too strong: after a failure events are sent out of order, and with a queue of
two an event comes again with only one of the later answers behind it published after it. It
counts the answers now. `AnyStore` is the composition with the store: both properties hold
with any watchd that offers no event whose acknowledgement it answered OK (`OffersAreOpen`
of Mailbox), not just the one Delivery has, and `StoreImplementsMailbox` says that the real
one is such.

*Selection.* `Locking` - the lock is held from the generation to the record, and its
holder has written what it will record - gives `ConfIsRecorded`. `Wanting` says that the
two records tell the user's choice exactly, not only for the servers that work.
`Reading` gives `SelectionStands`: while a selection is unread, no counter the watch
remembers for a write equals the file's. `Versions` gives `NewerListStands`: a file that
still has the stamp a round read is no newer than the list the round downloaded.

Only model-checked:

* The liveness properties: `EventuallyInstalled`, `EventuallyApplied`,
  `ClientsComeBack`, `OutageIsCarried`, `EventuallyDelivered`, `EventuallyWorks`.
  Fairness and ENABLED are out of the prover's reach.

Not composed: Watch takes an apply as atomic and Director's markers as honest. That they
are is Director's theorem, of its own variables; no module holds both.

## Not modelled

* The queue on the run lock (`--wait`, `--unless-stopped`, the limit on waiting):
  Director's runs do not overlap and start with the config as it is; that an apply
  follows an event is an assumption of fairness there.
* The self-update and its lock, whose claims are settled by the process table, and the
  compatibility gate's reading of /proc: its answer is an input of Selection.
* `xray.servers`, the addresses Xray's own traffic leaves by, and with it what
  `restoreSubscription` does when the save after a refresh fails while the list is
  written again; two writes of one list within a second, whose stamps are equal;
  renaming a subscription; a pending restore's `active_server` following a list.
* Keeper and armed mode in one model: Watch and Selection share the rules of the config
  lock and the write counter, but no run has both.
* Data without a protocol: share-link and JSON parsing, the generated `config.json`,
  ipset downloads, the login limiter, the wizards' dialogues, the installer, texts.

## Plan

1. Composition: the honesty of Director's markers as the assumption Watch makes of an
   apply, stated as one definition and shown of both.
2. Liveness, as far as proofs reach: the safety half of each argument - what a fair
   step is enabled by, and what it brings closer - as lemmas beside the runs.
3. The run lock as a component of its own: an apply queued behind a stop, the limit on
   waiting (`--wait`, `--unless-stopped`), and with it the two hazards that have no
   property yet.

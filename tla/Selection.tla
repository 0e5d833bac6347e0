----------------------------- MODULE Selection -----------------------------
(***************************************************************************)
(* Which server Xray runs.  Four parties write the two files that say so,  *)
(* config.json and the records active_server and preferred_server of       *)
(* vpn-director.json: the user (the Web UI, /xray), who selects a server   *)
(* and refreshes, adds or deletes subscriptions; the watch in keeper mode  *)
(* (nobody on Xray to move into a tunnel), which follows, replaces and     *)
(* returns to servers; and its periodic refresh, which publishes the lists *)
(* the panels serve.  They meet only at the config lock.                   *)
(*                                                                         *)
(* A server is its connection (address, port, kind and keys) and the name  *)
(* its subscription lists it under.  The write counter of active_server    *)
(* (seq) is compared for equality only, with the values the watch          *)
(* remembers: same is the set of those that still equal it.  Clocks are    *)
(* choices: a wait is over or not.  A list's refreshed stamp moves with    *)
(* every write of it: two writes of one list within one second are outside *)
(* the model.                                                              *)
(***************************************************************************)
EXTENDS Naturals, FiniteSets

CONSTANTS Sub,        \* ids of subscriptions
          Link,       \* links of panels
          LinkOf,     \* the link a subscription id was added with
          Conn,       \* connections a panel can list
          Name,       \* names it can list them under
          AddressOf,  \* the address of a connection
          GroupOf,    \* the kind of a connection
          DeadTicks,       \* failed probes in a row that make DeadAfter
          FastCandidates,
          ReturnFailsMax,
          MaxMoves,   \* moves of the world: panels, servers, the WAN, a stop
          MaxActs,    \* operations of the user
          MaxFaults,  \* writes, restarts and downloads that fail, crashes
          MaxEvents,  \* all of these together
          Stored,     \* the lists saved at first, a function on the saved subscriptions
          Listed,     \* what the panels list at first
          Working     \* the connections that work at first

ASSUME SelectionAssumption ==
    /\ LinkOf \in [Sub -> Link]
    /\ Listed \in [Link -> UNION {[D -> Name] : D \in SUBSET Conn}]
    /\ DOMAIN Stored \subseteq Sub /\ Working \subseteq Conn
    /\ \A s \in DOMAIN Stored : Stored[s] \in UNION {[D -> Name] : D \in SUBSET Conn}
    /\ "none" \notin Sub       \* the id of None below
    /\ DeadTicks \in Nat /\ DeadTicks >= 2
    /\ {FastCandidates, ReturnFailsMax, MaxMoves, MaxActs, MaxFaults, MaxEvents} \subseteq Nat

VARIABLES
    active, preferred,  \* xray.active_server and xray.preferred_server
    conf,       \* the connection config.json dials
    xray,       \* the connection the running Xray dials
    lock,       \* the holder of the config lock
    files,      \* the subscription files
    panel,      \* what each link serves now
    up,         \* the connections that work
    wan,        \* the WAN works
    allowed,    \* VPN Director runs and the gate is open
    same,       \* the counters the watch remembers that equal active_server's
    mem,        \* what the watch remembers from tick to tick
    w,          \* the running tick
    r,          \* the periodic refresh
    u,          \* the user's operation
    unsaved,    \* config.json was written and the record of it was not
    wanted,     \* the server the user chose last
    unread,     \* the user's selection no tick has read yet
    clock,      \* writes of lists so far: the time a list's stamp is taken from
    budget      \* moves, operations and faults left

config == <<active, preferred>>
world == <<panel, up, wan, allowed>>
vars == <<active, preferred, conf, xray, lock, files, panel, up, wan, allowed, same, mem, w, r, u,
          unsaved, wanted, unread, clock, budget>>

None == [sub |-> "none", name |-> "none", conn |-> "none"]
Entry == [sub : Sub, name : Name, conn : Conn]
List == UNION {[D -> Name] : D \in SUBSET Conn}
Unused == [there |-> FALSE, used |-> FALSE]
Gone == [there |-> FALSE, used |-> TRUE]
File == [there : {TRUE}, list : List, stamp : Nat, err : BOOLEAN, ver : Nat]
Counter == {"own", "selected", "failed", "returned", "action"}

Take(moves, acts, faults) ==
    LET all == moves + acts + faults IN
    /\ budget.moves >= moves /\ budget.acts >= acts /\ budget.faults >= faults /\ budget.all >= all
    /\ budget' = [moves |-> budget.moves - moves, acts |-> budget.acts - acts,
                  faults |-> budget.faults - faults, all |-> budget.all - all]
Spend(acts, faults) == Take(0, acts, faults)
Move == Take(1, 0, 0)
Free == UNCHANGED budget
Unlucky(set) == IF set = {} THEN 0 ELSE 1

\* A write of vpn-director.json or of a list is one step under the config lock;
\* a generation holds it from config.json to the record.
Unlocked == lock = "free"
Hold(holder) == Unlocked /\ lock' = holder

---------------------------------------------------------------------------
(* Records and lists.                                                      *)

There == {s \in Sub : files[s].there}

EntryOf(s, k) == [sub |-> s, name |-> files[s].list[k], conn |-> k]

AllServers == UNION {{EntryOf(s, k) : k \in DOMAIN files[s].list} : s \in There}

\* What a switch can go to; the monitor's ranking decides the order alone.
Candidates == AllServers

ServerID(e) == <<e.sub, e.name, AddressOf[e.conn]>>

SameChoice_AnyKind(a, e) ==
    a # None /\ e # None /\ a.sub = e.sub /\ a.name = e.name

SameChoice(a, e) ==
    /\ a # None /\ e # None
    /\ a.sub = e.sub /\ a.name = e.name
    /\ GroupOf[a.conn] = GroupOf[e.conn]

\* What a user chooses by: twins that share it are the same choice.
Sort(e) == <<e.sub, e.name, GroupOf[e.conn]>>

\* The server the user chose, as the two records tell it.
Choice(a, p) == IF p # None THEN p ELSE a

\* A record of the walk keeps the user's choice from the first that leaves it
\* until one comes back to it.
RecordWalkedServer(e) ==
    /\ preferred' =
        CASE preferred # None /\ SameChoice(preferred, e) -> None
          [] preferred = None /\ active # None /\ ~SameChoice(active, e) -> active
          [] OTHER -> preferred
    /\ active' = e

\* The record a after the stored list of subscription s became fresh: it
\* follows its server to the new name.  A record names the stored server of its
\* name and connection.
Followed(a, s, stored, fresh) ==
    IF /\ a # None /\ a.sub = s
       /\ a.conn \in DOMAIN stored \cap DOMAIN fresh
       /\ stored[a.conn] = a.name
    THEN [a EXCEPT !.name = fresh[a.conn]]
    ELSE a

followRenames(s, stored, fresh) ==
    /\ active' = Followed(active, s, stored, fresh)
    /\ preferred' = Followed(preferred, s, stored, fresh)
    /\ wanted' = Followed(wanted, s, stored, fresh)

\* A periodic refresh keeps the stored record of every server listed again,
\* under the listed name, and takes a new server only with its address.
MergeRefresh(stored, listed, unresolved) ==
    [k \in {k \in DOMAIN listed : k \in DOMAIN stored \/ k \notin unresolved} |-> listed[k]]

\* A refresh a user asked for takes the fresh copies of what resolved.
Imported(listed, unresolved) == [k \in DOMAIN listed \ unresolved |-> listed[k]]

\* ver is the version of the panel's list this one was downloaded at.
Written(list, ver) == [there |-> TRUE, list |-> list, stamp |-> clock', err |-> FALSE, ver |-> ver]

---------------------------------------------------------------------------
(* The user.                                                               *)

Idle == [op |-> "idle"]

\* The Web UI and /xray load the lists and check that the button still names
\* the server it showed.
UserPicks ==
    /\ u = Idle
    /\ \E e \in AllServers : u' = [op |-> "picked", entry |-> e]
    /\ Spend(1, 0)
    /\ UNCHANGED <<config, conf, xray, lock, files, world, same, mem, w, r, unsaved, wanted, unread, clock>>

UserGenerates_Unlocked ==
    /\ u.op = "picked"
    /\ \/ /\ lock' = lock /\ conf' = u.entry.conn
          /\ u' = [u EXCEPT !.op = "generated"]
          /\ Free
       \/ /\ Spend(0, 1) /\ u' = Idle
          /\ UNCHANGED <<lock, conf>>
    /\ UNCHANGED <<config, xray, files, world, same, mem, w, r, unsaved, wanted, unread, clock>>

\* GenerateAndRecordActiveServer: config.json, then the record, under one lock.
UserGenerates ==
    /\ u.op = "picked" /\ Unlocked
    /\ \/ /\ Hold("user") /\ conf' = u.entry.conn
          /\ u' = [u EXCEPT !.op = "generated"]
          /\ Free
       \/ /\ Spend(0, 1) /\ u' = Idle    \* Xray rejects the config
          /\ UNCHANGED <<lock, conf>>
    /\ UNCHANGED <<config, xray, files, world, same, mem, w, r, unsaved, wanted, unread, clock>>

UserRecords ==
    /\ u.op = "generated"
    /\ lock' = "free"
    /\ u' = [op |-> "restarting"]
    /\ \/ /\ active' = u.entry /\ preferred' = None
          /\ same' = {} /\ wanted' = u.entry /\ unread' = TRUE
          /\ unsaved' = FALSE
          /\ Free
       \/ /\ Spend(0, 1) /\ unsaved' = TRUE
          /\ UNCHANGED <<config, same, wanted, unread>>
    /\ UNCHANGED <<conf, xray, files, world, mem, w, r, clock>>

UserRestarts ==
    /\ u.op = "restarting"
    /\ u' = Idle
    /\ \/ xray' = conf /\ Free
       \/ Spend(0, 1) /\ UNCHANGED xray
    /\ UNCHANGED <<config, conf, lock, files, world, same, mem, w, r, unsaved, wanted, unread, clock>>

\* What the panel of s lists now, over the WAN or a tunnel.
Downloaded(s) == panel[LinkOf[s]]

\* A refresh or an add downloads first, and publishes what arrived.
UserDownloads ==
    /\ u = Idle
    /\ Spend(1, 0)
    /\ \E s \in Sub, add \in BOOLEAN :
        /\ s \in There \/ add
        /\ u' = [op |-> "downloaded", sub |-> s, add |-> add,
                 since |-> IF s \in There THEN files[s].stamp ELSE 0,
                 list |-> Downloaded(s).list, ver |-> Downloaded(s).ver]
    /\ UNCHANGED <<config, conf, xray, lock, files, world, same, mem, w, r, unsaved, wanted, unread, clock>>

\* The id an add publishes under: the one its link is saved with, or a new one.
Targets ==
    LET saved == {s \in There : LinkOf[s] = LinkOf[u.sub]}
    IN  IF ~u.add THEN {u.sub} \cap There
        ELSE IF saved # {} THEN saved
        ELSE {s \in Sub : files[s] = Unused /\ LinkOf[s] = LinkOf[u.sub]}

\* AddSubscription and RefreshSubscriptionFollowingRenames.  A failed save of
\* the config leaves the new list and the old records (ErrServersSaved); a list
\* of which nothing resolved is recorded as an error, unless a newer refresh
\* wrote the file meanwhile.
UserPublishes ==
    /\ u.op = "downloaded" /\ Unlocked
    /\ u' = Idle
    /\ \/ /\ (Targets = {} /\ Free) \/ Spend(0, 1)      \* gone, or the file is not saved
          /\ UNCHANGED <<config, files, wanted, clock>>
       \/ \E s \in Targets, unresolved \in SUBSET DOMAIN u.list :
            LET fresh == Imported(u.list, unresolved) IN
            \/ /\ DOMAIN fresh = {}
               /\ files' = IF ~u.add /\ files[s].stamp = u.since
                           THEN [files EXCEPT ![s].err = TRUE] ELSE files
               /\ Spend(0, Unlucky(unresolved))
               /\ UNCHANGED <<config, wanted, clock>>
            \/ /\ DOMAIN fresh # {}
               /\ clock' = clock + 1
               /\ files' = [files EXCEPT ![s] = Written(fresh, u.ver)]
               /\ \/ /\ followRenames(s, IF files[s].there THEN files[s].list ELSE <<>>, fresh)
                     /\ Spend(0, Unlucky(unresolved))
                  \/ /\ Spend(0, 1 + Unlucky(unresolved))
                     /\ UNCHANGED <<config, wanted>>
    /\ UNCHANGED <<conf, xray, lock, world, same, mem, w, r, unsaved, unread>>

UserDeletes_ClearsActive ==
    /\ u = Idle /\ Unlocked
    /\ \E s \in There :
        /\ files' = [files EXCEPT ![s] = Gone]
        /\ active' = IF active.sub = s THEN None ELSE active
        /\ preferred' = IF preferred.sub = s THEN None ELSE preferred
        /\ wanted' = Choice(active, preferred')
    /\ Spend(1, 0)
    /\ UNCHANGED <<conf, xray, lock, world, same, mem, w, r, u, unsaved, unread, clock>>

\* DeleteSubscription ends a preferred_server that names it; Xray runs on.
UserDeletes ==
    /\ u = Idle /\ Unlocked
    /\ \E s \in There :
        /\ files' = [files EXCEPT ![s] = Gone]
        /\ \/ /\ preferred' = IF preferred.sub = s THEN None ELSE preferred
              /\ wanted' = Choice(active, preferred')
              /\ Spend(1, 0)
           \/ /\ Spend(1, 1)
              /\ UNCHANGED <<preferred, wanted>>
    /\ UNCHANGED <<active, conf, xray, lock, world, same, mem, w, r, u, unsaved, unread, clock>>

---------------------------------------------------------------------------
(* The periodic refresh.                                                   *)

Resting == [at |-> "resting"]

refreshStandsDown_WhileFailing == ~allowed \/ mem.fails > 0

\* In keeper mode the refresh goes on while the probe fails: no wave of the
\* watch refreshes the lists there.
refreshStandsDown == ~allowed

\* refreshTargets reads the lists between ticks.
RoundReads ==
    /\ r = Resting /\ w.at = "idle"
    /\ ~refreshStandsDown
    /\ \E s \in There : r' = [at |-> "reading", sub |-> s, since |-> files[s].stamp]
    /\ UNCHANGED <<config, conf, xray, lock, files, world, same, mem, w, u, unsaved, wanted, unread, clock>>
    /\ Free

\* A stop or a closed gate ends the downloads.
RoundDownloads ==
    /\ r.at = "reading"
    /\ \/ /\ allowed /\ Free
          /\ r' = [at |-> "downloaded", sub |-> r.sub, since |-> r.since,
                   list |-> Downloaded(r.sub).list, ver |-> Downloaded(r.sub).ver]
       \/ /\ allowed /\ Spend(0, 1)
          /\ r' = [at |-> "failed", sub |-> r.sub, since |-> r.since]
       \/ ~allowed /\ r' = Resting /\ Free
    /\ UNCHANGED <<config, conf, xray, lock, files, world, same, mem, w, u, unsaved, wanted, unread, clock>>

Unmoved_Linked(f) == f.there

\* Whether the file is still the one the round read.
Unmoved(f) == f.there /\ f.stamp = r.since

\* RecordSubscriptionError.
RoundRecordsError ==
    /\ r.at = "failed" /\ w.at = "idle" /\ Unlocked
    /\ r' = Resting
    /\ files' = IF ~refreshStandsDown /\ Unmoved(files[r.sub])
                THEN [files EXCEPT ![r.sub].err = TRUE] ELSE files
    /\ UNCHANGED <<config, conf, xray, lock, world, same, mem, w, u, unsaved, wanted, unread, clock>>
    /\ Free

\* The copy the watch picked last is renamed with the record that names it.
followActiveRename ==
    mem' = IF mem.picked # None /\ ServerID(mem.picked) = ServerID(active)
           THEN [mem EXCEPT !.picked.name = active'.name] ELSE mem

\* PublishRefresh, and followActiveRename.
\* A config that is not saved leaves the file to be put back.
RoundPublishes ==
    /\ r.at = "downloaded" /\ w.at = "idle" /\ Unlocked
    /\ LET f == files[r.sub] IN
       \/ /\ ((refreshStandsDown \/ ~Unmoved(f)) /\ Free) \/ Spend(0, 1)
          /\ r' = Resting
          /\ UNCHANGED <<config, files, mem, wanted, clock>>
       \/ /\ ~refreshStandsDown /\ Unmoved(f)
          /\ \E unresolved \in SUBSET DOMAIN r.list :
             LET merged == MergeRefresh(f.list, r.list, unresolved) IN
             \/ /\ DOMAIN merged = {} \/ (merged = f.list /\ ~f.err)
                /\ files' = [files EXCEPT ![r.sub] =
                               IF DOMAIN merged = {} THEN [f EXCEPT !.err = TRUE] ELSE [f EXCEPT !.ver = r.ver]]
                /\ r' = Resting
                /\ UNCHANGED <<config, mem, wanted, clock>>
                /\ Spend(0, Unlucky(unresolved))
             \/ /\ DOMAIN merged # {} /\ (merged # f.list \/ f.err)
                /\ clock' = clock + 1
                /\ files' = [files EXCEPT ![r.sub] = Written(merged, r.ver)]
                /\ \/ /\ followRenames(r.sub, f.list, merged)
                      /\ followActiveRename
                      /\ r' = Resting
                      /\ Spend(0, Unlucky(unresolved))
                   \/ /\ r' = [at |-> "restoring", sub |-> r.sub, before |-> f, stamp |-> clock']
                      /\ UNCHANGED <<config, mem, wanted>>
                      /\ Spend(0, 1 + Unlucky(unresolved))
    /\ UNCHANGED <<conf, xray, lock, world, same, w, u, unsaved, unread>>

\* restoreSubscription: the file goes back unless another writer wrote it.
RoundRestores ==
    /\ r.at = "restoring" /\ Unlocked
    /\ r' = Resting
    /\ \/ /\ files' = IF allowed /\ files[r.sub].there /\ files[r.sub].stamp = r.stamp /\ ~files[r.sub].err
                      THEN [files EXCEPT ![r.sub] = r.before] ELSE files
       \/ UNCHANGED files      \* what failed the config may fail the file
    /\ Free
    /\ UNCHANGED <<config, conf, xray, lock, world, same, mem, w, u, unsaved, wanted, unread, clock>>

---------------------------------------------------------------------------
(* The watch in keeper mode: one tick at a time.                           *)

Asleep == [at |-> "idle"]

\* A step of the watch that writes nothing but its own memory.
Unwritten == UNCHANGED <<config, conf, xray, lock, files, world, r, u, unsaved, wanted, unread, clock>> /\ Free

Works(k) == wan /\ k \in up

\* What a failure episode remembers ends with it.
resetFail(m) == [m EXCEPT !.fails = 0, !.onReturn = FALSE, !.settled = FALSE]
resetKeeper(m) == [m EXCEPT !.held = FALSE]

\* The counters worth comparing with between ticks.
Kept(counters, m) ==
    counters \ ({"action"} \cup (IF m.fails = 0 THEN {"failed"} ELSE {})
                          \cup (IF m.returning THEN {} ELSE {"returned"}))

\* The tick ends; counted: its record is one a return wrote.
EndTick(m, counted) ==
    /\ w' = Asleep
    /\ mem' = m
    /\ same' = Kept(same \cup (IF counted /\ "action" \in same THEN {"returned"} ELSE {}), m)

\* A stop or a closed gate ends the tick, and its failure counts for nothing.
Interrupted == EndTick(resetFail(mem), FALSE)

\* Tick reads the config.  A record the watch did not write starts the returns
\* over, once (noteSelection).  With no subscription there is nothing to keep.
Tick ==
    /\ w.at = "idle" /\ r.at # "restoring"
    /\ \/ /\ ~allowed
          /\ Interrupted
          /\ UNCHANGED unread
       \/ /\ allowed
          /\ LET anew == same \cap {"own", "selected"} = {}
                 m == IF anew THEN [mem EXCEPT !.returnFails = 0, !.returning = FALSE] ELSE mem
                 known == same \cup (IF anew THEN {"selected"} ELSE {})
             IN  \/ /\ There # {}
                    /\ mem' = m /\ same' = known \cup {"action"}
                    /\ w' = [at |-> "probing", active |-> active, preferred |-> preferred, same |-> same]
                 \/ /\ There = {}
                    /\ mem' = resetFail(m) /\ same' = Kept(known, mem') /\ w' = Asleep
          /\ unread' = FALSE
    /\ UNCHANGED <<config, conf, xray, lock, files, world, r, u, unsaved, wanted, clock>> /\ Free

\* One action of the watch: a run of switches under one fence, the record the
\* tick read.  todo are the candidates, then what comes after them.
Begin(job, todo, then, guarded) ==
    w' = [at |-> "writing", job |-> job, died |-> w.active, expect |-> ServerID(w.active),
          todo |-> todo, then |-> then, cur |-> None, wrote |-> FALSE, guarded |-> guarded]

\* The entry of the record's choice: where the record has it, at its address,
\* or elsewhere (chosenIndex).
Chosen(a) ==
    LET named == {e \in AllServers : SameChoice(a, e)}
        exact == {e \in named : e.conn = a.conn}
        here  == {e \in named : AddressOf[e.conn] = AddressOf[a.conn]}
    IN  IF exact # {} THEN exact ELSE IF here # {} THEN here ELSE named

rollbackOrder(before) ==
    Chosen(before) \cup {e \in {mem.picked} \ {None} : ServerID(e) = ServerID(before)}

\* A switch that put Xray back on the user's choice counts as a return while
\* returns to it have failed.
landedOnChoice(m, p) ==
    IF m.returning \/ m.returnFails = 0 \/ p # None THEN m ELSE [m EXCEPT !.returning = TRUE]

\* A return that held ends the backoff.
HeldReturn(m, held) == IF m.returning /\ held THEN [m EXCEPT !.returning = FALSE, !.returnFails = 0] ELSE m

Returnable(m, a, p) ==
    /\ p # None /\ ~SameChoice(p, a)
    /\ m.returnFails < ReturnFailsMax
    /\ rollbackOrder(a) # {}

\* Which server a return tries: the user's choice, or while that one is not
\* back, one of its kind.  Whether the monitor holds it alive long enough, and
\* whether the return is due, are choices.
tryReturn(a, p) ==
    \/ \E e \in Chosen(p) : Begin("return", {e}, rollbackOrder(a), FALSE)
    \/ /\ GroupOf[a.conn] # GroupOf[p.conn]
       /\ \E e \in AllServers :
            /\ GroupOf[e.conn] = GroupOf[p.conn]
            /\ Begin("group", {e}, rollbackOrder(a), FALSE)

\* The probe passed (maybeReturn).
ProbePasses ==
    /\ w.at = "probing" /\ allowed /\ Works(xray)
    /\ \E held \in BOOLEAN :
       LET m == HeldReturn(resetKeeper(resetFail(mem)), held)
           p == w.preferred
       IN  \/ /\ p = None
              /\ LET n == landedOnChoice(m, None) IN EndTick(n, n.returning /\ ~m.returning)
           \/ /\ p # None          \* not due, not back yet, or given up
              /\ EndTick(m, FALSE)
           \/ /\ Returnable(m, w.active, p)
              /\ tryReturn(w.active, p)
              /\ mem' = m /\ same' = same \ {"failed"}
    /\ Unwritten

\* The probe failed (missed): a record the watch did not write since the first
\* miss begins an episode of its own.
ProbeFails ==
    /\ w.at = "probing" /\ allowed /\ ~Works(xray)
    /\ LET m == IF mem.fails > 0 /\ w.same \cap {"failed", "own"} = {} THEN resetFail(mem) ELSE mem IN
       /\ mem' = [m EXCEPT !.fails = IF @ < DeadTicks THEN @ + 1 ELSE @,
                            !.onReturn = IF m.fails = 0 THEN "returned" \in w.same ELSE @]
       /\ same' = IF m.fails > 0 THEN same
                  ELSE (same \ {"failed"}) \cup (IF "action" \in same THEN {"failed"} ELSE {})
    /\ w' = [w EXCEPT !.at = "missed"]
    /\ Unwritten

\* classifyActive: the entry a server that changed in place or moved is at.
Current(a) == \E e \in AllServers : SameChoice(a, e) /\ e.conn = a.conn
MovedTo(a) ==
    LET named == {e \in AllServers : SameChoice(a, e)}
        here  == {e \in named : AddressOf[e.conn] = AddressOf[a.conn]}
    IN  IF Current(a) THEN {}
        ELSE IF here # {} THEN here
        ELSE IF Cardinality(named) = 1 THEN named ELSE {}

\* A death settles the returns once: one that starts soon after a return, on
\* its record, is a failed return.
returnAfterDeath(m, soon) ==
    IF m.settled THEN m
    ELSE [m EXCEPT !.settled = TRUE, !.returning = FALSE,
                   !.returnFails = IF m.returning /\ m.onReturn
                                   THEN IF soon THEN (IF @ < ReturnFailsMax THEN @ + 1 ELSE @) ELSE 0
                                   ELSE @]

\* followActive checks the record against its list from the second miss on,
\* outside the backoff.
Checks == mem.fails >= 2 /\ ~mem.held

\* The tick goes on to the death rules.
ByRules == ~Checks \/ Current(w.active) \/ (MovedTo(w.active) = {} /\ ~wan)

\* A death may be confirmed from the second miss on, by an address that does
\* not answer, and is at DeadAfter.
MayBeDead == mem.fails >= 2
MustBeDead == mem.fails >= DeadTicks

Missed == w.at = "missed" /\ allowed

\* A server that changed in place or moved is followed.
FollowActive ==
    /\ Missed /\ Checks
    /\ \E e \in MovedTo(w.active) : Begin("follow", {e}, Candidates \ {e}, FALSE)
    /\ UNCHANGED <<mem, same>> /\ Unwritten

\* One that left its list is replaced.
ReplaceActive ==
    /\ Missed /\ Checks
    /\ ~Current(w.active) /\ MovedTo(w.active) = {} /\ wan
    /\ Begin("replace", Candidates, {}, FALSE)
    /\ \E soon \in BOOLEAN : mem' = returnAfterDeath(mem, soon)
    /\ UNCHANGED same /\ Unwritten

\* The monitor's evidence that the server is dead and others live.
FastFailover ==
    /\ Missed /\ ByRules
    /\ ~mem.held /\ wan /\ w.active \in AllServers
    /\ \E choices \in SUBSET {e \in Candidates : AddressOf[e.conn] # AddressOf[w.active.conn]} :
         /\ Cardinality(choices) <= FastCandidates
         /\ Begin("fast", choices, {}, TRUE)
    /\ UNCHANGED <<mem, same>> /\ Unwritten

\* One that is dead is replaced, its own entry tried last, in whatever order
\* the monitor ranks the others.
ReplaceDead ==
    /\ Missed /\ ByRules
    /\ ~mem.held /\ wan /\ MayBeDead
    /\ \E guarded \in BOOLEAN :
         /\ guarded => w.active \in AllServers
         /\ Begin("replace", Candidates \ {w.active}, {w.active} \cap AllServers, guarded)
    /\ \E soon \in BOOLEAN : mem' = returnAfterDeath(mem, soon)
    /\ UNCHANGED same /\ Unwritten

\* The next tick looks again.
Wait ==
    /\ Missed /\ ByRules
    /\ mem.held \/ ~wan \/ ~MustBeDead
    /\ EndTick(mem, FALSE)
    /\ Unwritten

\* The fence of an action (superseded): the counter, and the server the action
\* found or recorded last.
Owns == "action" \in same /\ ServerID(active) = w.expect

\* The fast path's ownership: the entry that died and the record stand in their
\* lists; a replacement under it needs the subscriptions alone.
Fenced ==
    /\ w.guarded => {w.died.sub, active.sub} \subseteq There
    /\ w.job = "fast" => {w.died, active} \cup ({w.cur} \ {None}) \subseteq AllServers

\* A tick whose action may write nothing more.  A refused fast path ends the
\* failure episode.
Refused == EndTick(IF w.job = "fast" THEN resetFail(mem) ELSE mem, FALSE)

\* Whichever candidate the order of the walk has next.
NextUp == w.todo

Skip(set) == w' = [w EXCEPT !.todo = @ \ set] /\ UNCHANGED <<mem, same, conf, lock>>

WatchGenerates_Unfenced ==
    /\ w.at = "writing" /\ allowed /\ Unlocked
    /\ \E e \in NextUp :
        \/ /\ w.job # "back" /\ e.sub \notin There
           /\ Skip({x \in w.todo : x.sub = e.sub}) /\ Free
        \/ /\ w.job = "back" \/ e.sub \in There
           /\ conf' = e.conn /\ Hold("watch")
           /\ w' = [w EXCEPT !.at = "recording", !.cur = e, !.wrote = TRUE]
           /\ UNCHANGED <<mem, same>> /\ Free
    /\ UNCHANGED <<config, xray, files, world, r, u, unsaved, wanted, unread, clock>>

\* GenerateAndRecordGuardedWalkedServer: the guard runs under the config lock,
\* just before config.json is replaced.  A candidate whose subscription was
\* deleted is not written; the way back is not held to that.
WatchGenerates ==
    /\ w.at = "writing" /\ allowed /\ Unlocked
    /\ \E e \in NextUp :
        \/ /\ ~(Owns /\ Fenced)
           /\ Refused /\ Free
           /\ UNCHANGED <<conf, lock>>
        \/ /\ Owns /\ Fenced
           /\ w.job # "back" /\ e.sub \notin There
           /\ Skip({x \in w.todo : x.sub = e.sub}) /\ Free
        \/ /\ Owns /\ Fenced
           /\ w.guarded /\ e.sub \in There /\ e \notin AllServers
           /\ IF w.job = "fast" THEN Refused /\ UNCHANGED <<conf, lock>>
              ELSE Skip({x \in w.todo : x.sub = e.sub})
           /\ Free
        \/ /\ Owns /\ Fenced
           /\ w.job = "back" \/ e.sub \in There
           /\ w.guarded => e \in AllServers
           /\ \/ /\ conf' = e.conn /\ Hold("watch")
                 /\ w' = [w EXCEPT !.at = "recording", !.cur = e, !.wrote = TRUE]
                 /\ UNCHANGED <<mem, same>> /\ Free
              \/ Skip({e}) /\ Spend(0, 1)      \* Xray rejects the config
    /\ UNCHANGED <<config, xray, files, world, r, u, unsaved, wanted, unread, clock>>

WatchRecords ==
    /\ w.at = "recording"
    /\ lock' = "free"
    /\ \/ /\ RecordWalkedServer(w.cur)
          /\ same' = {"own", "action"}
          /\ wanted' = IF Sort(wanted) = Sort(w.cur) THEN w.cur ELSE wanted
          /\ w' = [w EXCEPT !.at = "trying", !.expect = ServerID(w.cur)]
          /\ unsaved' = FALSE /\ Free
       \/ /\ w' = [w EXCEPT !.at = "trying"]
          /\ unsaved' = TRUE /\ Spend(0, 1)
          /\ UNCHANGED <<config, same, wanted>>
    /\ UNCHANGED <<conf, xray, files, world, mem, r, u, unread, clock>>

\* Under the fast path's ownership a restart is refused before it and after.
WatchRestarts ==
    /\ w.at = "trying" /\ allowed
    /\ \/ /\ w.guarded /\ ~(Owns /\ Fenced)
          /\ Refused /\ UNCHANGED xray /\ Free
       \/ /\ w.guarded => Owns /\ Fenced
          /\ \/ /\ xray' = conf /\ Free
                /\ w' = [w EXCEPT !.at = "restarted"]
             \/ /\ w' = [w EXCEPT !.at = "dead"] /\ Spend(0, 1)
                /\ UNCHANGED xray
          /\ UNCHANGED <<mem, same>>
    /\ UNCHANGED <<config, conf, lock, files, world, r, u, unsaved, wanted, unread, clock>>

\* The SOCKS probe of what Xray then runs.
WatchProbes ==
    /\ w.at = "restarted" /\ allowed
    /\ \/ w.guarded /\ ~(Owns /\ Fenced) /\ Refused
       \/ /\ w.guarded => Owns /\ Fenced
          /\ w' = [w EXCEPT !.at = IF Works(xray) THEN "live" ELSE "dead"]
          /\ UNCHANGED <<mem, same>>
    /\ Unwritten

\* The look before a switch is announced: a selection can land during the probe.
WatchKeeps ==
    /\ w.at = "live" /\ allowed
    /\ \E soon \in BOOLEAN :
       LET m == [mem EXCEPT !.picked = w.cur]
           d == landedOnChoice(resetKeeper(resetFail(
                    IF w.job = "fast" THEN returnAfterDeath(m, soon) ELSE m)), preferred)
           owned == Owns /\ (w.job = "fast" => Fenced)
       IN  \/ /\ w.job = "back"
              /\ EndTick(m, FALSE)
           \/ /\ w.job # "back" /\ ~owned
              /\ Refused
           \/ /\ w.job \in {"return", "group"} /\ owned
              /\ EndTick([m EXCEPT !.returning = TRUE], TRUE)
           \/ /\ w.job \in {"follow", "replace", "fast"} /\ owned
              /\ EndTick(d, d.returning /\ ~m.returning)
    /\ Unwritten

WatchDrops ==
    /\ w.at = "dead" /\ allowed
    /\ \/ /\ w.job = "fast" /\ ~(Owns /\ Fenced) /\ Refused
       \/ /\ w.job = "fast" => Owns /\ Fenced
          /\ w' = [w EXCEPT !.at = "writing", !.todo = @ \ {w.cur},
                            !.then = IF w.job = "fast" THEN @ \cup {w.cur} ELSE @]
          /\ UNCHANGED <<mem, same>>
    /\ Unwritten

Onward(job, todo, then) == w' = [w EXCEPT !.job = job, !.todo = todo, !.then = then]

Exhausted == w.at = "writing" /\ allowed /\ w.todo = {}

\* No candidate is left.  A failed return backs off and goes back to the server
\* that ran.
ReturnExhausts ==
    /\ Exhausted
    /\ LET b == [mem EXCEPT !.returnFails = IF @ < ReturnFailsMax THEN @ + 1 ELSE @] IN
       \/ /\ w.job \in {"return", "group"} /\ w.wrote
          /\ Onward("back", w.then, {}) /\ mem' = b /\ UNCHANGED same
       \/ /\ w.job \in {"return", "group"} /\ ~w.wrote
          /\ EndTick(b, FALSE)
       \/ /\ w.job = "back"
          /\ EndTick(mem, FALSE)
    /\ Unwritten

\* A follow and a fast path that failed hand over to a replacement.
FollowExhausts ==
    /\ Exhausted /\ w.job = "follow"
    /\ \/ /\ Owns /\ wan
          /\ Onward("replace", w.then, {})
          /\ \E soon \in BOOLEAN : mem' = returnAfterDeath(mem, soon)
          /\ UNCHANGED same
       \/ ~(Owns /\ wan) /\ EndTick(mem, FALSE)
    /\ Unwritten

FastExhausts ==
    /\ Exhausted /\ w.job = "fast"
    /\ \/ /\ wan /\ Owns /\ Fenced
          /\ Onward("replace", Candidates \ (w.then \cup {w.died}), {w.died} \cap AllServers)
          /\ \E soon \in BOOLEAN : mem' = returnAfterDeath(mem, soon)
          /\ UNCHANGED same
       \/ ~(Owns /\ Fenced) /\ Refused
       \/ ~wan /\ Owns /\ Fenced /\ EndTick(mem, FALSE)
    /\ Unwritten

\* A replacement tries the dead server's own entry last, and backs off when
\* nothing works.
ReplaceExhausts ==
    /\ Exhausted /\ w.job = "replace"
    /\ \/ /\ w.then # {}
          /\ Onward("replace", w.then, {}) /\ UNCHANGED <<mem, same>>
       \/ /\ w.then = {}
          /\ EndTick([mem EXCEPT !.held = @ \/ (Owns /\ Fenced)], FALSE)
    /\ Unwritten

\* The monitor's evidence no longer holds: the fast path leaves the death to
\* the rules that confirm it without the monitor, under its ownership.
FastInconclusive ==
    /\ w.at = "writing" /\ w.job = "fast" /\ allowed
    /\ Owns /\ Fenced
    /\ \/ /\ mem.fails < DeadTicks \/ ~wan
          /\ EndTick(mem, FALSE)
       \/ /\ mem.fails >= 2 /\ wan
          /\ \E soon \in BOOLEAN : mem' = returnAfterDeath(mem, soon)
          /\ Onward("replace", Candidates \ {w.died}, {w.died} \cap AllServers)
          /\ UNCHANGED same
    /\ Unwritten

\* mutationEnded, wherever the tick looks.
WatchInterrupted ==
    /\ w.at \in {"probing", "missed", "writing", "trying", "restarted", "live", "dead"} /\ ~allowed
    /\ Interrupted
    /\ Unwritten

\* KeeperRetry is over.
KeeperElapses ==
    /\ mem.held
    /\ mem' = [mem EXCEPT !.held = FALSE]
    /\ UNCHANGED <<config, conf, xray, lock, files, world, same, w, r, u, unsaved, wanted, unread, clock>> /\ Free

Fresh == [fails |-> 0, onReturn |-> FALSE, settled |-> FALSE, held |-> FALSE,
          returnFails |-> 0, returning |-> FALSE, picked |-> None]

\* watchd dies and starts again: the system lets go of its lock, and a round
\* that was to put a file back does not.
WatchdRestarts ==
    /\ Spend(0, 1)
    /\ w' = Asleep /\ r' = Resting /\ mem' = Fresh /\ same' = {}
    /\ lock' = IF lock = "watch" THEN "free" ELSE lock
    /\ unsaved' = (unsaved \/ lock = "watch")
    /\ UNCHANGED <<config, conf, xray, files, world, u, wanted, unread, clock>>

---------------------------------------------------------------------------
(* The world.                                                              *)

\* A panel of a saved subscription changes its list.
PanelChanges ==
    /\ Move
    /\ \E l \in {LinkOf[s] : s \in There}, k \in Conn, n \in Name :
       LET list == panel[l].list IN
       \/ /\ k \in DOMAIN list /\ list[k] # n                    \* renamed
          /\ panel' = [panel EXCEPT ![l].list[k] = n, ![l].ver = @ + 1]
       \/ /\ k \in DOMAIN list
          /\ \E j \in Conn \ DOMAIN list :                        \* moved
              panel' = [panel EXCEPT ![l].list = [i \in (DOMAIN list \ {k}) \cup {j} |->
                                                   IF i = j THEN list[k] ELSE list[i]],
                                     ![l].ver = @ + 1]
       \/ /\ k \in DOMAIN list                                    \* dropped
          /\ panel' = [panel EXCEPT ![l].list = [i \in DOMAIN list \ {k} |-> list[i]], ![l].ver = @ + 1]
       \/ /\ k \notin DOMAIN list                                 \* added
          /\ panel' = [panel EXCEPT ![l].list = [i \in DOMAIN list \cup {k} |->
                                                   IF i = k THEN n ELSE list[i]],
                                     ![l].ver = @ + 1]
    /\ UNCHANGED <<config, conf, xray, lock, files, up, wan, allowed, same, mem, w, r, u, unsaved, wanted, unread, clock>>

WorldChanges ==
    /\ Move
    /\ \/ /\ \E k \in Conn : up' = IF k \in up THEN up \ {k} ELSE up \cup {k}
          /\ UNCHANGED <<wan, allowed>>
       \/ wan' = ~wan /\ UNCHANGED <<up, allowed>>
       \/ allowed' = ~allowed /\ UNCHANGED <<up, wan>>
    /\ UNCHANGED <<config, conf, xray, lock, files, panel, same, mem, w, r, u, unsaved, wanted, unread, clock>>

---------------------------------------------------------------------------
User == UserPicks \/ UserGenerates \/ UserRecords \/ UserRestarts
        \/ UserDownloads \/ UserPublishes \/ UserDeletes
Round == RoundReads \/ RoundDownloads \/ RoundRecordsError \/ RoundPublishes \/ RoundRestores
Decide == FollowActive \/ ReplaceActive \/ FastFailover \/ ReplaceDead \/ Wait
Exhausts == ReturnExhausts \/ FollowExhausts \/ FastExhausts \/ ReplaceExhausts
Watch == Tick \/ ProbePasses \/ ProbeFails \/ Decide \/ WatchGenerates \/ WatchRecords
         \/ WatchRestarts \/ WatchProbes \/ WatchKeeps \/ WatchDrops \/ Exhausts
         \/ FastInconclusive \/ WatchInterrupted \/ KeeperElapses
World == PanelChanges \/ WorldChanges \/ WatchdRestarts

Next == User \/ Round \/ Watch \/ World

\* A server of a saved subscription is selected and Xray runs it.
Init ==
    /\ panel = [l \in Link |-> [list |-> Listed[l], ver |-> 0]]
    /\ files = [s \in Sub |-> IF s \in DOMAIN Stored
                              THEN [there |-> TRUE, list |-> Stored[s], stamp |-> 0, err |-> FALSE, ver |-> 0]
                              ELSE Unused]
    /\ active \in AllServers /\ preferred = None /\ wanted = active
    /\ conf = active.conn /\ xray = active.conn /\ unsaved = FALSE /\ unread = TRUE
    /\ lock = "free" /\ same = {} /\ mem = Fresh /\ w = Asleep /\ r = Resting /\ u = Idle
    /\ up = Working /\ wan = TRUE /\ allowed = TRUE
    /\ clock = 0
    /\ budget = [moves |-> MaxMoves, acts |-> MaxActs, faults |-> MaxFaults, all |-> MaxEvents]

Spec == Init /\ [][Next]_vars

\* The watch ticks on, and so does its clock; who holds the config lock, or has
\* Xray to restart, goes on to the end.  A round waits for the mutex of the tick,
\* for which Go lets nobody wait without end, and its downloads time out.
FairSpec ==
    /\ Spec
    /\ WF_vars(Watch) /\ WF_vars(KeeperElapses)
    /\ WF_vars(UserRecords \/ UserRestarts)
    /\ SF_vars(Round)

---------------------------------------------------------------------------
(* Properties.                                                             *)

TypeOK ==
    /\ active \in Entry /\ preferred \in Entry \cup {None} /\ wanted \in Entry
    /\ {conf, xray} \cup up \subseteq Conn
    /\ lock \in {"free", "user", "watch"}
    /\ \A s \in Sub : files[s] \in File \cup {Unused, Gone}
    /\ \A l \in Link : panel[l].list \in List
    /\ same \subseteq Counter
    /\ mem.fails \in 0..DeadTicks /\ mem.returnFails \in 0..ReturnFailsMax
    /\ mem.picked \in Entry \cup {None}
    /\ {wan, allowed, unsaved, unread, mem.onReturn, mem.settled, mem.held, mem.returning} \subseteq BOOLEAN
    /\ w.at = "writing" => w.todo \cup w.then \subseteq Entry

\* config.json describes the server active_server names whenever nobody holds
\* the config lock, however the user's switches and the watch's interleave: the
\* generation and its record go under one lock.  The exception is the one the
\* callers report: a record that could not be saved.
ConfIsRecorded == lock = "free" /\ ~unsaved => conf = active.conn

\* Whatever the watch switches Xray to, and in whatever order, its records keep
\* the server the user chose: by subscription, name and kind.
ChoiceKept == Sort(wanted) = Sort(Choice(active, preferred))

\* The watch never takes Xray off a server the user selected before a tick has
\* read that selection: what it decided before is refused under the lock.
SelectionStands == [][lock' = "watch" /\ lock = "free" => ~unread]_vars

\* A round of the periodic refresh, slow as its download may be, never takes
\* back a list downloaded after its own.
NewerListStands ==
    [][\A s \in Sub : r.at = "downloaded" /\ r' # r /\ files[s] # files'[s] => files'[s].ver >= files[s].ver]_vars

\* Xray ends up on a server that works when a saved subscription's panel goes
\* on listing one: the keeper goes on looking, and the refresh goes on bringing
\* it the lists, while the probe fails.
Findable == allowed /\ wan /\ \E s \in There : DOMAIN panel[LinkOf[s]].list \cap up # {}
EventuallyWorks == <>[]Findable => []<>Works(xray)

=============================================================================

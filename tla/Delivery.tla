------------------------------ MODULE Delivery ------------------------------
(* The bot's delivery of watchd's events: bot/notifications.go with the      *)
(* chat store it asks for its recipients, the path manager and transport it  *)
(* reaches Telegram through, and the IPC to watchd.                          *)
(*                                                                           *)
(* Four threads share the state: the update loop (an interaction, then a     *)
(* sync), the poll (a sync, a read, the new jobs), a worker a chat, and the  *)
(* path manager's cycle.  A call to watchd may be lost, applied without an   *)
(* answer or applied long after it was given up; Telegram may answer late or *)
(* not at all; the bot and watchd may restart at any step.                   *)
(*                                                                           *)
(* watchd is its memory and its file; how it numbers and saves is            *)
(* NotificationStore's.  Events are 1..published in the order of             *)
(* publication, which is also their time: a chat first seen at f gets the    *)
(* events n >= f.                                                            *)
EXTENDS Integers, FiniteSets, FiniteSetsExt, Sequences, SequencesExt

CONSTANTS
    User,          \* authorised usernames
    Chat,          \* Telegram chats
    Backup,        \* paths to Telegram other than "direct"
    MaxPerChat,    \* notificationMaxPerChat, and watchd's maxPerChat and maxRecent
    MaxPublished,  \* bound: events published
    MaxFaults,     \* bound: failed calls, refusals and restarts
    MaxMoves,      \* bound: interactions, deactivations, hours, path changes
    MaxEvents      \* bound: faults and moves together

ASSUME DeliveryAssumption ==
    /\ MaxPerChat \in Nat \ {0} /\ MaxPublished \in Nat
    /\ MaxFaults \in Nat /\ MaxMoves \in Nat /\ MaxEvents \in Nat
    /\ Backup \cap {"none", "direct"} = {}
    /\ Chat \cap {"nobody", "update", "poll"} = {}   \* who else syncs

VARIABLES
    published, aged,                    \* time: events so far; older than maxAge
    store, disk, late,                  \* watchd: its memory, its file and a list
                                        \* still to be applied
    users,                              \* chatstore: chat, first seen, active
    synced,                             \* the list watchd last accepted
    syncing,                            \* the SetRecipients call under way
    loop,                               \* the update loop: "idle" or "sync"
    poll,                               \* readNotificationJobs
    sent,                               \* receipts: [Chat -> Seq(events)]
    job,                                \* inFlight: [Chat -> job]
    current, bound, cycle, alive,       \* the path: chosen, in use, the cycle
                                        \* under way, and what really works
    confirmed,                          \* history: acknowledgements answered OK
    answered,                           \* history: what Telegram answered for
    since,                              \* history: of those, since the bot started
                                        \* and while the chat could have them, each
                                        \* with the ones answered for after it
    faults, moves

watchd == <<store, disk, late>>
paths == <<current, bound, cycle, alive>>
history == <<confirmed, answered, since>>
vars == <<published, aged, watchd, users, synced, syncing, loop, poll, sent, job, paths, history,
          faults, moves>>

NoList == <<>>
NotSyncing == [by |-> "nobody"]
NoPoll == [step |-> "idle"]
NoJob == [step |-> "none"]
NoCycle == [step |-> "none"]

Fault == faults < MaxFaults /\ faults + moves < MaxEvents /\ faults' = faults + 1
Move == moves < MaxMoves /\ faults + moves < MaxEvents /\ moves' = moves + 1

-----------------------------------------------------------------------------
(* watchd, as the bot sees it.                                              *)

\* boundedEvents: the oldest beyond the limit go, and do not come back.
Newest(ns) == {n \in ns : Cardinality({m \in ns : m > n}) < MaxPerChat}

Lists(list, c, n) == list[c] # 0 /\ n >= list[c]

\* The store: the recipients, the events remembered, and a chat's queue and
\* acknowledgements.  (Too old events are the oldest: they go when read.)
Blank ==
    [listed |-> [c \in Chat |-> 0], recent |-> {}, queue |-> [c \in Chat |-> {}],
     closed |-> [c \in Chat |-> {}]]

\* appendEventLocked.
Appended(m, n) ==
    [m EXCEPT !.recent = Newest(@ \cup {n}),
              !.queue = [c \in Chat |-> Newest(m.queue[c] \cup {k \in {n} : Lists(m.listed, c, k)})]]

\* ReplaceRecipients: what waits for a chat and what is remembered, less what it
\* has acknowledged and what was published before it was first seen.
Replaced(m, list) ==
    [m EXCEPT !.listed = list,
              !.queue = [c \in Chat |-> Newest({n \in (m.queue[c] \cup m.recent) \ m.closed[c] :
                                                    Lists(list, c, n)})]]

\* Store.Ack.  (The code keeps an acknowledgement while the event is remembered:
\* after that nothing puts it in a queue again.)
Acked(m, c, n) == [m EXCEPT !.queue[c] = @ \ {n}, !.closed[c] = @ \cup {n}]

\* What GET /v1/notifications/pending answers for a chat.
Pending(c) == {n \in store.queue[c] : n > aged}

\* A save follows every change, and may fail or come too late.
Publish ==
    /\ published < MaxPublished
    /\ published' = published + 1
    /\ store' = Appended(store, published + 1)
    /\ disk' \in {disk, store'}
    /\ UNCHANGED <<aged, late, users, synced, syncing, loop, poll, sent, job, paths, history,
                   faults, moves>>

\* A SetRecipients the bot gave up on is applied after all.
ApplyLate ==
    /\ late # NoList
    /\ store' = Replaced(store, late) /\ late' = NoList
    /\ disk' \in {disk, store'}
    /\ UNCHANGED <<published, aged, users, synced, syncing, loop, poll, sent, job, paths, history,
                   faults, moves>>

\* Run: the save of the ticker.
WatchdSave ==
    /\ disk # store
    /\ disk' = store
    /\ UNCHANGED <<published, aged, store, late, users, synced, syncing, loop, poll, sent, job, paths,
                   history, faults, moves>>

\* watchd restarts from its file: events, acknowledgements and recipients it
\* had not saved are gone, and what they had replaced is back.
WatchdRestart ==
    /\ Fault
    /\ disk # store \/ late # NoList
    /\ store' = disk /\ late' = NoList
    /\ UNCHANGED <<published, aged, disk, users, synced, syncing, loop, poll, sent, job, paths, history,
                   moves>>

\* Ack over the socket: done, saved and answered; or no answer, and it is done
\* or not and saved or not.
AckCall(c, n, ok) ==
    \/ /\ ok
       /\ store' = Acked(store, c, n) /\ disk' = store'
       /\ confirmed' = [confirmed EXCEPT ![c] = @ \cup {n}]
       /\ UNCHANGED faults
    \/ /\ ~ok /\ Fault
       /\ store' \in {store, Acked(store, c, n)} /\ disk' \in {disk, store'}
       /\ UNCHANGED confirmed

-----------------------------------------------------------------------------
(* The chat store and the recipients.                                       *)

\* activeRecipients: the chats of active users, each from when it was first
\* seen by any of them.
RecipientsOf(us) ==
    [c \in Chat |->
        LET seen == {us[u].seen : u \in {v \in User : us[v].active /\ us[v].chat = c}}
        IN  IF seen = {} THEN 0 ELSE Min(seen)]

ActiveRecipients == RecipientsOf(users)

\* notificationAllowed.
Allowed(c, n) == n > aged /\ Lists(ActiveRecipients, c, n)

\* What a list of recipients leaves out is as good as new to its chat.
Outlasts(list) ==
    since' = [c \in Chat |-> [n \in {m \in DOMAIN since[c] : Lists(list, c, m)} |-> since[c][n]]]

\* RecordInteraction, then the loop's syncRecipientsIfChanged.  A user in
\* another chat is first seen there now.  (One that changes nothing is left out:
\* all it can do is one more sync.)
Interact(u, c) ==
    /\ loop = "idle" /\ Move
    /\ ~users[u].active \/ users[u].chat # c
    /\ users' = [users EXCEPT ![u] = [chat |-> c, active |-> TRUE,
                                      seen |-> IF users[u].chat = c THEN users[u].seen ELSE published + 1]]
    /\ Outlasts(RecipientsOf(users'))
    /\ loop' = "sync"
    /\ UNCHANGED <<published, aged, watchd, synced, syncing, poll, sent, job, paths, confirmed, answered, faults>>

\* SetInactive, by the update checker that met a blocked bot.
SetInactive(u) ==
    /\ users[u].active /\ Move
    /\ users' = [users EXCEPT ![u].active = FALSE]
    /\ Outlasts(RecipientsOf(users'))
    /\ UNCHANGED <<published, aged, watchd, synced, syncing, loop, poll, sent, job, paths, confirmed, answered, faults>>

\* Of the sequence s, the elements in S.
Only(s, S) ==
    LET kept[i \in 0 .. Len(s)] ==
            IF i = 0 THEN <<>> ELSE IF s[i] \in S THEN Append(kept[i - 1], s[i]) ELSE kept[i - 1]
    IN  kept[Len(s)]

Prune(receipts, list) ==
    [c \in Chat |-> Only(receipts[c], {n \in ToSet(receipts[c]) : n > aged /\ Lists(list, c, n)})]

\* syncRecipients, one at a time: the list is read, receipts of what a chat may
\* not get by that list go, and watchd is told the list.  The users may change
\* and a worker remember or forget between any two of the three.
BeginSync(by) ==
    /\ syncing = NotSyncing
    /\ syncing' = [by |-> by, step |-> "prune", list |-> ActiveRecipients]

\* The loop compares before it waits for its turn, and syncs whatever it then finds.
UpdateSync ==
    /\ \/ /\ loop = "sync"
          /\ loop' = IF synced = ActiveRecipients THEN "idle" ELSE "turn"
          /\ UNCHANGED syncing
       \/ /\ loop = "turn"
          /\ BeginSync("update") /\ loop' = "syncing"
    /\ UNCHANGED <<published, aged, watchd, users, synced, poll, sent, job, paths, history, faults, moves>>

PruneSync ==
    /\ syncing # NotSyncing /\ syncing.step = "prune"
    /\ sent' = Prune(sent, syncing.list)
    /\ Outlasts(syncing.list)
    /\ syncing' = [syncing EXCEPT !.step = "call"]
    /\ UNCHANGED <<published, aged, watchd, users, synced, loop, poll, job, paths, confirmed, answered,
                   faults, moves>>

\* What the caller of a sync does when it is over.
AfterSync(by) ==
    /\ loop' = IF by = "update" THEN "idle" ELSE loop
    /\ poll' = IF by = "poll" THEN [step |-> "read"] ELSE poll
    /\ job' = [c \in Chat |-> IF c # by THEN job[c]
                              ELSE IF job[c].step = "blockedSync" THEN [job[c] EXCEPT !.step = "blockedAck"]
                              ELSE NoJob]

\* SetRecipients over the socket: as an Ack, but that it may also be done late.
EndSync ==
    /\ syncing # NotSyncing /\ syncing.step = "call"
    /\ syncing' = NotSyncing
    /\ AfterSync(syncing.by)
    /\ \/ /\ store' = Replaced(store, syncing.list) /\ disk' = store'
          /\ synced' = syncing.list
          /\ UNCHANGED <<late, faults>>
       \/ /\ Fault
          /\ synced' = NoList
          /\ \/ store' = Replaced(store, syncing.list) /\ disk' \in {disk, store'} /\ late' = late
             \/ UNCHANGED <<store, disk>> /\ late' \in {late, syncing.list}
    /\ UNCHANGED <<published, aged, users, sent, paths, history, moves>>

-----------------------------------------------------------------------------
(* The poll.                                                                *)

PollSync_IfChanged ==
    /\ poll = NoPoll
    /\ IF synced = ActiveRecipients
       THEN poll' = [step |-> "read"] /\ UNCHANGED syncing
       ELSE BeginSync("poll") /\ poll' = [step |-> "syncing"]
    /\ UNCHANGED <<published, aged, watchd, users, synced, loop, sent, job, paths, history, faults, moves>>

PollSync ==
    /\ poll = NoPoll
    /\ BeginSync("poll")
    /\ poll' = [step |-> "syncing"]
    /\ UNCHANGED <<published, aged, watchd, users, synced, loop, sent, job, paths, history, faults, moves>>

\* readNotificationJobs: busy chats are left out of the whole read, receipts of
\* the others are copied; pages that cannot be read leave jobs of receipts.  (One
\* step: a chat without a job gains no receipt while its pages are read.)
ReadFrom(offers) ==
    /\ poll.step = "read"
    /\ \E got \in BOOLEAN :
        /\ IF got THEN UNCHANGED faults ELSE Fault
        /\ poll' = [step |-> "install",
                    free |-> {c \in Chat : job[c] = NoJob},
                    receipts |-> [c \in Chat |-> IF job[c] = NoJob THEN sent[c] ELSE <<>>],
                    found |-> [c \in Chat |-> IF got THEN {n \in offers[c] : Allowed(c, n)} ELSE {}]]
    /\ UNCHANGED <<published, aged, watchd, users, synced, syncing, loop, sent, job, paths, history,
                   moves>>

PollRead == ReadFrom([c \in Chat |-> Pending(c)])

Installable_Now == {c \in Chat : job[c] = NoJob}

Installable == poll.free

PollInstall ==
    /\ poll.step = "install"
    /\ poll' = NoPoll
    /\ job' = [c \in Chat |->
                IF c \in Installable /\ (poll.receipts[c] # <<>> \/ poll.found[c] # {})
                THEN [step |-> "run", receipts |-> poll.receipts[c], closed |-> {},
                      messages |-> poll.found[c], via |-> "none"]
                ELSE job[c]]
    /\ UNCHANGED <<published, aged, watchd, users, synced, syncing, loop, sent, paths, history,
                   faults, moves>>

-----------------------------------------------------------------------------
(* A worker: deliverNotificationChat.                                       *)

\* watchd lists a chat's events in the order of publication.
Message(c) == Min(job[c].messages)

forget(c, n) == [sent EXCEPT ![c] = Only(@, ToSet(@) \ {n})]

remember_Unbounded(c, n) ==
    [sent EXCEPT ![c] = IF n \in ToSet(@) THEN @ ELSE Append(@, n)]

remember(c, n) ==
    LET all == Append(sent[c], n)
    IN  [sent EXCEPT ![c] = IF n \in ToSet(@) THEN @
                            ELSE IF Len(all) > MaxPerChat THEN Tail(all) ELSE all]

\* The receipts first: what was sent and not acknowledged is acknowledged again.
WorkReceipt(c) ==
    /\ job[c].step = "run" /\ job[c].receipts # <<>>
    /\ LET n == Head(job[c].receipts)
           rest == [job[c] EXCEPT !.receipts = Tail(@)]
       IN  \/ /\ ~Allowed(c, n)
              /\ sent' = forget(c, n) /\ job' = [job EXCEPT ![c] = rest]
              /\ UNCHANGED <<store, disk, confirmed, faults>>
           \/ /\ Allowed(c, n)
              /\ \E ok \in BOOLEAN :
                  /\ AckCall(c, n, ok)
                  /\ sent' = IF ok THEN forget(c, n) ELSE sent
              /\ job' = [job EXCEPT ![c] = [rest EXCEPT !.closed = @ \cup {n}]]
    /\ UNCHANGED <<published, aged, late, users, synced, syncing, loop, poll, paths, answered, since, moves>>

\* The next message: skipped when its receipt was just seen or the chat may not
\* get it any more, put off when there is no path, and otherwise sent by the path
\* the transport is bound to now: a new one does not cancel it.
WorkMessage(c) ==
    /\ job[c].step = "run" /\ job[c].receipts = <<>>
    /\ job' = [job EXCEPT ![c] =
                IF job[c].messages = {} THEN NoJob
                ELSE IF Message(c) \in job[c].closed \/ ~Allowed(c, Message(c))
                     THEN [job[c] EXCEPT !.messages = @ \ {Message(c)}]
                ELSE IF current = "none" THEN NoJob
                ELSE [job[c] EXCEPT !.step = "sending", !.via = bound]]
    /\ UNCHANGED <<published, aged, watchd, users, synced, syncing, loop, poll, sent, paths, history,
                   faults, moves>>

After(order, n) == [m \in DOMAIN order \cup {n} |-> IF m = n THEN {} ELSE order[m] \cup {n}]

\* Telegram's final answer, OK or a refusal that will not change: a receipt is
\* kept until the acknowledgement is answered.  (Users who change between the
\* check and the receipt leave a receipt too many, never one too few.)
SendAnswered(c) ==
    /\ job[c].step = "sending" /\ job[c].via \in alive
    /\ LET n == Message(c)
       IN  /\ sent' = IF Allowed(c, n) THEN remember(c, n) ELSE sent
           /\ answered' = [answered EXCEPT ![c] = @ \cup {n}]
           /\ since' = IF Allowed(c, n) THEN [since EXCEPT ![c] = After(@, n)] ELSE since
    /\ job' = [job EXCEPT ![c].step = "ack", ![c].via = "none"]
    /\ UNCHANGED <<published, aged, watchd, users, synced, syncing, loop, poll, paths, confirmed, faults, moves>>

SendFails_Acks(c) ==
    /\ job[c].step = "sending" /\ Fault
    /\ job' = [job EXCEPT ![c].step = "ack", ![c].via = "none"]
    /\ UNCHANGED <<published, aged, watchd, users, synced, syncing, loop, poll, sent, paths, history,
                   moves>>

\* A failure counts against the path it is of: it starts a cycle when that is
\* still the path in use and no cycle is under way, and is dropped otherwise.
\* Having no path to dial is no failure of one.
ReportFailure(path) ==
    IF path # "none" /\ path = current /\ cycle = NoCycle
    THEN [step |-> "probe"] ELSE cycle

\* No answer, or one to try again after: the rest of the job waits for a poll.
\* A failure on the wire is reported.
SendFails(c) ==
    /\ job[c].step = "sending"
    /\ \/ /\ job[c].via \notin alive
          /\ cycle' = ReportFailure(job[c].via) /\ UNCHANGED faults
       \/ Fault /\ cycle' \in {cycle, ReportFailure(job[c].via)}
    /\ job' = [job EXCEPT ![c] = NoJob]
    /\ UNCHANGED <<published, aged, watchd, users, synced, syncing, loop, poll, sent, current, bound,
                   alive, history, moves>>

\* The chat was revoked between two blocks of a long message.
SendRevoked(c) ==
    /\ job[c].step = "sending" /\ ~Allowed(c, Message(c))
    /\ job' = [job EXCEPT ![c].step = "revokedSync", ![c].via = "none"]
    /\ UNCHANGED <<published, aged, watchd, users, synced, syncing, loop, poll, sent, paths, history,
                   faults, moves>>

\* 403: the bot is blocked.  Every user of the chat becomes inactive, watchd is
\* told, and the event is acknowledged.
SendForbidden(c) ==
    /\ job[c].step = "sending" /\ job[c].via \in alive /\ Fault
    /\ users' = [u \in User |-> IF users[u].chat = c THEN [users[u] EXCEPT !.active = FALSE] ELSE users[u]]
    /\ answered' = [answered EXCEPT ![c] = @ \cup {Message(c)}]
    /\ Outlasts(RecipientsOf(users'))
    /\ job' = [job EXCEPT ![c].step = "blockedSync", ![c].via = "none"]
    /\ UNCHANGED <<published, aged, watchd, synced, syncing, loop, poll, sent, paths, confirmed, moves>>

WorkSync(c) ==
    /\ job[c].step \in {"revokedSync", "blockedSync"}
    /\ BeginSync(c)
    /\ UNCHANGED <<published, aged, watchd, users, synced, loop, poll, sent, job, paths, history, faults,
                   moves>>

\* ackNotification: the receipt goes only with an answer.
WorkAck(c) ==
    /\ job[c].step \in {"ack", "blockedAck"}
    /\ \E ok \in BOOLEAN :
        /\ AckCall(c, Message(c), ok)
        /\ sent' = IF ok THEN forget(c, Message(c)) ELSE sent
    /\ job' = [job EXCEPT ![c] = IF job[c].step = "blockedAck" THEN NoJob
                                 ELSE [job[c] EXCEPT !.step = "run", !.messages = @ \ {Message(c)}]]
    /\ UNCHANGED <<published, aged, late, users, synced, syncing, loop, poll, paths, answered, since, moves>>

-----------------------------------------------------------------------------
(* The path to Telegram: PathManager and its transport.                     *)

\* selectPath on what the probes found: direct whenever it lives, else the
\* backup in use while that lives, else any that does.
selectPath ==
    IF "direct" \in alive THEN {"direct"}
    ELSE IF current \in Backup \cap alive THEN {current}
    ELSE IF Backup \cap alive # {} THEN Backup \cap alive
    ELSE {"none"}

\* SelectOnce, on its tick or on a report, up to what its probes answer.  (A
\* tick's cycle still probing cannot be told from none: a report of the path in
\* use begins the same one.)  The transport is bound to a new path before the
\* manager names it.
SelectProbe ==
    /\ cycle.step # "set"
    /\ \E next \in selectPath :
        /\ bound' = next
        /\ cycle' = IF next = current THEN NoCycle ELSE [step |-> "set", next |-> next]
    /\ UNCHANGED <<published, aged, watchd, users, synced, syncing, loop, poll, sent, job, current,
                   alive, history, faults, moves>>

SelectSet ==
    /\ cycle.step = "set"
    /\ current' = cycle.next /\ cycle' = NoCycle
    /\ UNCHANGED <<published, aged, watchd, users, synced, syncing, loop, poll, sent, job, bound,
                   alive, history, faults, moves>>

PathsChange ==
    /\ Move
    /\ alive' \in (SUBSET ({"direct"} \cup Backup)) \ {alive}
    /\ UNCHANGED <<published, aged, watchd, users, synced, syncing, loop, poll, sent, job, current,
                   bound, cycle, history, faults>>

-----------------------------------------------------------------------------
Age ==
    /\ aged < published /\ Move
    /\ aged' = aged + 1
    /\ UNCHANGED <<published, watchd, users, synced, syncing, loop, poll, sent, job, paths, history, faults>>

\* The bot restarts: the chat store is its file, everything else starts anew.
BotRestart ==
    /\ Fault
    /\ synced' = NoList /\ syncing' = NotSyncing /\ loop' = "idle" /\ poll' = NoPoll
    /\ sent' = [c \in Chat |-> <<>>] /\ job' = [c \in Chat |-> NoJob]
    /\ current' = "none" /\ bound' = "none" /\ cycle' = NoCycle
    /\ since' = [c \in Chat |-> [n \in {} |-> {}]]
    /\ UNCHANGED <<published, aged, watchd, users, alive, confirmed, answered, moves>>

Init ==
    /\ published = 0 /\ aged = 0
    /\ store = Blank /\ disk = Blank /\ late = NoList
    /\ \E home \in Chat : users = [u \in User |-> [chat |-> home, seen |-> 1, active |-> TRUE]]
    /\ synced = NoList /\ syncing = NotSyncing /\ loop = "idle" /\ poll = NoPoll
    /\ sent = [c \in Chat |-> <<>>] /\ job = [c \in Chat |-> NoJob]
    /\ current = "none" /\ bound = "none" /\ cycle = NoCycle /\ alive = {"direct"}
    /\ confirmed = [c \in Chat |-> {}] /\ answered = [c \in Chat |-> {}]
    /\ since = [c \in Chat |-> [n \in {} |-> {}]]
    /\ faults = 0 /\ moves = 0

Work(c) ==
    WorkReceipt(c) \/ WorkMessage(c) \/ SendAnswered(c) \/ SendFails(c) \/ SendRevoked(c)
        \/ SendForbidden(c) \/ WorkSync(c) \/ WorkAck(c)

Next ==
    \/ Publish
    \/ ApplyLate
    \/ WatchdSave
    \/ WatchdRestart
    \/ \E u \in User, c \in Chat : Interact(u, c)
    \/ \E u \in User : SetInactive(u)
    \/ UpdateSync
    \/ PruneSync
    \/ EndSync
    \/ PollSync
    \/ PollRead
    \/ PollInstall
    \/ \E c \in Chat : Work(c)
    \/ SelectProbe
    \/ SelectSet
    \/ PathsChange
    \/ Age
    \/ BotRestart

Spec == Init /\ [][Next]_vars

\* The scheduler runs every thread, tickers fire, calls under way end, and a
\* thread that waits for the syncing mutex gets it (Go's mutexes do not starve).
FairSpec ==
    /\ Spec
    /\ WF_vars(PruneSync \/ EndSync) /\ SF_vars(PollSync)
    /\ WF_vars(PollRead \/ PollInstall)
    /\ WF_vars(SelectProbe \/ SelectSet)
    /\ \A c \in Chat : WF_vars(Work(c)) /\ SF_vars(WorkSync(c))

-----------------------------------------------------------------------------
(* Properties.                                                              *)

TypeOK ==
    /\ published \in 0..MaxPublished /\ aged \in 0..published
    /\ faults \in 0..MaxFaults /\ moves \in 0..MaxMoves
    /\ \A c \in Chat : Len(sent[c]) <= MaxPerChat /\ store.closed[c] \subseteq 1..published
    /\ {current, bound} \subseteq {"none", "direct"} \cup Backup

\* An event is acknowledged only after Telegram gave a final answer for it: no
\* event is closed that its chat was never sent.
ClosedWasAnswered == \A c \in Chat : store.closed[c] \subseteq answered[c]

\* While the bot runs and the chat may have an event all along - by its users and
\* by every list a sync read, stale ones included - Telegram is asked again for
\* one it answered for only when MaxPerChat answers after it pushed its receipt
\* out, whatever acknowledgements were lost, late or forgotten by watchd.  (A
\* list read while the chat had no active user drops the receipts of a chat
\* that has one again by then: its events may come a second time.)
NoRepeat ==
    \A c \in Chat : job[c].step = "sending" /\ Message(c) \in DOMAIN since[c] =>
        Cardinality(since[c][Message(c)]) >= MaxPerChat

\* An event watchd holds for an active chat - in its queue, or remembered and
\* not acknowledged - is acknowledged in the end, unless it ages, is pushed out,
\* is lost with a restart or the chat may not have it any more - provided
\* Telegram stays reachable on some path.  Publication ends (MaxPublished), so
\* that nothing is due again and again says the same of every event at once.
Due(c, n) == Allowed(c, n) /\ n \in (store.queue[c] \cup store.recent) \ store.closed[c]

EventuallyDelivered ==
    <>[](alive # {}) => \A c \in Chat : []<>(\A n \in 1..MaxPublished : ~Due(c, n))
=============================================================================

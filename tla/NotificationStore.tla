------------------------- MODULE NotificationStore -------------------------
(* The notification store of watchd: notifications/store.go, persist.go,    *)
(* recipients.go and subscription_health.go, called by the watch (Publish), *)
(* by the health observer (ObserveSubscriptions), by its own ticker (Run)   *)
(* and by the bot over the unix socket (ReplaceRecipients, Pending, Ack).   *)
(*                                                                          *)
(* Memory changes under mu, one action a critical section; a save takes a   *)
(* snapshot under mu and writes it outside, under `saving`, so memory moves *)
(* on while the file is written.  The daemon crashes at any step.           *)
(*                                                                          *)
(* An event's text, the time it was published and its place in the order of *)
(* publication are one number n, so "first seen at f" and "older than       *)
(* maxAge" are comparisons with n.  Queues are ordered by sequence in the   *)
(* code and are sets here; "the oldest" is the one of the least sequence.   *)
EXTENDS Integers, FiniteSets, FiniteSetsExt

CONSTANTS
    Chat,          \* Telegram chats
    Sub,           \* subscriptions whose health is observed
    MaxPerChat,    \* maxPerChat: events waiting for a chat
    MaxRecent,     \* maxRecent: events remembered, and events without a number
    Reserve,       \* sequenceReserve: numbers a save leases
    MaxPublished,  \* bound: events published in a behaviour
    MaxFaults,     \* bound: crashes, failed saves and unreadable files
    MaxMoves       \* bound: lists sent, health seen and hours passed

ASSUME StoreAssumption ==
    /\ MaxPerChat \in Nat \ {0} /\ MaxRecent \in Nat \ {0} /\ Reserve \in Nat \ {0}
    /\ MaxPublished \in Nat /\ MaxFaults \in Nat /\ MaxMoves \in Nat
    /\ IsFiniteSet(Sub)
    /\ Chat \cap {"open", "tick", "publish", "nobody"} = {}   \* who else saves

VARIABLES
    phase,       \* "down", "starting" (in NewStore), "unopened" (no path yet),
                 \* "opening" (in openLocked) or "open"
    mem,         \* what a save writes: epoch, sequence, recent, recipients,
                 \* pending, closed, health
    reserved,    \* reservedThrough
    dirty,       \* revision # savedRevision
    backup,      \* needsBackup
    backlog,     \* events Publish could not number yet
    writing,     \* the save in progress, or Nobody
    publishing,  \* Publish past its first critical section: its event and step
    acking,      \* [Chat -> the id whose Ack waits for its flush, or NoId]
    file,        \* the file on disk, or NoFile
    published,   \* events published so far
    aged,        \* events up to this one are older than maxAge
    epochs,      \* epochs drawn so far
    numbered,    \* history: every event that got a number
    confirmed,   \* history: [Chat -> ids whose Ack was answered OK]
    faults,
    moves

memory == <<mem, reserved, dirty, backup, backlog>>
callers == <<publishing, acking>>
history == <<numbered, confirmed>>
vars == <<phase, memory, writing, callers, file, published, aged, epochs, history, faults, moves>>

NoFile == [content |-> 0]
Nobody == [by |-> "nobody"]
NoId == <<0, 0>>
Idle == [n |-> 0, at |-> "idle"]

Blank ==
    [epoch |-> 0, sequence |-> 0, recent |-> {}, recipients |-> [c \in Chat |-> 0],
     pending |-> [c \in Chat |-> {}], closed |-> [c \in Chat |-> {}],
     health |-> [s \in Sub |-> "unknown"]]

Ids(events) == {e.id : e \in events}
Seq(e) == e.id[2]

-----------------------------------------------------------------------------
(* The critical sections.                                                   *)

\* boundedEvents: what is too old goes, then the oldest beyond the limit.
boundedEvents(events, limit) ==
    LET young == {e \in events : e.n > aged}
    IN  {e \in young : Cardinality({f \in young : Seq(f) > Seq(e)}) < limit}

\* recipients[c] is the chat's FirstSeen; 0 is no recipient.
Sees(m, c, e) == m.recipients[c] # 0 /\ e.n >= m.recipients[c]

\* pruneLocked: progress is kept for remembered events only, and a queue loses
\* what is closed, old, or from before the chat was first seen.
Prune(m) ==
    LET recent == boundedEvents(m.recent, MaxRecent)
        closed == [c \in Chat |-> m.closed[c] \cap Ids(recent)]
        kept(c) == {e \in m.pending[c] : Sees(m, c, e) /\ e.id \notin closed[c]}
    IN  [m EXCEPT !.recent = recent, !.closed = closed,
                  !.pending = [c \in Chat |-> boundedEvents(kept(c), MaxPerChat)]]

\* The k events from n on, under the next numbers.
Events(m, n, k, from) ==
    {[id |-> <<m.epoch, m.sequence + i>>, n |-> n + i - 1, from |-> from] : i \in 1..k}

\* appendEventLocked, for each of the k events of one critical section: the next
\* number, and the event in the queue of every recipient that had been seen when
\* it was published.  What a prune drops it drops after later ones too.
Appended(m, n, k, from) ==
    LET new == Events(m, n, k, from)
    IN  Prune([m EXCEPT !.sequence = @ + k, !.recent = @ \cup new,
                        !.pending = [c \in Chat |-> @[c] \cup {e \in new : Sees(m, c, e)}]])

\* ReplaceRecipients: a chat's queue is what waited and what is remembered,
\* less what it closed and what was published before it was first seen.
Replaced(m, next) ==
    LET p == Prune(m)
        listed == [p EXCEPT !.recipients = next]
        merged(c) == {e \in p.pending[c] \cup p.recent :
                        Sees(listed, c, e) /\ e.id \notin p.closed[c]}
    IN  [listed EXCEPT !.pending = [c \in Chat |-> boundedEvents(merged(c), MaxPerChat)]]

\* Ack: out of the chat's queue, and closed for as long as it is remembered.
Closed(m, c, id) ==
    LET p == Prune(m)
    IN  [p EXCEPT !.pending[c] = {e \in @ : e.id # id},
                  !.closed[c] = @ \cup ({id} \cap Ids(p.recent))]

\* deferLocked: the oldest of a full backlog gives way.
Deferred_Unbounded(waiting, n) == waiting \cup {n}

Deferred(waiting, n) ==
    (IF Cardinality(waiting) = MaxRecent THEN waiting \ {Min(waiting)} ELSE waiting) \cup {n}

Move == moves < MaxMoves /\ moves' = moves + 1

Change(m) ==
    /\ mem' = m
    /\ dirty' = (dirty \/ m # mem)

Number(n, k, from) == numbered' = numbered \cup Events(mem, n, k, from)

-----------------------------------------------------------------------------
(* The file.                                                                *)

\* snapshotLocked: the number leased is a durable upper bound of what memory
\* will hand out before the next save.
Snapshot(m) == [content |-> m, reserved |-> Max({reserved, m.sequence + Reserve})]

\* validSavedState: what restore accepts.
ValidEvents(m, events) ==
    /\ \A e \in events : e.id[1] = m.epoch /\ Seq(e) \in 1..m.sequence
    /\ \A e, f \in events \cup m.recent : e.id = f.id => e = f

ValidSavedState(f) ==
    LET m == f.content
    IN  /\ m.epoch > 0 /\ f.reserved >= m.sequence
        /\ ValidEvents(m, m.recent)
        /\ \A c \in Chat :
            /\ m.pending[c] # {} => m.recipients[c] # 0
            /\ ValidEvents(m, m.pending[c])
            /\ Ids(m.pending[c]) \cap m.closed[c] = {}
            /\ \A id \in m.closed[c] : id[1] = m.epoch /\ id[2] \in 1..m.sequence

\* load: restore the file - numbering goes on above everything it leased - or
\* start anew under an epoch of its own, keeping the unreadable file for a
\* backup.  The save that follows is part of opening.
Restored_AsSaved(f) == f.content

Restored(f) == [f.content EXCEPT !.sequence = f.reserved]
Anew == [Blank EXCEPT !.epoch = epochs + 1]

Load ==
    /\ phase \in {"down", "unopened"} /\ writing = Nobody
    /\ phase' = IF phase = "down" THEN "starting" ELSE "opening"
    /\ \E readable \in {ok \in BOOLEAN : ok \/ file # NoFile} :
        /\ readable \/ faults < MaxFaults
        /\ faults' = IF readable THEN faults ELSE faults + 1
        /\ LET found == readable /\ file # NoFile /\ ValidSavedState(file)
               m == Prune(IF found THEN Restored(file) ELSE Anew)
           IN  /\ mem' = m
               /\ reserved' = IF found THEN file.reserved ELSE Reserve
               /\ epochs' = IF found THEN epochs ELSE epochs + 1
               /\ backup' = (file # NoFile /\ ~found)
               /\ dirty' = FALSE
               /\ writing' = [by |-> "open", step |-> "write", head |-> 0,
                              snap |-> [content |-> m, reserved |-> m.sequence + Reserve]]
    /\ UNCHANGED <<backlog, callers, file, published, aged, history, moves>>

\* OpenStore while its path does not resolve: nothing is read, and every flush
\* asks again.
OpenUnresolved ==
    /\ phase = "down" /\ faults < MaxFaults
    /\ phase' = "unopened"
    /\ faults' = faults + 1
    /\ UNCHANGED <<memory, writing, callers, file, published, aged, epochs, history, moves>>

\* saveLocked up to its unlock, for the caller `by` that holds `saving`.
NeedsSave(m) == dirty \/ m # mem \/ backup \/ mem.sequence >= reserved

Begin(by) ==
    LET m == Prune(mem)
    IN  /\ phase = "open" /\ writing = Nobody
        /\ mem' = m
        /\ IF NeedsSave(m)
           THEN /\ dirty' = FALSE
                /\ writing' = [by |-> by, step |-> "write", head |-> 0, snap |-> Snapshot(m)]
           ELSE /\ dirty' = dirty
                /\ writing' = [by |-> by, step |-> "drain"]
        /\ UNCHANGED <<phase, reserved, backup, backlog, callers, file, published, aged, epochs,
                       history, faults, moves>>

\* The flush of the ticker, and of every caller that does not need its answer.
Flush == (NeedsSave(Prune(mem)) \/ backlog # {}) /\ Begin("tick")
FlushLease == publishing.at = "lease" /\ Begin("publish")
FlushAck(c) == acking[c] # NoId /\ Begin(c)

\* What the end of a flush tells the caller that ran it: Publish numbers its
\* event or, without a lease, lets it wait; Ack answers OK or an error.
Answer(by, ok, left) ==
    /\ writing' = Nobody
    /\ IF by = "publish" /\ ~ok
       THEN /\ backlog' = Deferred(left, publishing.n)
            /\ publishing' = Idle
       ELSE /\ backlog' = left
            /\ publishing' = IF by = "publish" THEN [publishing EXCEPT !.at = "number"] ELSE publishing
    /\ acking' = [c \in Chat |-> IF c = by THEN NoId ELSE acking[c]]
    /\ confirmed' = [c \in Chat |-> IF c = by /\ ok THEN confirmed[c] \cup {acking[c]} ELSE confirmed[c]]

\* The end of saveLocked when the snapshot is on disk.  Only what the snapshot
\* held is saved: what changed meanwhile left dirty TRUE.
SaveOk_AllSaved ==
    /\ writing # Nobody /\ writing.step = "write"
    /\ file' = writing.snap
    /\ reserved' = Max({reserved, writing.snap.reserved})
    /\ backup' = FALSE /\ dirty' = FALSE
    /\ backlog' = backlog \ {writing.head}
    /\ writing' = [by |-> writing.by, step |-> "drain"]
    /\ UNCHANGED <<phase, mem, callers, published, aged, epochs, history, faults, moves>>

SaveOk ==
    /\ writing # Nobody /\ writing.step = "write"
    /\ file' = writing.snap
    /\ reserved' = Max({reserved, writing.snap.reserved})
    /\ backup' = FALSE
    /\ backlog' = backlog \ {writing.head}
    /\ writing' = [by |-> writing.by, step |-> "drain"]
    /\ UNCHANGED <<phase, mem, dirty, callers, published, aged, epochs, history, faults, moves>>

\* A save that fails, before the rename or - the directory could not be synced
\* - after it.  preserveOriginal may have succeeded first.  A store being
\* opened is open all the same.
SaveFails ==
    /\ writing # Nobody /\ writing.step = "write" /\ faults < MaxFaults
    /\ faults' = faults + 1
    /\ \E replaced, preserved \in BOOLEAN :
        /\ replaced => preserved
        /\ file' = IF replaced THEN writing.snap ELSE file
        /\ backup' = (backup /\ ~preserved)
    /\ dirty' = TRUE
    /\ phase' = "open"
    /\ Answer(writing.by, FALSE, backlog \ {writing.head})
    /\ UNCHANGED <<mem, reserved, published, aged, epochs, numbered, moves>>

\* drainLocked: the events that waited get numbers, oldest first, each with a
\* save of its own.  A store being opened is switched to open when none is
\* left, and drained again.
Drain ==
    /\ writing # Nobody /\ writing.step = "drain"
    /\ \/ /\ backlog = {} /\ phase = "opening"
          /\ phase' = "open"
          /\ UNCHANGED <<mem, dirty, backlog, writing, callers, history>>
       \/ /\ backlog = {} /\ phase # "opening"
          /\ phase' = "open"
          /\ Answer(writing.by, TRUE, backlog)
          /\ UNCHANGED <<mem, dirty, numbered>>
       \/ /\ backlog # {}
          /\ LET lease == mem.sequence >= reserved
                 m == IF lease THEN Prune(mem) ELSE Appended(Prune(mem), Min(backlog), 1, "watch")
             IN  /\ mem' = m
                 /\ dirty' = FALSE
                 /\ writing' = [by |-> writing.by, step |-> "write", snap |-> Snapshot(m),
                                head |-> IF lease THEN 0 ELSE Min(backlog)]
                 /\ Number(Min(backlog), IF lease THEN 0 ELSE 1, "watch")
          /\ UNCHANGED <<phase, backlog, callers, confirmed>>
    /\ UNCHANGED <<reserved, backup, file, published, aged, epochs, faults, moves>>

\* The process ends: everything but the file is gone.
Crash ==
    /\ phase # "down" /\ faults < MaxFaults
    /\ faults' = faults + 1
    /\ phase' = "down"
    /\ mem' = Blank /\ reserved' = Reserve /\ dirty' = FALSE /\ backup' = FALSE /\ backlog' = {}
    /\ writing' = Nobody
    /\ publishing' = Idle
    /\ acking' = [c \in Chat |-> NoId]
    /\ UNCHANGED <<file, published, aged, epochs, history, moves>>

-----------------------------------------------------------------------------
(* The callers.                                                             *)

\* Publish: an event waits behind those already waiting.
Publish ==
    /\ phase \in {"unopened", "opening", "open"} /\ publishing = Idle
    /\ published < MaxPublished
    /\ published' = published + 1
    /\ IF phase # "open" \/ backlog # {}
       THEN backlog' = Deferred(backlog, published + 1) /\ UNCHANGED publishing
       ELSE publishing' = [n |-> published + 1, at |-> "number"] /\ UNCHANGED backlog
    /\ UNCHANGED <<phase, mem, reserved, dirty, backup, writing, acking, file, aged, epochs,
                   history, faults, moves>>

\* publishAt: a number out of the lease, or a save that leases more.
PublishAt ==
    /\ publishing.at = "number"
    /\ IF mem.sequence >= reserved
       THEN /\ publishing' = [publishing EXCEPT !.at = "lease"]
            /\ Change(Prune(mem)) /\ UNCHANGED numbered
       ELSE /\ publishing' = Idle
            /\ Change(Appended(Prune(mem), publishing.n, 1, "watch"))
            /\ Number(publishing.n, 1, "watch")
    /\ UNCHANGED <<phase, reserved, backup, backlog, writing, acking, file, published, aged,
                   epochs, confirmed, faults, moves>>

\* ObserveSubscriptions: the health of the subscriptions the config still
\* holds, with the events of what changed, in one critical section - or not at
\* all while the lease is too short for them: the flush comes first.
ObserveSubscriptions(seen) ==
    LET known == {s \in Sub : seen[s] \in {"up", "down"} /\ seen[s] # mem.health[s]}
        told == {s \in known : seen[s] = "down" \/ mem.health[s] # "unknown"}
        k == Cardinality(told)
        health == [s \in Sub |-> IF seen[s] = "gone" THEN "unknown"
                                 ELSE IF s \in known THEN seen[s] ELSE mem.health[s]]
        seenNow == [mem EXCEPT !.health = health]
        m == IF k = 0 THEN seenNow ELSE Appended(seenNow, published + 1, k, "health")
    IN  /\ phase = "open"
        /\ health # mem.health
        /\ published + k <= MaxPublished
        /\ k <= reserved - mem.sequence
        /\ published' = published + k
        /\ Change(m) /\ Number(published + 1, k, "health")
        /\ Move
        /\ UNCHANGED <<phase, reserved, backup, backlog, writing, callers, file, aged, epochs,
                       confirmed, faults>>

\* POST /v1/notifications/recipients.
ReplaceRecipients(next) ==
    /\ phase = "open"
    /\ next # mem.recipients
    /\ Change(Replaced(mem, next))
    /\ Move
    /\ UNCHANGED <<phase, reserved, backup, backlog, writing, callers, file, published, aged,
                   epochs, history, faults>>

\* GET /v1/notifications/pending and the status: they only prune.
Read ==
    /\ phase = "open"
    /\ Prune(mem) # mem
    /\ Change(Prune(mem))
    /\ UNCHANGED <<phase, reserved, backup, backlog, writing, callers, file, published, aged,
                   epochs, history, faults, moves>>

\* POST /v1/notifications/ack: refused for a number of this epoch not given
\* out yet; otherwise answered by the flush that follows.
Ack(c, id) ==
    /\ phase = "open" /\ acking[c] = NoId
    /\ ~(id[1] = mem.epoch /\ id[2] > mem.sequence)
    /\ Change(Closed(mem, c, id))
    /\ acking' = [acking EXCEPT ![c] = id]
    /\ UNCHANGED <<phase, reserved, backup, backlog, writing, publishing, file, published, aged,
                   epochs, history, faults, moves>>

\* Time passes: the oldest event not yet too old becomes so.
Age ==
    /\ aged < published
    /\ aged' = aged + 1
    /\ Move
    /\ UNCHANGED <<phase, memory, writing, callers, file, published, epochs, history, faults>>

-----------------------------------------------------------------------------
Init ==
    /\ phase = "down"
    /\ mem = Blank /\ reserved = Reserve /\ dirty = FALSE /\ backup = FALSE /\ backlog = {}
    /\ writing = Nobody
    /\ publishing = Idle /\ acking = [c \in Chat |-> NoId]
    /\ file = NoFile
    /\ published = 0 /\ aged = 0 /\ epochs = 0
    /\ numbered = {} /\ confirmed = [c \in Chat |-> {}]
    /\ faults = 0 /\ moves = 0

\* A chat is on the bot's list since before everything, since now, or not at all.
Lists == [Chat -> {0, 1, published + 1}]

Next ==
    \/ Load
    \/ OpenUnresolved
    \/ Flush
    \/ FlushLease
    \/ \E c \in Chat : FlushAck(c)
    \/ SaveOk
    \/ SaveFails
    \/ Drain
    \/ Crash
    \/ Publish
    \/ PublishAt
    \/ \E seen \in [Sub -> {"up", "down", "gone", "unsure"}] : ObserveSubscriptions(seen)
    \/ \E next \in Lists : ReplaceRecipients(next)
    \/ Read
    \/ \E c \in Chat : \E id \in Ids(numbered) \ confirmed[c] : Ack(c, id)
    \/ Age

Spec == Init /\ [][Next]_vars

-----------------------------------------------------------------------------
(* Properties.                                                              *)

TypeOK ==
    /\ phase \in {"down", "starting", "unopened", "opening", "open"}
    /\ reserved \in Nat /\ published \in 0..MaxPublished /\ aged \in 0..published
    /\ faults \in 0..MaxFaults /\ epochs \in Nat
    /\ dirty \in BOOLEAN /\ backup \in BOOLEAN
    /\ backlog \subseteq 1..published /\ Cardinality(backlog) <= MaxRecent
    /\ publishing.n \in 0..published /\ publishing.at \in {"idle", "number", "lease"}
    /\ mem.epoch \in 0..epochs /\ mem.sequence \in Nat
    /\ mem.recent \subseteq numbered /\ Cardinality(mem.recent) <= MaxRecent

\* What the store writes it accepts when it is started again (a file it would
\* call corrupt loses every waiting event and all progress), and a store with
\* nothing left to save has on disk what it has in memory, however the save and
\* the changes to memory interleaved.
SavedIsSound ==
    /\ file # NoFile => ValidSavedState(file)
    /\ (phase = "open" /\ writing = Nobody /\ ~dirty /\ ~backup) => file # NoFile /\ file.content = mem

\* The store implements the mailbox: a number is given to one event, across
\* crashes and lost saves, in the order of publication, and an acknowledgement
\* answered OK closes its event for the chat for good.
Mail == INSTANCE Mailbox WITH
            offered <- IF phase = "open" THEN mem.pending ELSE [c \in Chat |-> {}]

ImplementsMailbox == Mail!Spec
=============================================================================

---------------------- MODULE NotificationStoreProofs ----------------------
(***************************************************************************)
(* What the notification store keeps for any chats, subscriptions, limits  *)
(* and number of faults: its types, that the file it writes is one it will *)
(* read, and that it implements Mailbox.                                   *)
(***************************************************************************)
EXTENDS NotificationStore, FiniteSetTheorems, WellFoundedInduction, TLAPS

---------------------------------------------------------------------------
(* The inductive invariant                                                 *)

Event == [id : Nat \X Nat, n : Nat, from : {"watch", "health"}]
Content == [epoch : Nat, sequence : Nat, recent : SUBSET Event, recipients : [Chat -> Nat],
            pending : [Chat -> SUBSET Event], closed : [Chat -> SUBSET (Nat \X Nat)],
            health : [Sub -> {"unknown", "up", "down"}]]
Saved == [content : Content, reserved : Nat]
Caller == Chat \cup {"open", "tick", "publish"}
Save == [by : Caller, step : {"write"}, head : Nat, snap : Saved]
Drained == [by : Caller, step : {"drain"}]

Saving == writing # Nobody /\ writing.step = "write"
Draining == writing # Nobody /\ writing.step = "drain"

\* A chat c that closed id sees it no more, now or out of what is remembered.
Holds(m, c, id) ==
    /\ \A e \in m.pending[c] : e.id # id
    /\ \A e \in m.recent : e.id = id => id \in m.closed[c]

Numbers(m, events) == \A e \in events : e.id[1] = m.epoch /\ e.id[2] \in 1..m.sequence

\* The content m is made of the numbered events N and holds the closed ids K,
\* though not yet to its limits.
Rough(m, N, K) ==
    /\ m \in Content
    /\ m.recent \subseteq N /\ IsFiniteSet(m.recent) /\ Numbers(m, m.recent)
    /\ \A c \in Chat :
        /\ m.pending[c] \subseteq N /\ IsFiniteSet(m.pending[c]) /\ Numbers(m, m.pending[c])
        /\ \A id \in K[c] : Holds(m, c, id)

Tidy(m) ==
    /\ Cardinality(m.recent) <= MaxRecent
    /\ \A c \in Chat :
        /\ Cardinality(m.pending[c]) <= MaxPerChat
        /\ m.pending[c] # {} => m.recipients[c] # 0
        /\ Ids(m.pending[c]) \cap m.closed[c] = {}
        /\ m.closed[c] \subseteq Ids(m.recent)

Sound(m, N, K) == Rough(m, N, K) /\ Tidy(m)

UniqueIds(N) == \A e, f \in N : e.id = f.id => e = f

\* What memory, the snapshot being written and the file must hold closed.
InMemory == [c \in Chat |-> confirmed[c] \cup {acking[c]}]
InFlight == [c \in Chat |-> confirmed[c] \cup (IF writing.by = c THEN {acking[c]} ELSE {})]
OnDisk == IF Draining THEN InFlight ELSE confirmed

Types ==
    /\ phase \in {"down", "starting", "unopened", "opening", "open"}
    /\ reserved \in Nat /\ published \in 0..MaxPublished /\ aged \in 0..published
    /\ faults \in 0..MaxFaults /\ epochs \in Nat
    /\ dirty \in BOOLEAN /\ backup \in BOOLEAN
    /\ backlog \subseteq 1..published /\ IsFiniteSet(backlog) /\ Cardinality(backlog) <= MaxRecent
    /\ publishing \in [n : 0..published, at : {"idle", "number", "lease"}]
    /\ writing = Nobody \/ writing \in Save \/ writing \in Drained
    /\ numbered \subseteq Event
    /\ confirmed \in [Chat -> SUBSET (Ids(numbered) \cup {NoId})]
    /\ acking \in [Chat -> Ids(numbered) \cup {NoId}]

\* Who may be at what.
Phases ==
    /\ phase \in {"down", "unopened"} => writing = Nobody
    /\ phase \in {"starting", "opening"} => writing # Nobody
    /\ phase = "down" => backlog = {}
    /\ phase # "open" => publishing = Idle /\ acking = [c \in Chat |-> NoId]
    /\ phase = "open" \/ writing # Nobody => mem.epoch > 0
    /\ publishing.at = "idle" => publishing = Idle
    /\ publishing # Idle => publishing.n > 0 /\ backlog = {}
    /\ writing # Nobody /\ writing.by = "publish" => publishing.at = "lease"
    /\ \A c \in Chat : writing.by = c => acking[c] # NoId

\* No number is given out twice: memory numbers within its lease, and the lease
\* of the file covers every number of its epoch.
Leases ==
    /\ mem.sequence <= reserved /\ mem.epoch <= epochs
    /\ \A e \in numbered : e.id[1] \in 1..epochs /\ e.id[2] > 0 /\ e.n <= published
    /\ \A e \in numbered : e.id[1] = mem.epoch => e.id[2] <= mem.sequence
    /\ Saving => /\ writing.snap.content.epoch = mem.epoch
                 /\ writing.snap.content.sequence <= writing.snap.reserved
                 /\ reserved <= writing.snap.reserved
    /\ file # NoFile =>
        /\ file.content.epoch \in 1..epochs /\ file.content.sequence <= file.reserved
        /\ file.content.epoch = mem.epoch => reserved <= file.reserved
        /\ \A e \in numbered : e.id[1] = file.content.epoch => e.id[2] <= file.reserved

\* The events of the watch have numbers in the order they were published, and
\* whatever waits for one comes after them.
Ordered(N) ==
    \A e, f \in {g \in N : g.from = "watch"} : e.id[1] = f.id[1] /\ e.id[2] < f.id[2] => e.n < f.n
Order ==
    /\ UniqueIds(numbered) /\ Ordered(numbered)
    /\ \A e \in numbered : e.from = "watch" =>
        /\ \A n \in backlog : e.n < n \/ (Saving /\ n = writing.head)
        /\ publishing # Idle => e.n < publishing.n

Contents ==
    /\ Sound(mem, numbered, InMemory)
    /\ Saving => Sound(writing.snap.content, numbered, InFlight)
    /\ file # NoFile => file \in Saved /\ Sound(file.content, numbered, OnDisk)

\* What is not dirty is saved, or is what is being saved.
Clean ==
    /\ Saving /\ ~dirty => writing.snap.content = mem
    /\ (Draining \/ (phase = "open" /\ writing = Nobody)) /\ ~dirty /\ ~backup
            => file # NoFile /\ file.content = mem

IInv == Types /\ Phases /\ Leases /\ Order /\ Contents /\ Clean

---------------------------------------------------------------------------
(* Sets of numbers and of events                                           *)

\* A set of natural numbers that is not empty has a least element.
LEMMA LeastNumber ==
    ASSUME NEW S \in SUBSET Nat, S # {}
    PROVE  Min(S) \in S /\ \A y \in S : Min(S) <= y
<1> DEFINE R == OpToRel(<, Nat)
<1>1. IsWellFoundedOn(R, Nat)
    BY NatLessThanWellFounded
<1>2. \A x, y \in Nat : y < x => <<y, x>> \in R
    BY SMT DEF OpToRel
<1> HIDE DEF R
<1>3. PICK x \in S : \A y \in S : ~(<<y, x>> \in R)
    BY <1>1, WFMin
<1>4. \A y \in S : ~(y < x)
    BY <1>2, <1>3
<1>5. \A y \in S : x <= y
    BY <1>4
<1> QED BY <1>3, <1>5 DEF Min

LEMMA LargerNumber ==
    ASSUME NEW a \in Nat, NEW b \in Nat
    PROVE  /\ Max({a, b}) \in Nat /\ Max({a, b}) \in {a, b}
           /\ Max({a, b}) >= a /\ Max({a, b}) >= b
<1>1. \E x \in {a, b} : \A y \in {a, b} : x >= y
    OBVIOUS
<1>2. Max({a, b}) \in {a, b} /\ \A y \in {a, b} : Max({a, b}) >= y
    BY <1>1 DEF Max
<1> QED BY <1>2

\* The events from e on within a set with as many later than e as the limit
\* allows: what boundedEvents keeps is no more than the limit.
LEMMA BoundedSize ==
    ASSUME NEW events \in SUBSET Event, IsFiniteSet(events), NEW limit \in Nat \ {0},
           \A e, f \in events : e.id[2] = f.id[2] => e = f
    PROVE  /\ boundedEvents(events, limit) \subseteq events
           /\ IsFiniteSet(boundedEvents(events, limit))
           /\ Cardinality(boundedEvents(events, limit)) <= limit
<1> DEFINE young == {e \in events : e.n > aged}
           kept == {e \in young : Cardinality({f \in young : Seq(f) > Seq(e)}) < limit}
<1>1. kept = boundedEvents(events, limit) /\ kept \subseteq events
    BY DEF boundedEvents
<1>2. IsFiniteSet(young) /\ IsFiniteSet(kept)
    BY FS_Subset
<1>3. Cardinality(kept) <= limit
  <2>1. CASE kept = {}
    <3> HIDE DEF kept
    <3>1. Cardinality(kept) = 0
      BY <2>1, FS_EmptySet
    <3> QED BY <3>1
  <2>2. CASE kept # {}
    <3> DEFINE numbers == {Seq(e) : e \in kept}
    <3>1. numbers \in SUBSET Nat /\ numbers # {}
      <4> HIDE DEF kept
      <4>1. \A e \in kept : Seq(e) \in Nat
        BY <1>1 DEF Seq, Event
      <4> QED BY <2>2, <4>1
    <3>2. Min(numbers) \in numbers /\ \A y \in numbers : Min(numbers) <= y
      BY <3>1, LeastNumber
    <3> HIDE DEF numbers
    <3>3. PICK e \in kept : Seq(e) = Min(numbers)
      BY <3>2 DEF numbers
    <3> DEFINE later == {f \in young : Seq(f) > Seq(e)}
    <3>4. \A f \in kept \ {e} : f \in later
      <4> SUFFICES ASSUME NEW f \in kept, f # e PROVE Seq(f) > Seq(e)
        OBVIOUS
      <4>1. Seq(f) \in numbers /\ Seq(f) \in Nat /\ Seq(e) \in Nat
        BY DEF numbers, Seq, Event
      <4>2. Seq(f) # Seq(e)
        BY DEF Seq
      <4> QED BY <3>2, <3>3, <4>1, <4>2
    <3>5. IsFiniteSet(later) /\ Cardinality(kept \ {e}) <= Cardinality(later)
      BY <1>2, <3>4, FS_Subset
    <3>6. Cardinality(later) < limit
      BY <3>3
    <3> HIDE DEF kept, later
    <3>7. Cardinality(kept \ {e}) = Cardinality(kept) - 1
      BY <1>2, <3>3, FS_RemoveElement
    <3>8. Cardinality(kept) \in Nat /\ Cardinality(later) \in Nat
      BY <1>2, <3>5, FS_CardinalityType
    <3> QED BY <3>5, <3>6, <3>7, <3>8
  <2> QED BY <2>1, <2>2
<1> QED BY <1>1, <1>2, <1>3

\* The k events from n on are new: their numbers follow those of the epoch.
LEMMA NewEvents ==
    ASSUME NEW m, m.epoch \in Nat, m.sequence \in Nat, NEW n \in Nat \ {0}, NEW k \in Nat,
           NEW from \in {"watch", "health"}
    PROVE  /\ Events(m, n, k, from) \subseteq Event /\ IsFiniteSet(Events(m, n, k, from))
           /\ UniqueIds(Events(m, n, k, from))
           /\ \A e \in Events(m, n, k, from) :
                /\ e.id[1] = m.epoch /\ e.id[2] \in (m.sequence + 1)..(m.sequence + k)
                /\ e.n - n = e.id[2] - m.sequence - 1 /\ e.n \in n..(n + k - 1) /\ e.from = from
<1> DEFINE event(i) == [id |-> <<m.epoch, m.sequence + i>>, n |-> n + i - 1, from |-> from]
<1>1. \A i \in 1..k : /\ event(i) \in Event
                      /\ event(i).id[1] = m.epoch /\ event(i).id[2] = m.sequence + i
                      /\ event(i).n = n + i - 1 /\ event(i).from = from
    BY DEF Event
<1>2. Events(m, n, k, from) = {event(i) : i \in 1..k}
    BY DEF Events
<1> DEFINE f == [i \in 1..k |-> event(i)]
<1>3. f \in Surjection(1..k, Events(m, n, k, from))
    BY <1>2 DEF Surjection
<1>4. IsFiniteSet(1..k)
    BY FS_Interval
<1>5. IsFiniteSet(Events(m, n, k, from))
    BY <1>3, <1>4, FS_Surjection
<1> HIDE DEF event, f
<1>6. \A e \in Events(m, n, k, from) : \E i \in 1..k : e = event(i)
    BY <1>2
<1>7. UniqueIds(Events(m, n, k, from))
  <2> SUFFICES ASSUME NEW i \in 1..k, NEW j \in 1..k, event(i).id = event(j).id
               PROVE  event(i) = event(j)
    BY <1>6 DEF UniqueIds
  <2>1. m.sequence + i = m.sequence + j
    BY <1>1
  <2>2. i = j
    BY <2>1
  <2> QED BY <2>2
<1>8. Events(m, n, k, from) \subseteq Event
    BY <1>1, <1>6
<1>9. ASSUME NEW e \in Events(m, n, k, from)
      PROVE  /\ e.id[1] = m.epoch /\ e.id[2] \in (m.sequence + 1)..(m.sequence + k)
             /\ e.n - n = e.id[2] - m.sequence - 1 /\ e.n \in n..(n + k - 1) /\ e.from = from
  <2>1. PICK i \in 1..k : e = event(i)
    BY <1>6
  <2> QED BY <1>1, <2>1
<1> QED BY <1>5, <1>7, <1>8, <1>9

---------------------------------------------------------------------------
(* What the critical sections make of a content                            *)

\* Events of one epoch with ids of their own have numbers of their own.
LEMMA OwnNumbers ==
    ASSUME NEW N \in SUBSET Event, UniqueIds(N), NEW m, NEW events \in SUBSET N, Numbers(m, events)
    PROVE  \A e, f \in events : e.id[2] = f.id[2] => e = f
<1> SUFFICES ASSUME NEW e \in events, NEW f \in events, e.id[2] = f.id[2] PROVE e = f
    OBVIOUS
<1>1. e.id \in Nat \X Nat /\ f.id \in Nat \X Nat /\ e.id[1] = f.id[1]
    BY DEF Event, Numbers
<1>2. e.id = f.id
    BY <1>1
<1> QED BY <1>2 DEF UniqueIds

LEMMA IdsOf ==
    ASSUME NEW events
    PROVE  /\ \A e \in events : e.id \in Ids(events)
           /\ \A id \in Ids(events) : \E e \in events : e.id = id
BY DEF Ids

\* pruneLocked brings a rough content to its limits.
LEMMA PruneSound ==
    ASSUME NEW N \in SUBSET Event, UniqueIds(N), NEW K, NEW m, Rough(m, N, K)
    PROVE  /\ Sound(Prune(m), N, K)
           /\ Prune(m).epoch = m.epoch /\ Prune(m).sequence = m.sequence
           /\ Prune(m).recipients = m.recipients
<1> DEFINE recent == boundedEvents(m.recent, MaxRecent)
           closed == [c \in Chat |-> m.closed[c] \cap Ids(recent)]
           kept(c) == {e \in m.pending[c] : Sees(m, c, e) /\ e.id \notin closed[c]}
           pending == [c \in Chat |-> boundedEvents(kept(c), MaxPerChat)]
           p == [m EXCEPT !.recent = recent, !.closed = closed, !.pending = pending]
<1>1. p = Prune(m)
    BY DEF Prune
<1>2. m \in Content /\ m.recent \in SUBSET N /\ IsFiniteSet(m.recent) /\ Numbers(m, m.recent)
    BY DEF Rough
<1>3. recent \subseteq m.recent /\ IsFiniteSet(recent) /\ Cardinality(recent) <= MaxRecent
  <2>1. \A e, f \in m.recent : e.id[2] = f.id[2] => e = f
    BY <1>2, OwnNumbers
  <2> QED BY <1>2, <2>1, BoundedSize, StoreAssumption
<1> HIDE DEF recent
<1>4. ASSUME NEW c \in Chat
      PROVE  /\ pending[c] \subseteq kept(c) /\ pending[c] \subseteq m.pending[c]
             /\ IsFiniteSet(pending[c]) /\ Cardinality(pending[c]) <= MaxPerChat
  <2>1. m.pending[c] \in SUBSET N /\ IsFiniteSet(m.pending[c]) /\ Numbers(m, m.pending[c])
    BY DEF Rough
  <2>2. \A e, f \in m.pending[c] : e.id[2] = f.id[2] => e = f
    BY <2>1, OwnNumbers
  <2>3. kept(c) \in SUBSET Event /\ kept(c) \subseteq m.pending[c]
    BY <2>1
  <2>4. IsFiniteSet(kept(c))
    BY <2>1, <2>3, FS_Subset
  <2>5. \A e, f \in kept(c) : e.id[2] = f.id[2] => e = f
    BY <2>2, <2>3
  <2> HIDE DEF kept
  <2>6. /\ boundedEvents(kept(c), MaxPerChat) \subseteq kept(c)
        /\ IsFiniteSet(boundedEvents(kept(c), MaxPerChat))
        /\ Cardinality(boundedEvents(kept(c), MaxPerChat)) <= MaxPerChat
    BY <2>3, <2>4, <2>5, BoundedSize, StoreAssumption
  <2> QED BY <2>3, <2>6
<1>5. \A c \in Chat : closed[c] \subseteq m.closed[c] /\ closed[c] \subseteq Ids(recent)
    OBVIOUS
<1>6. closed \in [Chat -> SUBSET (Nat \X Nat)]
    BY <1>2 DEF Content
<1>7. pending \in [Chat -> SUBSET Event]
  <2> HIDE DEF kept
  <2>1. \A c \in Chat : pending[c] \in SUBSET Event
    BY <1>2, <1>4 DEF Content
  <2> QED BY <2>1
<1>8. recent \in SUBSET Event
    BY <1>2, <1>3
<1>9. \A c \in Chat : \A e \in kept(c) : m.recipients[c] # 0 /\ e.id \notin closed[c]
    BY DEF Sees
<1> HIDE DEF kept, closed, pending
<1>10. /\ p \in Content /\ p.recent = recent /\ p.closed = closed /\ p.pending = pending
       /\ p.epoch = m.epoch /\ p.sequence = m.sequence /\ p.recipients = m.recipients
    BY <1>2, <1>6, <1>7, <1>8 DEF Content
<1> HIDE DEF p
<1>11. Rough(p, N, K)
  <2>1. Numbers(p, p.recent)
    BY <1>2, <1>3, <1>10 DEF Numbers
  <2>2. ASSUME NEW c \in Chat
        PROVE  p.pending[c] \subseteq N /\ IsFiniteSet(p.pending[c]) /\ Numbers(p, p.pending[c])
    BY <1>4, <1>10 DEF Rough, Numbers
  <2>3. ASSUME NEW c \in Chat, NEW id \in K[c]
        PROVE  Holds(p, c, id)
    <3>1. Holds(m, c, id)
      BY DEF Rough
    <3>2. \A e \in p.pending[c] : e.id # id
      BY <1>4, <1>10, <3>1 DEF Holds
    <3>3. ASSUME NEW e \in p.recent, e.id = id PROVE id \in p.closed[c]
      <4>1. id \in m.closed[c] /\ id \in Ids(recent)
        BY <1>3, <1>10, <3>1, <3>3, IdsOf DEF Holds
      <4> QED BY <1>10, <4>1 DEF closed
    <3> QED BY <3>2, <3>3 DEF Holds
  <2> QED BY <1>2, <1>3, <1>10, <2>1, <2>2, <2>3 DEF Rough
<1>12. Tidy(p)
  <2> SUFFICES ASSUME NEW c \in Chat
               PROVE  /\ Cardinality(p.pending[c]) <= MaxPerChat
                      /\ p.pending[c] # {} => p.recipients[c] # 0
                      /\ Ids(p.pending[c]) \cap p.closed[c] = {}
                      /\ p.closed[c] \subseteq Ids(p.recent)
    BY <1>3, <1>10 DEF Tidy
  <2>1. Ids(p.pending[c]) \cap p.closed[c] = {}
    BY <1>4, <1>9, <1>10, IdsOf
  <2> QED BY <1>4, <1>5, <1>9, <1>10, <2>1
<1> QED BY <1>1, <1>10, <1>11, <1>12 DEF Sound

\* A sound content stays so when more events are numbered and less is held.
LEMMA SoundLess ==
    ASSUME NEW N, NEW M, N \subseteq M, NEW K, NEW L, NEW m, Sound(m, N, K),
           \A c \in Chat : \A id \in L[c] : id \in K[c] \/ Holds(m, c, id)
    PROVE  Sound(m, M, L)
BY DEF Sound, Rough

\* NoId is the id of no event.
LEMMA NoIdHeld ==
    ASSUME NEW N, NEW K, NEW m, Sound(m, N, K), NEW c \in Chat
    PROVE  Holds(m, c, NoId)
BY DEF Sound, Rough, Holds, Numbers, NoId

\* The numbers of m's epoch end at its sequence, and only numbers are closed.
Numbering(m, N, K) ==
    /\ \A e \in N : e.id[1] = m.epoch => e.id[2] <= m.sequence
    /\ \A c \in Chat : K[c] \subseteq Ids(N) \cup {NoId}

\* appendEventLocked: the new events have ids nobody closed.
LEMMA AppendSound ==
    ASSUME NEW N \in SUBSET Event, UniqueIds(N), NEW K, NEW m, Sound(m, N, K), Numbering(m, N, K),
           NEW n \in Nat \ {0}, NEW k \in Nat, NEW from \in {"watch", "health"}
    PROVE  /\ UniqueIds(N \cup Events(m, n, k, from))
           /\ Sound(Appended(m, n, k, from), N \cup Events(m, n, k, from), K)
           /\ Appended(m, n, k, from).epoch = m.epoch
           /\ Appended(m, n, k, from).sequence = m.sequence + k
<1> DEFINE new == Events(m, n, k, from)
           seen(c) == {e \in new : Sees(m, c, e)}
           pending == [c \in Chat |-> m.pending[c] \cup seen(c)]
           later == m.sequence + k
           recent == m.recent \cup new
           q == [m EXCEPT !.sequence = later, !.recent = recent, !.pending = pending]
<1>1. m \in Content /\ m.epoch \in Nat /\ m.sequence \in Nat
    BY DEF Sound, Rough, Content
<1>2. /\ new \subseteq Event /\ IsFiniteSet(new) /\ UniqueIds(new)
      /\ \A e \in new : e.id[1] = m.epoch /\ e.id[2] \in (m.sequence + 1)..(m.sequence + k)
    BY <1>1, NewEvents
<1>3. Appended(m, n, k, from) = Prune(q)
    BY DEF Appended
<1> HIDE DEF new
<1>4. UniqueIds(N \cup new)
  <2>1. \A e \in N, f \in new : e.id # f.id
    BY <1>1, <1>2 DEF Event, Numbering
  <2> QED BY <1>2, <2>1 DEF UniqueIds
<1>5. \A c \in Chat : \A id \in K[c] : \A e \in new : e.id # id
  <2> SUFFICES ASSUME NEW c \in Chat, NEW id \in K[c], NEW e \in new, e.id = id PROVE FALSE
    OBVIOUS
  <2>1. id # NoId
    BY <1>1, <1>2 DEF NoId
  <2>2. PICK f \in N : f.id = id
    BY <2>1, IdsOf DEF Numbering
  <2> QED BY <1>1, <1>2, <2>2 DEF Event, Numbering
<1>6. \A c \in Chat : m.pending[c] \subseteq Event /\ seen(c) \subseteq new
    BY <1>1 DEF Content
<1>7. pending \in [Chat -> SUBSET Event] /\ recent \in SUBSET Event /\ later \in Nat
    BY <1>1, <1>2, <1>6 DEF Content
<1>8. \A c \in Chat : pending[c] = m.pending[c] \cup seen(c)
    OBVIOUS
<1> HIDE DEF seen, pending, later, recent
<1>9. /\ q \in Content /\ q.recent = recent /\ q.pending = pending /\ q.closed = m.closed
      /\ q.epoch = m.epoch /\ q.sequence = later
    BY <1>1, <1>7 DEF Content
<1> HIDE DEF q
<1> USE DEF later, recent
<1>10. \A events : Numbers(m, events) => Numbers(q, events)
    BY <1>1, <1>9 DEF Numbers
<1>11. Numbers(q, new)
    BY <1>1, <1>2, <1>9 DEF Numbers
<1>12. Rough(q, N \cup new, K)
  <2>1. /\ m.recent \subseteq N /\ IsFiniteSet(m.recent) /\ Numbers(m, m.recent)
    BY DEF Sound, Rough
  <2>2. q.recent \subseteq N \cup new /\ IsFiniteSet(q.recent) /\ Numbers(q, q.recent)
    <3>1. IsFiniteSet(m.recent \cup new)
      BY <1>2, <2>1, FS_Union
    <3> QED BY <1>9, <1>10, <1>11, <2>1, <3>1 DEF Numbers
  <2>3. ASSUME NEW c \in Chat
        PROVE  /\ q.pending[c] \subseteq N \cup new /\ IsFiniteSet(q.pending[c])
               /\ Numbers(q, q.pending[c])
    <3>1. m.pending[c] \subseteq N /\ IsFiniteSet(m.pending[c]) /\ Numbers(m, m.pending[c])
      BY DEF Sound, Rough
    <3>2. IsFiniteSet(seen(c))
      BY <1>2, <1>6, FS_Subset
    <3>3. IsFiniteSet(m.pending[c] \cup seen(c))
      BY <3>1, <3>2, FS_Union
    <3> QED BY <1>6, <1>8, <1>9, <1>10, <1>11, <3>1, <3>3 DEF Numbers
  <2>4. ASSUME NEW c \in Chat, NEW id \in K[c] PROVE Holds(q, c, id)
    <3>1. Holds(m, c, id)
      BY DEF Sound, Rough
    <3> QED BY <1>5, <1>6, <1>8, <1>9, <3>1 DEF Holds
  <2> QED BY <1>9, <2>2, <2>3, <2>4 DEF Rough
<1>13. N \cup new \in SUBSET Event
    BY <1>2
<1>14. Sound(Prune(q), N \cup new, K) /\ Prune(q).epoch = q.epoch /\ Prune(q).sequence = q.sequence
    BY <1>4, <1>12, <1>13, PruneSound
<1> QED BY <1>3, <1>4, <1>9, <1>14 DEF new

\* ReplaceRecipients: what a chat closed stays out of the queue it gets.
LEMMA ReplacedSound ==
    ASSUME NEW N \in SUBSET Event, UniqueIds(N), NEW K, NEW m, Sound(m, N, K), NEW next \in [Chat -> Nat]
    PROVE  /\ Sound(Replaced(m, next), N, K)
           /\ Replaced(m, next).epoch = m.epoch /\ Replaced(m, next).sequence = m.sequence
<1> DEFINE p == Prune(m)
           listed == [p EXCEPT !.recipients = next]
           merged(c) == {e \in p.pending[c] \cup p.recent : Sees(listed, c, e) /\ e.id \notin p.closed[c]}
           pending == [c \in Chat |-> boundedEvents(merged(c), MaxPerChat)]
           q == [listed EXCEPT !.pending = pending]
<1>1. q = Replaced(m, next)
    BY DEF Replaced
<1>2. Sound(p, N, K) /\ p.epoch = m.epoch /\ p.sequence = m.sequence
    BY PruneSound DEF Sound
<1> HIDE DEF p
<1>3. /\ p \in Content /\ p.recent \in SUBSET N /\ IsFiniteSet(p.recent) /\ Numbers(p, p.recent)
      /\ Cardinality(p.recent) <= MaxRecent
    BY <1>2 DEF Sound, Rough, Tidy
<1>4. listed.recipients = next /\ listed \in Content
    BY <1>3 DEF Content
<1>5. ASSUME NEW c \in Chat
      PROVE  /\ pending[c] \subseteq merged(c) /\ IsFiniteSet(pending[c])
             /\ Cardinality(pending[c]) <= MaxPerChat
             /\ pending[c] \subseteq N /\ Numbers(p, pending[c])
  <2>1. p.pending[c] \in SUBSET N /\ IsFiniteSet(p.pending[c]) /\ Numbers(p, p.pending[c])
    BY <1>2 DEF Sound, Rough
  <2>2. merged(c) \in SUBSET N /\ Numbers(p, merged(c)) /\ merged(c) \subseteq p.pending[c] \cup p.recent
    BY <1>3, <2>1 DEF Numbers
  <2>3. IsFiniteSet(p.pending[c] \cup p.recent)
    BY <1>3, <2>1, FS_Union
  <2> HIDE DEF merged
  <2>4. IsFiniteSet(merged(c))
    BY <2>2, <2>3, FS_Subset
  <2>5. \A e, f \in merged(c) : e.id[2] = f.id[2] => e = f
    BY <2>2, OwnNumbers
  <2>6. /\ boundedEvents(merged(c), MaxPerChat) \subseteq merged(c)
        /\ IsFiniteSet(boundedEvents(merged(c), MaxPerChat))
        /\ Cardinality(boundedEvents(merged(c), MaxPerChat)) <= MaxPerChat
    BY <2>2, <2>4, <2>5, BoundedSize, StoreAssumption
  <2> QED BY <2>2, <2>6 DEF Numbers
<1>6. \A c \in Chat : \A e \in merged(c) :
          e \in p.pending[c] \cup p.recent /\ next[c] # 0 /\ e.id \notin p.closed[c]
    BY <1>4 DEF Sees
<1> HIDE DEF merged
<1>7. pending \in [Chat -> SUBSET Event]
  <2>1. \A c \in Chat : pending[c] \in SUBSET Event
    BY <1>5
  <2> QED BY <2>1
<1> HIDE DEF pending
<1>8. /\ q \in Content /\ q.recent = p.recent /\ q.closed = p.closed /\ q.pending = pending
      /\ q.epoch = p.epoch /\ q.sequence = p.sequence /\ q.recipients = next
    BY <1>3, <1>7 DEF Content
<1> HIDE DEF q
<1>9. Rough(q, N, K)
  <2>1. ASSUME NEW c \in Chat, NEW id \in K[c] PROVE Holds(q, c, id)
    <3>1. Holds(p, c, id)
      BY <1>2 DEF Sound, Rough
    <3> QED BY <1>5, <1>6, <1>8, <3>1 DEF Holds
  <2> QED BY <1>3, <1>5, <1>8, <2>1 DEF Rough, Numbers
<1>10. Tidy(q)
  <2> SUFFICES ASSUME NEW c \in Chat
               PROVE  /\ Cardinality(q.pending[c]) <= MaxPerChat
                      /\ q.pending[c] # {} => q.recipients[c] # 0
                      /\ Ids(q.pending[c]) \cap q.closed[c] = {}
                      /\ q.closed[c] \subseteq Ids(q.recent)
    BY <1>3, <1>8 DEF Tidy
  <2>1. Ids(q.pending[c]) \cap q.closed[c] = {}
    BY <1>5, <1>6, <1>8, IdsOf
  <2>2. q.closed[c] \subseteq Ids(q.recent)
    BY <1>2, <1>8 DEF Sound, Tidy
  <2> QED BY <1>5, <1>6, <1>8, <2>1, <2>2
<1> QED BY <1>1, <1>2, <1>8, <1>9, <1>10 DEF Sound

\* Ack: the chat no longer sees the id, and what others closed stays closed.
LEMMA ClosedSound ==
    ASSUME NEW N \in SUBSET Event, UniqueIds(N), NEW K, NEW m, Sound(m, N, K),
           NEW d \in Chat, NEW new
    PROVE  /\ Sound(Closed(m, d, new), N, K)
           /\ Holds(Closed(m, d, new), d, new)
           /\ Closed(m, d, new).epoch = m.epoch /\ Closed(m, d, new).sequence = m.sequence
<1> DEFINE p == Prune(m)
           pending == [p.pending EXCEPT ![d] = {e \in @ : e.id # new}]
           closed == [p.closed EXCEPT ![d] = @ \cup ({new} \cap Ids(p.recent))]
           q == [p EXCEPT !.pending = pending, !.closed = closed]
<1>2. Sound(p, N, K) /\ p.epoch = m.epoch /\ p.sequence = m.sequence
    BY PruneSound DEF Sound
<1>1. q = Closed(m, d, new)
    BY DEF Closed
<1> HIDE DEF p
<1>3. /\ p \in Content /\ p.recent \in SUBSET N /\ IsFiniteSet(p.recent) /\ Numbers(p, p.recent)
      /\ Cardinality(p.recent) <= MaxRecent
    BY <1>2 DEF Sound, Rough, Tidy
<1>4. Ids(p.recent) \subseteq Nat \X Nat
    BY <1>3 DEF Ids, Content, Event
<1>5. \A c \in Chat : /\ pending[c] = IF c = d THEN {e \in p.pending[d] : e.id # new} ELSE p.pending[c]
                      /\ closed[c] = IF c = d THEN p.closed[d] \cup ({new} \cap Ids(p.recent)) ELSE p.closed[c]
    BY <1>3 DEF Content
<1>6. pending \in [Chat -> SUBSET Event] /\ closed \in [Chat -> SUBSET (Nat \X Nat)]
    BY <1>3, <1>4 DEF Content
<1> HIDE DEF pending, closed
<1>7. /\ q \in Content /\ q.recent = p.recent /\ q.closed = closed /\ q.pending = pending
      /\ q.epoch = p.epoch /\ q.sequence = p.sequence /\ q.recipients = p.recipients
    BY <1>3, <1>6 DEF Content
<1> HIDE DEF q
<1>8. ASSUME NEW c \in Chat
      PROVE  /\ q.pending[c] \subseteq p.pending[c] /\ IsFiniteSet(q.pending[c])
             /\ Cardinality(q.pending[c]) <= MaxPerChat
  <2>1. IsFiniteSet(p.pending[c]) /\ Cardinality(p.pending[c]) <= MaxPerChat
    BY <1>2 DEF Sound, Rough, Tidy
  <2>2. q.pending[c] \subseteq p.pending[c]
    BY <1>5, <1>7
  <2>3. IsFiniteSet(q.pending[c]) /\ Cardinality(q.pending[c]) <= Cardinality(p.pending[c])
    BY <2>1, <2>2, FS_Subset
  <2>4. Cardinality(q.pending[c]) \in Nat /\ Cardinality(p.pending[c]) \in Nat
    BY <2>1, <2>3, FS_CardinalityType
  <2> QED BY <2>1, <2>2, <2>3, <2>4, StoreAssumption
<1>9. Rough(q, N, K)
  <2>1. ASSUME NEW c \in Chat, NEW id \in K[c] PROVE Holds(q, c, id)
    <3>1. Holds(p, c, id)
      BY <1>2 DEF Sound, Rough
    <3>2. \A e \in q.pending[c] : e.id # id
      BY <1>8, <3>1 DEF Holds
    <3>3. p.closed[c] \subseteq q.closed[c]
      BY <1>5, <1>7
    <3> QED BY <1>7, <3>1, <3>2, <3>3 DEF Holds
  <2>2. ASSUME NEW c \in Chat PROVE q.pending[c] \subseteq N /\ Numbers(q, q.pending[c])
    BY <1>2, <1>7, <1>8 DEF Sound, Rough, Numbers
  <2> QED BY <1>3, <1>7, <1>8, <2>1, <2>2 DEF Rough, Numbers
<1>10. Tidy(q)
  <2> SUFFICES ASSUME NEW c \in Chat
               PROVE  /\ q.pending[c] # {} => q.recipients[c] # 0
                      /\ Ids(q.pending[c]) \cap q.closed[c] = {}
                      /\ q.closed[c] \subseteq Ids(q.recent)
    BY <1>3, <1>7, <1>8 DEF Tidy
  <2>1. /\ p.pending[c] # {} => p.recipients[c] # 0
        /\ Ids(p.pending[c]) \cap p.closed[c] = {}
        /\ p.closed[c] \subseteq Ids(p.recent)
    BY <1>2 DEF Sound, Tidy
  <2>2. Ids(q.pending[c]) \cap q.closed[c] = {}
    <3> SUFFICES ASSUME NEW e \in q.pending[c] PROVE e.id \notin q.closed[c]
      BY IdsOf
    <3>1. e.id \notin p.closed[c]
      BY <1>8, <2>1, IdsOf
    <3> QED BY <1>5, <1>7, <3>1
  <2> QED BY <1>5, <1>7, <1>8, <2>1, <2>2
<1>11. Holds(q, d, new)
  <2>1. \A e \in q.pending[d] : e.id # new
    BY <1>5, <1>7
  <2>2. ASSUME NEW e \in q.recent, e.id = new PROVE new \in q.closed[d]
    <3>1. new \in Ids(p.recent)
      BY <1>7, <2>2, IdsOf
    <3>2. closed[d] = p.closed[d] \cup ({new} \cap Ids(p.recent))
      BY <1>5
    <3> QED BY <1>7, <3>1, <3>2
  <2> QED BY <2>1, <2>2 DEF Holds
<1> QED BY <1>1, <1>2, <1>7, <1>9, <1>10, <1>11 DEF Sound

\* The contents a store starts from: nothing, or what it restored.
LEMMA BlankSound ==
    ASSUME NEW N, NEW K
    PROVE  /\ Sound(Blank, N, K) /\ Blank.epoch = 0 /\ Blank.sequence = 0
           /\ \A epoch \in Nat : LET b == [Blank EXCEPT !.epoch = epoch]
                                 IN  Sound(b, N, K) /\ b.epoch = epoch /\ b.sequence = 0
<1>1. ASSUME NEW b \in Content, b.recent = {}, \A c \in Chat : b.pending[c] = {} /\ b.closed[c] = {}
      PROVE  Sound(b, N, K)
  <2>1. Rough(b, N, K)
    BY <1>1, FS_EmptySet DEF Rough, Numbers, Holds
  <2>2. Tidy(b)
    BY <1>1, FS_EmptySet, StoreAssumption DEF Tidy, Ids
  <2> QED BY <2>1, <2>2 DEF Sound
<1>2. Sound(Blank, N, K) /\ Blank.epoch = 0 /\ Blank.sequence = 0
  <2>1. Blank \in Content /\ Blank.recent = {} /\ Blank.epoch = 0 /\ Blank.sequence = 0
    BY DEF Blank, Content
  <2>2. \A c \in Chat : Blank.pending[c] = {} /\ Blank.closed[c] = {}
    BY DEF Blank
  <2> QED BY <1>1, <2>1, <2>2
<1>3. ASSUME NEW epoch \in Nat
      PROVE  LET b == [Blank EXCEPT !.epoch = epoch]
             IN  Sound(b, N, K) /\ b.epoch = epoch /\ b.sequence = 0
  <2> DEFINE b == [Blank EXCEPT !.epoch = epoch]
  <2>1. b \in Content /\ b.recent = {} /\ b.epoch = epoch /\ b.sequence = 0
    BY DEF Blank, Content
  <2>2. \A c \in Chat : b.pending[c] = {} /\ b.closed[c] = {}
    BY DEF Blank
  <2> HIDE DEF b
  <2>3. Sound(b, N, K)
    BY <1>1, <2>1, <2>2
  <2> QED BY <2>1, <2>3 DEF b
<1> QED BY <1>2, <1>3

LEMMA RestoredSound ==
    ASSUME NEW N, NEW K, NEW f \in Saved, Sound(f.content, N, K), f.content.sequence <= f.reserved
    PROVE  /\ Sound(Restored(f), N, K)
           /\ Restored(f).epoch = f.content.epoch /\ Restored(f).sequence = f.reserved
<1> DEFINE m == f.content
           q == Restored(f)
<1>1. m \in Content /\ f.reserved \in Nat
    BY DEF Saved
<1>2. /\ q \in Content /\ q.epoch = m.epoch /\ q.sequence = f.reserved
      /\ q.recent = m.recent /\ q.pending = m.pending /\ q.closed = m.closed
      /\ q.recipients = m.recipients
    BY <1>1 DEF Restored, Content
<1>3. m.sequence \in Nat
    BY <1>1 DEF Content
<1> HIDE DEF m, q
<1>4. Rough(m, N, K) /\ Tidy(m) /\ m.sequence <= f.reserved
    BY DEF Sound, m
<1>5. \A events : Numbers(m, events) => Numbers(q, events)
    BY <1>1, <1>2, <1>3, <1>4 DEF Numbers
<1>6. Rough(q, N, K)
    BY <1>2, <1>4, <1>5 DEF Rough, Holds
<1>7. Tidy(q)
    BY <1>2, <1>4 DEF Tidy
<1> QED BY <1>2, <1>6, <1>7 DEF Sound, q, m

\* deferLocked keeps the backlog within its limit.
LEMMA DeferredBounded ==
    ASSUME NEW waiting \in SUBSET Nat, IsFiniteSet(waiting), Cardinality(waiting) <= MaxRecent,
           NEW n \in Nat
    PROVE  /\ IsFiniteSet(Deferred(waiting, n)) /\ Cardinality(Deferred(waiting, n)) <= MaxRecent
           /\ Deferred(waiting, n) \subseteq waiting \cup {n} /\ n \in Deferred(waiting, n)
<1>1. MaxRecent \in Nat \ {0} /\ Cardinality(waiting) \in Nat
    BY StoreAssumption, FS_CardinalityType
<1> DEFINE left == IF Cardinality(waiting) = MaxRecent THEN waiting \ {Min(waiting)} ELSE waiting
<1>2. left \subseteq waiting
    OBVIOUS
<1>3. IsFiniteSet(left) /\ Cardinality(left) < MaxRecent /\ Cardinality(left) \in Nat
  <2>1. CASE Cardinality(waiting) = MaxRecent
    <3>1. waiting # {}
      BY <1>1, <2>1, FS_EmptySet
    <3>2. Min(waiting) \in waiting
      BY <3>1, LeastNumber
    <3>3. IsFiniteSet(waiting \ {Min(waiting)})
            /\ Cardinality(waiting \ {Min(waiting)}) = Cardinality(waiting) - 1
      BY <3>2, FS_RemoveElement
    <3> QED BY <1>1, <2>1, <3>3
  <2>2. CASE Cardinality(waiting) # MaxRecent
    BY <1>1, <2>2
  <2> QED BY <2>1, <2>2
<1>4. Deferred(waiting, n) = left \cup {n}
    BY DEF Deferred
<1> HIDE DEF left
<1>5. IsFiniteSet(left \cup {n}) /\ Cardinality(left \cup {n}) <= MaxRecent
  <2>1. /\ IsFiniteSet(left \cup {n})
        /\ Cardinality(left \cup {n}) = IF n \in left THEN Cardinality(left) ELSE Cardinality(left) + 1
    BY <1>3, FS_AddElement
  <2>2. Cardinality(left \cup {n}) <= MaxRecent
    <3> DEFINE size == Cardinality(left \cup {n})
               was == Cardinality(left)
    <3>1. was \in Nat /\ was < MaxRecent /\ MaxRecent \in Nat /\ (size = was \/ size = was + 1)
      BY <1>1, <1>3, <2>1
    <3> HIDE DEF size, was
    <3>2. size <= MaxRecent
      BY <3>1
    <3> QED BY <3>2 DEF size
  <2> QED BY <2>1, <2>2
<1> QED BY <1>2, <1>4, <1>5

\* Health is no part of what makes a content sound.
LEMMA HealthSound ==
    ASSUME NEW N, NEW K, NEW m, Sound(m, N, K), NEW h \in [Sub -> {"unknown", "up", "down"}]
    PROVE  LET q == [m EXCEPT !.health = h]
           IN  Sound(q, N, K) /\ q.epoch = m.epoch /\ q.sequence = m.sequence
<1> DEFINE q == [m EXCEPT !.health = h]
<1>1. m \in Content
    BY DEF Sound, Rough
<1>2. /\ q \in Content /\ q.epoch = m.epoch /\ q.sequence = m.sequence
      /\ q.recent = m.recent /\ q.pending = m.pending /\ q.closed = m.closed
      /\ q.recipients = m.recipients
    BY <1>1 DEF Content
<1> HIDE DEF q
<1>3. Rough(q, N, K)
    BY <1>2 DEF Sound, Rough, Holds, Numbers
<1>4. Tidy(q)
    BY <1>2 DEF Sound, Tidy
<1> QED BY <1>2, <1>3, <1>4 DEF Sound, q

---------------------------------------------------------------------------
(* What the actions do                                                     *)

\* What the invariant says of memory.
LEMMA MemoryFacts ==
    ASSUME IInv
    PROVE  /\ mem \in Content /\ mem.epoch \in Nat /\ mem.sequence \in Nat
           /\ Sound(mem, numbered, InMemory)
           /\ Sound(Prune(mem), numbered, InMemory)
           /\ Prune(mem).epoch = mem.epoch /\ Prune(mem).sequence = mem.sequence
           /\ numbered \in SUBSET Event /\ UniqueIds(numbered)
           /\ \A c \in Chat : InMemory[c] \subseteq Ids(numbered) \cup {NoId}
           /\ \A e \in numbered : e.id[1] = mem.epoch => e.id[2] <= mem.sequence
<1>1. Sound(mem, numbered, InMemory) /\ numbered \in SUBSET Event /\ UniqueIds(numbered)
    BY DEF IInv, Contents, Types, Order
<1>2. mem \in Content /\ mem.epoch \in Nat /\ mem.sequence \in Nat
    BY <1>1 DEF Sound, Rough, Content
<1>3. Rough(mem, numbered, InMemory)
    BY <1>1 DEF Sound
<1>4. /\ Sound(Prune(mem), numbered, InMemory)
      /\ Prune(mem).epoch = mem.epoch /\ Prune(mem).sequence = mem.sequence
    BY <1>1, <1>3, PruneSound
<1>5. \A c \in Chat : InMemory[c] \subseteq Ids(numbered) \cup {NoId}
    BY DEF InMemory, IInv, Types
<1> QED BY <1>1, <1>2, <1>4, <1>5 DEF IInv, Leases

\* One batch of k events from n on, numbered out of the lease.
Batch(n, k, from) ==
    /\ numbered' = numbered \cup Events(mem, n, k, from)
    /\ numbered' \subseteq Event /\ UniqueIds(numbered')
    /\ \A e \in Events(mem, n, k, from) :
        /\ e.id[1] = mem.epoch /\ e.id[2] \in (mem.sequence + 1)..(mem.sequence + k)
        /\ e.n \in n..(n + k - 1) /\ e.from = from
    /\ Sound(mem', numbered', InMemory)
    /\ mem'.epoch = mem.epoch /\ mem'.sequence = mem.sequence + k

LEMMA BatchSteps ==
    ASSUME IInv, NEW n \in Nat \ {0}, NEW k \in Nat, NEW from \in {"watch", "health"},
           NEW m, Sound(m, numbered, InMemory), m.epoch = mem.epoch, m.sequence = mem.sequence,
           mem' = Appended(m, n, k, from), Number(n, k, from)
    PROVE  Batch(n, k, from)
<1>1. Events(m, n, k, from) = Events(mem, n, k, from)
    BY DEF Events
<1>2. /\ UniqueIds(numbered \cup Events(m, n, k, from))
      /\ Sound(Appended(m, n, k, from), numbered \cup Events(m, n, k, from), InMemory)
      /\ Appended(m, n, k, from).epoch = m.epoch /\ Appended(m, n, k, from).sequence = m.sequence + k
  <2>1. numbered \in SUBSET Event /\ UniqueIds(numbered) /\ Numbering(m, numbered, InMemory)
    BY MemoryFacts DEF Numbering
  <2>2. UniqueIds(numbered \cup Events(m, n, k, from))
    BY <2>1, AppendSound
  <2>3. Sound(Appended(m, n, k, from), numbered \cup Events(m, n, k, from), InMemory)
    BY <2>1, AppendSound
  <2>4. /\ Appended(m, n, k, from).epoch = m.epoch
        /\ Appended(m, n, k, from).sequence = m.sequence + k
    <3>1. m \in Content
      BY DEF Sound, Rough
    <3> QED BY <3>1 DEF Appended, Prune, Content
  <2> QED BY <2>2, <2>3, <2>4
<1>3. /\ Events(mem, n, k, from) \subseteq Event
      /\ \A e \in Events(mem, n, k, from) :
            /\ e.id[1] = mem.epoch /\ e.id[2] \in (mem.sequence + 1)..(mem.sequence + k)
            /\ e.n \in n..(n + k - 1) /\ e.from = from
    BY MemoryFacts, NewEvents
<1>4. numbered' = numbered \cup Events(mem, n, k, from) /\ numbered' \subseteq Event
    BY <1>3, MemoryFacts DEF Number
<1> QED BY <1>1, <1>2, <1>3, <1>4 DEF Batch

\* The critical sections of the callers: each leaves memory sound, numbers at
\* most one batch, and changes nothing that is being saved or saved.
Observed == \E seen \in [Sub -> {"up", "down", "gone", "unsure"}] : ObserveSubscriptions(seen)
Listed == \E next \in Lists : ReplaceRecipients(next)
Acked == \E c \in Chat : \E id \in Ids(numbered) \ confirmed[c] : Ack(c, id)

Untouched == UNCHANGED <<phase, reserved, backup, backlog, writing, file, aged, epochs, confirmed, faults>>

LEMMA ObservedSteps ==
    ASSUME IInv, Observed
    PROVE  /\ Untouched /\ UNCHANGED callers /\ phase = "open"
           /\ dirty' = (dirty \/ mem' # mem)
           /\ \E k \in Nat : /\ Batch(published + 1, k, "health")
                             /\ published' = published + k /\ published' <= MaxPublished
                             /\ k <= reserved - mem.sequence
<1>1. PICK seen \in [Sub -> {"up", "down", "gone", "unsure"}] : ObserveSubscriptions(seen)
    BY DEF Observed
<1> DEFINE known == {s \in Sub : seen[s] \in {"up", "down"} /\ seen[s] # mem.health[s]}
           told == {s \in known : seen[s] = "down" \/ mem.health[s] # "unknown"}
           k == Cardinality(told)
           health == [s \in Sub |-> IF seen[s] = "gone" THEN "unknown"
                                    ELSE IF s \in known THEN seen[s] ELSE mem.health[s]]
           q == [mem EXCEPT !.health = health]
<1>2. k \in Nat
  <2>1. IsFiniteSet(told)
    BY FS_Subset, StoreAssumption
  <2> QED BY <2>1, FS_CardinalityType
<1>3. health \in [Sub -> {"unknown", "up", "down"}]
  <2>1. mem.health \in [Sub -> {"unknown", "up", "down"}]
    BY MemoryFacts DEF Content
  <2> QED BY <2>1
<1>4. /\ phase = "open" /\ published + k <= MaxPublished /\ k <= reserved - mem.sequence
      /\ published' = published + k
      /\ Change(IF k = 0 THEN q ELSE Appended(q, published + 1, k, "health"))
      /\ Number(published + 1, k, "health")
      /\ UNCHANGED <<phase, reserved, backup, backlog, writing, callers, file, aged, epochs,
                     confirmed, faults>>
    BY <1>1 DEF ObserveSubscriptions
<1> HIDE DEF k, health
<1>5. Sound(q, numbered, InMemory) /\ q.epoch = mem.epoch /\ q.sequence = mem.sequence
    BY <1>3, MemoryFacts, HealthSound
<1> HIDE DEF q
<1>6. published \in Nat /\ published + 1 \in Nat \ {0}
    BY StoreAssumption DEF IInv, Types
<1>7. Batch(published + 1, k, "health")
  <2>1. CASE k = 0
    <3>1. mem' = q /\ Number(published + 1, 0, "health")
      BY <1>4, <2>1 DEF Change
    <3>2. Events(mem, published + 1, 0, "health") = {}
      <4>1. \A i \in 1..0 : FALSE
        OBVIOUS
      <4> QED BY <4>1 DEF Events
    <3>3. numbered' = numbered
      BY <3>1, <3>2 DEF Number
    <3>4. Batch(published + 1, 0, "health")
      BY <1>5, <3>1, <3>2, <3>3, MemoryFacts DEF Batch
    <3> QED BY <2>1, <3>4
  <2>2. CASE k # 0
    <3>1. mem' = Appended(q, published + 1, k, "health")
      BY <1>4, <2>2 DEF Change
    <3> QED BY <1>2, <1>4, <1>5, <1>6, <3>1, BatchSteps
  <2> QED BY <2>1, <2>2
<1>8. published' <= MaxPublished /\ dirty' = (dirty \/ mem' # mem)
    BY <1>4 DEF Change
<1> QED BY <1>2, <1>4, <1>7, <1>8 DEF Untouched

LEMMA PublishAtSteps ==
    ASSUME IInv, PublishAt
    PROVE  /\ Untouched /\ UNCHANGED <<acking, published>>
           /\ dirty' = (dirty \/ mem' # mem)
           /\ publishing.at = "number" /\ publishing.n \in 1..published
           /\ \/ /\ publishing' = Idle /\ mem.sequence < reserved /\ Batch(publishing.n, 1, "watch")
              \/ /\ publishing' = [publishing EXCEPT !.at = "lease"] /\ UNCHANGED numbered
                 /\ Sound(mem', numbered, InMemory)
                 /\ mem'.epoch = mem.epoch /\ mem'.sequence = mem.sequence
<1>1. /\ Untouched /\ UNCHANGED <<acking, published>> /\ publishing.at = "number"
    BY DEF PublishAt, Untouched
<1>2. publishing.n \in 1..published /\ publishing.n \in Nat \ {0}
    BY <1>1 DEF IInv, Types, Phases, Idle
<1>3. mem.sequence \in Nat /\ reserved \in Nat
    BY MemoryFacts DEF IInv, Types
<1>4. CASE mem.sequence >= reserved
  <2>1. publishing' = [publishing EXCEPT !.at = "lease"] /\ UNCHANGED numbered /\ Change(Prune(mem))
    BY <1>4 DEF PublishAt
  <2> QED BY <1>1, <1>2, <2>1, MemoryFacts DEF Change
<1>5. CASE ~(mem.sequence >= reserved)
  <2>1. publishing' = Idle /\ Change(Appended(Prune(mem), publishing.n, 1, "watch"))
            /\ Number(publishing.n, 1, "watch")
    BY <1>5 DEF PublishAt
  <2>2. Batch(publishing.n, 1, "watch")
    BY <1>2, <2>1, MemoryFacts, BatchSteps DEF Change
  <2> QED BY <1>1, <1>2, <1>3, <1>5, <2>1, <2>2 DEF Change
<1> QED BY <1>4, <1>5

LEMMA ReadSteps ==
    ASSUME IInv, Listed \/ Read \/ Acked
    PROVE  /\ Untouched /\ UNCHANGED <<publishing, published, numbered>> /\ phase = "open"
           /\ dirty' = (dirty \/ mem' # mem)
           /\ mem'.epoch = mem.epoch /\ mem'.sequence = mem.sequence
           /\ Sound(mem', numbered, InMemory')
           /\ \/ UNCHANGED acking
              \/ \E c \in Chat, id \in Ids(numbered) : acking[c] = NoId /\ acking' = [acking EXCEPT ![c] = id]
<1>1. CASE Listed
  <2>1. PICK next \in Lists : ReplaceRecipients(next)
    BY <1>1 DEF Listed
  <2>2. next \in [Chat -> Nat]
    BY StoreAssumption DEF Lists, IInv, Types
  <2>3. Sound(mem', numbered, InMemory) /\ mem'.epoch = mem.epoch /\ mem'.sequence = mem.sequence
    BY <2>1, <2>2, MemoryFacts, ReplacedSound DEF ReplaceRecipients, Change
  <2> QED BY <2>1, <2>3 DEF ReplaceRecipients, Change, Untouched, InMemory, history, callers
<1>2. CASE Read
    BY <1>2, MemoryFacts DEF Read, Change, Untouched, InMemory, history, callers
<1>3. CASE Acked
  <2>1. PICK c \in Chat, id \in Ids(numbered) : Ack(c, id)
    BY <1>3 DEF Acked
  <2>2. /\ Sound(mem', numbered, InMemory) /\ mem'.epoch = mem.epoch /\ mem'.sequence = mem.sequence
        /\ Holds(mem', c, id)
    BY <2>1, MemoryFacts, ClosedSound DEF Ack, Change
  <2>3. acking' = [acking EXCEPT ![c] = id] /\ UNCHANGED confirmed /\ acking[c] = NoId
    BY <2>1 DEF Ack, history
  <2>4. \A d \in Chat : \A i \in InMemory'[d] : i \in InMemory[d] \/ Holds(mem', d, i)
    BY <2>2, <2>3 DEF InMemory, IInv, Types
  <2>5. Sound(mem', numbered, InMemory')
    BY <2>2, <2>4, SoundLess
  <2> QED BY <2>1, <2>2, <2>3, <2>5 DEF Ack, Change, Untouched, history
<1> QED BY <1>1, <1>2, <1>3

---------------------------------------------------------------------------
(* Every step keeps the invariant                                          *)

\* What is being saved and what is saved stay sound while both stand.
LEMMA SavedKept ==
    ASSUME IInv, UNCHANGED <<writing, file, confirmed>>, numbered \subseteq numbered',
           \A c \in Chat : writing.by = c => acking'[c] = acking[c]
    PROVE  /\ Saving' => Sound(writing'.snap.content, numbered', InFlight')
           /\ file' # NoFile => file' \in Saved /\ Sound(file'.content, numbered', OnDisk')
<1>1. InFlight' = InFlight /\ (Saving' <=> Saving) /\ (Draining' <=> Draining)
    BY DEF InFlight, Saving, Draining
<1>2. OnDisk' = OnDisk
    BY <1>1 DEF OnDisk
<1>3. Saving => Sound(writing.snap.content, numbered, InFlight)
    BY DEF IInv, Contents
<1>4. file # NoFile => file \in Saved /\ Sound(file.content, numbered, OnDisk)
    BY DEF IInv, Contents
<1>5. Saving' => Sound(writing.snap.content, numbered', InFlight)
    BY <1>1, <1>3, SoundLess
<1>6. file # NoFile => Sound(file.content, numbered', OnDisk)
    BY <1>4, SoundLess
<1> QED BY <1>1, <1>2, <1>4, <1>5, <1>6

\* What a batch does to the numbers given out.
LEMMA BatchLeases ==
    ASSUME IInv, NEW n \in Nat \ {0}, NEW k \in Nat, NEW from, Batch(n, k, from),
           mem.epoch > 0, published' \in Nat, published <= published', n + k - 1 <= published',
           k <= reserved - mem.sequence, UNCHANGED <<reserved, file, epochs>>
    PROVE  /\ mem'.sequence <= reserved' /\ mem'.epoch <= epochs'
           /\ \A e \in numbered' : e.id[1] \in 1..epochs' /\ e.id[2] > 0 /\ e.n <= published'
           /\ \A e \in numbered' : e.id[1] = mem'.epoch => e.id[2] <= mem'.sequence
           /\ file' # NoFile =>
                /\ file'.content.epoch \in 1..epochs' /\ file'.content.sequence <= file'.reserved
                /\ file'.content.epoch = mem'.epoch => reserved' <= file'.reserved
                /\ \A e \in numbered' : e.id[1] = file'.content.epoch => e.id[2] <= file'.reserved
<1>1. /\ mem.epoch \in Nat /\ mem.sequence \in Nat /\ reserved \in Nat /\ epochs \in Nat
      /\ mem.sequence <= reserved /\ mem.epoch <= epochs
      /\ published \in Nat
    BY MemoryFacts, StoreAssumption DEF IInv, Types, Leases
<1>2. /\ numbered' = numbered \cup Events(mem, n, k, from)
      /\ numbered' \subseteq Event
      /\ mem'.epoch = mem.epoch /\ mem'.sequence = mem.sequence + k
    BY DEF Batch
<1>3. ASSUME NEW e \in numbered'
      PROVE  \/ e \in numbered
             \/ /\ e.id[1] = mem.epoch /\ e.id[2] \in (mem.sequence + 1)..(mem.sequence + k)
                /\ e.n \in n..(n + k - 1)
    BY <1>2 DEF Batch
<1>4. ASSUME NEW e \in numbered'
      PROVE  e.id[1] \in Nat /\ e.id[2] \in Nat /\ e.n \in Nat
    BY <1>2 DEF Event
<1>5. ASSUME NEW e \in numbered
      PROVE  /\ e.id[1] \in 1..epochs /\ e.id[2] > 0 /\ e.n <= published
             /\ e.id[1] = mem.epoch => e.id[2] <= mem.sequence
    BY DEF IInv, Leases
<1>6. ASSUME NEW e \in numbered'
      PROVE  /\ e.id[1] \in 1..epochs' /\ e.id[2] > 0 /\ e.n <= published'
             /\ e.id[1] = mem'.epoch => e.id[2] <= mem'.sequence
    BY <1>1, <1>2, <1>3, <1>4, <1>5
<1>7. ASSUME file # NoFile
      PROVE  /\ file.content.epoch \in 1..epochs /\ file.content.sequence <= file.reserved
             /\ file.content.epoch = mem.epoch => reserved <= file.reserved
             /\ file.reserved \in Nat
             /\ \A e \in numbered' : e.id[1] = file.content.epoch => e.id[2] <= file.reserved
  <2>1. /\ file.content.epoch \in 1..epochs /\ file.content.sequence <= file.reserved
        /\ file.content.epoch = mem.epoch => reserved <= file.reserved
        /\ \A e \in numbered : e.id[1] = file.content.epoch => e.id[2] <= file.reserved
    BY <1>7 DEF IInv, Leases
  <2>2. file.reserved \in Nat
    BY <1>7 DEF IInv, Contents, Saved
  <2>3. ASSUME NEW e \in numbered', e.id[1] = file.content.epoch PROVE e.id[2] <= file.reserved
    <3>1. CASE e \in numbered
      BY <2>1, <2>3, <3>1
    <3>2. CASE e \notin numbered
      BY <1>1, <1>3, <1>4, <2>1, <2>2, <2>3, <3>2
    <3> QED BY <3>1, <3>2
  <2> QED BY <2>1, <2>2, <2>3
<1> QED BY <1>1, <1>2, <1>6, <1>7

\* A batch of the health observer, or one event published after all others of
\* the watch, keeps the order.
LEMMA BatchOrder ==
    ASSUME IInv, NEW n \in Nat \ {0}, NEW k \in Nat, NEW from, Batch(n, k, from),
           \/ from = "health"
           \/ k = 1 /\ \A e \in numbered : e.from = "watch" => e.n < n
    PROVE  Ordered(numbered')
<1>1. Ordered(numbered) /\ mem.sequence \in Nat
    BY MemoryFacts DEF IInv, Order
<1>2. ASSUME NEW e \in numbered'
      PROVE  /\ e.id[1] \in Nat /\ e.id[2] \in Nat /\ e.n \in Nat
             /\ e \in numbered => (e.id[1] = mem.epoch => e.id[2] <= mem.sequence)
             /\ e \notin numbered =>
                    /\ e.id[1] = mem.epoch /\ e.id[2] \in (mem.sequence + 1)..(mem.sequence + k)
                    /\ e.n \in n..(n + k - 1) /\ e.from = from
    BY DEF Batch, Event, IInv, Leases
<1> SUFFICES ASSUME NEW e \in numbered', NEW f \in numbered', e.from = "watch", f.from = "watch",
                    e.id[1] = f.id[1], e.id[2] < f.id[2]
             PROVE  e.n < f.n
    BY DEF Ordered
<1>3. CASE e \in numbered /\ f \in numbered
    BY <1>1, <1>3 DEF Ordered
<1>4. CASE e \in numbered /\ f \notin numbered
    BY <1>2, <1>4
<1>5. CASE e \notin numbered
    BY <1>1, <1>2, <1>5
<1> QED BY <1>3, <1>4, <1>5

\* Memory goes on: what it must hold may shrink, and its events may be fewer.
LEMMA MemoryKept ==
    ASSUME IInv, UNCHANGED mem, numbered \subseteq numbered',
           \A c \in Chat : \A id \in InMemory'[c] : id \in InMemory[c] \/ id = NoId
    PROVE  Sound(mem', numbered', InMemory')
<1>1. Sound(mem, numbered, InMemory)
    BY MemoryFacts
<1>2. \A c \in Chat : \A id \in InMemory'[c] : id \in InMemory[c] \/ Holds(mem, c, id)
    BY <1>1, NoIdHeld
<1> QED BY <1>1, <1>2, SoundLess

LEMMA PublishKeeps ==
    ASSUME IInv, Publish
    PROVE  IInv'
<1> USE DEF IInv
<1>1. /\ UNCHANGED <<phase, mem, reserved, dirty, backup, writing, acking, file, aged, epochs,
                     numbered, confirmed, faults>>
      /\ phase \in {"unopened", "opening", "open"} /\ publishing = Idle
      /\ published < MaxPublished /\ published' = published + 1
    BY DEF Publish, history
<1>2. /\ published \in Nat /\ aged \in Nat /\ MaxPublished \in Nat
      /\ backlog \subseteq 1..published /\ IsFiniteSet(backlog) /\ Cardinality(backlog) <= MaxRecent
    BY StoreAssumption DEF Types
<1>3. \/ /\ publishing' = Idle /\ backlog' = Deferred(backlog, published + 1)
      \/ /\ publishing' = [n |-> published + 1, at |-> "number"]
         /\ phase = "open" /\ backlog = {} /\ backlog' = backlog
    BY <1>1 DEF Publish
<1>4. /\ backlog' \subseteq backlog \cup {published + 1}
      /\ IsFiniteSet(backlog') /\ Cardinality(backlog') <= MaxRecent
  <2>1. backlog \in SUBSET Nat /\ published + 1 \in Nat
    BY <1>2
  <2>2. /\ IsFiniteSet(Deferred(backlog, published + 1))
        /\ Cardinality(Deferred(backlog, published + 1)) <= MaxRecent
        /\ Deferred(backlog, published + 1) \subseteq backlog \cup {published + 1}
    BY <1>2, <2>1, DeferredBounded
  <2> QED BY <1>2, <1>3, <2>2
<1>5. Types'
  <2>1. backlog' \subseteq 1..published'
    BY <1>1, <1>2, <1>4
  <2>2. publishing' \in [n : 0..published', at : {"idle", "number", "lease"}]
    BY <1>1, <1>2, <1>3 DEF Idle
  <2>3. published' \in 0..MaxPublished /\ aged' \in 0..published'
    BY <1>1, <1>2 DEF Types
  <2> QED BY <1>1, <1>4, <2>1, <2>2, <2>3 DEF Types
<1>6. Phases'
  <2>1. writing = Nobody \/ writing.by # "publish"
    BY <1>1 DEF Phases, Idle
  <2>2. CASE publishing' = Idle
    BY <1>1, <2>1, <2>2 DEF Phases, Idle
  <2>3. CASE /\ publishing' = [n |-> published + 1, at |-> "number"]
             /\ phase = "open" /\ backlog = {} /\ backlog' = backlog
    <3>1. publishing'.n > 0 /\ publishing'.at = "number"
      BY <1>2, <2>3
    <3> QED BY <1>1, <2>1, <2>3, <3>1 DEF Phases
  <2> QED BY <1>3, <2>2, <2>3
<1>7. Leases'
  <2>1. \A e \in numbered : e.id[1] \in 1..epochs /\ e.id[2] > 0 /\ e.n <= published'
    BY <1>1, <1>2 DEF Leases, Types, Event
  <2> QED BY <1>1, <2>1 DEF Leases, Saving
<1>8. Order'
  <2>1. ASSUME NEW e \in numbered, e.from = "watch"
        PROVE  /\ \A n \in backlog' : e.n < n \/ (Saving /\ n = writing.head)
               /\ publishing' # Idle => e.n < publishing'.n
    <3>1. e.n < published + 1
      BY <1>2 DEF Leases, Types, Event
    <3>2. \A n \in backlog : e.n < n \/ (Saving /\ n = writing.head)
      BY <2>1 DEF Order
    <3> QED BY <1>3, <1>4, <3>1, <3>2
  <2> QED BY <1>1, <2>1 DEF Order, Saving
<1>9. Contents'
  <2>1. InMemory' = InMemory
    BY <1>1 DEF InMemory
  <2> QED BY <1>1, <2>1, SavedKept DEF Contents
<1>10. Clean'
    BY <1>1 DEF Clean, Saving, Draining
<1> QED BY <1>5, <1>6, <1>7, <1>8, <1>9, <1>10

LEMMA AgeKeeps ==
    ASSUME IInv, Age
    PROVE  IInv'
<1> USE DEF IInv
<1>1. /\ UNCHANGED <<phase, mem, reserved, dirty, backup, backlog, writing, publishing, acking, file,
                     published, epochs, numbered, confirmed, faults>>
      /\ aged < published /\ aged' = aged + 1
    BY DEF Age, memory, callers, history
<1>2. Types'
    BY <1>1, StoreAssumption DEF Types
<1>3. Phases' /\ Leases' /\ Order' /\ Clean'
    BY <1>1 DEF Phases, Leases, Order, Clean, Saving, Draining
<1>4. Contents'
  <2>1. InMemory' = InMemory
    BY <1>1 DEF InMemory
  <2> QED BY <1>1, <2>1, SavedKept DEF Contents
<1> QED BY <1>2, <1>3, <1>4

LEMMA OpenUnresolvedKeeps ==
    ASSUME IInv, OpenUnresolved
    PROVE  IInv'
<1> USE DEF IInv
<1>1. /\ UNCHANGED <<mem, reserved, dirty, backup, backlog, writing, publishing, acking, file,
                     published, aged, epochs, numbered, confirmed>>
      /\ phase = "down" /\ phase' = "unopened" /\ faults < MaxFaults /\ faults' = faults + 1
    BY DEF OpenUnresolved, memory, callers, history
<1>2. Types'
    BY <1>1, StoreAssumption DEF Types
<1>3. Phases' /\ Leases' /\ Order' /\ Clean'
    BY <1>1 DEF Phases, Leases, Order, Clean, Saving, Draining
<1>4. Contents'
  <2>1. InMemory' = InMemory
    BY <1>1 DEF InMemory
  <2> QED BY <1>1, <2>1, SavedKept DEF Contents
<1> QED BY <1>2, <1>3, <1>4

\* After a crash there is the file, and it holds every confirmed id.
LEMMA CrashKeeps ==
    ASSUME IInv, Crash
    PROVE  IInv'
<1> USE DEF IInv
<1>1. /\ UNCHANGED <<file, published, aged, epochs, numbered, confirmed>>
      /\ phase' = "down" /\ faults < MaxFaults /\ faults' = faults + 1
      /\ mem' = Blank /\ reserved' = Reserve /\ dirty' = FALSE /\ backup' = FALSE /\ backlog' = {}
      /\ writing' = Nobody /\ publishing' = Idle /\ acking' = [c \in Chat |-> NoId]
    BY DEF Crash, history
<1>2. mem'.epoch = 0 /\ mem'.sequence = 0 /\ Sound(mem', numbered', InMemory')
    BY <1>1, BlankSound
<1>3. Types'
  <2>1. IsFiniteSet({}) /\ Cardinality({}) = 0
    BY FS_EmptySet
  <2>2. publishing' \in [n : 0..published', at : {"idle", "number", "lease"}]
    BY <1>1, StoreAssumption DEF Types, Idle
  <2>3. faults' \in 0..MaxFaults
    BY <1>1, StoreAssumption DEF Types
  <2>4. acking' \in [Chat -> Ids(numbered') \cup {NoId}] /\ confirmed' \in [Chat -> SUBSET (Ids(numbered') \cup {NoId})]
    BY <1>1 DEF Types
  <2>5. reserved' \in Nat /\ Cardinality(backlog') <= MaxRecent /\ IsFiniteSet(backlog') /\ backlog' \subseteq 1..published'
    BY <1>1, <2>1, StoreAssumption
  <2> QED BY <1>1, <2>2, <2>3, <2>4, <2>5 DEF Types
<1>4. Phases'
  <2>1. \A c \in Chat : Nobody.by # c
    BY StoreAssumption DEF Nobody
  <2> QED BY <1>1, <2>1 DEF Phases, Idle, Nobody
<1>5. ~Saving' /\ ~Draining'
    BY <1>1 DEF Saving, Draining
<1>6. Leases'
  <2>1. \A e \in numbered : e.id[1] # 0
    BY DEF Leases, Types
  <2>2. file # NoFile => file.content.epoch # 0
    BY DEF Leases, Types
  <2> QED BY <1>1, <1>2, <1>5, <2>1, <2>2, StoreAssumption DEF Leases, Types
<1>7. Order'
    BY <1>1 DEF Order
<1>8. Contents'
  <2>2. file # NoFile => file \in Saved /\ Sound(file.content, numbered, OnDisk)
    BY DEF Contents
  <2>3. OnDisk' = confirmed /\ \A c \in Chat : confirmed[c] \subseteq OnDisk[c]
    BY <1>1, <1>5 DEF OnDisk, InFlight
  <2>4. file # NoFile => Sound(file.content, numbered, confirmed)
    BY <2>2, <2>3, SoundLess
  <2> QED BY <1>1, <1>2, <1>5, <2>2, <2>3, <2>4 DEF Contents
<1>9. Clean'
    BY <1>1, <1>5 DEF Clean
<1> QED BY <1>3, <1>4, <1>6, <1>7, <1>8, <1>9

\* What memory does within its lease changes neither what is saved nor how.
LEMMA CleanKept ==
    ASSUME IInv, Untouched, dirty \in BOOLEAN, dirty' = (dirty \/ mem' # mem)
    PROVE  Clean'
<1>1. UNCHANGED <<phase, backup, writing, file>>
    BY DEF Untouched
<1>2. CASE ~dirty'
  <2>1. mem' = mem /\ ~dirty
    BY <1>2
  <2> QED BY <1>1, <2>1 DEF Clean, IInv, Saving, Draining
<1>3. CASE dirty'
    BY <1>3 DEF Clean
<1> QED BY <1>2, <1>3

\* New ids are ids as well.
LEMMA IdsGrow ==
    ASSUME NEW N, NEW M, N \subseteq M
    PROVE  Ids(N) \subseteq Ids(M)
BY DEF Ids

LEMMA ObservedKeeps ==
    ASSUME IInv, Observed
    PROVE  IInv'
<1> USE DEF IInv
<1>1. /\ Untouched /\ UNCHANGED callers /\ phase = "open" /\ dirty' = (dirty \/ mem' # mem)
    BY ObservedSteps
<1>2. PICK k \in Nat : /\ Batch(published + 1, k, "health")
                       /\ published' = published + k /\ published' <= MaxPublished
                       /\ k <= reserved - mem.sequence
    BY ObservedSteps
<1>3. /\ published \in Nat /\ published' \in Nat /\ published <= published'
      /\ published + 1 \in Nat \ {0} /\ published + 1 + k - 1 <= published'
    BY <1>2, StoreAssumption DEF Types
<1>4. /\ UNCHANGED <<phase, reserved, backup, backlog, writing, publishing, acking, file, aged, epochs,
                     confirmed, faults>>
      /\ numbered' = numbered \cup Events(mem, published + 1, k, "health") /\ numbered' \subseteq Event
      /\ UniqueIds(numbered') /\ Sound(mem', numbered', InMemory)
      /\ mem'.epoch = mem.epoch
      /\ \A e \in numbered' : e \in numbered \/ e.from = "health"
    BY <1>1, <1>2 DEF Untouched, callers, Batch
<1>5. Types'
  <2>1. confirmed \in [Chat -> SUBSET (Ids(numbered') \cup {NoId})]
            /\ acking \in [Chat -> Ids(numbered') \cup {NoId}]
    <3>1. Ids(numbered) \subseteq Ids(numbered')
      BY <1>4, IdsGrow
    <3> QED BY <3>1 DEF Types
  <2>2. backlog \subseteq 1..published' /\ publishing \in [n : 0..published', at : {"idle", "number", "lease"}]
    BY <1>3 DEF Types
  <2>3. published' \in 0..MaxPublished /\ aged \in 0..published'
    BY <1>2, <1>3, StoreAssumption DEF Types
  <2>4. dirty' \in BOOLEAN
    BY <1>1 DEF Types
  <2> QED BY <1>4, <2>1, <2>2, <2>3, <2>4 DEF Types
<1>6. Phases'
    BY <1>4 DEF Phases
<1>7. Leases'
  <2>1. mem.epoch > 0
    BY <1>1 DEF Phases
  <2>2. /\ mem'.sequence <= reserved' /\ mem'.epoch <= epochs'
        /\ \A e \in numbered' : e.id[1] \in 1..epochs' /\ e.id[2] > 0 /\ e.n <= published'
        /\ \A e \in numbered' : e.id[1] = mem'.epoch => e.id[2] <= mem'.sequence
        /\ file' # NoFile =>
             /\ file'.content.epoch \in 1..epochs' /\ file'.content.sequence <= file'.reserved
             /\ file'.content.epoch = mem'.epoch => reserved' <= file'.reserved
             /\ \A e \in numbered' : e.id[1] = file'.content.epoch => e.id[2] <= file'.reserved
    BY <1>2, <1>3, <1>4, <2>1, BatchLeases
  <2> QED BY <1>4, <2>2 DEF Leases, Saving
<1>8. Order'
  <2>1. Ordered(numbered')
    BY <1>2, <1>3, BatchOrder
  <2>2. \A e \in numbered' : e.from = "watch" => e \in numbered
    BY <1>4
  <2> QED BY <1>4, <2>1, <2>2 DEF Order, Saving
<1>9. Contents'
  <2>1. InMemory' = InMemory
    BY <1>4 DEF InMemory
  <2> QED BY <1>4, <2>1, SavedKept DEF Contents
<1>10. Clean'
    BY <1>1, CleanKept DEF Types
<1> QED BY <1>5, <1>6, <1>7, <1>8, <1>9, <1>10

LEMMA PublishAtKeeps ==
    ASSUME IInv, PublishAt
    PROVE  IInv'
<1> USE DEF IInv
<1>1. /\ Untouched /\ UNCHANGED <<acking, published>> /\ dirty' = (dirty \/ mem' # mem)
      /\ publishing.at = "number" /\ publishing.n \in 1..published
    BY PublishAtSteps
<1>2. /\ UNCHANGED <<phase, reserved, backup, backlog, writing, acking, file, published, aged, epochs,
                     confirmed, faults>>
      /\ publishing # Idle /\ phase = "open" /\ mem.epoch > 0 /\ backlog = {}
      /\ writing = Nobody \/ writing.by # "publish"
    BY <1>1 DEF Untouched, Idle, Phases
<1>3. published \in Nat
    BY StoreAssumption DEF Types
<1>4. InMemory' = InMemory
    BY <1>2 DEF InMemory
<1>5. CASE /\ publishing' = Idle /\ mem.sequence < reserved /\ Batch(publishing.n, 1, "watch")
  <2>1. /\ numbered' = numbered \cup Events(mem, publishing.n, 1, "watch") /\ numbered' \subseteq Event
        /\ UniqueIds(numbered') /\ Sound(mem', numbered', InMemory) /\ mem'.epoch = mem.epoch
    BY <1>5 DEF Batch
  <2>2. Types'
    <3>1. confirmed \in [Chat -> SUBSET (Ids(numbered') \cup {NoId})]
              /\ acking \in [Chat -> Ids(numbered') \cup {NoId}]
      <4>1. Ids(numbered) \subseteq Ids(numbered')
        BY <2>1, IdsGrow
      <4> QED BY <4>1 DEF Types
    <3>2. publishing' \in [n : 0..published', at : {"idle", "number", "lease"}]
      BY <1>2, <1>3, <1>5 DEF Idle
    <3>3. dirty' \in BOOLEAN
      BY <1>1 DEF Types
    <3> QED BY <1>2, <2>1, <3>1, <3>2, <3>3 DEF Types
  <2>3. Phases'
    BY <1>2, <1>5, <2>1 DEF Phases
  <2>4. Leases'
    <3>1. /\ mem.sequence \in Nat /\ reserved \in Nat /\ publishing.n \in Nat \ {0}
          /\ publishing.n + 1 - 1 <= published
      BY <1>1, <1>3, MemoryFacts DEF Types
    <3>2. 1 <= reserved - mem.sequence
      BY <1>5, <3>1
    <3>3. /\ mem'.sequence <= reserved' /\ mem'.epoch <= epochs'
          /\ \A e \in numbered' : e.id[1] \in 1..epochs' /\ e.id[2] > 0 /\ e.n <= published'
          /\ \A e \in numbered' : e.id[1] = mem'.epoch => e.id[2] <= mem'.sequence
          /\ file' # NoFile =>
               /\ file'.content.epoch \in 1..epochs' /\ file'.content.sequence <= file'.reserved
               /\ file'.content.epoch = mem'.epoch => reserved' <= file'.reserved
               /\ \A e \in numbered' : e.id[1] = file'.content.epoch => e.id[2] <= file'.reserved
      BY <1>2, <1>3, <1>5, <3>1, <3>2, BatchLeases
    <3> QED BY <1>2, <2>1, <3>3 DEF Leases, Saving
  <2>5. Order'
    <3>1. \A e \in numbered : e.from = "watch" => e.n < publishing.n
      BY <1>2 DEF Order
    <3>2. Ordered(numbered')
      BY <1>1, <1>3, <1>5, <3>1, BatchOrder
    <3> QED BY <1>2, <1>5, <2>1, <3>2 DEF Order
  <2>6. Contents'
    BY <1>2, <1>4, <2>1, SavedKept DEF Contents
  <2>7. Clean'
    BY <1>1, CleanKept DEF Types
  <2> QED BY <2>2, <2>3, <2>4, <2>5, <2>6, <2>7
<1>6. CASE /\ publishing' = [publishing EXCEPT !.at = "lease"] /\ UNCHANGED numbered
           /\ Sound(mem', numbered, InMemory)
           /\ mem'.epoch = mem.epoch /\ mem'.sequence = mem.sequence
  <2>1. publishing'.n = publishing.n /\ publishing'.at = "lease"
            /\ publishing' \in [n : 0..published', at : {"idle", "number", "lease"}]
    BY <1>2, <1>6 DEF Types
  <2>2. dirty' \in BOOLEAN
    BY <1>1 DEF Types
  <2>3. Types'
    BY <1>2, <1>6, <2>1, <2>2 DEF Types
  <2>4. Phases'
    BY <1>1, <1>2, <1>6, <2>1 DEF Phases
  <2>5. Leases'
    BY <1>2, <1>6 DEF Leases, Saving
  <2>6. Order'
    BY <1>2, <1>6, <2>1 DEF Order, Saving
  <2>7. Contents'
    BY <1>2, <1>4, <1>6, SavedKept DEF Contents
  <2>8. Clean'
    BY <1>1, CleanKept DEF Types
  <2> QED BY <2>3, <2>4, <2>5, <2>6, <2>7, <2>8
<1> QED BY <1>5, <1>6, PublishAtSteps

LEMMA ReadKeeps ==
    ASSUME IInv, Listed \/ Read \/ Acked
    PROVE  IInv'
<1> USE DEF IInv
<1>1. /\ Untouched /\ UNCHANGED <<publishing, published, numbered>> /\ phase = "open"
      /\ dirty' = (dirty \/ mem' # mem)
      /\ mem'.epoch = mem.epoch /\ mem'.sequence = mem.sequence
      /\ Sound(mem', numbered, InMemory')
      /\ \/ UNCHANGED acking
         \/ \E c \in Chat, id \in Ids(numbered) : acking[c] = NoId /\ acking' = [acking EXCEPT ![c] = id]
    BY ReadSteps
<1>2. UNCHANGED <<phase, reserved, backup, backlog, writing, publishing, file, published, aged, epochs,
                  numbered, confirmed, faults>>
    BY <1>1 DEF Untouched
<1>3. \A c \in Chat : writing.by = c => acking'[c] = acking[c]
    BY <1>1 DEF Phases, Types
<1>4. Types'
  <2>1. dirty' \in BOOLEAN
    BY <1>1 DEF Types
  <2>2. acking' \in [Chat -> Ids(numbered) \cup {NoId}]
    BY <1>1 DEF Types
  <2> QED BY <1>2, <2>1, <2>2 DEF Types
<1>5. Phases'
    BY <1>1, <1>2, <1>3 DEF Phases
<1>6. Leases'
    BY <1>1, <1>2 DEF Leases, Saving
<1>7. Order'
    BY <1>2 DEF Order, Saving
<1>8. Contents'
    BY <1>1, <1>2, <1>3, SavedKept DEF Contents
<1>9. Clean'
    BY <1>1, CleanKept DEF Types
<1> QED BY <1>4, <1>5, <1>6, <1>7, <1>8, <1>9

\* A flush begins for a caller that waits for it, or for one that does not.
Beginning == Flush \/ FlushLease \/ \E c \in Chat : FlushAck(c)

LEMMA BeginningSteps ==
    ASSUME IInv, Beginning
    PROVE  \E by \in Caller :
                /\ Begin(by)
                /\ by = "publish" => publishing.at = "lease"
                /\ by \in Chat => acking[by] # NoId
<1>1. CASE Flush
    BY <1>1, StoreAssumption DEF Flush, Caller
<1>2. CASE FlushLease
    BY <1>2, StoreAssumption DEF FlushLease, Caller
<1>3. CASE \E c \in Chat : FlushAck(c)
  <2>1. PICK c \in Chat : FlushAck(c)
    BY <1>3
  <2>2. c # "publish" /\ c \in Caller
    BY StoreAssumption DEF Caller
  <2> QED BY <2>1, <2>2 DEF FlushAck
<1> QED BY <1>1, <1>2, <1>3 DEF Beginning

\* What a snapshot leases.
LEMMA SnapshotLease ==
    ASSUME NEW m \in Content, reserved \in Nat
    PROVE  /\ Snapshot(m) \in Saved /\ Snapshot(m).content = m
           /\ reserved <= Snapshot(m).reserved /\ m.sequence <= Snapshot(m).reserved
<1>1. m.sequence \in Nat /\ m.sequence + Reserve \in Nat /\ m.sequence <= m.sequence + Reserve
    BY StoreAssumption DEF Content
<1>2. /\ Max({reserved, m.sequence + Reserve}) \in Nat
      /\ Max({reserved, m.sequence + Reserve}) >= reserved
      /\ Max({reserved, m.sequence + Reserve}) >= m.sequence + Reserve
    BY <1>1, LargerNumber
<1> DEFINE lease == Max({reserved, m.sequence + Reserve})
<1>3. Snapshot(m) = [content |-> m, reserved |-> lease]
    BY DEF Snapshot
<1> HIDE DEF lease
<1>4. lease \in Nat /\ lease >= reserved /\ lease >= m.sequence + Reserve
    BY <1>2 DEF lease
<1>5. m.sequence <= lease
    BY <1>1, <1>4
<1> QED BY <1>3, <1>4, <1>5 DEF Saved

LEMMA BeginKeeps ==
    ASSUME IInv, Beginning
    PROVE  IInv'
<1> USE DEF IInv
<1>1. PICK by \in Caller : /\ Begin(by)
                           /\ by = "publish" => publishing.at = "lease"
                           /\ by \in Chat => acking[by] # NoId
    BY BeginningSteps
<1> DEFINE m == Prune(mem)
<1>2. /\ UNCHANGED <<phase, reserved, backup, backlog, publishing, acking, file, published, aged, epochs,
                     numbered, confirmed, faults>>
      /\ phase = "open" /\ writing = Nobody /\ mem' = m
    BY <1>1 DEF Begin, callers, history
<1>3. \/ /\ dirty' = FALSE
         /\ writing' = [by |-> by, step |-> "write", head |-> 0, snap |-> Snapshot(m)]
      \/ /\ ~NeedsSave(m) /\ dirty' = dirty
         /\ writing' = [by |-> by, step |-> "drain"]
    BY <1>1 DEF Begin
<1>4. /\ m \in Content /\ m.epoch = mem.epoch /\ m.sequence = mem.sequence
      /\ Sound(m, numbered, InMemory)
    BY MemoryFacts DEF Sound, Rough
<1> HIDE DEF m
<1>5. /\ Snapshot(m) \in Saved /\ Snapshot(m).content = m
      /\ reserved <= Snapshot(m).reserved /\ m.sequence <= Snapshot(m).reserved
    BY <1>4, SnapshotLease DEF Types
<1>6. /\ writing' # Nobody /\ writing'.by = by /\ by # "nobody"
      /\ writing' \in Save \/ writing' \in Drained
      /\ Saving' => writing'.snap = Snapshot(m) /\ dirty' = FALSE
      /\ Draining' => ~NeedsSave(m) /\ dirty' = dirty
      /\ ~(Saving' /\ Draining')
  <2>1. by # "nobody"
    BY StoreAssumption DEF Caller
  <2> QED BY <1>3, <1>5, <2>1 DEF Nobody, Save, Drained, Saving, Draining
<1>7. Types'
    BY <1>2, <1>3, <1>6 DEF Types
<1>8. Phases'
  <2>1. \A c \in Chat : writing'.by = c => acking'[c] # NoId
    BY <1>1, <1>2, <1>6
  <2> QED BY <1>1, <1>2, <1>4, <1>6, <2>1 DEF Phases
<1>9. Leases'
    BY <1>2, <1>4, <1>5, <1>6 DEF Leases
<1>10. Order'
    BY <1>2 DEF Order, Saving
<1>11. /\ InMemory' = InMemory /\ OnDisk = confirmed
       /\ \A c \in Chat : InFlight'[c] \subseteq InMemory[c]
    BY <1>2, <1>6 DEF InMemory, InFlight, OnDisk, Draining
<1>12. Contents'
  <2>1. Sound(m, numbered, InFlight')
    BY <1>4, <1>11, SoundLess
  <2>2. file # NoFile => file \in Saved /\ Sound(file.content, numbered, confirmed)
    BY <1>11 DEF Contents
  <2>3. CASE Draining'
    <3>1. file # NoFile /\ file.content = m
      BY <1>2, <1>6, <2>3 DEF NeedsSave, Clean
    <3> QED BY <1>2, <1>4, <1>5, <1>6, <1>11, <2>1, <2>2, <2>3, <3>1 DEF Contents, OnDisk
  <2>4. CASE ~Draining'
    BY <1>2, <1>4, <1>5, <1>6, <1>11, <2>1, <2>2, <2>4 DEF Contents, OnDisk
  <2> QED BY <2>3, <2>4
<1>13. Clean'
  <2>1. Saving' => writing'.snap.content = mem'
    BY <1>2, <1>5, <1>6
  <2>2. Draining' => ~dirty /\ m = mem /\ ~backup
    BY <1>6 DEF NeedsSave
  <2> QED BY <1>2, <1>6, <2>1, <2>2 DEF Clean
<1> QED BY <1>7, <1>8, <1>9, <1>10, <1>12, <1>13

LEMMA SaveOkKeeps ==
    ASSUME IInv, SaveOk
    PROVE  IInv'
<1> USE DEF IInv
<1>1. /\ UNCHANGED <<phase, mem, dirty, publishing, acking, published, aged, epochs, numbered, confirmed,
                     faults>>
      /\ Saving /\ file' = writing.snap /\ reserved' = Max({reserved, writing.snap.reserved})
      /\ backup' = FALSE /\ backlog' = backlog \ {writing.head}
      /\ writing' = [by |-> writing.by, step |-> "drain"]
    BY DEF SaveOk, Saving, callers, history
<1>2. /\ writing.by \in Caller /\ writing.by # "nobody" /\ writing.snap \in Saved
    BY <1>1, StoreAssumption DEF Types, Saving, Save, Drained, Caller
<1>3. /\ writing' # Nobody /\ writing'.by = writing.by /\ writing' \in Drained
      /\ Draining' /\ ~Saving'
    BY <1>1, <1>2 DEF Nobody, Drained, Draining, Saving
<1>4. reserved' \in Nat /\ reserved <= reserved' /\ reserved' <= writing.snap.reserved
  <2>1. reserved \in Nat /\ writing.snap.reserved \in Nat
    BY <1>2 DEF Saved, Types
  <2>2. reserved <= writing.snap.reserved
    BY <1>1 DEF Leases
  <2> QED BY <1>1, <2>1, <2>2, LargerNumber
<1>5. backlog' \subseteq backlog /\ IsFiniteSet(backlog') /\ Cardinality(backlog') <= MaxRecent
  <2>1. IsFiniteSet(backlog) /\ Cardinality(backlog) <= MaxRecent /\ backlog' \subseteq backlog
    BY <1>1 DEF Types
  <2>2. IsFiniteSet(backlog') /\ Cardinality(backlog') <= Cardinality(backlog)
    BY <2>1, FS_Subset
  <2>3. Cardinality(backlog') \in Nat /\ Cardinality(backlog) \in Nat
    BY <2>1, <2>2, FS_CardinalityType
  <2> QED BY <2>1, <2>2, <2>3, StoreAssumption
<1>6. Types'
    BY <1>1, <1>3, <1>4, <1>5 DEF Types
<1>7. Phases'
    BY <1>1, <1>3, <1>5 DEF Phases, Saving
<1>8. Leases'
  <2>1. /\ mem.sequence <= reserved' /\ mem.sequence <= writing.snap.reserved
        /\ mem.sequence \in Nat /\ mem.epoch \in Nat
    BY <1>2, <1>4, MemoryFacts DEF Leases, Types, Saved
  <2>2. mem.epoch > 0
    BY <1>1 DEF Phases, Saving
  <2>3. /\ writing.snap.content.epoch = mem.epoch /\ mem.epoch \in 1..epochs
        /\ writing.snap.content.sequence <= writing.snap.reserved
    BY <1>1, <2>1, <2>2 DEF Leases, Types
  <2>4. \A e \in numbered : e.id[1] = mem.epoch => e.id[2] <= writing.snap.reserved
    <3> SUFFICES ASSUME NEW e \in numbered, e.id[1] = mem.epoch PROVE e.id[2] <= writing.snap.reserved
      OBVIOUS
    <3>1. e.id[2] \in Nat /\ e.id[2] <= mem.sequence
      BY DEF Types, Event, Leases
    <3>2. writing.snap.reserved \in Nat
      BY <1>2 DEF Saved
    <3> QED BY <2>1, <3>1, <3>2
  <2> QED BY <1>1, <1>3, <1>4, <2>1, <2>3, <2>4 DEF Leases
<1>9. Order'
    BY <1>1, <1>3, <1>5 DEF Order
<1>10. InMemory' = InMemory /\ OnDisk' = InFlight
    BY <1>1, <1>3 DEF InMemory, InFlight, OnDisk
<1>11. Contents'
    BY <1>1, <1>2, <1>3, <1>10 DEF Contents
<1>12. Clean'
  <2>1. writing.snap # NoFile
    <3>1. DOMAIN writing.snap = {"content", "reserved"}
      BY <1>2 DEF Saved
    <3>2. DOMAIN NoFile = {"content"}
      BY DEF NoFile
    <3> QED BY <3>1, <3>2
  <2> QED BY <1>1, <1>3, <2>1 DEF Clean
<1> QED BY <1>6, <1>7, <1>8, <1>9, <1>11, <1>12

LEMMA SaveFailsKeeps ==
    ASSUME IInv, SaveFails
    PROVE  IInv'
<1> USE DEF IInv
<1> DEFINE left == backlog \ {writing.head}
<1>1. /\ UNCHANGED <<mem, reserved, published, aged, epochs, numbered>>
      /\ Saving /\ faults < MaxFaults /\ faults' = faults + 1
      /\ dirty' = TRUE /\ phase' = "open"
      /\ file' = writing.snap \/ file' = file
      /\ backup' \in BOOLEAN
      /\ writing' = Nobody
      /\ acking' = [c \in Chat |-> IF c = writing.by THEN NoId ELSE acking[c]]
  <2>1. \A preserved \in BOOLEAN : (backup /\ ~preserved) \in BOOLEAN
    OBVIOUS
  <2> QED BY <2>1 DEF SaveFails, Saving, Answer
<1>2. UNCHANGED confirmed
  <2>1. confirmed' = [c \in Chat |-> confirmed[c]]
    BY DEF SaveFails, Answer
  <2> QED BY <2>1 DEF Types
<1>3. \/ /\ writing.by = "publish" /\ publishing.at = "lease"
         /\ backlog' = Deferred(left, publishing.n) /\ publishing' = Idle
      \/ /\ writing.by # "publish" /\ backlog' = left /\ publishing' = publishing
    BY <1>1 DEF SaveFails, Answer, Phases
<1>4. left \subseteq backlog /\ IsFiniteSet(left) /\ Cardinality(left) <= MaxRecent
  <2>1. IsFiniteSet(backlog) /\ Cardinality(backlog) <= MaxRecent /\ left \subseteq backlog
    BY DEF Types
  <2> HIDE DEF left
  <2>2. IsFiniteSet(left) /\ Cardinality(left) <= Cardinality(backlog)
    BY <2>1, FS_Subset
  <2>3. Cardinality(left) \in Nat /\ Cardinality(backlog) \in Nat
    BY <2>1, <2>2, FS_CardinalityType
  <2> QED BY <2>1, <2>2, <2>3, StoreAssumption
<1>5. \A n \in left : n # writing.head
    OBVIOUS
<1> HIDE DEF left
<1>6. published \in Nat /\ backlog \subseteq 1..published /\ publishing \in [n : 0..published, at : {"idle", "number", "lease"}]
    BY StoreAssumption DEF Types
<1>7. /\ backlog' \subseteq left \cup (IF writing.by = "publish" THEN {publishing.n} ELSE {})
      /\ IsFiniteSet(backlog') /\ Cardinality(backlog') <= MaxRecent
  <2>1. CASE writing.by = "publish"
    <3>1. left \in SUBSET Nat /\ publishing.n \in Nat
      BY <1>4, <1>6
    <3>2. /\ IsFiniteSet(Deferred(left, publishing.n)) /\ Cardinality(Deferred(left, publishing.n)) <= MaxRecent
          /\ Deferred(left, publishing.n) \subseteq left \cup {publishing.n}
      BY <1>4, <3>1, DeferredBounded
    <3> QED BY <1>3, <2>1, <3>2
  <2>2. CASE writing.by # "publish"
    BY <1>3, <1>4, <2>2
  <2> QED BY <2>1, <2>2
<1>8. writing.by = "publish" => publishing # Idle /\ publishing.n > 0 /\ backlog = {}
    BY <1>3 DEF Phases, Idle
<1>9. /\ writing.snap \in Saved /\ writing.snap.reserved \in Nat
      /\ Sound(writing.snap.content, numbered, InFlight)
    BY <1>1 DEF Types, Saving, Save, Drained, Saved, Contents
<1>10. ~Saving' /\ ~Draining' /\ \A c \in Chat : writing'.by # c
  <2>1. \A c \in Chat : c # "nobody"
    BY StoreAssumption
  <2> QED BY <1>1, <2>1 DEF Saving, Draining, Nobody
<1>11. Types'
  <2>1. backlog' \subseteq 1..published
    BY <1>4, <1>6, <1>7, <1>8
  <2>2. publishing' \in [n : 0..published, at : {"idle", "number", "lease"}]
    BY <1>3, <1>6 DEF Idle
  <2>3. acking' \in [Chat -> Ids(numbered) \cup {NoId}]
    BY <1>1 DEF Types
  <2>4. faults' \in 0..MaxFaults
    BY <1>1, StoreAssumption DEF Types
  <2> QED BY <1>1, <1>2, <1>7, <2>1, <2>2, <2>3, <2>4 DEF Types
<1>12. Phases'
  <2>1. publishing' # Idle => publishing'.n > 0 /\ backlog' = {}
    BY <1>3, <1>4 DEF Phases
  <2>2. publishing'.at = "idle" => publishing' = Idle
    BY <1>3 DEF Phases
  <2>3. mem.epoch > 0
    BY <1>1 DEF Phases, Saving
  <2> QED BY <1>1, <1>10, <2>1, <2>2, <2>3 DEF Phases
<1>13. Leases'
  <2>1. CASE file' = file
    BY <1>1, <1>10, <2>1 DEF Leases
  <2>2. CASE file' = writing.snap
    <3>1. /\ mem.sequence <= reserved /\ reserved <= writing.snap.reserved
          /\ mem.sequence \in Nat /\ mem.epoch \in Nat /\ reserved \in Nat
      BY <1>1, MemoryFacts DEF Leases, Types
    <3>2. mem.epoch > 0
      BY <1>1 DEF Phases, Saving
    <3>3. /\ writing.snap.content.epoch = mem.epoch /\ mem.epoch \in 1..epochs
          /\ writing.snap.content.sequence <= writing.snap.reserved
      BY <1>1, <3>1, <3>2 DEF Leases, Types
    <3>4. ASSUME NEW e \in numbered, e.id[1] = mem.epoch PROVE e.id[2] <= writing.snap.reserved
      <4>1. e.id[2] \in Nat /\ e.id[2] <= mem.sequence
        BY <3>4 DEF Types, Event, Leases
      <4> QED BY <1>9, <3>1, <4>1
    <3> QED BY <1>1, <1>10, <2>2, <3>1, <3>3, <3>4 DEF Leases
  <2> QED BY <1>1, <2>1, <2>2
<1>14. Order'
  <2>1. ASSUME NEW e \in numbered, e.from = "watch"
        PROVE  /\ \A n \in backlog' : e.n < n
               /\ publishing' # Idle => e.n < publishing'.n
    <3>1. \A n \in left : e.n < n
      BY <1>4, <1>5, <2>1 DEF Order
    <3>2. publishing # Idle => e.n < publishing.n
      BY <2>1 DEF Order
    <3> QED BY <1>3, <1>7, <1>8, <3>1, <3>2
  <2> QED BY <1>1, <2>1 DEF Order
<1>15. Contents'
  <2>1. /\ \A c \in Chat : \A id \in InMemory'[c] : id \in InMemory[c] \/ id = NoId
        /\ OnDisk' = confirmed /\ OnDisk = confirmed
        /\ \A c \in Chat : confirmed[c] \subseteq InFlight[c]
    BY <1>1, <1>2, <1>10 DEF InMemory, OnDisk, InFlight, Saving, Draining
  <2>2. Sound(mem', numbered', InMemory')
    BY <1>1, <2>1, MemoryKept
  <2>3. Sound(writing.snap.content, numbered, confirmed)
    BY <1>9, <2>1, SoundLess
  <2>4. file # NoFile => file \in Saved /\ Sound(file.content, numbered, confirmed)
    BY <2>1 DEF Contents
  <2> QED BY <1>1, <1>9, <1>10, <2>1, <2>2, <2>3, <2>4 DEF Contents
<1>16. Clean'
    BY <1>1, <1>10 DEF Clean
<1> QED BY <1>11, <1>12, <1>13, <1>14, <1>15, <1>16

\* The flush that ends well: nothing waits, and what was asked is confirmed.
LEMMA DrainedKeeps ==
    ASSUME IInv, Drain, backlog = {}
    PROVE  IInv'
<1> USE DEF IInv
<1>1. /\ UNCHANGED <<mem, dirty, reserved, backup, file, published, aged, epochs, numbered, faults>>
      /\ Draining /\ phase' = "open" /\ backlog' = backlog
    BY DEF Drain, Draining, history, Answer
<1>2. CASE UNCHANGED <<writing, callers, confirmed>>
  <2>1. UNCHANGED <<writing, publishing, acking, confirmed>>
    BY <1>2 DEF callers
  <2>2. Types'
    BY <1>1, <2>1 DEF Types
  <2>3. Phases'
    BY <1>1, <2>1 DEF Phases, Draining
  <2>4. Leases' /\ Order' /\ Clean'
    BY <1>1, <2>1 DEF Leases, Order, Clean, Saving, Draining
  <2>5. Contents'
    <3>1. InMemory' = InMemory
      BY <2>1 DEF InMemory
    <3> QED BY <1>1, <2>1, <3>1, SavedKept DEF Contents
  <2> QED BY <2>2, <2>3, <2>4, <2>5
<1>3. CASE Answer(writing.by, TRUE, backlog)
  <2>1. /\ writing' = Nobody
        /\ acking' = [c \in Chat |-> IF c = writing.by THEN NoId ELSE acking[c]]
        /\ confirmed' = [c \in Chat |-> IF c = writing.by THEN confirmed[c] \cup {acking[c]} ELSE confirmed[c]]
        /\ publishing' = IF writing.by = "publish" THEN [publishing EXCEPT !.at = "number"] ELSE publishing
    BY <1>3 DEF Answer
  <2>2. ~Saving' /\ ~Draining' /\ \A c \in Chat : writing'.by # c
    <3>1. \A c \in Chat : c # "nobody"
      BY StoreAssumption
    <3> QED BY <2>1, <3>1 DEF Saving, Draining, Nobody
  <2>3. /\ publishing' \in [n : 0..published, at : {"idle", "number", "lease"}]
        /\ publishing'.n = publishing.n
        /\ publishing' # Idle => publishing # Idle
        /\ publishing'.at = "idle" => publishing' = Idle
    <3>1. CASE writing.by = "publish"
      <4>1. publishing.at = "lease"
        BY <1>1, <3>1 DEF Phases, Draining
      <4>2. publishing'.at = "number" /\ publishing'.n = publishing.n
                /\ publishing' \in [n : 0..published, at : {"idle", "number", "lease"}]
        BY <2>1, <3>1 DEF Types
      <4> QED BY <4>1, <4>2 DEF Idle
    <3>2. CASE writing.by # "publish"
      BY <2>1, <3>2 DEF Types, Phases
    <3> QED BY <3>1, <3>2
  <2>4. Types'
    <3>1. acking' \in [Chat -> Ids(numbered) \cup {NoId}]
      BY <2>1 DEF Types
    <3>2. confirmed' \in [Chat -> SUBSET (Ids(numbered) \cup {NoId})]
      <4>1. \A c \in Chat : confirmed[c] \subseteq Ids(numbered) \cup {NoId} /\ acking[c] \in Ids(numbered) \cup {NoId}
        BY DEF Types
      <4> QED BY <2>1, <4>1
    <3> QED BY <1>1, <2>1, <2>3, <3>1, <3>2 DEF Types
  <2>5. Phases'
    <3>1. mem.epoch > 0
      BY <1>1 DEF Phases, Draining
    <3> QED BY <1>1, <2>1, <2>2, <2>3, <3>1 DEF Phases
  <2>6. Leases'
    BY <1>1, <2>2 DEF Leases
  <2>7. Order'
    <3>1. \A e \in numbered : e.from = "watch" => (publishing # Idle => e.n < publishing.n)
      BY DEF Order
    <3> QED BY <1>1, <2>2, <2>3, <3>1 DEF Order
  <2>8. Contents'
    <3>1. /\ \A c \in Chat : \A id \in InMemory'[c] : id \in InMemory[c] \/ id = NoId
          /\ \A c \in Chat : OnDisk'[c] \subseteq OnDisk[c]
      BY <1>1, <2>1, <2>2 DEF InMemory, OnDisk, InFlight
    <3>2. Sound(mem', numbered', InMemory')
      BY <1>1, <3>1, MemoryKept
    <3>3. file # NoFile => file \in Saved /\ Sound(file.content, numbered, OnDisk)
      BY DEF Contents
    <3>4. file # NoFile => Sound(file.content, numbered, OnDisk')
      BY <3>1, <3>3, SoundLess
    <3> QED BY <1>1, <2>2, <3>2, <3>3, <3>4 DEF Contents
  <2>9. Clean'
    BY <1>1, <2>2 DEF Clean
  <2> QED BY <2>4, <2>5, <2>6, <2>7, <2>8, <2>9
<1> QED BY <1>2, <1>3 DEF Drain, history

\* The oldest waiting event is numbered, or more numbers are leased first.
LEMMA DrainKeeps ==
    ASSUME IInv, Drain, backlog # {}
    PROVE  IInv'
<1> USE DEF IInv
<1> DEFINE head == Min(backlog)
           lease == mem.sequence >= reserved
           m == IF lease THEN Prune(mem) ELSE Appended(Prune(mem), head, 1, "watch")
           k == IF lease THEN 0 ELSE 1
<1>1. /\ UNCHANGED <<phase, reserved, backup, backlog, publishing, acking, file, published, aged, epochs,
                     confirmed, faults>>
      /\ Draining /\ mem' = m /\ dirty' = FALSE
      /\ writing' = [by |-> writing.by, step |-> "write", snap |-> Snapshot(m),
                     head |-> IF lease THEN 0 ELSE head]
      /\ Number(head, k, "watch")
    BY DEF Drain, Draining, callers
<1>2. /\ published \in Nat /\ head \in backlog /\ head \in 1..published /\ head \in Nat \ {0}
      /\ \A n \in backlog : n \in Nat /\ head <= n
  <2>1. published \in Nat /\ backlog \in SUBSET (1..published) /\ backlog \in SUBSET Nat
    BY StoreAssumption DEF Types
  <2>2. Min(backlog) \in backlog /\ \A n \in backlog : Min(backlog) <= n
    BY <2>1, LeastNumber
  <2>3. head \in backlog /\ \A n \in backlog : head <= n
    BY <2>2
  <2> HIDE DEF head
  <2> QED BY <2>1, <2>3
<1> HIDE DEF head
<1>3. /\ mem.sequence \in Nat /\ mem.epoch \in Nat /\ reserved \in Nat /\ mem.epoch > 0
      /\ publishing = Idle
    BY <1>1, MemoryFacts DEF Types, Phases, Draining
<1>4. k \in Nat /\ k <= 1 /\ k <= reserved - mem.sequence /\ head + k - 1 <= published
  <2>1. mem.sequence <= reserved
    BY DEF Leases
  <2> QED BY <1>2, <1>3, <2>1
<1>5. Batch(head, k, "watch")
  <2>1. CASE lease
    <3>1. mem' = Prune(mem) /\ Number(head, 0, "watch") /\ k = 0
      BY <1>1, <2>1
    <3>2. Events(mem, head, 0, "watch") = {}
      <4>1. \A i \in 1..0 : FALSE
        OBVIOUS
      <4> QED BY <4>1 DEF Events
    <3>3. numbered' = numbered
      BY <3>1, <3>2 DEF Number
    <3>4. Batch(head, 0, "watch")
      BY <1>3, <3>1, <3>2, <3>3, MemoryFacts DEF Batch
    <3> QED BY <3>1, <3>4
  <2>2. CASE ~lease
    <3>1. mem' = Appended(Prune(mem), head, 1, "watch") /\ Number(head, 1, "watch") /\ k = 1
      BY <1>1, <2>2
    <3>2. Batch(head, 1, "watch")
      BY <1>2, <3>1, MemoryFacts, BatchSteps
    <3> QED BY <3>1, <3>2
  <2> QED BY <2>1, <2>2
<1>6. lease => k = 0 /\ writing'.head = 0
    BY <1>1
<1>7. ~lease => k = 1 /\ writing'.head = head
    BY <1>1
<1>8. (IF lease THEN 0 ELSE head) \in Nat
    BY <1>2
<1>9. writing'.step = "write" /\ writing'.by = writing.by /\ writing'.snap = Snapshot(mem') /\ writing'.head \in Nat
    BY <1>1, <1>8
<1>10. /\ mem' \in Content /\ mem'.epoch = mem.epoch /\ mem'.sequence = mem.sequence + k
       /\ Sound(mem', numbered', InMemory) /\ UniqueIds(numbered')
       /\ numbered' = numbered \cup Events(mem, head, k, "watch") /\ numbered' \subseteq Event
       /\ \A e \in Events(mem, head, k, "watch") : e.n \in head..(head + k - 1)
    BY <1>5 DEF Batch, Sound, Rough
<1>11. /\ Snapshot(mem') \in Saved /\ Snapshot(mem').content = mem'
       /\ reserved <= Snapshot(mem').reserved /\ mem'.sequence <= Snapshot(mem').reserved
    BY <1>3, <1>10, SnapshotLease
<1>12. writing.by \in Caller /\ writing.by # "nobody"
    BY <1>1, StoreAssumption DEF Types, Draining, Save, Drained, Caller
<1>13. writing' \in Save
  <2> DEFINE h == IF lease THEN 0 ELSE head
  <2>1. writing' = [by |-> writing.by, step |-> "write", snap |-> Snapshot(mem'), head |-> h]
    BY <1>1
  <2>2. h \in Nat
    BY <1>8
  <2> HIDE DEF h
  <2> QED BY <1>11, <1>12, <2>1, <2>2 DEF Save
<1> HIDE DEF lease, k, m
<1>14. writing' # Nobody /\ Saving' /\ ~Draining'
    BY <1>9, <1>12 DEF Saving, Draining, Nobody
<1>15. Types'
  <2>1. confirmed \in [Chat -> SUBSET (Ids(numbered') \cup {NoId})]
            /\ acking \in [Chat -> Ids(numbered') \cup {NoId}]
    <3>1. Ids(numbered) \subseteq Ids(numbered')
      BY <1>10, IdsGrow
    <3> QED BY <3>1 DEF Types
  <2> QED BY <1>1, <1>10, <1>13, <2>1 DEF Types
<1>16. Phases'
    BY <1>1, <1>3, <1>9, <1>10, <1>14 DEF Phases, Draining
<1>17. Leases'
  <2>1. /\ mem'.sequence <= reserved' /\ mem'.epoch <= epochs'
        /\ \A e \in numbered' : e.id[1] \in 1..epochs' /\ e.id[2] > 0 /\ e.n <= published'
        /\ \A e \in numbered' : e.id[1] = mem'.epoch => e.id[2] <= mem'.sequence
        /\ file' # NoFile =>
             /\ file'.content.epoch \in 1..epochs' /\ file'.content.sequence <= file'.reserved
             /\ file'.content.epoch = mem'.epoch => reserved' <= file'.reserved
             /\ \A e \in numbered' : e.id[1] = file'.content.epoch => e.id[2] <= file'.reserved
    BY <1>1, <1>2, <1>3, <1>4, <1>5, BatchLeases
  <2> QED BY <1>1, <1>9, <1>11, <2>1 DEF Leases
<1>18. Order'
  <2>1. ASSUME NEW e \in numbered, e.from = "watch" PROVE \A n \in backlog : e.n < n
    BY <1>1, <2>1 DEF Order, Saving, Draining
  <2>2. Ordered(numbered')
    <3>1. CASE k = 1
      BY <1>2, <1>4, <1>5, <2>1, <3>1, BatchOrder
    <3>2. CASE k = 0
      <4>1. \A e \in Events(mem, head, k, "watch") : FALSE
        BY <1>2, <1>10, <3>2
      <4>2. numbered' = numbered
        BY <1>10, <4>1
      <4> QED BY <4>2 DEF Order
    <3> QED BY <1>4, <3>1, <3>2
  <2>3. ASSUME NEW e \in numbered', e.from = "watch", NEW n \in backlog
        PROVE  e.n < n \/ n = writing'.head
    <3>1. CASE e \in numbered
      BY <2>1, <2>3, <3>1
    <3>2. CASE e \notin numbered
      <4>1. e.n \in head..(head + k - 1)
        BY <1>10, <3>2
      <4>2. k = 1 /\ writing'.head = head /\ e.n = head
        BY <1>2, <1>4, <1>6, <1>7, <4>1
      <4> QED BY <1>2, <4>2
    <3> QED BY <3>1, <3>2
  <2> QED BY <1>1, <1>3, <1>10, <1>14, <2>2, <2>3 DEF Order
<1>19. Contents'
  <2>1. /\ InMemory' = InMemory
        /\ \A c \in Chat : InFlight'[c] \subseteq InMemory[c]
        /\ OnDisk' = confirmed /\ \A c \in Chat : confirmed[c] \subseteq OnDisk[c]
    BY <1>1, <1>9, <1>14 DEF InMemory, InFlight, OnDisk
  <2>2. Sound(mem', numbered', InFlight')
    BY <1>10, <2>1, SoundLess
  <2>3. file # NoFile => file \in Saved /\ Sound(file.content, numbered, OnDisk)
    BY DEF Contents
  <2>4. file # NoFile => Sound(file.content, numbered', confirmed)
    BY <1>10, <2>1, <2>3, SoundLess
  <2> QED BY <1>1, <1>9, <1>10, <1>11, <2>1, <2>2, <2>3, <2>4 DEF Contents
<1>20. Clean'
    BY <1>9, <1>11, <1>14 DEF Clean
<1> QED BY <1>15, <1>16, <1>17, <1>18, <1>19, <1>20

\* Whatever is loaded, no number of its epoch is given out yet above it.
LEMMA LoadKeeps ==
    ASSUME IInv, Load
    PROVE  IInv'
<1> USE DEF IInv
<1>1. PICK readable \in BOOLEAN :
        LET found == readable /\ file # NoFile /\ ValidSavedState(file)
            m == Prune(IF found THEN Restored(file) ELSE Anew)
        IN  /\ readable \/ faults < MaxFaults
            /\ faults' = IF readable THEN faults ELSE faults + 1
            /\ mem' = m
            /\ reserved' = IF found THEN file.reserved ELSE Reserve
            /\ epochs' = IF found THEN epochs ELSE epochs + 1
            /\ backup' = (file # NoFile /\ ~found)
            /\ dirty' = FALSE
            /\ writing' = [by |-> "open", step |-> "write", head |-> 0,
                           snap |-> [content |-> m, reserved |-> m.sequence + Reserve]]
    BY DEF Load
<1> DEFINE found == readable /\ file # NoFile /\ ValidSavedState(file)
           base == IF found THEN Restored(file) ELSE Anew
<1>2. /\ UNCHANGED <<backlog, publishing, acking, file, published, aged, numbered, confirmed>>
      /\ writing = Nobody
      /\ phase \in {"down", "unopened"} /\ phase' \in {"starting", "opening"}
    BY DEF Load, callers, history
<1>3. /\ publishing = Idle /\ acking = [c \in Chat |-> NoId]
    BY <1>2 DEF Phases
<1>4. /\ OnDisk = confirmed /\ epochs \in Nat /\ Reserve \in Nat /\ ~Saving
      /\ \A c \in Chat : c # "open" /\ c # "nobody"
    BY <1>2, StoreAssumption DEF OnDisk, Draining, Saving, Types
<1>5. /\ Sound(base, numbered, confirmed)
      /\ base.sequence \in Nat /\ base.epoch \in 1..epochs'
      /\ \A e \in numbered : e.id[1] = base.epoch => e.id[2] <= base.sequence
      /\ reserved' \in Nat /\ base.sequence <= reserved' /\ reserved' <= base.sequence + Reserve
      /\ epochs' \in Nat /\ epochs <= epochs'
      /\ file # NoFile /\ file.content.epoch = base.epoch => reserved' <= file.reserved
  <2>1. CASE found
    <3>1. /\ file \in Saved /\ Sound(file.content, numbered, confirmed)
          /\ file.content.sequence <= file.reserved /\ file.content.epoch \in 1..epochs
          /\ \A e \in numbered : e.id[1] = file.content.epoch => e.id[2] <= file.reserved
      BY <1>4, <2>1 DEF Contents, Leases
    <3>2. base = Restored(file) /\ reserved' = file.reserved /\ epochs' = epochs
      BY <1>1, <2>1
    <3>3. Sound(base, numbered, confirmed) /\ base.epoch = file.content.epoch /\ base.sequence = file.reserved
      BY <3>1, <3>2, RestoredSound
    <3>4. file.reserved \in Nat
      BY <3>1 DEF Saved
    <3> HIDE DEF base, found
    <3> QED BY <1>4, <3>1, <3>2, <3>3, <3>4
  <2>2. CASE ~found
    <3>1. base = [Blank EXCEPT !.epoch = epochs + 1] /\ reserved' = Reserve /\ epochs' = epochs + 1
      BY <1>1, <2>2 DEF Anew
    <3>2. Sound(base, numbered, confirmed) /\ base.epoch = epochs + 1 /\ base.sequence = 0
      <4>1. epochs + 1 \in Nat
        BY <1>4
      <4>2. \A epoch \in Nat : LET b == [Blank EXCEPT !.epoch = epoch]
                               IN  Sound(b, numbered, confirmed) /\ b.epoch = epoch /\ b.sequence = 0
        BY BlankSound
      <4> HIDE DEF base
      <4> QED BY <3>1, <4>1, <4>2
    <3>3. file # NoFile => file.content.epoch \in 1..epochs
      BY DEF Leases
    <3>4. \A e \in numbered : e.id[1] \in 1..epochs
      BY DEF Leases
    <3> HIDE DEF base, found
    <3> QED BY <1>4, <3>1, <3>2, <3>3, <3>4
  <2> QED BY <2>1, <2>2
<1>6. mem' = Prune(base) /\ dirty' = FALSE /\ backup' \in BOOLEAN /\ faults' \in 0..MaxFaults
  <2>1. mem' = Prune(base) /\ dirty' = FALSE /\ backup' = (file # NoFile /\ ~found)
    BY <1>1
  <2>2. faults' \in 0..MaxFaults
    BY <1>1, StoreAssumption DEF Types
  <2> HIDE DEF found, base
  <2>3. backup' \in BOOLEAN
    BY <2>1
  <2> QED BY <2>1, <2>2, <2>3
<1>7. writing' = [by |-> "open", step |-> "write", head |-> 0,
                  snap |-> [content |-> mem', reserved |-> mem'.sequence + Reserve]]
    BY <1>1
<1> HIDE DEF found, base
<1>8. /\ Sound(mem', numbered, confirmed) /\ mem' \in Content
      /\ mem'.epoch = base.epoch /\ mem'.sequence = base.sequence
  <2>1. numbered \in SUBSET Event /\ UniqueIds(numbered) /\ Rough(base, numbered, confirmed)
    BY <1>5, MemoryFacts DEF Sound
  <2>2. Sound(Prune(base), numbered, confirmed)
    BY <2>1, PruneSound
  <2>3. Prune(base).epoch = base.epoch /\ Prune(base).sequence = base.sequence
    <3>1. base \in Content
      BY <2>1 DEF Rough
    <3> QED BY <3>1 DEF Prune, Content
  <2> QED BY <1>6, <2>2, <2>3 DEF Sound, Rough
<1>9. /\ writing' \in Save /\ writing' # Nobody /\ writing'.by = "open" /\ Saving' /\ ~Draining'
      /\ writing'.snap.content = mem' /\ writing'.snap.reserved = mem'.sequence + Reserve
  <2>1. mem'.sequence + Reserve \in Nat /\ "open" \in Caller
    BY <1>4, <1>5, <1>8 DEF Caller
  <2> QED BY <1>7, <1>8, <2>1 DEF Save, Saved, Saving, Draining, Nobody
<1>10. Types'
    BY <1>2, <1>5, <1>6, <1>9 DEF Types
<1>11. Phases'
    BY <1>2, <1>3, <1>4, <1>5, <1>8, <1>9 DEF Phases
<1>12. Leases'
  <2>1. \A e \in numbered : e.id[1] \in 1..epochs' /\ e.id[2] > 0 /\ e.n <= published
    BY <1>4, <1>5 DEF Leases
  <2>2. file # NoFile =>
          /\ file.content.epoch \in 1..epochs' /\ file.content.sequence <= file.reserved
          /\ file.content.epoch = mem'.epoch => reserved' <= file.reserved
          /\ \A e \in numbered : e.id[1] = file.content.epoch => e.id[2] <= file.reserved
    BY <1>4, <1>5, <1>8 DEF Leases
  <2>3. /\ mem'.sequence <= reserved' /\ mem'.epoch <= epochs'
        /\ mem'.sequence <= mem'.sequence + Reserve /\ reserved' <= mem'.sequence + Reserve
    BY <1>4, <1>5, <1>8
  <2>4. \A e \in numbered : e.id[1] = mem'.epoch => e.id[2] <= mem'.sequence
    BY <1>5, <1>8
  <2> QED BY <1>2, <1>9, <2>1, <2>2, <2>3, <2>4 DEF Leases
<1>13. Order'
    BY <1>2, <1>4 DEF Order
<1>14. Contents'
  <2>1. /\ \A c \in Chat : \A id \in InMemory'[c] : id \in confirmed[c] \/ Holds(mem', c, id)
        /\ \A c \in Chat : InFlight'[c] = confirmed[c]
        /\ OnDisk' = confirmed
    BY <1>2, <1>3, <1>4, <1>8, <1>9, NoIdHeld DEF InMemory, InFlight, OnDisk
  <2>2. Sound(mem', numbered, InMemory') /\ Sound(mem', numbered, InFlight')
    BY <1>8, <2>1, SoundLess
  <2>3. file # NoFile => file \in Saved /\ Sound(file.content, numbered, confirmed)
    BY <1>4 DEF Contents
  <2> QED BY <1>2, <1>9, <2>1, <2>2, <2>3 DEF Contents
<1>15. Clean'
    BY <1>9 DEF Clean
<1> QED BY <1>10, <1>11, <1>12, <1>13, <1>14, <1>15

---------------------------------------------------------------------------
(* The invariant, and what follows from it                                 *)

LEMMA InitHolds ==
    ASSUME Init
    PROVE  IInv
<1>1. /\ phase = "down" /\ mem = Blank /\ reserved = Reserve /\ dirty = FALSE /\ backup = FALSE
      /\ backlog = {} /\ writing = Nobody /\ publishing = Idle /\ acking = [c \in Chat |-> NoId]
      /\ file = NoFile /\ published = 0 /\ aged = 0 /\ epochs = 0
      /\ numbered = {} /\ confirmed = [c \in Chat |-> {}] /\ faults = 0
    BY DEF Init
<1>2. /\ Sound(mem, numbered, InMemory) /\ mem.epoch = 0 /\ mem.sequence = 0
    BY <1>1, BlankSound
<1>3. ~Saving /\ ~Draining /\ \A c \in Chat : writing.by # c
  <2>1. \A c \in Chat : c # "nobody"
    BY StoreAssumption
  <2> QED BY <1>1, <2>1 DEF Saving, Draining, Nobody
<1>4. Types
  <2>1. IsFiniteSet({}) /\ Cardinality({}) = 0
    BY FS_EmptySet
  <2>2. publishing \in [n : 0..published, at : {"idle", "number", "lease"}]
    BY <1>1 DEF Idle
  <2>3. /\ backlog \subseteq 1..published /\ IsFiniteSet(backlog) /\ Cardinality(backlog) <= MaxRecent
        /\ reserved \in Nat /\ published \in 0..MaxPublished /\ aged \in 0..published
        /\ faults \in 0..MaxFaults /\ epochs \in Nat
    BY <1>1, <2>1, StoreAssumption
  <2>4. acking \in [Chat -> Ids(numbered) \cup {NoId}] /\ confirmed \in [Chat -> SUBSET (Ids(numbered) \cup {NoId})]
    BY <1>1
  <2> QED BY <1>1, <2>2, <2>3, <2>4 DEF Types
<1>5. Phases
  <2>1. writing = Nobody /\ publishing = Idle
    BY <1>1
  <2> QED BY <1>1, <1>3, <2>1 DEF Phases
<1>6. Leases
  <2>1. mem.sequence <= reserved /\ mem.epoch <= epochs
    BY <1>1, <1>2, StoreAssumption
  <2> QED BY <1>1, <1>3, <2>1 DEF Leases
<1>7. Order
    BY <1>1 DEF Order, UniqueIds, Ordered
<1>8. Contents
    BY <1>1, <1>2, <1>3 DEF Contents
<1>9. Clean
    BY <1>1, <1>3 DEF Clean
<1> QED BY <1>4, <1>5, <1>6, <1>7, <1>8, <1>9 DEF IInv

LEMMA NextKeeps ==
    ASSUME IInv, Next
    PROVE  IInv'
<1>1. CASE Load
    BY <1>1, LoadKeeps
<1>2. CASE OpenUnresolved
    BY <1>2, OpenUnresolvedKeeps
<1>3. CASE Beginning
    BY <1>3, BeginKeeps
<1>4. CASE SaveOk
    BY <1>4, SaveOkKeeps
<1>5. CASE SaveFails
    BY <1>5, SaveFailsKeeps
<1>6. CASE Drain
    BY <1>6, DrainKeeps, DrainedKeeps
<1>7. CASE Crash
    BY <1>7, CrashKeeps
<1>8. CASE Publish
    BY <1>8, PublishKeeps
<1>9. CASE PublishAt
    BY <1>9, PublishAtKeeps
<1>10. CASE Observed
    BY <1>10, ObservedKeeps
<1>11. CASE Listed \/ Read \/ Acked
    BY <1>11, ReadKeeps
<1>12. CASE Age
    BY <1>12, AgeKeeps
<1> QED BY <1>1, <1>2, <1>3, <1>4, <1>5, <1>6, <1>7, <1>8, <1>9, <1>10, <1>11, <1>12
        DEF Next, Beginning, Observed, Listed, Acked

LEMMA StutterKeeps ==
    ASSUME IInv, UNCHANGED vars
    PROVE  IInv'
<1>1. UNCHANGED <<phase, mem, reserved, dirty, backup, backlog, writing, publishing, acking, file,
                  published, aged, epochs, numbered, confirmed, faults>>
    BY DEF vars, memory, callers, history
<1>2. Types' /\ Phases' /\ Leases' /\ Order' /\ Clean'
    BY <1>1 DEF IInv, Types, Phases, Leases, Order, Clean, Saving, Draining
<1>3. InMemory' = InMemory
    BY <1>1 DEF InMemory
<1>4. Contents'
    BY <1>1, <1>3, SavedKept DEF IInv, Contents
<1> QED BY <1>2, <1>4 DEF IInv

LEMMA Invariance == Spec => []IInv
<1>1. Init => IInv
    BY InitHolds
<1>2. IInv /\ [Next]_vars => IInv'
    BY NextKeeps, StutterKeeps
<1> QED BY <1>1, <1>2, PTL DEF Spec

(***************************************************************************)
(* The store's variables have their types; in particular the backlog of    *)
(* deferLocked and what memory remembers keep to maxRecent, and no counter *)
(* passes what it counts, however many faults and whatever the limits.     *)
(***************************************************************************)
THEOREM TypeCorrect == Spec => []TypeOK
<1>1. IInv => TypeOK
  <2> SUFFICES ASSUME IInv PROVE TypeOK
    OBVIOUS
  <2>1. Types /\ mem \in Content /\ mem.epoch \in Nat /\ mem.sequence \in Nat
    BY MemoryFacts DEF IInv
  <2>2. /\ mem.recent \subseteq numbered /\ Cardinality(mem.recent) <= MaxRecent
    BY MemoryFacts DEF Sound, Rough, Tidy
  <2>3. mem.epoch \in 0..epochs
    BY <2>1 DEF IInv, Leases, Types
  <2>4. publishing.n \in 0..published /\ publishing.at \in {"idle", "number", "lease"}
    BY <2>1 DEF Types
  <2> QED BY <2>1, <2>2, <2>3, <2>4 DEF Types, TypeOK
<1> QED BY <1>1, Invariance, PTL

(***************************************************************************)
(* The file is always one that restore accepts, and a store with nothing   *)
(* left to save has on disk what it has in memory: no interleaving of      *)
(* saves, crashes and critical sections makes the store write a file it    *)
(* would call corrupt or forget what it did not save.                      *)
(***************************************************************************)
THEOREM SavedAlwaysSound == Spec => []SavedIsSound
<1>1. ASSUME IInv, file # NoFile PROVE ValidSavedState(file)
  <2> DEFINE m == file.content
  <2>1. /\ file \in Saved /\ Sound(m, numbered, OnDisk)
        /\ m.epoch \in 1..epochs /\ m.sequence <= file.reserved
        /\ UniqueIds(numbered) /\ epochs \in Nat /\ numbered \subseteq Event
    BY <1>1 DEF IInv, Contents, Leases, Order, Types
  <2>2. m \in Content /\ m.sequence \in Nat /\ file.reserved \in Nat /\ m.epoch > 0
    BY <2>1 DEF Saved, Content
  <2> HIDE DEF m
  <2>3. ASSUME NEW events, events \subseteq numbered, Numbers(m, events) PROVE ValidEvents(m, events)
    <3>1. \A e, f \in events \cup m.recent : e.id = f.id => e = f
      BY <2>1, <2>3 DEF Sound, Rough, UniqueIds
    <3> QED BY <2>3, <3>1 DEF ValidEvents, Numbers, Seq
  <2>4. ValidEvents(m, m.recent)
    BY <2>1, <2>3 DEF Sound, Rough
  <2>5. ASSUME NEW c \in Chat
        PROVE  /\ m.pending[c] # {} => m.recipients[c] # 0
               /\ ValidEvents(m, m.pending[c])
               /\ Ids(m.pending[c]) \cap m.closed[c] = {}
               /\ \A id \in m.closed[c] : id[1] = m.epoch /\ id[2] \in 1..m.sequence
    <3>1. ValidEvents(m, m.pending[c])
      BY <2>1, <2>3 DEF Sound, Rough
    <3>2. ASSUME NEW id \in m.closed[c] PROVE id[1] = m.epoch /\ id[2] \in 1..m.sequence
      <4>1. id \in Ids(m.recent)
        BY <2>1, <3>2 DEF Sound, Tidy
      <4>2. PICK e \in m.recent : e.id = id
        BY <4>1, IdsOf
      <4> QED BY <2>1, <4>2 DEF Sound, Rough, Numbers
    <3> QED BY <2>1, <3>1, <3>2 DEF Sound, Tidy
  <2>6. file.reserved >= m.sequence
    BY <2>1, <2>2
  <2> QED BY <2>2, <2>4, <2>5, <2>6 DEF ValidSavedState, m
<1>2. IInv => SavedIsSound
    BY <1>1 DEF IInv, Clean, SavedIsSound
<1> QED BY <1>2, Invariance, PTL

\* Numbers and confirmations are never taken back.
LEMMA HistoryGrows ==
    ASSUME IInv, [Next]_vars
    PROVE  numbered \subseteq numbered' /\ \A c \in Chat : confirmed[c] \subseteq confirmed'[c]
<1>1. CASE UNCHANGED <<numbered, confirmed>>
    BY <1>1
<1>2. CASE Observed
  <2>1. UNCHANGED confirmed /\ numbered \subseteq numbered'
    BY <1>2, ObservedSteps DEF Untouched, Batch
  <2> QED BY <2>1
<1>3. CASE PublishAt
  <2>1. UNCHANGED confirmed /\ numbered \subseteq numbered'
    BY <1>3, PublishAtSteps DEF Untouched, Batch
  <2> QED BY <2>1
<1>4. CASE SaveFails
  <2>1. UNCHANGED numbered
            /\ confirmed' = [c \in Chat |-> IF c = writing.by /\ FALSE THEN confirmed[c] \cup {acking[c]} ELSE confirmed[c]]
    BY <1>4 DEF SaveFails, Answer
  <2> QED BY <2>1
<1>5. CASE Drain
  <2>1. CASE UNCHANGED confirmed
    BY <1>5, <2>1 DEF Drain, Number, Answer, history
  <2>2. CASE Answer(writing.by, TRUE, backlog) /\ UNCHANGED numbered
    BY <2>2 DEF Answer
  <2> QED BY <1>5, <2>1, <2>2 DEF Drain, history
<1>6. CASE Load \/ OpenUnresolved \/ SaveOk \/ Crash \/ Publish \/ Age
    BY <1>1, <1>6 DEF Load, OpenUnresolved, SaveOk, Crash, Publish, Age, history
<1>7. CASE Beginning
    BY <1>1, <1>7, BeginningSteps DEF Begin, history
<1>8. CASE Listed \/ Read \/ Acked
    BY <1>1, <1>8, ReadSteps DEF Untouched
<1>9. CASE UNCHANGED vars
    BY <1>1, <1>9 DEF vars, history
<1> QED BY <1>2, <1>3, <1>4, <1>5, <1>6, <1>7, <1>8, <1>9 DEF Next, Beginning, Observed, Listed, Acked

(***************************************************************************)
(* The store implements the mailbox the bot relies on: a number is given   *)
(* to one event and in the order of publication, across crashes, leases    *)
(* and saves that were lost; and once Ack answered OK the chat is never    *)
(* offered that event again, not even by a list sent or a file read later. *)
(***************************************************************************)
THEOREM StoreImplementsMailbox == Spec => ImplementsMailbox
<1> DEFINE offers == IF phase = "open" THEN mem.pending ELSE [c \in Chat |-> {}]
<1>1. Init => Mail!Init
    BY DEF Init, Mail!Init
<1>2. ASSUME IInv, IInv', [Next]_vars PROVE [Mail!Step]_(Mail!mailboxVars)
  <2>1. numbered \subseteq numbered' /\ \A c \in Chat : confirmed[c] \subseteq confirmed'[c]
    BY <1>2, HistoryGrows
  <2>2. Mail!FreshNumbers
    BY <1>2 DEF IInv, Order, UniqueIds, Mail!FreshNumbers
  <2>3. Mail!InOrder
    BY <1>2 DEF IInv, Order, Ordered, Mail!InOrder
  <2>4. ASSUME NEW c \in Chat
        PROVE  /\ offers'[c] \subseteq {e \in numbered' : e.id \notin confirmed'[c]}
               /\ Cardinality(offers'[c]) <= MaxPerChat
    <3>1. CASE phase' = "open"
      <4>1. Sound(mem', numbered', InMemory')
        BY <1>2 DEF IInv, Contents
      <4>2. mem'.pending[c] \subseteq numbered' /\ Cardinality(mem'.pending[c]) <= MaxPerChat
        BY <4>1 DEF Sound, Rough, Tidy
      <4>3. \A id \in confirmed'[c] : \A e \in mem'.pending[c] : e.id # id
        BY <4>1 DEF Sound, Rough, Holds, InMemory
      <4> QED BY <3>1, <4>2, <4>3
    <3>2. CASE phase' # "open"
      <4>1. offers'[c] = {} /\ Cardinality({}) = 0
        BY <3>2, FS_EmptySet
      <4> QED BY <4>1, StoreAssumption
    <3> QED BY <3>1, <3>2
  <2>5. Mail!OffersAreOpen
    <3> HIDE DEF offers
    <3>1. \A c \in Chat : /\ offers'[c] \subseteq {e \in numbered' : e.id \notin confirmed'[c]}
                          /\ Cardinality(offers'[c]) <= MaxPerChat
      BY <2>4
    <3>2. \A S : Mail!Cardinality(S) = Cardinality(S)
      BY DEF Mail!Cardinality, Cardinality
    <3> QED BY <3>1, <3>2 DEF Mail!OffersAreOpen, offers
  <2> QED BY <2>1, <2>2, <2>3, <2>5 DEF Mail!Step
<1> QED BY <1>1, <1>2, Invariance, PTL DEF Spec, ImplementsMailbox, Mail!Spec

=============================================================================

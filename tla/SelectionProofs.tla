-------------------------- MODULE SelectionProofs --------------------------
(***************************************************************************)
(* What Selection keeps for any subscriptions, panels, servers and bounds: *)
(* its types, that config.json is the server on record, that the records   *)
(* keep the user's choice, that a selection no tick has read is not taken  *)
(* back, and that a slow refresh takes no newer list back.                 *)
(***************************************************************************)
EXTENDS Selection, TLAPS

---------------------------------------------------------------------------
(* Types                                                                   *)

Memory == [fails : 0..DeadTicks, onReturn : BOOLEAN, settled : BOOLEAN, held : BOOLEAN,
           returnFails : 0..ReturnFailsMax, returning : BOOLEAN, picked : Entry \cup {None}]

Picked == [op : {"picked", "generated"}, entry : Entry]
Fetched == [op : {"downloaded"}, sub : Sub, add : BOOLEAN, since : Nat, list : List, ver : Nat]

Looked == [at : {"reading", "failed"}, sub : Sub, since : Nat]
Loaded == [at : {"downloaded"}, sub : Sub, since : Nat, list : List, ver : Nat]
Undoing == [at : {"restoring"}, sub : Sub, before : File, stamp : Nat]

Probing == [at : {"probing", "missed"}, active : Entry, preferred : Entry \cup {None},
            same : SUBSET Counter]
Busy == {"writing", "recording", "trying", "restarted", "live", "dead"}
Switching == [at : Busy, job : {"return", "group", "back", "follow", "replace", "fast"},
              died : Entry, expect : Sub \X Name \X {AddressOf[k] : k \in Conn},
              todo : SUBSET Entry, then : SUBSET Entry, cur : Entry \cup {None},
              wrote : BOOLEAN, guarded : BOOLEAN]

RecordTypes ==
    /\ active \in Entry /\ preferred \in Entry \cup {None} /\ wanted \in Entry
    /\ conf \in Conn /\ xray \in Conn /\ up \subseteq Conn
    /\ lock \in {"free", "user", "watch"}
    /\ unsaved \in BOOLEAN /\ unread \in BOOLEAN
    /\ wan \in BOOLEAN /\ allowed \in BOOLEAN

FileTypes ==
    /\ files \in [Sub -> File \cup {Unused, Gone}]
    /\ panel \in [Link -> [list : List, ver : Nat]]
    /\ clock \in Nat

UserTypes ==
    /\ u.op \in {"idle", "picked", "generated", "restarting", "downloaded"}
    /\ u.op \in {"picked", "generated"} => u \in Picked
    /\ u.op = "downloaded" => u \in Fetched

RoundTypes ==
    /\ r.at \in {"resting", "reading", "failed", "downloaded", "restoring"}
    /\ r.at \in {"reading", "failed"} => r \in Looked
    /\ r.at = "downloaded" => r \in Loaded
    /\ r.at = "restoring" => r \in Undoing

WatchTypes ==
    /\ same \subseteq Counter
    /\ mem \in Memory
    /\ w.at \in {"idle", "probing", "missed"} \cup Busy
    /\ w.at \in {"probing", "missed"} => w \in Probing
    /\ w.at \in Busy => w \in Switching
    /\ w.at \in Busy \ {"writing"} => w.cur \in Entry

Types == RecordTypes /\ FileTypes /\ UserTypes /\ RoundTypes /\ WatchTypes

\* The config lock is held from config.json to the record of it, and the holder
\* has written what it is about to record.
Locking ==
    /\ lock = "user" <=> u.op = "generated"
    /\ lock = "watch" <=> w.at = "recording"
    /\ lock = "user" => conf = u.entry.conn
    /\ lock = "watch" => conf = w.cur.conn
    /\ ConfIsRecorded

\* The records tell exactly the server the user chose.
Wanting == wanted = Choice(active, preferred)

\* No action of the watch goes by a selection no tick has read.
Reading ==
    /\ unread => "action" \notin same
    /\ lock = "watch" => ~unread

\* No list is newer than its panel and no stamp than the clock; a file a round
\* read and nobody wrote since is no newer than what the round downloaded.
FileVersions ==
    \A s \in Sub : files[s].there => files[s].ver <= panel[LinkOf[s]].ver /\ files[s].stamp <= clock
UserVersions == u.op = "downloaded" => u.ver <= panel[LinkOf[u.sub]].ver
RoundVersions ==
    /\ r.at \in {"reading", "failed", "downloaded"} => r.since <= clock
    /\ r.at = "downloaded" =>
          /\ r.ver <= panel[LinkOf[r.sub]].ver
          /\ files[r.sub].there /\ files[r.sub].stamp = r.since => files[r.sub].ver <= r.ver
    /\ r.at = "restoring" => r.before.ver <= panel[LinkOf[r.sub]].ver /\ r.before.stamp <= clock
Versions == FileVersions /\ UserVersions /\ RoundVersions

\* A list is a function from some connections to names.
LEMMA ListElim ==
    ASSUME NEW l \in List
    PROVE  l \in [DOMAIN l -> Name] /\ DOMAIN l \in SUBSET Conn
BY DEF List

LEMMA ListIntro ==
    ASSUME NEW D \in SUBSET Conn, NEW l \in [D -> Name]
    PROVE  l \in List
BY DEF List

LEMMA ThereAreFiles ==
    ASSUME FileTypes, NEW s \in There
    PROVE  s \in Sub /\ files[s] \in File
<1>1. s \in Sub /\ files[s].there /\ files[s] \in File \cup {Unused, Gone}
    BY DEF There, FileTypes
<1>2. ~Unused.there /\ ~Gone.there
    BY DEF Unused, Gone
<1> QED BY <1>1, <1>2

\* The servers of the files are entries, and so are the ones a switch picks.
LEMMA ServersAreEntries ==
    ASSUME FileTypes
    PROVE  AllServers \subseteq Entry
<1> SUFFICES ASSUME NEW s \in There, NEW k \in DOMAIN files[s].list
             PROVE  EntryOf(s, k) \in Entry
    BY DEF AllServers
<1>1. s \in Sub /\ files[s] \in File
    BY ThereAreFiles
<1>2. files[s].list \in List
    BY <1>1 DEF File
<1> QED BY <1>1, <1>2, ListElim DEF EntryOf, Entry

LEMMA ChosenAreServers ==
    ASSUME NEW a
    PROVE  Chosen(a) \subseteq AllServers /\ MovedTo(a) \subseteq AllServers
BY DEF Chosen, MovedTo

LEMMA RollbackAreEntries ==
    ASSUME FileTypes, WatchTypes, NEW a
    PROVE  rollbackOrder(a) \subseteq Entry
BY ChosenAreServers, ServersAreEntries DEF rollbackOrder, WatchTypes, Memory

\* A record that follows a rename is of the same subscription and connection.
LEMMA FollowedFacts ==
    ASSUME NEW a \in Entry \cup {None}, NEW s, NEW stored, NEW fresh \in List
    PROVE  LET b == Followed(a, s, stored, fresh)
           IN  /\ a \in Entry => b \in Entry /\ b.conn = a.conn /\ b.sub = a.sub
               /\ a = None => b = None
BY ListElim DEF Followed, Entry

\* What the watch remembers keeps its type through the rules that change it.
LEMMA MemoryRules ==
    ASSUME NEW m \in Memory, NEW soon \in BOOLEAN, NEW p
    PROVE  /\ resetFail(m) \in Memory /\ resetKeeper(m) \in Memory
           /\ HeldReturn(m, soon) \in Memory
           /\ landedOnChoice(m, p) \in Memory
           /\ returnAfterDeath(m, soon) \in Memory
<1>0. DeadTicks \in Nat /\ ReturnFailsMax \in Nat /\ 0 \in 0..DeadTicks /\ 0 \in 0..ReturnFailsMax
    BY SelectionAssumption
<1>1. resetFail(m) \in Memory
    BY <1>0 DEF resetFail, Memory
<1>2. resetKeeper(m) \in Memory
    BY DEF resetKeeper, Memory
<1>3. HeldReturn(m, soon) \in Memory
    BY <1>0 DEF HeldReturn, Memory
<1>4. landedOnChoice(m, p) \in Memory
    BY DEF landedOnChoice, Memory
<1>5. returnAfterDeath(m, soon) \in Memory
  <2>1. m.returnFails \in 0..ReturnFailsMax
    BY DEF Memory
  <2>2. (IF m.returnFails < ReturnFailsMax THEN m.returnFails + 1 ELSE m.returnFails) \in 0..ReturnFailsMax
    BY <2>1, <1>0
  <2> QED BY <2>2, <1>0 DEF returnAfterDeath, Memory
<1> QED BY <1>1, <1>2, <1>3, <1>4, <1>5

\* A tick that ends leaves the watch asleep with counters it knows.
LEMMA EndTickTypes ==
    ASSUME same \subseteq Counter, NEW m \in Memory, NEW c, EndTick(m, c)
    PROVE  WatchTypes' /\ w'.at = "idle"
BY DEF EndTick, WatchTypes, Kept, Counter, Asleep, Busy

LEMMA RefusedTypes ==
    ASSUME WatchTypes, Refused \/ Interrupted
    PROVE  WatchTypes' /\ w'.at = "idle"
<1>1. mem \in Memory /\ resetFail(mem) \in Memory /\ same \subseteq Counter
    BY MemoryRules DEF WatchTypes
<1> QED BY <1>1, EndTickTypes DEF Refused, Interrupted

\* An action of the watch starts from an entry on record.
LEMMA BeginTypes ==
    ASSUME NEW job \in {"return", "group", "back", "follow", "replace", "fast"},
           NEW todo \in SUBSET Entry, NEW then \in SUBSET Entry, NEW guarded \in BOOLEAN,
           w.active \in Entry, mem' \in Memory, same' \subseteq Counter,
           Begin(job, todo, then, guarded)
    PROVE  WatchTypes' /\ w'.at = "writing"
<1>1. ServerID(w.active) \in Sub \X Name \X {AddressOf[k] : k \in Conn}
    BY DEF ServerID, Entry
<1>2. w' \in Switching /\ w'.at = "writing"
    BY <1>1 DEF Begin, Switching, Busy
<1> QED BY <1>2 DEF WatchTypes, Busy

\* A step that only moves the watch keeps the types of all the rest.
LEMMA UnwrittenTypes ==
    ASSUME Types, UNCHANGED <<config, conf, xray, lock, files, world, r, u, unsaved, wanted, unread, clock>>
    PROVE  RecordTypes' /\ FileTypes' /\ UserTypes' /\ RoundTypes'
<1>1. RecordTypes'
    BY DEF Types, RecordTypes, config, world
<1>2. FileTypes'
    BY DEF Types, FileTypes, world
<1>3. UserTypes' /\ RoundTypes'
    BY DEF Types, UserTypes, RoundTypes
<1> QED BY <1>1, <1>2, <1>3

\* The same of the other parties: a step that leaves the watch alone.
LEMMA WatchAlone ==
    ASSUME WatchTypes, UNCHANGED <<same, mem, w>>
    PROVE  WatchTypes'
BY DEF WatchTypes

LEMMA RoundAlone ==
    ASSUME RoundTypes, UNCHANGED r
    PROVE  RoundTypes'
BY DEF RoundTypes

LEMMA UserAlone ==
    ASSUME UserTypes, UNCHANGED u
    PROVE  UserTypes'
BY DEF UserTypes

LEMMA FilesAlone ==
    ASSUME FileTypes, UNCHANGED <<files, panel, clock>>
    PROVE  FileTypes'
BY DEF FileTypes

\* Lists stay lists through a merge, an import and a change of the panel's.
LEMMA MergedLists ==
    ASSUME NEW stored \in List, NEW listed \in List, NEW unresolved
    PROVE  MergeRefresh(stored, listed, unresolved) \in List /\ Imported(listed, unresolved) \in List
<1>1. listed \in [DOMAIN listed -> Name] /\ DOMAIN listed \in SUBSET Conn
    BY ListElim
<1>2. MergeRefresh(stored, listed, unresolved) \in List
  <2> DEFINE D == {k \in DOMAIN listed : k \in DOMAIN stored \/ k \notin unresolved}
  <2>1. D \in SUBSET Conn /\ MergeRefresh(stored, listed, unresolved) \in [D -> Name]
    BY <1>1 DEF MergeRefresh
  <2> QED BY <2>1, ListIntro
<1>3. Imported(listed, unresolved) \in List
  <2>1. /\ DOMAIN listed \ unresolved \in SUBSET Conn
        /\ Imported(listed, unresolved) \in [DOMAIN listed \ unresolved -> Name]
    BY <1>1 DEF Imported
  <2> QED BY <2>1, ListIntro
<1> QED BY <1>2, <1>3

\* A file written with a list of the panel's is a file.
LEMMA WrittenFile ==
    ASSUME clock' \in Nat, NEW l \in List, NEW v \in Nat
    PROVE  Written(l, v) \in File
BY DEF Written, File

\* The records keep their types when they follow a rename.
LEMMA FollowTypes ==
    ASSUME RecordTypes, NEW s, NEW stored, NEW fresh \in List, followRenames(s, stored, fresh),
           UNCHANGED <<conf, xray, up, lock, unsaved, unread, wan, allowed>>
    PROVE  RecordTypes'
BY FollowedFacts DEF RecordTypes, followRenames

\* Every step of the user keeps the types.
LEMMA UserTyped ==
    ASSUME Types, User
    PROVE  Types'
<1> USE DEF Types
<1>1. CASE UserPicks
  <2>1. RecordTypes' /\ FileTypes' /\ RoundTypes' /\ WatchTypes'
    BY <1>1, WatchAlone, RoundAlone, FilesAlone DEF UserPicks, RecordTypes, config, world
  <2>2. PICK e \in Entry : u' = [op |-> "picked", entry |-> e]
    BY <1>1, ServersAreEntries DEF UserPicks
  <2>3. UserTypes'
    BY <2>2 DEF UserTypes, Picked
  <2> QED BY <2>1, <2>3
<1>2. CASE UserGenerates
  <2>1. FileTypes' /\ RoundTypes' /\ WatchTypes'
    BY <1>2, WatchAlone, RoundAlone, FilesAlone DEF UserGenerates, world
  <2>2. u \in Picked
    BY <1>2 DEF UserGenerates, UserTypes
  <2>3. RecordTypes'
    BY <1>2, <2>2 DEF UserGenerates, RecordTypes, config, world, Hold, Picked, Entry
  <2>4. UserTypes'
    BY <1>2, <2>2 DEF UserGenerates, UserTypes, Picked, Idle
  <2> QED BY <2>1, <2>3, <2>4
<1>3. CASE UserRecords
  <2>1. FileTypes' /\ RoundTypes'
    BY <1>3, RoundAlone, FilesAlone DEF UserRecords, world
  <2>2. u.entry \in Entry
    BY <1>3 DEF UserRecords, UserTypes, Picked
  <2>3. RecordTypes'
    BY <1>3, <2>2 DEF UserRecords, RecordTypes, config, world
  <2>4. UserTypes'
    BY <1>3 DEF UserRecords, UserTypes
  <2>5. WatchTypes'
    BY <1>3 DEF UserRecords, WatchTypes
  <2> QED BY <2>1, <2>3, <2>4, <2>5
<1>4. CASE UserRestarts
  <2>1. FileTypes' /\ RoundTypes' /\ WatchTypes'
    BY <1>4, WatchAlone, RoundAlone, FilesAlone DEF UserRestarts, world
  <2>2. RecordTypes'
    BY <1>4 DEF UserRestarts, RecordTypes, config, world
  <2>3. UserTypes'
    BY <1>4 DEF UserRestarts, UserTypes, Idle
  <2> QED BY <2>1, <2>2, <2>3
<1>5. CASE UserDownloads
  <2>1. RecordTypes' /\ FileTypes' /\ RoundTypes' /\ WatchTypes'
    BY <1>5, WatchAlone, RoundAlone, FilesAlone DEF UserDownloads, RecordTypes, config, world
  <2>2. PICK s \in Sub, add \in BOOLEAN :
            u' = [op |-> "downloaded", sub |-> s, add |-> add,
                  since |-> IF s \in There THEN files[s].stamp ELSE 0,
                  list |-> Downloaded(s).list, ver |-> Downloaded(s).ver]
    BY <1>5 DEF UserDownloads
  <2>3. (IF s \in There THEN files[s].stamp ELSE 0) \in Nat
    BY ThereAreFiles DEF File
  <2>4. Downloaded(s).list \in List /\ Downloaded(s).ver \in Nat
    BY SelectionAssumption DEF Downloaded, FileTypes
  <2>5. UserTypes'
    BY <2>2, <2>3, <2>4 DEF UserTypes, Fetched
  <2> QED BY <2>1, <2>5
<1>6. CASE UserPublishes
  <2>1. RoundTypes' /\ WatchTypes' /\ UserTypes'
    BY <1>6, WatchAlone, RoundAlone DEF UserPublishes, UserTypes, Idle
  <2>2. u \in Fetched
    BY <1>6 DEF UserPublishes, UserTypes
  <2>3. CASE UNCHANGED <<config, files, wanted, clock>>
    BY <1>6, <2>1, <2>3, FilesAlone DEF UserPublishes, RecordTypes, config, world
  <2>4. CASE \E s \in Targets, unresolved \in SUBSET DOMAIN u.list :
               /\ DOMAIN Imported(u.list, unresolved) = {}
               /\ files' = IF ~u.add /\ files[s].stamp = u.since
                           THEN [files EXCEPT ![s].err = TRUE] ELSE files
               /\ UNCHANGED <<config, wanted, clock>>
    <3>1. PICK s \in Targets :
               files' = IF ~u.add /\ files[s].stamp = u.since
                        THEN [files EXCEPT ![s].err = TRUE] ELSE files
      BY <2>4
    <3>2. ~u.add => s \in There
      BY <3>1 DEF Targets
    <3>3. ~u.add => files[s] \in File
      BY <3>2, ThereAreFiles
    <3>4. files' \in [Sub -> File \cup {Unused, Gone}]
      BY <3>1, <3>3 DEF FileTypes, File
    <3> QED BY <1>6, <2>1, <2>4, <3>4 DEF UserPublishes, FileTypes, RecordTypes, config, world
  <2>5. CASE \E s \in Targets, unresolved \in SUBSET DOMAIN u.list :
               LET fresh == Imported(u.list, unresolved) IN
               /\ clock' = clock + 1
               /\ files' = [files EXCEPT ![s] = Written(fresh, u.ver)]
               /\ \/ followRenames(s, IF files[s].there THEN files[s].list ELSE <<>>, fresh)
                  \/ UNCHANGED <<config, wanted>>
    <3>1. PICK s \in Targets, unresolved \in SUBSET DOMAIN u.list :
               LET fresh == Imported(u.list, unresolved) IN
               /\ clock' = clock + 1
               /\ files' = [files EXCEPT ![s] = Written(fresh, u.ver)]
               /\ \/ followRenames(s, IF files[s].there THEN files[s].list ELSE <<>>, fresh)
                  \/ UNCHANGED <<config, wanted>>
      BY <2>5
    <3> DEFINE fresh == Imported(u.list, unresolved)
    <3>2. fresh \in List /\ u.ver \in Nat
      BY <2>2, MergedLists DEF Fetched
    <3>3. Written(fresh, u.ver) \in File /\ clock' \in Nat
      BY <3>1, <3>2, WrittenFile DEF FileTypes
    <3>4. FileTypes'
      BY <1>6, <3>1, <3>3 DEF FileTypes, UserPublishes, world
    <3>5. UNCHANGED <<conf, xray, up, lock, unsaved, unread, wan, allowed>>
      BY <1>6 DEF UserPublishes, world
    <3>6. RecordTypes'
      BY <3>1, <3>2, <3>5, FollowTypes DEF RecordTypes, config
    <3> QED BY <2>1, <3>4, <3>6
  <2> QED BY <1>6, <2>3, <2>4, <2>5 DEF UserPublishes
<1>7. CASE UserDeletes
  <2>1. RoundTypes' /\ WatchTypes' /\ UserTypes'
    BY <1>7, WatchAlone, RoundAlone, UserAlone DEF UserDeletes
  <2>2. FileTypes'
    BY <1>7 DEF UserDeletes, FileTypes, world
  <2>3. RecordTypes'
    BY <1>7 DEF UserDeletes, RecordTypes, world, Choice
  <2> QED BY <2>1, <2>2, <2>3
<1> QED BY <1>1, <1>2, <1>3, <1>4, <1>5, <1>6, <1>7 DEF User

\* Every step of the periodic refresh keeps the types.
LEMMA RoundTyped ==
    ASSUME Types, Round
    PROVE  Types'
<1> USE DEF Types
<1>1. CASE RoundReads
  <2>1. RecordTypes' /\ FileTypes' /\ UserTypes' /\ WatchTypes'
    BY <1>1, WatchAlone, UserAlone, FilesAlone DEF RoundReads, RecordTypes, config, world
  <2>2. PICK s \in There : r' = [at |-> "reading", sub |-> s, since |-> files[s].stamp]
    BY <1>1 DEF RoundReads
  <2>3. s \in Sub /\ files[s].stamp \in Nat
    BY <2>2, ThereAreFiles DEF File
  <2>4. RoundTypes'
    BY <2>2, <2>3 DEF RoundTypes, Looked
  <2> QED BY <2>1, <2>4
<1>2. CASE RoundDownloads
  <2>1. RecordTypes' /\ FileTypes' /\ UserTypes' /\ WatchTypes'
    BY <1>2, WatchAlone, UserAlone, FilesAlone DEF RoundDownloads, RecordTypes, config, world
  <2>2. r.sub \in Sub /\ r.since \in Nat
    BY <1>2 DEF RoundDownloads, RoundTypes, Looked
  <2>3. Downloaded(r.sub).list \in List /\ Downloaded(r.sub).ver \in Nat
    BY <2>2, SelectionAssumption DEF Downloaded, FileTypes
  <2>4. \/ r' = Resting
        \/ r' = [at |-> "failed", sub |-> r.sub, since |-> r.since]
        \/ r' = [at |-> "downloaded", sub |-> r.sub, since |-> r.since,
                 list |-> Downloaded(r.sub).list, ver |-> Downloaded(r.sub).ver]
    BY <1>2 DEF RoundDownloads
  <2>5. RoundTypes'
    BY <2>2, <2>3, <2>4 DEF RoundTypes, Resting, Looked, Loaded
  <2> QED BY <2>1, <2>5
<1>3. CASE RoundRecordsError
  <2>1. RecordTypes' /\ UserTypes' /\ WatchTypes'
    BY <1>3, WatchAlone, UserAlone DEF RoundRecordsError, RecordTypes, config, world
  <2>2. RoundTypes'
    BY <1>3 DEF RoundRecordsError, RoundTypes, Resting
  <2>3. Unmoved(files[r.sub]) /\ r.sub \in Sub => files[r.sub] \in File
    BY ThereAreFiles DEF Unmoved, There
  <2>4. r.sub \in Sub
    BY <1>3 DEF RoundRecordsError, RoundTypes, Looked
  <2>5. files' \in [Sub -> File \cup {Unused, Gone}]
    BY <1>3, <2>3, <2>4 DEF RoundRecordsError, FileTypes, File
  <2>6. FileTypes'
    BY <1>3, <2>5 DEF RoundRecordsError, FileTypes, world
  <2> QED BY <2>1, <2>2, <2>6
<1>4. CASE RoundPublishes
  <2>1. UserTypes'
    BY <1>4, UserAlone DEF RoundPublishes
  <2>2. r \in Loaded
    BY <1>4 DEF RoundPublishes, RoundTypes
  <2>3. r.sub \in Sub /\ r.list \in List /\ r.ver \in Nat
    BY <2>2 DEF Loaded
  <2> DEFINE f == files[r.sub]
  <2>4. UNCHANGED <<conf, xray, up, lock, unsaved, unread, wan, allowed, panel, same, w>>
    BY <1>4 DEF RoundPublishes, world
  <2>5. CASE r' = Resting /\ UNCHANGED <<config, files, mem, wanted, clock>>
    BY <2>1, <2>4, <2>5, WatchAlone, FilesAlone DEF RoundTypes, Resting, RecordTypes, config
  <2>6. ASSUME Unmoved(f), NEW unresolved \in SUBSET DOMAIN r.list,
               files' = [files EXCEPT ![r.sub] =
                           IF DOMAIN MergeRefresh(f.list, r.list, unresolved) = {}
                           THEN [f EXCEPT !.err = TRUE] ELSE [f EXCEPT !.ver = r.ver]],
               r' = Resting, UNCHANGED <<config, mem, wanted, clock>>
        PROVE  Types'
    <3>1. f \in File
      BY <2>3, <2>6, ThereAreFiles DEF Unmoved, There
    <3>2. FileTypes'
      BY <2>3, <2>4, <2>6, <3>1 DEF FileTypes, File
    <3> QED BY <2>1, <2>4, <2>6, <3>2, WatchAlone DEF RoundTypes, Resting, RecordTypes, config
  <2>7. ASSUME Unmoved(f), NEW unresolved \in SUBSET DOMAIN r.list,
               clock' = clock + 1,
               files' = [files EXCEPT ![r.sub] =
                           Written(MergeRefresh(f.list, r.list, unresolved), r.ver)],
               \/ /\ followRenames(r.sub, f.list, MergeRefresh(f.list, r.list, unresolved))
                  /\ followActiveRename
                  /\ r' = Resting
               \/ /\ r' = [at |-> "restoring", sub |-> r.sub, before |-> f, stamp |-> clock']
                  /\ UNCHANGED <<config, mem, wanted>>
        PROVE  Types'
    <3> DEFINE merged == MergeRefresh(f.list, r.list, unresolved)
    <3>1. f \in File
      BY <2>3, <2>7, ThereAreFiles DEF Unmoved, There
    <3>2. merged \in List
      BY <2>3, <3>1, MergedLists DEF File
    <3>3. Written(merged, r.ver) \in File /\ clock' \in Nat
      BY <2>3, <2>7, <3>2, WrittenFile DEF FileTypes
    <3>4. FileTypes'
      BY <2>3, <2>4, <2>7, <3>3 DEF FileTypes
    <3>5. RecordTypes'
      BY <2>4, <2>7, <3>2, FollowTypes DEF RecordTypes, config
    <3>6. RoundTypes'
      BY <2>3, <2>7, <3>1, <3>3 DEF RoundTypes, Resting, Undoing
    <3>7. mem' \in Memory
      <4>1. CASE followActiveRename
        <5>1. active'.name \in Name
          BY <3>5 DEF RecordTypes, Entry
        <5>2. mem.picked # None => [mem.picked EXCEPT !.name = active'.name] \in Entry
          BY <5>1 DEF WatchTypes, Memory, Entry
        <5> QED BY <4>1, <5>2 DEF followActiveRename, WatchTypes, Memory
      <4> QED BY <2>7, <4>1 DEF WatchTypes
    <3>8. WatchTypes'
      BY <2>4, <3>7 DEF WatchTypes
    <3> QED BY <2>1, <3>4, <3>5, <3>6, <3>8
  <2> QED BY <1>4, <2>5, <2>6, <2>7 DEF RoundPublishes
<1>5. CASE RoundRestores
  <2>1. RecordTypes' /\ UserTypes' /\ WatchTypes'
    BY <1>5, WatchAlone, UserAlone DEF RoundRestores, RecordTypes, config, world
  <2>2. RoundTypes'
    BY <1>5 DEF RoundRestores, RoundTypes, Resting
  <2>3. r.sub \in Sub /\ r.before \in File
    BY <1>5 DEF RoundRestores, RoundTypes, Undoing
  <2>4. FileTypes'
    BY <1>5, <2>3 DEF RoundRestores, FileTypes, world
  <2> QED BY <2>1, <2>2, <2>4
<1> QED BY <1>1, <1>2, <1>3, <1>4, <1>5 DEF Round

\* Every step of the watch up to its decision keeps the types.
LEMMA TickTyped ==
    ASSUME Types, Tick \/ ProbePasses \/ ProbeFails \/ Decide
    PROVE  Types'
<1> USE DEF Types
<1>0. DeadTicks \in Nat /\ mem \in Memory /\ same \subseteq Counter
    BY SelectionAssumption DEF WatchTypes
<1>1. CASE Tick
  <2>1. FileTypes' /\ UserTypes' /\ RoundTypes'
    BY <1>1, FilesAlone, UserAlone, RoundAlone DEF Tick, world
  <2>2. RecordTypes'
    BY <1>1, <1>0 DEF Tick, RecordTypes, config, world
  <2>3. CASE Interrupted
    BY <2>1, <2>2, <2>3, RefusedTypes
  <2> DEFINE anew == same \cap {"own", "selected"} = {}
             m == IF anew THEN [mem EXCEPT !.returnFails = 0, !.returning = FALSE] ELSE mem
             known == same \cup (IF anew THEN {"selected"} ELSE {})
  <2>4. m \in Memory /\ known \subseteq Counter
    <3>1. 0 \in 0..ReturnFailsMax
      BY SelectionAssumption
    <3>2. m \in Memory
      BY <1>0, <3>1 DEF Memory
    <3> QED BY <1>0, <3>2 DEF Counter
  <2>5. CASE /\ mem' = m /\ same' = known \cup {"action"}
             /\ w' = [at |-> "probing", active |-> active, preferred |-> preferred, same |-> same]
    <3>1. w' \in Probing /\ w'.at = "probing"
      BY <1>0, <2>5 DEF Probing, RecordTypes
    <3>2. WatchTypes'
      BY <2>4, <2>5, <3>1 DEF WatchTypes, Counter, Busy
    <3> QED BY <2>1, <2>2, <3>2
  <2>6. CASE mem' = resetFail(m) /\ same' = Kept(known, mem') /\ w' = Asleep
    <3>1. mem' \in Memory
      BY <2>4, <2>6, MemoryRules
    <3>2. WatchTypes'
      BY <2>4, <2>6, <3>1 DEF WatchTypes, Kept, Asleep, Busy, Counter
    <3> QED BY <2>1, <2>2, <3>2
  <2> QED BY <1>1, <2>3, <2>5, <2>6 DEF Tick
<1>2. CASE ProbePasses
  <2>1. RecordTypes' /\ FileTypes' /\ UserTypes' /\ RoundTypes'
    BY <1>2, UnwrittenTypes DEF ProbePasses, Unwritten
  <2>2. PICK held \in BOOLEAN :
       LET m == HeldReturn(resetKeeper(resetFail(mem)), held)
           p == w.preferred
       IN  \/ /\ p = None
              /\ LET n == landedOnChoice(m, None) IN EndTick(n, n.returning /\ ~m.returning)
           \/ /\ p # None
              /\ EndTick(m, FALSE)
           \/ /\ Returnable(m, w.active, p)
              /\ tryReturn(w.active, p)
              /\ mem' = m /\ same' = same \ {"failed"}
    BY <1>2 DEF ProbePasses
  <2> DEFINE m == HeldReturn(resetKeeper(resetFail(mem)), held)
  <2>3. m \in Memory /\ landedOnChoice(m, None) \in Memory
    BY <1>0, MemoryRules
  <2>4. w.active \in Entry
    BY <1>2 DEF ProbePasses, WatchTypes, Probing
  <2>5. CASE tryReturn(w.active, w.preferred) /\ mem' = m /\ same' = same \ {"failed"}
    <3>1. \E job \in {"return", "group"}, e \in Entry : Begin(job, {e}, rollbackOrder(w.active), FALSE)
      BY <2>5, ChosenAreServers, ServersAreEntries DEF tryReturn
    <3>2. rollbackOrder(w.active) \subseteq Entry /\ same' \subseteq Counter
      BY <1>0, <2>5, RollbackAreEntries
    <3>3. WatchTypes'
      BY <2>3, <2>4, <2>5, <3>1, <3>2, BeginTypes
    <3> QED BY <2>1, <3>3
  <2> QED BY <1>0, <2>1, <2>2, <2>3, <2>5, EndTickTypes
<1>3. CASE ProbeFails
  <2>1. RecordTypes' /\ FileTypes' /\ UserTypes' /\ RoundTypes'
    BY <1>3, UnwrittenTypes DEF ProbeFails, Unwritten
  <2> DEFINE m == IF mem.fails > 0 /\ w.same \cap {"failed", "own"} = {} THEN resetFail(mem) ELSE mem
  <2>2. m \in Memory
    BY <1>0, MemoryRules
  <2>3. w' \in Probing /\ w'.at = "missed"
    BY <1>3 DEF ProbeFails, WatchTypes, Probing
  <2>4. same' \subseteq Counter
    BY <1>0, <1>3 DEF ProbeFails, Counter
  <2>5. mem' = [m EXCEPT !.fails = IF @ < DeadTicks THEN @ + 1 ELSE @,
                         !.onReturn = IF m.fails = 0 THEN "returned" \in w.same ELSE @]
    BY <1>3 DEF ProbeFails
  <2>6. m.fails \in 0..DeadTicks
    BY <2>2 DEF Memory
  <2>7. (IF m.fails < DeadTicks THEN m.fails + 1 ELSE m.fails) \in 0..DeadTicks
    BY <1>0, <2>6
  <2> DEFINE on == IF m.fails = 0 THEN "returned" \in w.same ELSE m.onReturn
             count == IF m.fails < DeadTicks THEN m.fails + 1 ELSE m.fails
  <2>8. mem' \in Memory
    <3>0. m.onReturn \in BOOLEAN
      BY <2>2 DEF Memory
    <3>1. on \in BOOLEAN
      <4> DEFINE returned == "returned" \in w.same
      <4>1. returned \in BOOLEAN
        BY SMT
      <4> HIDE DEF returned, m
      <4>2. on = IF m.fails = 0 THEN returned ELSE m.onReturn
        BY DEF returned
      <4> HIDE DEF on
      <4> QED BY <3>0, <4>1, <4>2
    <3>2. mem' = [m EXCEPT !.fails = count, !.onReturn = on]
      BY <2>5
    <3> HIDE DEF on, count, m
    <3>3. mem' \in Memory
      BY <2>2, <2>7, <3>1, <3>2 DEF Memory, count
    <3> QED BY <3>3
  <2>9. WatchTypes'
    BY <2>3, <2>4, <2>8 DEF WatchTypes, Busy
  <2> QED BY <2>1, <2>9
<1>4. CASE Decide
  <2>1. RecordTypes' /\ FileTypes' /\ UserTypes' /\ RoundTypes'
    BY <1>4, UnwrittenTypes
    DEF Decide, FollowActive, ReplaceActive, FastFailover, ReplaceDead, Wait, Unwritten
  <2>2. w.active \in Entry
    BY <1>4 DEF Decide, FollowActive, ReplaceActive, FastFailover, ReplaceDead, Wait, Missed,
                WatchTypes, Probing
  <2>3. AllServers \subseteq Entry /\ MovedTo(w.active) \subseteq Entry
    BY ServersAreEntries, ChosenAreServers
  <2>4. CASE Wait
    BY <1>0, <2>1, <2>4, EndTickTypes DEF Wait
  <2>5. CASE FollowActive
    <3>1. \E e \in Entry : Begin("follow", {e}, AllServers \ {e}, FALSE)
      BY <2>3, <2>5 DEF FollowActive, Candidates
    <3> QED BY <1>0, <2>1, <2>2, <2>3, <2>5, <3>1, BeginTypes DEF FollowActive
  <2>6. CASE ReplaceActive
    <3>1. mem' \in Memory
      BY <1>0, <2>6, MemoryRules DEF ReplaceActive
    <3> QED BY <1>0, <2>1, <2>2, <2>3, <2>6, <3>1, BeginTypes DEF ReplaceActive, Candidates
  <2>7. CASE FastFailover
    <3>1. \E choices \in SUBSET Entry : Begin("fast", choices, {}, TRUE)
      BY <2>3, <2>7 DEF FastFailover, Candidates
    <3> QED BY <1>0, <2>1, <2>2, <2>7, <3>1, BeginTypes DEF FastFailover
  <2>8. CASE ReplaceDead
    <3>1. mem' \in Memory
      BY <1>0, <2>8, MemoryRules DEF ReplaceDead
    <3>2. \E guarded \in BOOLEAN :
            Begin("replace", AllServers \ {w.active}, {w.active} \cap AllServers, guarded)
      BY <2>8 DEF ReplaceDead, Candidates
    <3> QED BY <1>0, <2>1, <2>2, <2>3, <2>8, <3>1, <3>2, BeginTypes DEF ReplaceDead
  <2> QED BY <1>4, <2>4, <2>5, <2>6, <2>7, <2>8 DEF Decide
<1> QED BY <1>1, <1>2, <1>3, <1>4

\* A switch that goes on to other candidates, or to none, keeps its type.
LEMMA OnwardTypes ==
    ASSUME w \in Switching, w.at = "writing", mem' \in Memory, same' \subseteq Counter,
           NEW job \in {"back", "replace"}, NEW todo \in SUBSET Entry, NEW then \in SUBSET Entry,
           Onward(job, todo, then)
    PROVE  WatchTypes'
<1>1. w' \in Switching /\ w'.at = "writing"
    BY DEF Onward, Switching, Busy
<1> QED BY <1>1 DEF WatchTypes, Busy

LEMMA SkipTypes ==
    ASSUME WatchTypes, w.at = "writing", NEW set, Skip(set)
    PROVE  WatchTypes' /\ w'.at = "writing"
<1>1. w' \in Switching /\ w'.at = "writing"
    BY DEF Skip, WatchTypes, Switching, Busy
<1> QED BY <1>1 DEF WatchTypes, Busy, Skip

\* Every step of a switch keeps the types.
LEMMA SwitchTyped ==
    ASSUME Types, WatchGenerates \/ WatchRecords \/ WatchRestarts \/ WatchProbes \/ WatchKeeps \/ WatchDrops
    PROVE  Types'
<1> USE DEF Types
<1>0. mem \in Memory /\ same \subseteq Counter
    BY DEF WatchTypes
<1>1. CASE WatchGenerates
  <2>1. FileTypes' /\ UserTypes' /\ RoundTypes'
    BY <1>1, FilesAlone, UserAlone, RoundAlone DEF WatchGenerates, world
  <2>2. w \in Switching /\ w.at = "writing"
    BY <1>1 DEF WatchGenerates, WatchTypes, Busy
  <2>3. CASE (Refused \/ \E set : Skip(set)) /\ UNCHANGED <<conf, lock>>
    <3>1. RecordTypes'
      BY <1>1, <2>3 DEF WatchGenerates, RecordTypes, config, world
    <3>2. WatchTypes'
      BY <2>2, <2>3, RefusedTypes, SkipTypes
    <3> QED BY <2>1, <3>1, <3>2
  <2>4. CASE \E e \in NextUp :
                 /\ conf' = e.conn /\ Hold("watch")
                 /\ w' = [w EXCEPT !.at = "recording", !.cur = e, !.wrote = TRUE]
                 /\ UNCHANGED <<mem, same>>
    <3>1. PICK e \in Entry :
                 /\ conf' = e.conn /\ Hold("watch")
                 /\ w' = [w EXCEPT !.at = "recording", !.cur = e, !.wrote = TRUE]
                 /\ UNCHANGED <<mem, same>>
      BY <2>2, <2>4 DEF NextUp, Switching
    <3>2. RecordTypes'
      BY <1>1, <3>1 DEF WatchGenerates, RecordTypes, config, world, Hold, Entry
    <3>3. w' \in Switching /\ w'.at = "recording" /\ w'.cur \in Entry
      BY <2>2, <3>1 DEF Switching, Busy
    <3>4. WatchTypes'
      BY <1>0, <3>1, <3>3 DEF WatchTypes, Busy
    <3> QED BY <2>1, <3>2, <3>4
  <2>5. \A set : Skip(set) => UNCHANGED <<conf, lock>>
    BY DEF Skip
  <2> QED BY <1>1, <2>3, <2>4, <2>5 DEF WatchGenerates
<1>2. CASE WatchRecords
  <2>1. FileTypes' /\ UserTypes' /\ RoundTypes'
    BY <1>2, FilesAlone, UserAlone, RoundAlone DEF WatchRecords, world
  <2>2. w \in Switching /\ w.at = "recording" /\ w.cur \in Entry
    BY <1>2 DEF WatchRecords, WatchTypes, Busy
  <2>3. RecordTypes'
    BY <1>2, <2>2 DEF WatchRecords, RecordTypes, RecordWalkedServer, config, world
  <2>4. ServerID(w.cur) \in Sub \X Name \X {AddressOf[k] : k \in Conn}
    BY <2>2 DEF ServerID, Entry
  <2>5. w' \in Switching /\ w'.at = "trying" /\ w'.cur \in Entry
    BY <1>2, <2>2, <2>4 DEF WatchRecords, Switching, Busy
  <2>6. mem' \in Memory /\ same' \subseteq Counter
    BY <1>0, <1>2 DEF WatchRecords, Counter
  <2>7. WatchTypes'
    BY <2>5, <2>6 DEF WatchTypes, Busy
  <2> QED BY <2>1, <2>3, <2>7
<1>3. CASE WatchRestarts
  <2>1. FileTypes' /\ UserTypes' /\ RoundTypes'
    BY <1>3, FilesAlone, UserAlone, RoundAlone DEF WatchRestarts, world
  <2>2. RecordTypes'
    BY <1>3 DEF WatchRestarts, RecordTypes, config, world
  <2>3. CASE Refused
    BY <2>1, <2>2, <2>3, RefusedTypes
  <2>4. CASE /\ w' = [w EXCEPT !.at = "restarted"] \/ w' = [w EXCEPT !.at = "dead"]
             /\ UNCHANGED <<mem, same>>
    <3>1. w \in Switching /\ w.cur \in Entry
      BY <1>3 DEF WatchRestarts, WatchTypes, Busy
    <3>2. w' \in Switching /\ w'.at \in {"restarted", "dead"} /\ w'.cur \in Entry
      BY <2>4, <3>1 DEF Switching, Busy
    <3>3. WatchTypes'
      BY <1>0, <2>4, <3>2 DEF WatchTypes, Busy
    <3> QED BY <2>1, <2>2, <3>3
  <2> QED BY <1>3, <2>3, <2>4 DEF WatchRestarts
<1>4. CASE WatchProbes
  <2>1. RecordTypes' /\ FileTypes' /\ UserTypes' /\ RoundTypes'
    BY <1>4, UnwrittenTypes DEF WatchProbes, Unwritten
  <2>2. CASE Refused
    BY <2>1, <2>2, RefusedTypes
  <2>3. CASE /\ w' = [w EXCEPT !.at = IF Works(xray) THEN "live" ELSE "dead"]
             /\ UNCHANGED <<mem, same>>
    <3>1. w \in Switching /\ w.cur \in Entry
      BY <1>4 DEF WatchProbes, WatchTypes, Busy
    <3>2. w' \in Switching /\ w'.at \in {"live", "dead"} /\ w'.cur \in Entry
      BY <2>3, <3>1 DEF Switching, Busy
    <3>3. WatchTypes'
      BY <1>0, <2>3, <3>2 DEF WatchTypes, Busy
    <3> QED BY <2>1, <3>3
  <2> QED BY <1>4, <2>2, <2>3 DEF WatchProbes
<1>5. CASE WatchKeeps
  <2>1. RecordTypes' /\ FileTypes' /\ UserTypes' /\ RoundTypes'
    BY <1>5, UnwrittenTypes DEF WatchKeeps, Unwritten
  <2>2. w.cur \in Entry
    BY <1>5 DEF WatchKeeps, WatchTypes, Busy
  <2> DEFINE m == [mem EXCEPT !.picked = w.cur]
             d(soon) == landedOnChoice(resetKeeper(resetFail(
                            IF w.job = "fast" THEN returnAfterDeath(m, soon) ELSE m)), preferred)
  <2>3. m \in Memory /\ [m EXCEPT !.returning = TRUE] \in Memory
    BY <1>0, <2>2 DEF Memory
  <2>4. ASSUME NEW soon \in BOOLEAN PROVE d(soon) \in Memory
    <3>1. (IF w.job = "fast" THEN returnAfterDeath(m, soon) ELSE m) \in Memory
      BY <2>3, MemoryRules
    <3> QED BY <3>1, MemoryRules
  <2>5. PICK soon \in BOOLEAN :
           \/ Refused
           \/ \E c : EndTick(m, c) \/ EndTick([m EXCEPT !.returning = TRUE], c) \/ EndTick(d(soon), c)
    <3> HIDE DEF Refused
    <3> QED BY <1>5 DEF WatchKeeps
  <2>6. WatchTypes'
    <3> HIDE DEF m, d
    <3> QED BY <1>0, <2>3, <2>4, <2>5, RefusedTypes, EndTickTypes
  <2> QED BY <2>1, <2>6
<1>6. CASE WatchDrops
  <2>1. RecordTypes' /\ FileTypes' /\ UserTypes' /\ RoundTypes'
    BY <1>6, UnwrittenTypes DEF WatchDrops, Unwritten
  <2>2. CASE Refused
    BY <2>1, <2>2, RefusedTypes
  <2>3. CASE /\ w' = [w EXCEPT !.at = "writing", !.todo = @ \ {w.cur},
                            !.then = IF w.job = "fast" THEN @ \cup {w.cur} ELSE @]
             /\ UNCHANGED <<mem, same>>
    <3>1. w \in Switching /\ w.cur \in Entry
      BY <1>6 DEF WatchDrops, WatchTypes, Busy
    <3>2. w' \in Switching /\ w'.at = "writing"
      BY <2>3, <3>1 DEF Switching, Busy
    <3>3. WatchTypes'
      BY <1>0, <2>3, <3>2 DEF WatchTypes, Busy
    <3> QED BY <2>1, <3>3
  <2> QED BY <1>6, <2>2, <2>3 DEF WatchDrops
<1> QED BY <1>1, <1>2, <1>3, <1>4, <1>5, <1>6

\* Every step that ends a walk or the tick keeps the types.
LEMMA ExhaustTyped ==
    ASSUME Types, Exhausts \/ FastInconclusive \/ WatchInterrupted \/ KeeperElapses
    PROVE  Types'
<1> USE DEF Types
<1>0. mem \in Memory /\ same \subseteq Counter /\ AllServers \subseteq Entry
    BY ServersAreEntries DEF WatchTypes
<1>1. RecordTypes' /\ FileTypes' /\ UserTypes' /\ RoundTypes'
    BY UnwrittenTypes DEF Exhausts, ReturnExhausts, FollowExhausts, FastExhausts, ReplaceExhausts,
                          FastInconclusive, WatchInterrupted, KeeperElapses, Unwritten
<1>2. \A soon \in BOOLEAN : returnAfterDeath(mem, soon) \in Memory
    BY <1>0, MemoryRules
<1>3. w.at = "writing" => w \in Switching /\ w.todo \in SUBSET Entry /\ w.then \in SUBSET Entry
                            /\ w.died \in Entry
    BY DEF WatchTypes, Busy, Switching
<1>4. CASE ReturnExhausts
  <2> DEFINE b == [mem EXCEPT !.returnFails = IF @ < ReturnFailsMax THEN @ + 1 ELSE @]
  <2>1. b \in Memory
    <3>1. (IF mem.returnFails < ReturnFailsMax THEN mem.returnFails + 1 ELSE mem.returnFails)
             \in 0..ReturnFailsMax
      BY <1>0, SelectionAssumption DEF Memory
    <3> QED BY <1>0, <3>1 DEF Memory
  <2> HIDE DEF b
  <2>2. \/ Onward("back", w.then, {}) /\ mem' = b /\ UNCHANGED same
        \/ EndTick(b, FALSE) \/ EndTick(mem, FALSE)
    BY <1>4 DEF ReturnExhausts, b
  <2>3. WatchTypes'
    BY <1>0, <1>3, <1>4, <2>1, <2>2, OnwardTypes, EndTickTypes DEF ReturnExhausts, Exhausted
  <2> QED BY <1>1, <2>3
<1>5. CASE FollowExhausts
  <2>1. CASE /\ Onward("replace", w.then, {})
             /\ \E soon \in BOOLEAN : mem' = returnAfterDeath(mem, soon)
             /\ UNCHANGED same
    BY <1>0, <1>1, <1>2, <1>3, <1>5, <2>1, OnwardTypes DEF FollowExhausts, Exhausted
  <2>2. CASE EndTick(mem, FALSE)
    BY <1>0, <1>1, <2>2, EndTickTypes
  <2> QED BY <1>5, <2>1, <2>2 DEF FollowExhausts
<1>6. CASE FastExhausts
  <2>1. CASE /\ Onward("replace", Candidates \ (w.then \cup {w.died}), {w.died} \cap AllServers)
             /\ \E soon \in BOOLEAN : mem' = returnAfterDeath(mem, soon)
             /\ UNCHANGED same
    <3>1. Candidates \ (w.then \cup {w.died}) \in SUBSET Entry /\ {w.died} \cap AllServers \in SUBSET Entry
      BY <1>0 DEF Candidates
    <3> QED BY <1>0, <1>1, <1>2, <1>3, <1>6, <2>1, <3>1, OnwardTypes DEF FastExhausts, Exhausted
  <2>2. CASE Refused \/ EndTick(mem, FALSE)
    BY <1>0, <1>1, <2>2, EndTickTypes, RefusedTypes
  <2> QED BY <1>6, <2>1, <2>2 DEF FastExhausts
<1>7. CASE ReplaceExhausts
  <2>1. CASE Onward("replace", w.then, {}) /\ UNCHANGED <<mem, same>>
    BY <1>0, <1>1, <1>3, <1>7, <2>1, OnwardTypes DEF ReplaceExhausts, Exhausted
  <2>2. CASE EndTick([mem EXCEPT !.held = @ \/ (Owns /\ Fenced)], FALSE)
    <3> DEFINE h == mem.held \/ (Owns /\ Fenced)
    <3>1. h \in BOOLEAN
      BY SMT
    <3>2. EndTick([mem EXCEPT !.held = h], FALSE)
      BY <2>2
    <3> HIDE DEF h
    <3>3. [mem EXCEPT !.held = h] \in Memory
      BY <1>0, <3>1 DEF Memory
    <3> QED BY <1>0, <1>1, <3>2, <3>3, EndTickTypes
  <2> QED BY <1>7, <2>1, <2>2 DEF ReplaceExhausts
<1>8. CASE FastInconclusive
  <2>1. CASE /\ Onward("replace", Candidates \ {w.died}, {w.died} \cap AllServers)
             /\ \E soon \in BOOLEAN : mem' = returnAfterDeath(mem, soon)
             /\ UNCHANGED same
    <3>1. Candidates \ {w.died} \in SUBSET Entry /\ {w.died} \cap AllServers \in SUBSET Entry
      BY <1>0 DEF Candidates
    <3> QED BY <1>0, <1>1, <1>2, <1>3, <1>8, <2>1, <3>1, OnwardTypes DEF FastInconclusive
  <2>2. CASE EndTick(mem, FALSE)
    BY <1>0, <1>1, <2>2, EndTickTypes
  <2> QED BY <1>8, <2>1, <2>2 DEF FastInconclusive
<1>9. CASE WatchInterrupted
  BY <1>1, <1>9, RefusedTypes DEF WatchInterrupted
<1>10. CASE KeeperElapses
  <2>1. mem' \in Memory
    BY <1>0, <1>10 DEF KeeperElapses, Memory
  <2>2. WatchTypes'
    BY <1>10, <2>1 DEF KeeperElapses, WatchTypes
  <2> QED BY <1>1, <2>2
<1> QED BY <1>4, <1>5, <1>6, <1>7, <1>8, <1>9, <1>10 DEF Exhausts

\* A panel changes one list to another, and counts it.
LEMMA PanelStep ==
    ASSUME FileTypes, PanelChanges
    PROVE  \E l \in Link, new \in List : panel' = [panel EXCEPT ![l].list = new, ![l].ver = @ + 1]
<1>2. PICK l \in {LinkOf[s] : s \in There}, k \in Conn, n \in Name :
     LET list == panel[l].list IN
     \/ /\ k \in DOMAIN list /\ list[k] # n
        /\ panel' = [panel EXCEPT ![l].list[k] = n, ![l].ver = @ + 1]
     \/ /\ k \in DOMAIN list
        /\ \E j \in Conn \ DOMAIN list :
            panel' = [panel EXCEPT ![l].list = [i \in (DOMAIN list \ {k}) \cup {j} |->
                                                 IF i = j THEN list[k] ELSE list[i]],
                                   ![l].ver = @ + 1]
     \/ /\ k \in DOMAIN list
        /\ panel' = [panel EXCEPT ![l].list = [i \in DOMAIN list \ {k} |-> list[i]], ![l].ver = @ + 1]
     \/ /\ k \notin DOMAIN list
        /\ panel' = [panel EXCEPT ![l].list = [i \in DOMAIN list \cup {k} |->
                                                 IF i = k THEN n ELSE list[i]],
                                   ![l].ver = @ + 1]
  BY DEF PanelChanges
<1> DEFINE list == panel[l].list
<1>3. l \in Link /\ panel[l] \in [list : List, ver : Nat] /\ list \in List
  BY SelectionAssumption DEF FileTypes, There
<1>4. list \in [DOMAIN list -> Name] /\ DOMAIN list \in SUBSET Conn
  BY <1>3, ListElim
<1>5. \E new \in List : panel' = [panel EXCEPT ![l].list = new, ![l].ver = @ + 1]
  <2>1. CASE k \in DOMAIN list /\ panel' = [panel EXCEPT ![l].list[k] = n, ![l].ver = @ + 1]
    <3>1. [list EXCEPT ![k] = n] \in [DOMAIN list -> Name]
      BY <1>4
    <3>2. [list EXCEPT ![k] = n] \in List
      BY <1>4, <3>1, ListIntro
    <3>3. panel' = [panel EXCEPT ![l].list = [list EXCEPT ![k] = n], ![l].ver = @ + 1]
      BY <2>1
    <3> QED BY <3>2, <3>3
  <2>2. ASSUME k \in DOMAIN list, NEW j \in Conn \ DOMAIN list,
               panel' = [panel EXCEPT ![l].list = [i \in (DOMAIN list \ {k}) \cup {j} |->
                                                 IF i = j THEN list[k] ELSE list[i]],
                                   ![l].ver = @ + 1]
        PROVE  \E new \in List : panel' = [panel EXCEPT ![l].list = new, ![l].ver = @ + 1]
    <3> DEFINE D == (DOMAIN list \ {k}) \cup {j}
               new == [i \in D |-> IF i = j THEN list[k] ELSE list[i]]
    <3>1. D \in SUBSET Conn /\ new \in [D -> Name]
      BY <1>4, <2>2
    <3>2. new \in List
      BY <3>1, ListIntro
    <3> QED BY <2>2, <3>2
  <2>3. CASE panel' = [panel EXCEPT ![l].list = [i \in DOMAIN list \ {k} |-> list[i]], ![l].ver = @ + 1]
    <3> DEFINE D == DOMAIN list \ {k}
               new == [i \in D |-> list[i]]
    <3>1. D \in SUBSET Conn /\ new \in [D -> Name]
      BY <1>4
    <3>2. new \in List
      BY <3>1, ListIntro
    <3> QED BY <2>3, <3>2
  <2>4. CASE panel' = [panel EXCEPT ![l].list = [i \in DOMAIN list \cup {k} |->
                                                 IF i = k THEN n ELSE list[i]],
                               ![l].ver = @ + 1]
    <3> DEFINE D == DOMAIN list \cup {k}
               new == [i \in D |-> IF i = k THEN n ELSE list[i]]
    <3>1. D \in SUBSET Conn /\ new \in [D -> Name]
      BY <1>4
    <3>2. new \in List
      BY <3>1, ListIntro
    <3> QED BY <2>4, <3>2
  <2> QED BY <1>2, <2>1, <2>2, <2>3, <2>4
<1> QED BY <1>3, <1>5

\* Every step of the world keeps the types.
LEMMA WorldTyped ==
    ASSUME Types, World
    PROVE  Types'
<1> USE DEF Types
<1>1. CASE PanelChanges
  <2>1. RecordTypes' /\ UserTypes' /\ RoundTypes' /\ WatchTypes'
    BY <1>1, WatchAlone, UserAlone, RoundAlone DEF PanelChanges, RecordTypes, config
  <2>2. PICK l \in Link, new \in List : panel' = [panel EXCEPT ![l].list = new, ![l].ver = @ + 1]
    BY <1>1, PanelStep
  <2>6. panel' \in [Link -> [list : List, ver : Nat]]
    BY <2>2 DEF FileTypes
  <2>7. FileTypes'
    BY <1>1, <2>6 DEF PanelChanges, FileTypes
  <2> QED BY <2>1, <2>7
<1>2. CASE WorldChanges
  <2>1. FileTypes' /\ UserTypes' /\ RoundTypes' /\ WatchTypes'
    BY <1>2, WatchAlone, UserAlone, RoundAlone, FilesAlone DEF WorldChanges
  <2>2. wan' \in BOOLEAN /\ allowed' \in BOOLEAN
    BY <1>2 DEF WorldChanges, RecordTypes
  <2>3. up' \subseteq Conn
    BY <1>2 DEF WorldChanges, RecordTypes
  <2>4. RecordTypes'
    BY <1>2, <2>2, <2>3 DEF WorldChanges, RecordTypes, config
  <2> QED BY <2>1, <2>4
<1>3. CASE WatchdRestarts
  <2>1. FileTypes' /\ UserTypes'
    BY <1>3, UserAlone, FilesAlone DEF WatchdRestarts, world
  <2>2. unsaved' \in BOOLEAN /\ lock' \in {"free", "user", "watch"}
    BY <1>3 DEF WatchdRestarts, RecordTypes
  <2>3. RecordTypes'
    BY <1>3, <2>2 DEF WatchdRestarts, RecordTypes, config, world
  <2>4. Fresh \in Memory
    BY SelectionAssumption DEF Fresh, Memory
  <2>5. WatchTypes' /\ RoundTypes'
    BY <1>3, <2>4 DEF WatchdRestarts, WatchTypes, RoundTypes, Asleep, Resting, Busy
  <2> QED BY <2>1, <2>3, <2>5
<1> QED BY <1>1, <1>2, <1>3 DEF World

\* The specification starts with the types and every step keeps them.
LEMMA InitTyped == Init => Types
<1> SUFFICES ASSUME Init PROVE Types
    OBVIOUS
<1> USE DEF Types
<1>1. FileTypes
  <2>1. \A s \in DOMAIN Stored : Stored[s] \in List /\ s \in Sub
    BY SelectionAssumption DEF List
  <2>2. Listed \in [Link -> List]
    BY SelectionAssumption DEF List
  <2>3. files \in [Sub -> File \cup {Unused, Gone}]
    BY <2>1 DEF Init, File
  <2> QED BY <2>2, <2>3 DEF Init, FileTypes
<1>2. active \in Entry
    BY <1>1, ServersAreEntries DEF Init
<1>3. RecordTypes
    BY <1>2, SelectionAssumption DEF Init, RecordTypes, Entry
<1>4. Fresh \in Memory
    BY SelectionAssumption DEF Fresh, Memory
<1>5. UserTypes /\ RoundTypes /\ WatchTypes
    BY <1>4 DEF Init, UserTypes, RoundTypes, WatchTypes, Idle, Resting, Asleep, Busy
<1> QED BY <1>1, <1>3, <1>5

LEMMA NextTyped == Types /\ [Next]_vars => Types'
<1> SUFFICES ASSUME Types, [Next]_vars PROVE Types'
    OBVIOUS
<1>1. CASE Next
  <2>1. \/ User \/ Round \/ World
        \/ Tick \/ ProbePasses \/ ProbeFails \/ Decide
        \/ WatchGenerates \/ WatchRecords \/ WatchRestarts \/ WatchProbes \/ WatchKeeps \/ WatchDrops
        \/ Exhausts \/ FastInconclusive \/ WatchInterrupted \/ KeeperElapses
    BY <1>1 DEF Next, Watch
  <2> QED BY <2>1, UserTyped, RoundTyped, WorldTyped, TickTyped, SwitchTyped, ExhaustTyped
<1>2. CASE UNCHANGED vars
  <2>1. RecordTypes' /\ FileTypes' /\ UserTypes' /\ RoundTypes'
    BY <1>2, UnwrittenTypes DEF vars, config, world
  <2>2. WatchTypes'
    BY <1>2, WatchAlone DEF vars, Types
  <2> QED BY <2>1, <2>2 DEF Types
<1> QED BY <1>1, <1>2

LEMMA Typed == Spec => []Types
BY InitTyped, NextTyped, PTL DEF Spec

\* Whatever the parties do and in whatever order, every file, record and piece
\* of the watch's memory keeps its type; what a running switch still has to try
\* are servers with a saved record.
THEOREM TypeCorrect == Spec => []TypeOK
<1>1. ASSUME Types PROVE TypeOK
  <2>1. /\ active \in Entry /\ preferred \in Entry \cup {None} /\ wanted \in Entry
        /\ {conf, xray} \cup up \subseteq Conn
        /\ lock \in {"free", "user", "watch"}
    BY <1>1 DEF Types, RecordTypes
  <2>2. /\ \A s \in Sub : files[s] \in File \cup {Unused, Gone}
        /\ \A l \in Link : panel[l].list \in List
    BY <1>1 DEF Types, FileTypes
  <2>3. /\ same \subseteq Counter
        /\ mem.fails \in 0..DeadTicks /\ mem.returnFails \in 0..ReturnFailsMax
        /\ mem.picked \in Entry \cup {None}
    BY <1>1 DEF Types, WatchTypes, Memory
  <2>4. mem.onReturn \in BOOLEAN /\ mem.settled \in BOOLEAN /\ mem.held \in BOOLEAN /\ mem.returning \in BOOLEAN
    BY <1>1 DEF Types, WatchTypes, Memory
  <2>5. {wan, allowed, unsaved, unread, mem.onReturn, mem.settled, mem.held, mem.returning} \subseteq BOOLEAN
    BY <1>1, <2>4 DEF Types, RecordTypes
  <2>6. w.at = "writing" => w.todo \cup w.then \subseteq Entry
    BY <1>1 DEF Types, WatchTypes, Busy, Switching
  <2> QED BY <2>1, <2>2, <2>3, <2>5, <2>6 DEF TypeOK
<1> QED BY <1>1, Typed, PTL

---------------------------------------------------------------------------
(* The config lock, the record and the selection                           *)

\* A tick that ends forgets the record it went by.
LEMMA EndTickForgets ==
    ASSUME NEW m, NEW c, EndTick(m, c)
    PROVE  w'.at = "idle" /\ "action" \notin same'
BY DEF EndTick, Asleep, Kept

LEMMA RefusedForgets ==
    ASSUME Refused \/ Interrupted
    PROVE  w'.at = "idle" /\ "action" \notin same'
BY EndTickForgets DEF Refused, Interrupted

\* The steps of a tick between its look at the config and its writes neither
\* hold the lock nor take up a record anew.
Quiet == \/ ProbePasses \/ ProbeFails \/ Decide \/ WatchProbes \/ WatchKeeps \/ WatchDrops
         \/ Exhausts \/ FastInconclusive \/ WatchInterrupted

LEMMA QuietSteps ==
    ASSUME Types, Quiet
    PROVE  /\ w.at # "recording" /\ w'.at # "recording"
           /\ "action" \in same' => "action" \in same
           /\ UNCHANGED <<config, conf, xray, lock, files, world, r, u, unsaved, wanted, unread, clock>>
<1>1. w.at # "recording"
    BY DEF Quiet, ProbePasses, ProbeFails, Decide, FollowActive, ReplaceActive, FastFailover,
           ReplaceDead, Wait, Missed, WatchProbes, WatchKeeps, WatchDrops, Exhausts, ReturnExhausts,
           FollowExhausts, FastExhausts, ReplaceExhausts, Exhausted, FastInconclusive, WatchInterrupted
<1>2. UNCHANGED <<config, conf, xray, lock, files, world, r, u, unsaved, wanted, unread, clock>>
    BY DEF Quiet, ProbePasses, ProbeFails, Decide, FollowActive, ReplaceActive, FastFailover,
           ReplaceDead, Wait, WatchProbes, WatchKeeps, WatchDrops, Exhausts, ReturnExhausts,
           FollowExhausts, FastExhausts, ReplaceExhausts, FastInconclusive, WatchInterrupted, Unwritten
<1> SUFFICES w'.at # "recording" /\ ("action" \in same' => "action" \in same)
    BY <1>1, <1>2
<1>3. ASSUME NEW job, NEW todo, NEW then, NEW guarded, Begin(job, todo, then, guarded)
      PROVE  w'.at = "writing"
    BY <1>3 DEF Begin
<1>4. ASSUME NEW job, NEW todo, NEW then, Onward(job, todo, then), w.at = "writing"
      PROVE  w'.at = "writing"
    BY <1>4 DEF Onward, Types, WatchTypes, Busy, Switching
<1>5. CASE ProbePasses
  <2>1. CASE tryReturn(w.active, w.preferred) /\ same' = same \ {"failed"}
    BY <2>1, <1>3 DEF tryReturn
  <2> QED BY <1>5, <2>1, EndTickForgets DEF ProbePasses
<1>6. CASE ProbeFails
    BY <1>6 DEF ProbeFails, Types, WatchTypes, Probing
<1>7. CASE Decide
  <2>1. \/ \E m, c : EndTick(m, c)
        \/ (\E job, todo, then, guarded : Begin(job, todo, then, guarded)) /\ UNCHANGED same
    BY <1>7 DEF Decide, FollowActive, ReplaceActive, FastFailover, ReplaceDead, Wait
  <2> QED BY <2>1, <1>3, EndTickForgets
<1>8. CASE WatchProbes \/ WatchDrops
  <2>1. w \in Switching
    BY <1>8 DEF WatchProbes, WatchDrops, Types, WatchTypes, Busy
  <2> QED BY <1>8, <2>1, RefusedForgets DEF WatchProbes, WatchDrops, Switching
<1>9. CASE WatchKeeps
  <2>1. Refused \/ \E m, c : EndTick(m, c)
    BY <1>9 DEF WatchKeeps
  <2> QED BY <2>1, RefusedForgets, EndTickForgets
<1>10. CASE Exhausts \/ FastInconclusive
  <2>1. w.at = "writing"
    BY <1>10 DEF Exhausts, ReturnExhausts, FollowExhausts, FastExhausts, ReplaceExhausts, Exhausted,
                 FastInconclusive
  <2>2. \/ Refused \/ \E m, c : EndTick(m, c)
        \/ (\E job, todo, then : Onward(job, todo, then)) /\ UNCHANGED same
    BY <1>10 DEF Exhausts, ReturnExhausts, FollowExhausts, FastExhausts, ReplaceExhausts, FastInconclusive
  <2> QED BY <2>1, <2>2, <1>4, RefusedForgets, EndTickForgets
<1>11. CASE WatchInterrupted
    BY <1>11, RefusedForgets DEF WatchInterrupted
<1> QED BY <1>5, <1>6, <1>7, <1>8, <1>9, <1>10, <1>11 DEF Quiet

\* What WatchGenerates does: it refuses, skips, or takes the lock for a
\* candidate, only while the record its action goes by stands.
LEMMA GeneratesSteps ==
    ASSUME Types, WatchGenerates
    PROVE  /\ w.at = "writing" /\ lock = "free"
           /\ UNCHANGED <<config, xray, files, world, r, u, unsaved, wanted, unread, clock>>
           /\ \/ /\ UNCHANGED <<conf, lock>>
                 /\ w'.at # "recording" /\ ("action" \in same' => "action" \in same)
              \/ /\ "action" \in same /\ UNCHANGED same
                 /\ lock' = "watch" /\ w'.at = "recording" /\ conf' = w'.cur.conn
<1>1. w \in Switching /\ w.at = "writing" /\ lock = "free"
    BY DEF WatchGenerates, Types, WatchTypes, Busy, Unlocked
<1>2. \A set : Skip(set) => w'.at = "writing" /\ UNCHANGED <<same, conf, lock>>
    BY <1>1 DEF Skip, Switching
<1>3. UNCHANGED <<config, xray, files, world, r, u, unsaved, wanted, unread, clock>>
    BY DEF WatchGenerates
<1>4. \/ Refused /\ UNCHANGED <<conf, lock>>
      \/ \E set : Skip(set)
      \/ \E e \in NextUp : /\ Owns /\ conf' = e.conn /\ Hold("watch")
                           /\ w' = [w EXCEPT !.at = "recording", !.cur = e, !.wrote = TRUE]
                           /\ UNCHANGED same
    BY DEF WatchGenerates
<1>5. ASSUME NEW e \in NextUp, Owns, conf' = e.conn, Hold("watch"), UNCHANGED same,
             w' = [w EXCEPT !.at = "recording", !.cur = e, !.wrote = TRUE]
      PROVE  /\ "action" \in same /\ lock' = "watch" /\ w'.at = "recording" /\ conf' = w'.cur.conn
    BY <1>1, <1>5 DEF Owns, Hold, Switching
<1> QED BY <1>1, <1>2, <1>3, <1>4, <1>5, RefusedForgets

\* A record that follows a rename keeps its connection; None is no entry.
LEMMA NoneIsNoEntry == None \notin Entry
BY SelectionAssumption DEF None, Entry

LEMMA FollowKeeps ==
    ASSUME RecordTypes, NEW s, NEW stored, NEW fresh \in List, followRenames(s, stored, fresh)
    PROVE  /\ active'.conn = active.conn
           /\ Wanting => Wanting'
<1>1. active \in Entry /\ preferred \in Entry \cup {None} /\ wanted \in Entry
    BY DEF RecordTypes
<1>2. active' = Followed(active, s, stored, fresh) /\ preferred' = Followed(preferred, s, stored, fresh)
        /\ wanted' = Followed(wanted, s, stored, fresh)
    BY DEF followRenames
<1>3. active'.conn = active.conn
    BY <1>1, <1>2, FollowedFacts
<1>4. preferred = None <=> preferred' = None
    BY <1>1, <1>2, FollowedFacts, NoneIsNoEntry
<1> QED BY <1>2, <1>3, <1>4 DEF Wanting, Choice

\* The publications of the user and of the round change no lock, no running
\* switch and no server on record but its name.
LEMMA PublishSteps ==
    ASSUME Types, UserPublishes \/ RoundPublishes
    PROVE  /\ UNCHANGED <<conf, lock, unsaved, unread, same, w>>
           /\ lock = "free" /\ (u'.op = "generated" => u.op = "generated")
           /\ active'.conn = active.conn
           /\ Wanting => Wanting'
<1>1. CASE UserPublishes
  <2>1. UNCHANGED <<conf, lock, unsaved, unread, same, w>> /\ lock = "free" /\ u'.op # "generated"
    BY <1>1 DEF UserPublishes, Unlocked, Idle
  <2>2. u \in Fetched
    BY <1>1 DEF UserPublishes, Types, UserTypes
  <2>3. \/ UNCHANGED <<config, wanted>>
        \/ \E s, stored, unresolved : followRenames(s, stored, Imported(u.list, unresolved))
    BY <1>1 DEF UserPublishes
  <2>4. \A unresolved : Imported(u.list, unresolved) \in List
    BY <2>2, MergedLists DEF Fetched
  <2> QED BY <2>1, <2>3, <2>4, FollowKeeps DEF config, Wanting, Choice, Types
<1>2. CASE RoundPublishes
  <2>1. UNCHANGED <<conf, lock, unsaved, unread, same, w>> /\ lock = "free" /\ u' = u
    BY <1>2 DEF RoundPublishes, Unlocked
  <2>2. r \in Loaded
    BY <1>2 DEF RoundPublishes, Types, RoundTypes
  <2>3. Unmoved(files[r.sub]) => files[r.sub].list \in List
    BY <2>2, ThereAreFiles DEF Unmoved, There, Types, Loaded, File
  <2>4. \/ UNCHANGED <<config, wanted>>
        \/ /\ Unmoved(files[r.sub])
           /\ \E s, stored, unresolved :
                followRenames(s, stored, MergeRefresh(files[r.sub].list, r.list, unresolved))
    BY <1>2 DEF RoundPublishes
  <2>5. \A unresolved : Unmoved(files[r.sub]) => MergeRefresh(files[r.sub].list, r.list, unresolved) \in List
    BY <2>2, <2>3, MergedLists DEF Loaded
  <2>6. active'.conn = active.conn /\ (Wanting => Wanting')
    BY <2>4, <2>5, FollowKeeps DEF config, Wanting, Choice, Types
  <2> QED BY <2>1, <2>6
<1> QED BY <1>1, <1>2

\* The lock, and what its holder wrote, through every step.
LEMMA LockingKept == Types /\ Locking /\ [Next]_vars => Locking'
<1> SUFFICES ASSUME Types, Locking, [Next]_vars PROVE Locking'
    OBVIOUS
<1> USE DEF Locking, ConfIsRecorded
<1>1. ASSUME UNCHANGED <<active, conf, lock, u, w, unsaved>> PROVE Locking'
    BY <1>1
<1>2. CASE UserPicks \/ UserDownloads
    BY <1>2 DEF UserPicks, UserDownloads, config, Idle
<1>3. CASE UserGenerates
  <2>1. u.op = "picked" /\ u \in Picked /\ lock = "free" /\ UNCHANGED <<active, w, unsaved>>
    BY <1>3 DEF UserGenerates, Unlocked, Types, UserTypes, config
  <2>2. CASE lock' = "user" /\ conf' = u.entry.conn /\ u' = [u EXCEPT !.op = "generated"]
    BY <2>1, <2>2 DEF Picked
  <2>3. CASE u' = Idle /\ UNCHANGED <<lock, conf>>
    BY <2>1, <2>3 DEF Idle
  <2> QED BY <1>3, <2>2, <2>3 DEF UserGenerates, Hold
<1>4. CASE UserRecords
    BY <1>4 DEF UserRecords, config
<1>5. CASE UserRestarts
    BY <1>5 DEF UserRestarts, config, Idle
<1>6. CASE UserPublishes \/ RoundPublishes
    BY <1>6, PublishSteps DEF UserPublishes, RoundPublishes
<1>7. CASE UserDeletes \/ RoundReads \/ RoundDownloads \/ RoundRecordsError \/ RoundRestores
            \/ KeeperElapses \/ PanelChanges \/ WorldChanges
    BY <1>1, <1>7 DEF UserDeletes, RoundReads, RoundDownloads, RoundRecordsError, RoundRestores,
                      KeeperElapses, PanelChanges, WorldChanges, config
<1>8. CASE Tick
  <2>1. w'.at # "recording"
    BY <1>8, RefusedForgets DEF Tick, Asleep
  <2>2. w.at = "idle" /\ UNCHANGED <<active, conf, lock, u, unsaved>>
    BY <1>8 DEF Tick, config
  <2> QED BY <2>1, <2>2
<1>9. CASE Quiet
    BY <1>9, QuietSteps DEF config
<1>10. CASE WatchGenerates
    BY <1>10, GeneratesSteps DEF config
<1>11. CASE WatchRecords
  <2>1. w \in Switching /\ w.at = "recording" /\ conf = w.cur.conn /\ u.op # "generated"
    BY <1>11 DEF WatchRecords, Types, WatchTypes, Busy
  <2>2. w'.at = "trying" /\ lock' = "free" /\ UNCHANGED <<conf, u>>
    BY <1>11, <2>1 DEF WatchRecords, Switching
  <2>3. unsaved' \/ active' = w.cur
    BY <1>11 DEF WatchRecords, RecordWalkedServer
  <2> QED BY <2>1, <2>2, <2>3
<1>12. CASE WatchRestarts
  <2>1. w \in Switching /\ w.at = "trying" /\ UNCHANGED <<active, conf, lock, u, unsaved>>
    BY <1>12 DEF WatchRestarts, Types, WatchTypes, Busy, config
  <2>2. w'.at # "recording"
    BY <1>12, <2>1, RefusedForgets DEF WatchRestarts, Switching
  <2> QED BY <2>1, <2>2
<1>13. CASE WatchdRestarts
  <2>1. w'.at = "idle" /\ UNCHANGED <<active, conf, u>>
    BY <1>13 DEF WatchdRestarts, Asleep, config
  <2>2. CASE lock = "watch"
    <3>1. lock' = "free" /\ unsaved'
      BY <1>13, <2>2 DEF WatchdRestarts
    <3> QED BY <2>1, <2>2, <3>1
  <2>3. CASE lock # "watch"
    <3>1. lock' = lock /\ (unsaved' <=> unsaved)
      BY <1>13, <2>3 DEF WatchdRestarts
    <3> QED BY <2>1, <2>3, <3>1
  <2> QED BY <2>2, <2>3
<1>14. CASE UNCHANGED vars
    BY <1>1, <1>14 DEF vars
<1> QED BY <1>2, <1>3, <1>4, <1>5, <1>6, <1>7, <1>8, <1>9, <1>10, <1>11, <1>12, <1>13, <1>14
    DEF Next, User, Round, Watch, World, Quiet

\* The records go on telling the user's choice through every step.
LEMMA WantingKept == Types /\ Wanting /\ [Next]_vars => Wanting'
<1> SUFFICES ASSUME Types, Wanting, [Next]_vars PROVE Wanting'
    OBVIOUS
<1> USE DEF Wanting, Choice
<1>1. ASSUME UNCHANGED <<active, preferred, wanted>> PROVE Wanting'
    BY <1>1
<1>2. CASE UserPicks \/ UserDownloads \/ UserGenerates \/ UserRestarts
            \/ RoundReads \/ RoundDownloads \/ RoundRecordsError \/ RoundRestores
            \/ Tick \/ WatchGenerates \/ WatchRestarts
            \/ KeeperElapses \/ PanelChanges \/ WorldChanges \/ WatchdRestarts
  <2>1. UNCHANGED <<config, wanted>>
    BY <1>2 DEF UserPicks, UserDownloads, UserGenerates, UserRestarts,
                RoundReads, RoundDownloads, RoundRecordsError, RoundRestores, Tick, WatchGenerates,
                WatchRestarts, KeeperElapses, PanelChanges, WorldChanges, WatchdRestarts
  <2> QED BY <1>1, <2>1 DEF config
<1>3. CASE UserRecords
    BY <1>3 DEF UserRecords, config
<1>4. CASE UserPublishes \/ RoundPublishes
    BY <1>4, PublishSteps
<1>5. CASE UserDeletes
    BY <1>5 DEF UserDeletes
<1>6. CASE Quiet
    BY <1>1, <1>6, QuietSteps DEF config
<1>7. CASE WatchRecords
  <2>1. CASE UNCHANGED <<config, wanted>>
    BY <1>1, <2>1 DEF config
  <2>2. CASE /\ RecordWalkedServer(w.cur)
             /\ wanted' = IF Sort(wanted) = Sort(w.cur) THEN w.cur ELSE wanted
    <3>1. w.cur \in Entry /\ active \in Entry /\ preferred \in Entry \cup {None}
      BY <1>7 DEF WatchRecords, Types, WatchTypes, RecordTypes, Busy
    <3>2. \A a, e \in Entry : SameChoice(a, e) <=> Sort(a) = Sort(e)
      BY NoneIsNoEntry DEF SameChoice, Sort
    <3>3. active' = w.cur
      BY <2>2 DEF RecordWalkedServer
    <3>4. CASE preferred # None /\ SameChoice(preferred, w.cur)
      BY <2>2, <3>1, <3>2, <3>3, <3>4 DEF RecordWalkedServer
    <3>5. CASE preferred # None /\ ~SameChoice(preferred, w.cur)
      BY <2>2, <3>1, <3>2, <3>3, <3>5 DEF RecordWalkedServer
    <3>6. CASE preferred = None /\ SameChoice(active, w.cur)
      BY <2>2, <3>1, <3>2, <3>3, <3>6 DEF RecordWalkedServer
    <3>7. CASE preferred = None /\ ~SameChoice(active, w.cur)
      BY <2>2, <3>1, <3>2, <3>3, <3>7, NoneIsNoEntry DEF RecordWalkedServer
    <3> QED BY <3>4, <3>5, <3>6, <3>7
  <2> QED BY <1>7, <2>1, <2>2 DEF WatchRecords
<1>8. CASE UNCHANGED vars
    BY <1>1, <1>8 DEF vars
<1> QED BY <1>2, <1>3, <1>4, <1>5, <1>6, <1>7, <1>8 DEF Next, User, Round, Watch, World, Quiet

\* No step makes the watch act on a selection it has not read.
LEMMA ReadingKept == Types /\ Locking /\ Reading /\ [Next]_vars => Reading'
<1> SUFFICES ASSUME Types, Locking, Reading, [Next]_vars PROVE Reading'
    OBVIOUS
<1> USE DEF Reading
<1>1. ASSUME UNCHANGED <<same, unread, lock>> PROVE Reading'
    BY <1>1
<1>2. CASE UserPicks \/ UserDownloads \/ UserRestarts \/ UserDeletes
            \/ RoundReads \/ RoundDownloads \/ RoundRecordsError \/ RoundRestores
            \/ KeeperElapses \/ PanelChanges \/ WorldChanges
    BY <1>1, <1>2 DEF UserPicks, UserDownloads, UserRestarts, UserDeletes, RoundReads, RoundDownloads,
                RoundRecordsError, RoundRestores, KeeperElapses, PanelChanges, WorldChanges
<1>3. CASE UserGenerates
    BY <1>3 DEF UserGenerates, Hold
<1>4. CASE UserRecords
    BY <1>4 DEF UserRecords
<1>5. CASE UserPublishes \/ RoundPublishes
    BY <1>1, <1>5, PublishSteps
<1>6. CASE Tick
  <2>1. CASE Interrupted /\ UNCHANGED <<unread, lock>>
    BY <2>1, RefusedForgets
  <2>2. CASE unread' = FALSE
    BY <2>2
  <2> QED BY <1>6, <2>1, <2>2 DEF Tick
<1>7. CASE Quiet
    BY <1>7, QuietSteps
<1>8. CASE WatchGenerates
    BY <1>8, GeneratesSteps
<1>9. CASE WatchRecords
  <2>1. lock = "watch" /\ lock' = "free" /\ unread' = unread
    BY <1>9 DEF WatchRecords, Locking
  <2> QED BY <2>1
<1>10. CASE WatchRestarts
    BY <1>10, RefusedForgets DEF WatchRestarts
<1>11. CASE WatchdRestarts
    BY <1>11 DEF WatchdRestarts
<1>12. CASE UNCHANGED vars
    BY <1>1, <1>12 DEF vars
<1> QED BY <1>2, <1>3, <1>4, <1>5, <1>6, <1>7, <1>8, <1>9, <1>10, <1>11, <1>12
    DEF Next, User, Round, Watch, World, Quiet

Held == Types /\ Locking /\ Wanting /\ Reading

LEMMA Holding == Spec => []Held
<1>1. Init => Held
  <2> SUFFICES ASSUME Init PROVE Held
    OBVIOUS
  <2>1. Types
    BY InitTyped
  <2>2. Locking /\ Wanting /\ Reading
    BY DEF Init, Locking, ConfIsRecorded, Wanting, Choice, Reading, Idle, Asleep
  <2> QED BY <2>1, <2>2 DEF Held
<1>2. Held /\ [Next]_vars => Held'
    BY NextTyped, LockingKept, WantingKept, ReadingKept DEF Held
<1> QED BY <1>1, <1>2, PTL DEF Spec

\* However the user's selections, the watch's switches, the refreshes and the
\* failures of any of them interleave, config.json describes the server
\* active_server names whenever the config lock is free, but for a record that
\* could not be saved.
THEOREM RecordDescribesConf == Spec => []ConfIsRecorded
<1>1. Held => ConfIsRecorded
    BY DEF Held, Locking
<1> QED BY <1>1, Holding, PTL

\* Whatever the watch switches to, the two records tell the subscription, the
\* name and the kind of the server the user chose.
THEOREM RecordsKeepChoice == Spec => []ChoiceKept
<1>1. Held => ChoiceKept
    BY DEF Held, Wanting, ChoiceKept
<1> QED BY <1>1, Holding, PTL

\* No action of the watch, whenever it was decided, writes config.json between
\* a selection of the user and the tick that reads it.
THEOREM SelectionIsSafe == Spec => SelectionStands
<1>1. Held /\ [Next]_vars => (lock' = "watch" /\ lock = "free" => ~unread)
  <2> SUFFICES ASSUME Held, [Next]_vars, lock' = "watch", lock = "free" PROVE ~unread
    OBVIOUS
  <2>0. Types /\ Reading /\ Locking
    BY DEF Held
  <2>1. ~(UserPicks \/ UserDownloads \/ UserRestarts \/ UserDeletes \/ UserGenerates \/ UserRecords
            \/ RoundReads \/ RoundDownloads \/ RoundRecordsError \/ RoundRestores \/ Tick \/ KeeperElapses)
    BY DEF UserPicks, UserDownloads, UserRestarts, UserDeletes, UserGenerates, UserRecords, Hold,
           RoundReads, RoundDownloads, RoundRecordsError, RoundRestores, Tick, KeeperElapses
  <2>2. ~(UserPublishes \/ RoundPublishes \/ Quiet)
    BY <2>0, PublishSteps, QuietSteps
  <2>3. ~(WatchRecords \/ WatchRestarts \/ PanelChanges \/ WorldChanges \/ WatchdRestarts)
    BY DEF WatchRecords, WatchRestarts, PanelChanges, WorldChanges, WatchdRestarts
  <2>4. ~UNCHANGED vars
    BY DEF vars
  <2>5. WatchGenerates
    BY <2>1, <2>2, <2>3, <2>4 DEF Next, User, Round, Watch, World, Quiet
  <2> QED BY <2>0, <2>5, GeneratesSteps DEF Reading
<1>2. (Held /\ [Next]_vars => [lock' = "watch" /\ lock = "free" => ~unread]_vars)
    BY <1>1
<1> QED BY <1>2, Holding, PTL DEF Spec, SelectionStands

---------------------------------------------------------------------------
(* The versions of the lists                                               *)

\* A step that leaves the files alone, and the user and the round but for a
\* return to rest, keeps the versions, whatever the panels publish.
LEMMA VersionsStay ==
    ASSUME Types, Versions, UNCHANGED <<files, clock>>,
           \A l \in Link : panel[l].ver <= panel'[l].ver,
           FileTypes',
           u' = u \/ u'.op # "downloaded",
           r' = r \/ r' = Resting
    PROVE  Versions'
<1> USE SelectionAssumption
<1>1. FileVersions'
  <2> SUFFICES ASSUME NEW s \in Sub, files[s].there
               PROVE  files[s].ver <= panel'[LinkOf[s]].ver /\ files[s].stamp <= clock
    BY DEF FileVersions
  <2>1. files[s] \in File
    BY ThereAreFiles DEF Types, There
  <2>2. files[s].ver \in Nat /\ panel[LinkOf[s]].ver \in Nat /\ panel'[LinkOf[s]].ver \in Nat
    BY <2>1 DEF Types, FileTypes, File
  <2>3. panel[LinkOf[s]].ver <= panel'[LinkOf[s]].ver
    OBVIOUS
  <2> QED BY <2>2, <2>3 DEF Versions, FileVersions
<1>2. UserVersions'
    BY DEF Versions, UserVersions, Types, FileTypes, UserTypes, Fetched
<1>3. CASE r' = Resting
    BY <1>1, <1>2, <1>3 DEF Versions, RoundVersions, Resting
<1>4. CASE r' = r
  <2>1. r.at = "downloaded" => r.sub \in Sub /\ r.ver \in Nat
    BY DEF Types, RoundTypes, Loaded
  <2>2. r.at = "restoring" => r.sub \in Sub /\ r.before.ver \in Nat
    BY DEF Types, RoundTypes, Undoing, File
  <2>3. \A s \in Sub : panel[LinkOf[s]].ver <= panel'[LinkOf[s]].ver
            /\ panel[LinkOf[s]].ver \in Nat /\ panel'[LinkOf[s]].ver \in Nat
    BY DEF Types, FileTypes
  <2>4. RoundVersions'
    BY <1>4, <2>1, <2>2, <2>3 DEF Versions, RoundVersions
  <2> QED BY <1>1, <1>2, <2>4 DEF Versions
<1> QED BY <1>3, <1>4

\* One file is written, with a list no newer than its panel's.
LEMMA FileWritten ==
    ASSUME Types, Versions, FileTypes', UNCHANGED panel, clock <= clock', NEW s \in Sub, NEW f,
           files' = [files EXCEPT ![s] = f],
           f.there => f.ver <= panel[LinkOf[s]].ver /\ f.stamp <= clock',
           u' = u \/ u'.op # "downloaded"
    PROVE  FileVersions' /\ UserVersions'
<1>1. FileVersions'
  <2> SUFFICES ASSUME NEW t \in Sub, files'[t].there
               PROVE  files'[t].ver <= panel'[LinkOf[t]].ver /\ files'[t].stamp <= clock'
    BY DEF FileVersions
  <2>1. CASE t = s
    BY <2>1 DEF Types, FileTypes
  <2>2. CASE t # s
    <3>1. files'[t] = files[t] /\ files[t] \in File
      BY <2>2, ThereAreFiles DEF Types, FileTypes, There
    <3>2. files[t].stamp \in Nat /\ clock \in Nat /\ clock' \in Nat
      BY <3>1 DEF File, Types, FileTypes
    <3> QED BY <3>1, <3>2 DEF Versions, FileVersions
  <2> QED BY <2>1, <2>2
<1>2. UserVersions'
    BY DEF Versions, UserVersions
<1> QED BY <1>1, <1>2

\* The round is at rest then, or looks at another stamp than the new one.
LEMMA VersionsWritten ==
    ASSUME Types, Versions, FileTypes', UNCHANGED panel, clock <= clock', NEW s \in Sub, NEW f,
           files' = [files EXCEPT ![s] = f],
           f.there => f.ver <= panel[LinkOf[s]].ver /\ f.stamp <= clock',
           r' = Resting \/ (r' = r /\ (f.there => f.stamp = clock + 1 \/
                                (files[s].there /\ f.stamp = files[s].stamp /\ f.ver = files[s].ver))),
           u' = u \/ u'.op # "downloaded"
    PROVE  Versions'
<1>1. FileVersions' /\ UserVersions'
    BY FileWritten
<1>3. CASE r' = Resting
    BY <1>1, <1>3 DEF Versions, RoundVersions, Resting
<1>4. CASE r' = r
  <2>0. clock \in Nat /\ clock' \in Nat
    BY DEF Types, FileTypes
  <2>1. r.at \in {"reading", "failed", "downloaded"} => r.since \in Nat
    BY DEF Types, RoundTypes, Looked, Loaded
  <2>2. r.at = "restoring" => r.before.stamp \in Nat
    BY DEF Types, RoundTypes, Undoing, File
  <2>3. r.at = "downloaded" => r.sub \in Sub
    BY DEF Types, RoundTypes, Loaded
  <2>4. ASSUME r.at = "downloaded", files'[r.sub].there, files'[r.sub].stamp = r.since
        PROVE  files'[r.sub].ver <= r.ver
    <3>1. CASE r.sub = s
      <4>0. files'[r.sub] = f
        BY <3>1 DEF Types, FileTypes
      <4>1. r.since <= clock /\ r.since \in Nat
        BY <2>1, <2>4 DEF Versions, RoundVersions
      <4>2. f.stamp # clock + 1 \/ r' = Resting
        BY <2>0, <2>4, <4>0, <4>1
      <4>3. r.at # "resting" /\ r' # Resting
        BY <1>4, <2>4 DEF Resting
      <4>4. files[s].there /\ f.stamp = files[s].stamp /\ f.ver = files[s].ver
        BY <2>4, <4>0, <4>2, <4>3
      <4> QED BY <2>4, <3>1, <4>0, <4>4 DEF Versions, RoundVersions
    <3>2. CASE r.sub # s
      <4>1. files'[r.sub] = files[r.sub]
        BY <2>3, <2>4, <3>2 DEF Types, FileTypes
      <4> QED BY <2>4, <4>1 DEF Versions, RoundVersions
    <3> QED BY <3>1, <3>2
  <2>5. RoundVersions'
    BY <1>4, <2>0, <2>1, <2>2, <2>4 DEF Versions, RoundVersions
  <2> QED BY <1>1, <2>5 DEF Versions
<1> QED BY <1>3, <1>4

\* Every step keeps the versions.
LEMMA VersionsKept == Types /\ Versions /\ [Next]_vars => Versions'
<1> SUFFICES ASSUME Types, Versions, [Next]_vars PROVE Versions'
    OBVIOUS
<1>0. Types' /\ FileTypes' /\ clock \in Nat /\ panel \in [Link -> [list : List, ver : Nat]]
    BY NextTyped DEF Types, FileTypes
<1>1. ASSUME UNCHANGED <<files, clock, panel>>, u' = u \/ u'.op # "downloaded", r' = r \/ r' = Resting
      PROVE  Versions'
    BY <1>0, <1>1, VersionsStay
<1>2. CASE UserPicks \/ UserGenerates \/ UserRecords \/ UserRestarts
  <2>1. UNCHANGED <<files, clock, panel, r>>
    BY <1>2 DEF UserPicks, UserGenerates, UserRecords, UserRestarts, world
  <2>2. u'.op # "downloaded"
    BY <1>2 DEF UserPicks, UserGenerates, UserRecords, UserRestarts, Idle, Types, UserTypes, Picked
  <2> QED BY <1>1, <2>1, <2>2
<1>3. CASE UserDownloads
  <2>1. UNCHANGED <<files, clock, panel, r>>
    BY <1>3 DEF UserDownloads, world
  <2>2. FileVersions' /\ RoundVersions'
    BY <2>1 DEF Versions, FileVersions, RoundVersions
  <2>3. \E s \in Sub : u'.sub = s /\ u'.ver = panel[LinkOf[s]].ver
    BY <1>3 DEF UserDownloads, Downloaded
  <2>4. UserVersions'
    BY <1>0, <2>1, <2>3, SelectionAssumption DEF UserVersions
  <2> QED BY <2>2, <2>4 DEF Versions
<1>4. CASE UserPublishes
  <2>1. UNCHANGED <<panel, r>> /\ u'.op # "downloaded" /\ u \in Fetched /\ u.op = "downloaded"
    BY <1>4 DEF UserPublishes, world, Idle, Types, UserTypes
  <2>2. \A s \in Targets : s \in Sub /\ LinkOf[s] = LinkOf[u.sub]
    BY <2>1 DEF Targets, There, Fetched
  <2>3. CASE UNCHANGED <<files, clock>>
    BY <1>1, <2>1, <2>3
  <2>4. ASSUME NEW s \in Targets, UNCHANGED clock, ~u.add,
               files' = [files EXCEPT ![s].err = TRUE]
        PROVE  Versions'
    <3>1. s \in There /\ s \in Sub
      BY <2>2, <2>4 DEF Targets, There
    <3>2. files[s] \in File
      BY <3>1, ThereAreFiles DEF Types
    <3> DEFINE f == [files[s] EXCEPT !.err = TRUE]
    <3>3. f.there /\ f.stamp = files[s].stamp /\ f.ver = files[s].ver /\ files[s].there
      BY <3>2 DEF File
    <3>4. f.ver <= panel[LinkOf[s]].ver /\ f.stamp <= clock'
      BY <2>4, <3>1, <3>3 DEF Versions, FileVersions
    <3>5. files' = [files EXCEPT ![s] = f]
      BY <2>4
    <3>6. clock <= clock'
      BY <1>0, <2>4
    <3> HIDE DEF f
    <3> QED BY <1>0, <2>1, <3>1, <3>3, <3>4, <3>5, <3>6, VersionsWritten
  <2>5. ASSUME NEW s \in Targets, NEW fresh, clock' = clock + 1,
               files' = [files EXCEPT ![s] = Written(fresh, u.ver)]
        PROVE  Versions'
    <3> DEFINE f == Written(fresh, u.ver)
    <3>1. f.ver = u.ver /\ f.stamp = clock + 1 /\ s \in Sub
      BY <2>2, <2>5 DEF Written
    <3>2. f.ver <= panel[LinkOf[s]].ver /\ f.stamp <= clock' /\ clock <= clock'
      BY <1>0, <2>1, <2>2, <2>5, <3>1 DEF Versions, UserVersions
    <3> HIDE DEF f
    <3> QED BY <1>0, <2>1, <2>5, <3>1, <3>2, VersionsWritten DEF f
  <2>6. \/ UNCHANGED <<files, clock>>
        \/ \E s \in Targets : ~u.add /\ UNCHANGED clock /\ files' = [files EXCEPT ![s].err = TRUE]
        \/ \E s \in Targets : \E unresolved :
              clock' = clock + 1 /\ files' = [files EXCEPT ![s] = Written(Imported(u.list, unresolved), u.ver)]
    BY <1>4 DEF UserPublishes
  <2> QED BY <2>3, <2>4, <2>5, <2>6
<1>5. CASE UserDeletes
  <2>1. PICK s \in Sub : files' = [files EXCEPT ![s] = Gone]
    BY <1>5 DEF UserDeletes, There
  <2>2. UNCHANGED <<panel, r, u, clock>> /\ ~Gone.there
    BY <1>5 DEF UserDeletes, world, Gone
  <2>3. clock <= clock'
    BY <1>0, <2>2
  <2> QED BY <1>0, <2>1, <2>2, <2>3, VersionsWritten
<1>6. CASE RoundReads
  <2>1. UNCHANGED <<files, clock, panel, u>>
    BY <1>6 DEF RoundReads, world
  <2>2. FileVersions' /\ UserVersions'
    BY <2>1 DEF Versions, FileVersions, UserVersions
  <2>3. PICK s \in There : r' = [at |-> "reading", sub |-> s, since |-> files[s].stamp]
    BY <1>6 DEF RoundReads
  <2>4. files[s].stamp <= clock
    BY DEF Versions, FileVersions, There
  <2>5. RoundVersions'
    BY <2>1, <2>3, <2>4 DEF RoundVersions
  <2> QED BY <2>2, <2>5 DEF Versions
<1>7. CASE RoundDownloads
  <2>1. UNCHANGED <<files, clock, panel, u>>
    BY <1>7 DEF RoundDownloads, world
  <2>2. FileVersions' /\ UserVersions'
    BY <2>1 DEF Versions, FileVersions, UserVersions
  <2>3. r \in Looked /\ r.since <= clock /\ r.sub \in Sub
    BY <1>7 DEF RoundDownloads, Types, RoundTypes, Looked, Versions, RoundVersions
  <2>4. CASE r' = Resting
    BY <1>1, <2>1, <2>4
  <2>5. CASE r' = [at |-> "failed", sub |-> r.sub, since |-> r.since]
    <3>1. RoundVersions'
      BY <2>1, <2>3, <2>5 DEF RoundVersions
    <3> QED BY <2>2, <3>1 DEF Versions
  <2>6. CASE r' = [at |-> "downloaded", sub |-> r.sub, since |-> r.since,
                   list |-> Downloaded(r.sub).list, ver |-> Downloaded(r.sub).ver]
    <3>1. files[r.sub].there => files[r.sub].ver <= panel[LinkOf[r.sub]].ver
      BY <2>3 DEF Versions, FileVersions
    <3>2. panel[LinkOf[r.sub]].ver \in Nat
      BY <1>0, <2>3, SelectionAssumption
    <3>3. /\ r'.at = "downloaded" /\ r'.sub = r.sub /\ r'.since = r.since
          /\ r'.ver = panel[LinkOf[r.sub]].ver
      BY <2>6 DEF Downloaded
    <3>4. RoundVersions'
      BY <2>1, <2>3, <3>1, <3>2, <3>3 DEF RoundVersions
    <3> QED BY <2>2, <3>4 DEF Versions
  <2> QED BY <1>7, <2>4, <2>5, <2>6 DEF RoundDownloads
<1>8. CASE RoundRecordsError
  <2>1. UNCHANGED <<clock, panel, u>> /\ r' = Resting /\ r.sub \in Sub
    BY <1>8 DEF RoundRecordsError, world, Types, RoundTypes, Looked
  <2>2. CASE files' = files
    BY <1>1, <2>1, <2>2
  <2>3. CASE Unmoved(files[r.sub]) /\ files' = [files EXCEPT ![r.sub].err = TRUE]
    <3>1. files[r.sub] \in File
      BY <2>1, <2>3, ThereAreFiles DEF Types, Unmoved, There
    <3> DEFINE f == [files[r.sub] EXCEPT !.err = TRUE]
    <3>2. f.there /\ f.stamp = files[r.sub].stamp /\ f.ver = files[r.sub].ver /\ files[r.sub].there
      BY <3>1 DEF File
    <3>3. f.ver <= panel[LinkOf[r.sub]].ver /\ f.stamp <= clock' /\ clock <= clock'
      BY <1>0, <2>1, <3>2 DEF Versions, FileVersions
    <3>4. files' = [files EXCEPT ![r.sub] = f]
      BY <2>3
    <3> HIDE DEF f
    <3> QED BY <1>0, <2>1, <3>3, <3>4, VersionsWritten
  <2> QED BY <1>8, <2>2, <2>3 DEF RoundRecordsError
<1>9. CASE RoundPublishes
  <2>1. UNCHANGED <<panel, u>> /\ r \in Loaded /\ r.at = "downloaded"
    BY <1>9 DEF RoundPublishes, world, Types, RoundTypes
  <2>2. r.sub \in Sub /\ r.ver <= panel[LinkOf[r.sub]].ver
    BY <2>1 DEF Loaded, Versions, RoundVersions
  <2> DEFINE f == files[r.sub]
  <2>3. CASE r' = Resting /\ UNCHANGED <<files, clock>>
    BY <1>1, <2>1, <2>3
  <2>4. Unmoved(f) => f \in File /\ f.ver <= panel[LinkOf[r.sub]].ver /\ f.stamp <= clock
    BY <2>2, ThereAreFiles DEF Unmoved, There, Types, Versions, FileVersions
  <2>5. ASSUME Unmoved(f), NEW g \in {[f EXCEPT !.err = TRUE], [f EXCEPT !.ver = r.ver]},
               files' = [files EXCEPT ![r.sub] = g],
               r' = Resting, UNCHANGED clock
        PROVE  Versions'
    <3>1. g.ver <= panel[LinkOf[r.sub]].ver /\ g.stamp <= clock'
      BY <2>2, <2>4, <2>5 DEF File
    <3>2. clock <= clock'
      BY <1>0, <2>5
    <3> QED BY <1>0, <2>1, <2>2, <2>5, <3>1, <3>2, VersionsWritten
  <2>6. ASSUME Unmoved(f), NEW merged, clock' = clock + 1,
               files' = [files EXCEPT ![r.sub] = Written(merged, r.ver)],
               \/ r' = Resting
               \/ r' = [at |-> "restoring", sub |-> r.sub, before |-> f, stamp |-> clock']
        PROVE  Versions'
    <3> DEFINE g == Written(merged, r.ver)
    <3>1. g.ver <= panel[LinkOf[r.sub]].ver /\ g.stamp <= clock' /\ clock <= clock'
      BY <1>0, <2>2, <2>6 DEF Written
    <3> HIDE DEF g
    <3>2. FileVersions' /\ UserVersions'
      BY <1>0, <2>1, <2>2, <2>6, <3>1, FileWritten DEF g
    <3>3. CASE r' = Resting
      BY <3>2, <3>3 DEF Versions, RoundVersions, Resting
    <3>4. CASE r' = [at |-> "restoring", sub |-> r.sub, before |-> f, stamp |-> clock']
      <4>1. f.stamp \in Nat
        BY <2>4, <2>6 DEF File
      <4>2. RoundVersions'
        BY <1>0, <2>1, <2>4, <2>6, <3>4, <4>1 DEF RoundVersions
      <4> QED BY <3>2, <4>2 DEF Versions
    <3> QED BY <2>6, <3>3, <3>4
  <2>7. \/ r' = Resting /\ UNCHANGED <<files, clock>>
        \/ /\ Unmoved(f) /\ r' = Resting /\ UNCHANGED clock
           /\ \E g \in {[f EXCEPT !.err = TRUE], [f EXCEPT !.ver = r.ver]} :
                 files' = [files EXCEPT ![r.sub] = g]
        \/ /\ Unmoved(f) /\ clock' = clock + 1
           /\ \E merged : files' = [files EXCEPT ![r.sub] = Written(merged, r.ver)]
           /\ \/ r' = Resting
              \/ r' = [at |-> "restoring", sub |-> r.sub, before |-> f, stamp |-> clock']
    BY <1>9 DEF RoundPublishes
  <2> QED BY <2>3, <2>5, <2>6, <2>7
<1>10. CASE RoundRestores
  <2>1. UNCHANGED <<panel, u, clock>> /\ r' = Resting /\ r \in Undoing /\ r.at = "restoring"
    BY <1>10 DEF RoundRestores, world, Types, RoundTypes
  <2>2. r.sub \in Sub /\ r.before.ver <= panel[LinkOf[r.sub]].ver /\ r.before.stamp <= clock
    BY <2>1 DEF Undoing, Versions, RoundVersions
  <2>3. CASE files' = files
    BY <1>1, <2>1, <2>3
  <2>4. CASE files' = [files EXCEPT ![r.sub] = r.before]
    <3>1. clock <= clock' /\ r.before.stamp <= clock'
      BY <1>0, <2>1, <2>2
    <3> QED BY <1>0, <2>1, <2>2, <2>4, <3>1, VersionsWritten
  <2> QED BY <1>10, <2>3, <2>4 DEF RoundRestores
<1>11. CASE Quiet
    BY <1>1, <1>11, QuietSteps DEF world
<1>12. CASE Tick \/ WatchGenerates \/ WatchRecords \/ WatchRestarts \/ KeeperElapses \/ WorldChanges
    BY <1>1, <1>12 DEF Tick, WatchGenerates, WatchRecords, WatchRestarts, KeeperElapses, WorldChanges, world
<1>13. CASE WatchdRestarts
    BY <1>1, <1>13 DEF WatchdRestarts, world
<1>14. CASE PanelChanges
  <2>1. UNCHANGED <<files, clock, u, r>>
    BY <1>14 DEF PanelChanges
  <2>2. PICK l \in Link, new \in List : panel' = [panel EXCEPT ![l].list = new, ![l].ver = @ + 1]
    BY <1>14, PanelStep DEF Types
  <2>3. \A k \in Link : panel[k].ver <= panel'[k].ver
    BY <1>0, <2>2
  <2> QED BY <1>0, <2>1, <2>3, VersionsStay
<1>15. CASE UNCHANGED vars
    BY <1>1, <1>15 DEF vars
<1> QED BY <1>2, <1>3, <1>4, <1>5, <1>6, <1>7, <1>8, <1>9, <1>10, <1>11, <1>12, <1>13, <1>14, <1>15
    DEF Next, User, Round, Watch, World, Quiet

LEMMA Versioned == Spec => [](Types /\ Versions)
<1>1. Init => Types /\ Versions
  <2> SUFFICES ASSUME Init PROVE Types /\ Versions
    OBVIOUS
  <2>1. \A s \in Sub : files[s].there => files[s].ver = 0 /\ files[s].stamp = 0
    BY DEF Init, Unused
  <2>2. \A s \in Sub : panel[LinkOf[s]].ver = 0
    BY SelectionAssumption DEF Init
  <2>3. FileVersions
    BY <2>1, <2>2 DEF FileVersions, Init
  <2>4. UserVersions /\ RoundVersions
    BY DEF UserVersions, RoundVersions, Init, Idle, Resting
  <2> QED BY <2>3, <2>4, InitTyped DEF Versions
<1>2. (Types /\ Versions) /\ [Next]_vars => (Types /\ Versions)'
    BY NextTyped, VersionsKept
<1> QED BY <1>1, <1>2, PTL DEF Spec

\* A round of the periodic refresh that publishes, however long ago it
\* downloaded, and whatever the user published or deleted meanwhile, leaves every
\* file at a list no older than the one it replaces.
THEOREM RefreshIsForward == Spec => NewerListStands
<1> DEFINE Forward == \A s \in Sub : r.at = "downloaded" /\ r' # r /\ files[s] # files'[s]
                                      => files'[s].ver >= files[s].ver
<1>1. ASSUME Types, Versions, [Next]_vars PROVE Forward
  <2> SUFFICES ASSUME NEW s \in Sub, r.at = "downloaded", r' # r, files[s] # files'[s]
               PROVE  files'[s].ver >= files[s].ver
    OBVIOUS
  <2>1. ~User /\ ~PanelChanges /\ ~WorldChanges /\ ~UNCHANGED vars
    BY DEF User, UserPicks, UserGenerates, UserRecords, UserRestarts, UserDownloads, UserPublishes,
           UserDeletes, PanelChanges, WorldChanges, vars
  <2>2. ~(RoundReads \/ RoundDownloads \/ RoundRecordsError \/ RoundRestores \/ WatchdRestarts)
    BY DEF RoundReads, RoundDownloads, RoundRecordsError, RoundRestores, WatchdRestarts, Resting
  <2>3. ~(Tick \/ WatchGenerates \/ WatchRecords \/ WatchRestarts \/ KeeperElapses \/ Quiet)
    BY <1>1, QuietSteps DEF Tick, WatchGenerates, WatchRecords, WatchRestarts, KeeperElapses
  <2>4. RoundPublishes
    BY <1>1, <2>1, <2>2, <2>3 DEF Next, Round, Watch, World, Quiet
  <2> DEFINE f == files[r.sub]
  <2>5. r \in Loaded /\ r.sub \in Sub
    BY <1>1 DEF Types, RoundTypes, Loaded
  <2>6. Unmoved(f) /\ \E g : /\ files' = [files EXCEPT ![r.sub] = g]
                             /\ g = [f EXCEPT !.err = TRUE] \/ g = [f EXCEPT !.ver = r.ver]
                                \/ \E merged : g = Written(merged, r.ver)
    BY <2>4 DEF RoundPublishes
  <2>7. f \in File /\ f.ver <= r.ver
    BY <1>1, <2>5, <2>6, ThereAreFiles DEF Unmoved, There, Types, Versions, RoundVersions
  <2>8. s = r.sub
    BY <1>1, <2>6 DEF Types, FileTypes
  <2>9. files'[s].ver = f.ver \/ files'[s].ver = r.ver
    <3>1. PICK g : /\ files' = [files EXCEPT ![r.sub] = g]
                   /\ g = [f EXCEPT !.err = TRUE] \/ g = [f EXCEPT !.ver = r.ver]
                      \/ \E merged : g = Written(merged, r.ver)
      BY <2>6
    <3>2. files'[s] = g
      BY <1>1, <2>8, <3>1 DEF Types, FileTypes
    <3>3. g.ver = f.ver \/ g.ver = r.ver
      <4>1. CASE g = [f EXCEPT !.err = TRUE] \/ g = [f EXCEPT !.ver = r.ver]
        BY <2>7, <4>1 DEF File
      <4>2. ASSUME NEW merged, g = Written(merged, r.ver) PROVE g.ver = r.ver
        BY <4>2 DEF Written
      <4> QED BY <3>1, <4>1, <4>2
    <3> QED BY <3>2, <3>3
  <2>10. f.ver \in Nat /\ r.ver \in Nat
    BY <2>5, <2>7 DEF File, Loaded
  <2> QED BY <2>7, <2>8, <2>9, <2>10
<1>2. (Types /\ Versions) /\ [Next]_vars => [Forward]_vars
    BY <1>1
<1> HIDE DEF Forward
<1>3. Spec => [][Forward]_vars
    BY <1>2, Versioned, PTL DEF Spec
<1> QED BY <1>3 DEF NewerListStands, Forward

=============================================================================

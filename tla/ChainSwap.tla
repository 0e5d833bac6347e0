------------------------------ MODULE ChainSwap ------------------------------
(***************************************************************************)
(* swap_fw_chain (lib/firewall.sh): how XRAY_TPROXY and TUN_DIR are        *)
(* rebuilt.  The rules go into a second chain <chain>_NEW, the PREROUTING  *)
(* jumps move over to it, the old chain goes, and the new one takes its    *)
(* name.  One action is one iptables command (a purge, one batch of them). *)
(*                                                                         *)
(* Any command may be refused (a busy xtables lock), the script may be     *)
(* killed between any two, and the firmware may flush the whole table.     *)
(* The lock of vpn-director.sh leaves a single swap running at a time.     *)
(***************************************************************************)
EXTENDS Naturals, FiniteSets

CONSTANTS
    Iface,       \* LAN interfaces: each has its own jump
    Nil,         \* an absent chain; the result of a swap that was killed
    MaxFaults    \* bound on refused commands, kills and flushes

Name == {"live", "shadow"}        \* <chain> and <chain>_NEW

\* The rules of a chain, in the two halves in which they are added: a flush may
\* come between them.
Half == {"head", "tail"}

\* "current": built by the latest swap, from its configuration.
Content == [rules : SUBSET Half, current : BOOLEAN]

Empty == [rules |-> {}, current |-> TRUE]

Step == {"idle", "check", "drop", "create", "build", "buildTail", "discard", "position",
         "insert", "purgeMoved", "purgeAll", "verify", "flushOld", "deleteOld", "rename"}

Result == {0, 1, 2, 3}

ASSUME SwapConstants ==
    /\ Iface # {}
    /\ Nil \notin Content
    /\ Nil \notin Result
    /\ MaxFaults \in Nat

VARIABLES
    chain,       \* the two chains of the table
    jump,        \* the chains PREROUTING jumps to, by interface; "shadow" comes first
    pc,          \* the running swap
    lan,         \* the interfaces it was called for
    todo,        \* those the cutover has not come to yet
    moved,       \* those on <chain>_NEW
    finishing,   \* is this the cutover an interrupted swap left?
    buildRc,     \* what build_fn returned
    rc,          \* what the last swap returned
    faults,      \* refusals, kills and flushes so far
    clean        \* ghost: no flush since the swap began

vars == <<chain, jump, pc, lan, todo, moved, finishing, buildRc, rc, faults, clean>>

-----------------------------------------------------------------------------
(* Helpers                                                                 *)

Fault == faults < MaxFaults /\ faults' = faults + 1

Fine == UNCHANGED faults

Goto(step) == pc' = step /\ UNCHANGED rc

Return(code) == pc' = "idle" /\ rc' = code

Emptied(c) == IF c = Nil THEN Nil ELSE [c EXCEPT !.rules = {}]

JumpedTo(name) == \E i \in Iface : name \in jump[i]

WithoutJumps(I, name) == [i \in Iface |-> IF i \in I THEN jump[i] \ {name} ELSE jump[i]]

-----------------------------------------------------------------------------
(* swap_fw_chain                                                           *)

Start(ifs) ==
    /\ pc = "idle"
    /\ ifs # {}
    /\ lan' = ifs
    /\ chain' = [n \in Name |-> IF chain[n] = Nil THEN Nil
                                ELSE [chain[n] EXCEPT !.current = FALSE]]
    /\ clean' = TRUE
    /\ pc' = "check"
    /\ rc' = Nil
    /\ todo' = {}
    /\ moved' = {}
    /\ finishing' = FALSE
    /\ buildRc' = 0
    /\ UNCHANGED <<jump, faults>>

\* Begin _fw_chain_cutover.
EnterCutover(fin) ==
    /\ finishing' = fin
    /\ todo' = lan
    /\ moved' = {}

\* Mutant: a cutover an interrupted swap left is never finished.
CheckShadow_NeverFinish ==
    /\ pc = "check"
    /\ \/ chain["shadow"] = Nil /\ Goto("create") /\ Fine
       \/ chain["shadow"] # Nil /\ Goto("create") /\ Fault
       \/ chain["shadow"] # Nil /\ Goto("drop") /\ Fine
    /\ UNCHANGED <<chain, jump, lan, todo, moved, finishing, buildRc, clean>>

\* Is there a <chain>_NEW, and does a jump lead to it?  A failed existence
\* check reads as "no", a failed listing of PREROUTING ends the swap.
CheckShadow ==
    /\ pc = "check"
    /\ \/ /\ chain["shadow"] = Nil
          /\ Goto("create")
          /\ Fine
          /\ UNCHANGED <<todo, moved, finishing>>
       \/ /\ chain["shadow"] # Nil
          /\ \/ Goto("create") /\ Fault /\ UNCHANGED <<todo, moved, finishing>>
             \/ Return(2) /\ Fault /\ UNCHANGED <<todo, moved, finishing>>
             \/ JumpedTo("shadow") /\ Goto("position") /\ Fine /\ EnterCutover(TRUE)
             \/ ~JumpedTo("shadow") /\ Goto("drop") /\ Fine /\ UNCHANGED <<todo, moved, finishing>>
    /\ UNCHANGED <<chain, jump, lan, buildRc, clean>>

\* delete_fw_chain on a <chain>_NEW nothing jumps to: flush, then delete.  Its
\* own existence check may fail, and it then claims success.
DropShadow ==
    /\ pc = "drop"
    /\ \/ /\ ~JumpedTo("shadow")
          /\ chain' = [chain EXCEPT !["shadow"] = Nil]
          /\ Goto("create")
          /\ Fine
       \/ /\ chain' = [chain EXCEPT !["shadow"] = Emptied(chain["shadow"])]
          /\ Return(2)
          /\ IF JumpedTo("shadow") THEN Fine ELSE Fault
       \/ Return(2) /\ Fault /\ UNCHANGED chain
       \/ Goto("create") /\ Fault /\ UNCHANGED chain
    /\ UNCHANGED <<jump, lan, todo, moved, finishing, buildRc, clean>>

\* iptables -N refuses a chain that is there.
CreateShadow ==
    /\ pc = "create"
    /\ \/ /\ chain["shadow"] = Nil
          /\ chain' = [chain EXCEPT !["shadow"] = Empty]
          /\ Goto("build")
          /\ Fine
       \/ /\ chain["shadow"] # Nil
          /\ Return(2)
          /\ Fine
          /\ UNCHANGED chain
       \/ /\ Return(2)
          /\ Fault
          /\ UNCHANGED chain
    /\ UNCHANGED <<jump, lan, todo, moved, finishing, buildRc, clean>>

\* build_fn adds the rules one by one: a flush may come in between.
BuildHead ==
    /\ pc = "build"
    /\ \/ /\ chain' = [chain EXCEPT !["shadow"].rules = chain["shadow"].rules \cup {"head"}]
          /\ Goto("buildTail")
          /\ Fine
       \/ /\ Goto("discard")
          /\ Fault
          /\ UNCHANGED chain
    /\ UNCHANGED <<jump, lan, todo, moved, finishing, buildRc, clean>>

\* What build_fn returns: 0, every rule went in; 1, a rule is missing the chain
\* can do without; 2, the chain must not go in.
BuildTail ==
    /\ pc = "buildTail"
    /\ \/ /\ \E r \in {0, 1} : buildRc' = r /\ IF r = 0 THEN Fine ELSE Fault
          /\ chain' = [chain EXCEPT !["shadow"].rules = chain["shadow"].rules \cup {"tail"}]
          /\ Goto("position")
          /\ EnterCutover(FALSE)
       \/ /\ Goto("discard")
          /\ Fault
          /\ UNCHANGED <<chain, todo, moved, finishing, buildRc>>
    /\ UNCHANGED <<jump, lan, clean>>

DiscardShadow ==
    /\ pc = "discard"
    /\ \/ chain' = [chain EXCEPT !["shadow"] = Nil] /\ Fine
       \/ chain' = [chain EXCEPT !["shadow"] = Emptied(chain["shadow"])] /\ Fault
       \/ UNCHANGED chain /\ Fault
    /\ Return(2)
    /\ UNCHANGED <<jump, lan, todo, moved, finishing, buildRc, clean>>

-----------------------------------------------------------------------------
(* _fw_chain_cutover                                                       *)

Position ==
    /\ pc = "position"
    /\ \/ Goto("insert") /\ Fine
       \/ Return(3) /\ Fault
    /\ UNCHANGED <<chain, jump, lan, todo, moved, finishing, buildRc, clean>>

\* Mutant: the old jump goes first.
InsertJump_BreakFirst(i) ==
    /\ pc = "insert"
    /\ i \in todo
    /\ todo' = todo \ {i}
    /\ \/ /\ jump' = [jump EXCEPT ![i] = {"shadow"}]
          /\ moved' = moved \cup {i}
          /\ Fine
       \/ /\ jump' = [jump EXCEPT ![i] = jump[i] \ {"live"}]
          /\ Fault
          /\ UNCHANGED moved
    /\ UNCHANGED <<chain, pc, lan, finishing, buildRc, rc, clean>>

\* One interface: its jump to <chain>_NEW, ahead of the old one.  After a flush
\* the position read before it may be past the end of PREROUTING.
InsertJump(i) ==
    /\ pc = "insert"
    /\ i \in todo
    /\ todo' = todo \ {i}
    /\ \/ /\ jump' = [jump EXCEPT ![i] = jump[i] \cup {"shadow"}]
          /\ moved' = moved \cup {i}
          /\ Fine
       \/ /\ IF clean THEN Fault ELSE Fine
          /\ UNCHANGED <<jump, moved>>
    /\ UNCHANGED <<chain, pc, lan, finishing, buildRc, rc, clean>>

InsertDone ==
    /\ pc = "insert"
    /\ todo = {}
    /\ Goto(IF moved = lan THEN "purgeAll" ELSE "purgeMoved")
    /\ UNCHANGED <<chain, jump, lan, todo, moved, finishing, buildRc, faults, clean>>

\* A purge deletes the jumps it lists one by one; a refused delete leaves its
\* jump, a failed listing leaves them all.
Purge(I) ==
    \E gone \in SUBSET I :
        /\ jump' = WithoutJumps(gone, "live")
        /\ IF gone = I THEN Fine ELSE Fault

PurgeMoved ==
    /\ pc = "purgeMoved"
    /\ Purge(moved)
    /\ Return(3)
    /\ UNCHANGED <<chain, lan, todo, moved, finishing, buildRc, clean>>

PurgeAll ==
    /\ pc = "purgeAll"
    /\ Purge(Iface)
    /\ Goto("verify")
    /\ UNCHANGED <<chain, lan, todo, moved, finishing, buildRc, clean>>

\* A listing that fails reads as no jump left.
Verify ==
    /\ pc = "verify"
    /\ \/ JumpedTo("live") /\ Return(3) /\ Fine
       \/ ~JumpedTo("live") /\ Goto("flushOld") /\ Fine
       \/ JumpedTo("live") /\ Goto("flushOld") /\ Fault
    /\ UNCHANGED <<chain, jump, lan, todo, moved, finishing, buildRc, clean>>

\* delete_fw_chain <chain>: flush, and then delete; a failed existence check
\* skips both.
FlushOld ==
    /\ pc = "flushOld"
    /\ \/ /\ chain["live"] = Nil
          /\ Goto("rename")
          /\ Fine
          /\ UNCHANGED chain
       \/ /\ chain["live"] # Nil
          /\ \/ chain' = [chain EXCEPT !["live"] = Emptied(chain["live"])] /\ Goto("deleteOld") /\ Fine
             \/ Goto("deleteOld") /\ Fault /\ UNCHANGED chain
             \/ Goto("rename") /\ Fault /\ UNCHANGED chain
    /\ UNCHANGED <<jump, lan, todo, moved, finishing, buildRc, clean>>

\* iptables -X refuses a chain something jumps to, or one with rules in it.
DeleteOld ==
    /\ pc = "deleteOld"
    /\ \/ /\ ~JumpedTo("live")
          /\ chain["live"].rules = {}
          /\ chain' = [chain EXCEPT !["live"] = Nil]
          /\ Goto("rename")
          /\ Fine
       \/ /\ JumpedTo("live") \/ chain["live"].rules # {}
          /\ Return(3)
          /\ Fine
          /\ UNCHANGED chain
       \/ /\ Return(3)
          /\ Fault
          /\ UNCHANGED chain
    /\ UNCHANGED <<jump, lan, todo, moved, finishing, buildRc, clean>>

\* Mutant: the jumps keep the name they were made with.
Rename_JumpsStay ==
    /\ pc = "rename"
    /\ chain["live"] = Nil
    /\ chain' = [n \in Name |-> IF n = "live" THEN chain["shadow"] ELSE Nil]
    /\ IF finishing THEN Goto("create") ELSE Return(buildRc)
    /\ Fine
    /\ UNCHANGED <<jump, lan, todo, moved, finishing, buildRc, clean>>

\* Mutant: a cutover finished for an earlier swap ends this one too.
Rename_FinishingIsEnough ==
    /\ pc = "rename"
    /\ chain["live"] = Nil
    /\ chain' = [n \in Name |-> IF n = "live" THEN chain["shadow"] ELSE Nil]
    /\ jump' = [i \in Iface |-> IF "shadow" \in jump[i] THEN {"live"} ELSE jump[i]]
    /\ Return(0)
    /\ Fine
    /\ UNCHANGED <<lan, todo, moved, finishing, buildRc, clean>>

\* iptables -E: the jumps follow the renamed chain; a taken name is refused.
Rename ==
    /\ pc = "rename"
    /\ \/ /\ chain["live"] = Nil
          /\ chain' = [n \in Name |-> IF n = "live" THEN chain["shadow"] ELSE Nil]
          /\ jump' = [i \in Iface |-> IF "shadow" \in jump[i] THEN {"live"} ELSE jump[i]]
          /\ IF finishing THEN Goto("create") ELSE Return(buildRc)
          /\ Fine
       \/ /\ chain["live"] # Nil
          /\ Return(3)
          /\ Fine
          /\ UNCHANGED <<chain, jump>>
       \/ /\ Return(3)
          /\ Fault
          /\ UNCHANGED <<chain, jump>>
    /\ UNCHANGED <<lan, todo, moved, finishing, buildRc, clean>>

-----------------------------------------------------------------------------
(* The environment                                                         *)

\* The script dies between two commands.
Kill ==
    /\ pc # "idle"
    /\ Return(Nil)
    /\ Fault
    /\ UNCHANGED <<chain, jump, lan, todo, moved, finishing, buildRc, clean>>

\* Asuswrt-Merlin's firewall start: "iptables -t mangle -F" empties every
\* chain, PREROUTING among them, and deletes none.
Flush ==
    /\ chain' = [n \in Name |-> Emptied(chain[n])]
    /\ jump' = [i \in Iface |-> {}]
    /\ clean' = FALSE
    /\ Fault
    /\ UNCHANGED <<pc, lan, todo, moved, finishing, buildRc, rc>>

-----------------------------------------------------------------------------
\* A router on which nothing has been applied yet.
Init ==
    /\ chain = [n \in Name |-> Nil]
    /\ jump = [i \in Iface |-> {}]
    /\ pc = "idle"
    /\ lan = {}
    /\ todo = {}
    /\ moved = {}
    /\ finishing = FALSE
    /\ buildRc = 0
    /\ rc = Nil
    /\ faults = 0
    /\ clean = FALSE

SwapStep ==
    \/ CheckShadow
    \/ DropShadow
    \/ CreateShadow
    \/ BuildHead
    \/ BuildTail
    \/ DiscardShadow
    \/ Position
    \/ \E i \in Iface : InsertJump(i)
    \/ InsertDone
    \/ PurgeMoved
    \/ PurgeAll
    \/ Verify
    \/ FlushOld
    \/ DeleteOld
    \/ Rename

Next ==
    \/ \E ifs \in SUBSET Iface : Start(ifs)
    \/ SwapStep
    \/ Kill
    \/ Flush

Spec == Init /\ [][Next]_vars

\* The script runs on, and applies come again: the hooks and the watch see to
\* that.  Faults are bounded, so fairness meets a router that has calmed down.
FairSpec ==
    /\ Spec
    /\ WF_vars(SwapStep)
    /\ WF_vars(\E ifs \in SUBSET Iface : Start(ifs))

-----------------------------------------------------------------------------
(* Properties                                                              *)

TypeOK ==
    /\ chain \in [Name -> Content \cup {Nil}]
    /\ jump \in [Iface -> SUBSET Name]
    /\ pc \in Step
    /\ lan \in SUBSET Iface
    /\ todo \in SUBSET lan
    /\ moved \in SUBSET lan
    /\ finishing \in BOOLEAN
    /\ buildRc \in Result
    /\ rc \in Result \cup {Nil}
    /\ faults \in 0..MaxFaults
    /\ clean \in BOOLEAN
    /\ \A n \in Name : JumpedTo(n) => chain[n] # Nil

Whole(n) == chain[n] # Nil /\ chain[n].rules = Half

\* A packet of interface i crosses a finished chain.
Carried(i) == \E n \in jump[i] : Whole(n)

\* "No moment in which it is not whole": whatever is refused and wherever the
\* script dies, an interface the swap is for never loses a finished chain.
CarriedStaysCarried ==
    [][Flush \/ \A i \in lan : Carried(i) => Carried(i)']_vars

\* "A <chain>_NEW a jump leads to is what a swap left when it stopped half-way,
\* and it is complete" - a flush may have emptied it since, but then there is
\* no finished chain to lose.
JumpedShadowIsWhole == JumpedTo("shadow") => Whole("shadow") \/ ~Whole("live")

\* A swap that reports success left the chain it built, under its own name, on
\* every interface it was called for and on no other, with nothing left behind:
\* what the hash and the ready markers are written on.
SuccessMeansInstalled ==
    pc = "idle" /\ clean /\ rc \in {0, 1} =>
        /\ chain["live"] = [rules |-> Half, current |-> TRUE]
        /\ chain["shadow"] = Nil
        /\ jump = [i \in Iface |-> IF i \in lan THEN {"live"} ELSE {}]

\* Whatever the failed, killed and flushed swaps left, a later one succeeds.
EventuallyInstalled == []<>(pc = "idle" /\ clean /\ rc = 0)

=============================================================================

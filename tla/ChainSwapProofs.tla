-------------------------- MODULE ChainSwapProofs --------------------------
(***************************************************************************)
(* What ChainSwap promises, for any number of interfaces and of faults.    *)
(***************************************************************************)
EXTENDS ChainSwap, TLAPS

Cutover == {"position", "insert", "purgeMoved", "purgeAll", "verify",
            "flushOld", "deleteOld", "rename"}

Retiring == {"purgeAll", "verify", "flushOld", "deleteOld", "rename"}

-----------------------------------------------------------------------------
(* The inductive invariant                                                 *)

\* The chain being filled is one that nothing jumps to.
OffTheRoad ==
    /\ pc \in {"drop", "build", "buildTail", "discard"} \cup Cutover => chain["shadow"] # Nil
    /\ pc \in {"drop", "build", "buildTail", "discard"} => ~JumpedTo("shadow")
    /\ pc = "deleteOld" => chain["live"] # Nil

\* The chain the jumps move to is finished, unless there is none to lose.
NothingToLose ==
    /\ pc = "buildTail" => "head" \in chain["shadow"].rules \/ ~Whole("live")
    /\ JumpedTo("shadow") \/ pc \in Cutover => Whole("shadow") \/ ~Whole("live")

\* What a flush in the course of the swap leaves.
AfterFlush ==
    pc # "idle" /\ ~clean =>
        /\ ~Whole("live")
        /\ pc \in {"check", "drop", "create"} => ~Whole("shadow")
        /\ finishing /\ pc \in Cutover => ~Whole("shadow")

\* What the cutover knows of the jumps, as long as no flush takes them.
Moves ==
    /\ clean /\ pc \in Cutover => \A i \in moved : "shadow" \in jump[i]
    /\ pc \in Retiring => moved = lan

\* The chain this swap builds, as long as no flush comes.
BuiltHere ==
    clean =>
        /\ pc = "build" => chain["shadow"].current
        /\ pc = "buildTail" => chain["shadow"].current /\ "head" \in chain["shadow"].rules
        /\ pc \in Cutover /\ ~finishing =>
              /\ chain["shadow"] = [rules |-> Half, current |-> TRUE]
              /\ \A i \in Iface : "shadow" \in jump[i] => i \in moved

IndInv ==
    /\ TypeOK
    /\ OffTheRoad
    /\ NothingToLose
    /\ AfterFlush
    /\ Moves
    /\ BuiltHere
    /\ SuccessMeansInstalled

-----------------------------------------------------------------------------
(* The proof                                                               *)

\* The router starts without chains, jumps or swaps.
LEMMA InitInv == Init => IndInv
<1> SUFFICES ASSUME Init PROVE IndInv
  OBVIOUS
<1> USE SwapConstants DEF Init
<1>1. TypeOK
  <2>1. finishing \in BOOLEAN /\ clean \in BOOLEAN
    BY Zenon
  <2>2. faults \in 0..MaxFaults /\ buildRc \in Result /\ pc \in Step /\ rc \in Result \cup {Nil}
    BY DEF Result, Step
  <2>3. chain \in [Name -> Content \cup {Nil}] /\ jump \in [Iface -> SUBSET Name]
    OBVIOUS
  <2>4. lan \in SUBSET Iface /\ todo \in SUBSET lan /\ moved \in SUBSET lan
    OBVIOUS
  <2>5. \A n \in Name : JumpedTo(n) => chain[n] # Nil
    BY DEF JumpedTo
  <2> QED
    BY <2>1, <2>2, <2>3, <2>4, <2>5 DEF TypeOK
<1>2. OffTheRoad /\ NothingToLose /\ AfterFlush
  BY DEF OffTheRoad, NothingToLose, AfterFlush, Name, JumpedTo, Cutover
<1>3. Moves /\ BuiltHere
  BY DEF Moves, BuiltHere, Cutover, Retiring
<1>4. SuccessMeansInstalled
  BY DEF SuccessMeansInstalled, Result
<1> QED
  BY <1>1, <1>2, <1>3, <1>4 DEF IndInv

\* CheckShadow keeps the invariant.
LEMMA CheckShadowInv ==
  ASSUME IndInv, CheckShadow
  PROVE  IndInv'
<1> USE SwapConstants DEF IndInv, CheckShadow, EnterCutover, Fine, Fault, Goto, Return, Emptied
<1>1. TypeOK'
  <2>1. chain' \in [Name -> Content \cup {Nil}]
    BY DEF TypeOK, OffTheRoad, Name, Content, Half, Empty
  <2>2. jump' \in [Iface -> SUBSET Name]
    BY DEF TypeOK, Name
  <2>3. pc' \in Step /\ buildRc' \in Result /\ rc' \in Result \cup {Nil}
    BY DEF TypeOK, Step, Result
  <2>4. lan' \in SUBSET Iface /\ todo' \in SUBSET lan' /\ moved' \in SUBSET lan'
    BY DEF TypeOK
  <2>5. finishing' \in BOOLEAN /\ clean' \in BOOLEAN
    BY Zenon DEF TypeOK
  <2>6. faults' \in 0..MaxFaults
    BY DEF TypeOK
  <2>7. (\A n \in Name : JumpedTo(n) => chain[n] # Nil)'
    BY DEF TypeOK, OffTheRoad, Name, Content, Empty, JumpedTo, Cutover
  <2> QED
    BY <2>1, <2>2, <2>3, <2>4, <2>5, <2>6, <2>7 DEF TypeOK
<1>2. OffTheRoad'
  BY DEF TypeOK, OffTheRoad, Name, Content, Empty, Cutover, JumpedTo
<1>3. NothingToLose'
  BY DEF TypeOK, OffTheRoad, NothingToLose, AfterFlush, Name, Content, Half, Empty, Cutover, JumpedTo, Whole
<1>4. AfterFlush'
  BY DEF TypeOK, OffTheRoad, AfterFlush, Name, Content, Half, Empty, Cutover, JumpedTo, Whole
<1>5. Moves'
  BY DEF TypeOK, Moves, Name, Cutover, Retiring
<1>6. BuiltHere'
  BY DEF TypeOK, OffTheRoad, BuiltHere, Name, Content, Half, Empty, Cutover, JumpedTo
<1>7. SuccessMeansInstalled'
  BY DEF TypeOK, OffTheRoad, Moves, BuiltHere, SuccessMeansInstalled, Name, Content, Half, Cutover, Retiring, JumpedTo, Result
<1> QED
  BY <1>1, <1>2, <1>3, <1>4, <1>5, <1>6, <1>7

\* DropShadow keeps the invariant.
LEMMA DropShadowInv ==
  ASSUME IndInv, DropShadow
  PROVE  IndInv'
<1> USE SwapConstants DEF IndInv, DropShadow, Fine, Fault, Goto, Return, Emptied
<1>1. TypeOK'
  BY DEF TypeOK, OffTheRoad, Name, Content, Half, Empty, Step, Result, JumpedTo
<1>2. OffTheRoad'
  BY DEF TypeOK, OffTheRoad, Name, Content, Empty, Cutover, JumpedTo
<1>3. NothingToLose'
  BY DEF TypeOK, OffTheRoad, NothingToLose, AfterFlush, Name, Content, Half, Empty, Cutover, JumpedTo, Whole
<1>4. AfterFlush'
  BY DEF TypeOK, OffTheRoad, AfterFlush, Name, Content, Half, Empty, Cutover, JumpedTo, Whole
<1>5. Moves'
  BY DEF TypeOK, Moves, Name, Cutover, Retiring
<1>6. BuiltHere'
  BY DEF TypeOK, OffTheRoad, BuiltHere, Name, Content, Half, Empty, Cutover, JumpedTo
<1>7. SuccessMeansInstalled'
  BY DEF TypeOK, OffTheRoad, Moves, BuiltHere, SuccessMeansInstalled, Name, Content, Half, Cutover, Retiring, JumpedTo, Result
<1> QED
  BY <1>1, <1>2, <1>3, <1>4, <1>5, <1>6, <1>7

\* CreateShadow keeps the invariant.
LEMMA CreateShadowInv ==
  ASSUME IndInv, CreateShadow
  PROVE  IndInv'
<1> USE SwapConstants DEF IndInv, CreateShadow, Fine, Fault, Goto, Return, Emptied
<1> DEFINE W == {}
<1>w. W \in SUBSET Half
  OBVIOUS
<1> HIDE DEF W
<1>v. [rules |-> W, current |-> TRUE] \in Content
  BY <1>w DEF Content
<1>0. Empty \in Content /\ Empty # Nil
  BY <1>v DEF Empty, W
<1>1. TypeOK'
  <2>1. chain' \in [Name -> Content \cup {Nil}]
    BY <1>0 DEF TypeOK, Name
  <2>2. jump' \in [Iface -> SUBSET Name]
    BY DEF TypeOK, Name
  <2>3. pc' \in Step /\ buildRc' \in Result /\ rc' \in Result \cup {Nil}
    BY DEF TypeOK, Step, Result
  <2>4. lan' \in SUBSET Iface /\ todo' \in SUBSET lan' /\ moved' \in SUBSET lan'
    BY DEF TypeOK
  <2>5. finishing' \in BOOLEAN /\ clean' \in BOOLEAN
    BY Zenon DEF TypeOK
  <2>6. faults' \in 0..MaxFaults
    BY DEF TypeOK
  <2>7. (\A n \in Name : JumpedTo(n) => chain[n] # Nil)'
    BY DEF TypeOK, OffTheRoad, Name, Content, Empty, JumpedTo, Cutover
  <2> QED
    BY <2>1, <2>2, <2>3, <2>4, <2>5, <2>6, <2>7 DEF TypeOK
<1>2. OffTheRoad'
  BY <1>0 DEF TypeOK, OffTheRoad, Name, Cutover, JumpedTo
<1>3. NothingToLose'
  BY DEF TypeOK, OffTheRoad, NothingToLose, AfterFlush, Name, Content, Half, Empty, Cutover, JumpedTo, Whole
<1>4. AfterFlush'
  BY DEF TypeOK, OffTheRoad, AfterFlush, Name, Content, Half, Empty, Cutover, JumpedTo, Whole
<1>5. Moves'
  BY DEF TypeOK, Moves, Name, Cutover, Retiring
<1>6. BuiltHere'
  BY DEF TypeOK, OffTheRoad, BuiltHere, Name, Content, Half, Empty, Cutover, JumpedTo
<1>7. SuccessMeansInstalled'
  BY DEF TypeOK, OffTheRoad, Moves, BuiltHere, SuccessMeansInstalled, Name, Content, Half, Cutover, Retiring, JumpedTo, Result
<1> QED
  BY <1>1, <1>2, <1>3, <1>4, <1>5, <1>6, <1>7

\* BuildHead keeps the invariant.
LEMMA BuildHeadInv ==
  ASSUME IndInv, BuildHead
  PROVE  IndInv'
<1> USE SwapConstants DEF IndInv, BuildHead, Fine, Fault, Goto, Return, Emptied
<1>a. chain["shadow"] \in Content /\ ~JumpedTo("shadow")
  BY DEF TypeOK, OffTheRoad, Name
<1> DEFINE filled == [chain["shadow"] EXCEPT !.rules = chain["shadow"].rules \cup {"head"}]
<1>b. filled \in Content /\ filled # Nil
  BY <1>a DEF Content, Half
<1>c. chain' = chain \/ chain' = [chain EXCEPT !["shadow"] = filled]
  OBVIOUS
<1> HIDE DEF filled
<1>1. TypeOK'
  BY DEF TypeOK, OffTheRoad, Name, Content, Half, Empty, Step, Result, JumpedTo
<1>2. OffTheRoad'
  BY <1>a, <1>b, <1>c DEF TypeOK, OffTheRoad, Name, Cutover, JumpedTo
<1>3. NothingToLose'
  BY DEF TypeOK, OffTheRoad, NothingToLose, AfterFlush, Name, Content, Half, Empty, Cutover, JumpedTo, Whole
<1>4. AfterFlush'
  BY DEF TypeOK, OffTheRoad, AfterFlush, Name, Content, Half, Empty, Cutover, JumpedTo, Whole
<1>5. Moves'
  BY DEF TypeOK, Moves, Name, Cutover, Retiring
<1>6. BuiltHere'
  BY DEF TypeOK, OffTheRoad, BuiltHere, Name, Content, Half, Empty, Cutover, JumpedTo
<1>7. SuccessMeansInstalled'
  BY DEF TypeOK, OffTheRoad, Moves, BuiltHere, SuccessMeansInstalled, Name, Content, Half, Cutover, Retiring, JumpedTo, Result
<1> QED
  BY <1>1, <1>2, <1>3, <1>4, <1>5, <1>6, <1>7

\* BuildTail keeps the invariant.
LEMMA BuildTailInv ==
  ASSUME IndInv, BuildTail
  PROVE  IndInv'
<1> USE SwapConstants DEF IndInv, BuildTail, EnterCutover, Fine, Fault, Goto, Return, Emptied
<1>a. chain["shadow"] \in Content /\ ~JumpedTo("shadow")
  BY DEF TypeOK, OffTheRoad, Name
<1> DEFINE filled == [chain["shadow"] EXCEPT !.rules = chain["shadow"].rules \cup {"tail"}]
<1>b. filled \in Content /\ filled # Nil
  BY <1>a DEF Content, Half
<1>c. chain' = chain \/ chain' = [chain EXCEPT !["shadow"] = filled]
  OBVIOUS
<1> HIDE DEF filled
<1>1. TypeOK'
  <2>1. chain' \in [Name -> Content \cup {Nil}]
    BY DEF TypeOK, OffTheRoad, Name, Content, Half, Empty
  <2>2. jump' \in [Iface -> SUBSET Name]
    BY DEF TypeOK, Name
  <2>3. pc' \in Step /\ buildRc' \in Result /\ rc' \in Result \cup {Nil}
    BY DEF TypeOK, Step, Result
  <2>4. lan' \in SUBSET Iface /\ todo' \in SUBSET lan' /\ moved' \in SUBSET lan'
    BY DEF TypeOK
  <2>5. finishing' \in BOOLEAN /\ clean' \in BOOLEAN
    BY Zenon DEF TypeOK
  <2>6. faults' \in 0..MaxFaults
    BY DEF TypeOK
  <2>7. (\A n \in Name : JumpedTo(n) => chain[n] # Nil)'
    BY DEF TypeOK, OffTheRoad, Name, Content, Empty, JumpedTo, Cutover
  <2> QED
    BY <2>1, <2>2, <2>3, <2>4, <2>5, <2>6, <2>7 DEF TypeOK
<1>2. OffTheRoad'
  BY <1>a, <1>b, <1>c DEF TypeOK, OffTheRoad, Name, Cutover, JumpedTo
<1>3. NothingToLose'
  BY DEF TypeOK, OffTheRoad, NothingToLose, AfterFlush, Name, Content, Half, Empty, Cutover, JumpedTo, Whole
<1>4. AfterFlush'
  BY DEF TypeOK, OffTheRoad, AfterFlush, Name, Content, Half, Empty, Cutover, JumpedTo, Whole
<1>5. Moves'
  BY DEF TypeOK, Moves, Name, Cutover, Retiring
<1>6. BuiltHere'
  <2>1. CASE pc' = "discard"
    BY <2>1 DEF BuiltHere, Cutover
  <2>2. CASE pc' = "position"
    <3>1. chain' = [chain EXCEPT !["shadow"] = filled]
      BY <2>2 DEF filled
    <3>2. ASSUME clean PROVE filled = [rules |-> Half, current |-> TRUE]
      <4>1. chain["shadow"].current = TRUE /\ "head" \in chain["shadow"].rules
        BY <3>2, <1>a DEF BuiltHere, Content
      <4>2. chain["shadow"].rules \cup {"tail"} = Half
        BY <4>1, <1>a DEF Content, Half
      <4>3. filled.rules = Half /\ filled.current = TRUE
        BY <4>1, <4>2, <1>a DEF filled, Content
      <4> HIDE DEF Half
      <4> QED
        BY <4>3, <1>b DEF Content
    <3> QED
      BY <2>2, <3>1, <3>2, <1>a DEF TypeOK, BuiltHere, Name, JumpedTo
  <2> QED
    BY <2>1, <2>2
<1>7. SuccessMeansInstalled'
  BY DEF TypeOK, OffTheRoad, Moves, BuiltHere, SuccessMeansInstalled, Name, Content, Half, Cutover, Retiring, JumpedTo, Result
<1> QED
  BY <1>1, <1>2, <1>3, <1>4, <1>5, <1>6, <1>7

\* DiscardShadow keeps the invariant.
LEMMA DiscardShadowInv ==
  ASSUME IndInv, DiscardShadow
  PROVE  IndInv'
<1> USE SwapConstants DEF IndInv, DiscardShadow, Fine, Fault, Goto, Return, Emptied
<1>1. TypeOK'
  BY DEF TypeOK, OffTheRoad, Name, Content, Half, Empty, Step, Result, JumpedTo
<1>2. OffTheRoad'
  BY DEF TypeOK, OffTheRoad, Name, Content, Empty, Cutover, JumpedTo
<1>3. NothingToLose'
  BY DEF TypeOK, OffTheRoad, NothingToLose, AfterFlush, Name, Content, Half, Empty, Cutover, JumpedTo, Whole
<1>4. AfterFlush'
  BY DEF TypeOK, OffTheRoad, AfterFlush, Name, Content, Half, Empty, Cutover, JumpedTo, Whole
<1>5. Moves'
  BY DEF TypeOK, Moves, Name, Cutover, Retiring
<1>6. BuiltHere'
  BY DEF TypeOK, OffTheRoad, BuiltHere, Name, Content, Half, Empty, Cutover, JumpedTo
<1>7. SuccessMeansInstalled'
  BY DEF TypeOK, OffTheRoad, Moves, BuiltHere, SuccessMeansInstalled, Name, Content, Half, Cutover, Retiring, JumpedTo, Result
<1> QED
  BY <1>1, <1>2, <1>3, <1>4, <1>5, <1>6, <1>7

\* Position keeps the invariant.
LEMMA PositionInv ==
  ASSUME IndInv, Position
  PROVE  IndInv'
<1> USE SwapConstants DEF IndInv, Position, Fine, Fault, Goto, Return, Emptied
<1>1. TypeOK'
  BY DEF TypeOK, OffTheRoad, Name, Content, Half, Empty, Step, Result, JumpedTo
<1>2. OffTheRoad'
  BY DEF TypeOK, OffTheRoad, Name, Content, Empty, Cutover, JumpedTo
<1>3. NothingToLose'
  BY DEF TypeOK, OffTheRoad, NothingToLose, AfterFlush, Name, Content, Half, Empty, Cutover, JumpedTo, Whole
<1>4. AfterFlush'
  BY DEF TypeOK, OffTheRoad, AfterFlush, Name, Content, Half, Empty, Cutover, JumpedTo, Whole
<1>5. Moves'
  BY DEF TypeOK, Moves, Name, Cutover, Retiring
<1>6. BuiltHere'
  BY DEF TypeOK, OffTheRoad, BuiltHere, Name, Content, Half, Empty, Cutover, JumpedTo
<1>7. SuccessMeansInstalled'
  BY DEF TypeOK, OffTheRoad, Moves, BuiltHere, SuccessMeansInstalled, Name, Content, Half, Cutover, Retiring, JumpedTo, Result
<1> QED
  BY <1>1, <1>2, <1>3, <1>4, <1>5, <1>6, <1>7

\* InsertJump keeps the invariant.
LEMMA InsertJumpInv ==
  ASSUME IndInv, NEW i \in Iface, InsertJump(i)
  PROVE  IndInv'
<1> USE SwapConstants DEF IndInv, InsertJump, Fine, Fault, Goto, Return, Emptied
<1>1. TypeOK'
  <2>1. chain' \in [Name -> Content \cup {Nil}]
    BY DEF TypeOK, OffTheRoad, Name, Content, Half, Empty
  <2>2. jump' \in [Iface -> SUBSET Name]
    BY DEF TypeOK, Name
  <2>3. pc' \in Step /\ buildRc' \in Result /\ rc' \in Result \cup {Nil}
    BY DEF TypeOK, Step, Result
  <2>4. lan' \in SUBSET Iface /\ todo' \in SUBSET lan' /\ moved' \in SUBSET lan'
    BY DEF TypeOK
  <2>5. finishing' \in BOOLEAN /\ clean' \in BOOLEAN
    BY Zenon DEF TypeOK
  <2>6. faults' \in 0..MaxFaults
    BY DEF TypeOK
  <2>7. (\A n \in Name : JumpedTo(n) => chain[n] # Nil)'
    BY DEF TypeOK, OffTheRoad, Name, Content, Empty, JumpedTo, Cutover
  <2> QED
    BY <2>1, <2>2, <2>3, <2>4, <2>5, <2>6, <2>7 DEF TypeOK
<1>2. OffTheRoad'
  BY DEF TypeOK, OffTheRoad, Name, Content, Empty, Cutover, JumpedTo
<1>3. NothingToLose'
  BY DEF TypeOK, OffTheRoad, NothingToLose, AfterFlush, Name, Content, Half, Empty, Cutover, JumpedTo, Whole
<1>4. AfterFlush'
  BY DEF TypeOK, OffTheRoad, AfterFlush, Name, Content, Half, Empty, Cutover, JumpedTo, Whole
<1>5. Moves'
  BY DEF TypeOK, Moves, Name, Cutover, Retiring
<1>6. BuiltHere'
  BY DEF TypeOK, OffTheRoad, BuiltHere, Name, Content, Half, Empty, Cutover, JumpedTo
<1>7. SuccessMeansInstalled'
  BY DEF TypeOK, OffTheRoad, Moves, BuiltHere, SuccessMeansInstalled, Name, Content, Half, Cutover, Retiring, JumpedTo, Result
<1> QED
  BY <1>1, <1>2, <1>3, <1>4, <1>5, <1>6, <1>7

\* InsertDone keeps the invariant.
LEMMA InsertDoneInv ==
  ASSUME IndInv, InsertDone
  PROVE  IndInv'
<1> USE SwapConstants DEF IndInv, InsertDone, Fine, Fault, Goto, Return, Emptied
<1>1. TypeOK'
  BY DEF TypeOK, OffTheRoad, Name, Content, Half, Empty, Step, Result, JumpedTo
<1>2. OffTheRoad'
  BY DEF TypeOK, OffTheRoad, Name, Content, Empty, Cutover, JumpedTo
<1>3. NothingToLose'
  BY DEF TypeOK, OffTheRoad, NothingToLose, AfterFlush, Name, Content, Half, Empty, Cutover, JumpedTo, Whole
<1>4. AfterFlush'
  BY DEF TypeOK, OffTheRoad, AfterFlush, Name, Content, Half, Empty, Cutover, JumpedTo, Whole
<1>5. Moves'
  BY DEF TypeOK, Moves, Name, Cutover, Retiring
<1>6. BuiltHere'
  BY DEF TypeOK, OffTheRoad, BuiltHere, Name, Content, Half, Empty, Cutover, JumpedTo
<1>7. SuccessMeansInstalled'
  BY DEF TypeOK, OffTheRoad, Moves, BuiltHere, SuccessMeansInstalled, Name, Content, Half, Cutover, Retiring, JumpedTo, Result
<1> QED
  BY <1>1, <1>2, <1>3, <1>4, <1>5, <1>6, <1>7

\* PurgeMoved keeps the invariant.
LEMMA PurgeMovedInv ==
  ASSUME IndInv, PurgeMoved
  PROVE  IndInv'
<1> USE SwapConstants DEF IndInv, PurgeMoved, Purge, WithoutJumps, Fine, Fault, Goto, Return, Emptied
<1>1. TypeOK'
  BY DEF TypeOK, OffTheRoad, Name, Content, Half, Empty, Step, Result, JumpedTo
<1>2. OffTheRoad'
  BY DEF TypeOK, OffTheRoad, Name, Content, Empty, Cutover, JumpedTo
<1>3. NothingToLose'
  BY DEF TypeOK, OffTheRoad, NothingToLose, AfterFlush, Name, Content, Half, Empty, Cutover, JumpedTo, Whole
<1>4. AfterFlush'
  BY DEF TypeOK, OffTheRoad, AfterFlush, Name, Content, Half, Empty, Cutover, JumpedTo, Whole
<1>5. Moves'
  BY DEF TypeOK, Moves, Name, Cutover, Retiring
<1>6. BuiltHere'
  BY DEF TypeOK, OffTheRoad, BuiltHere, Name, Content, Half, Empty, Cutover, JumpedTo
<1>7. SuccessMeansInstalled'
  BY DEF TypeOK, OffTheRoad, Moves, BuiltHere, SuccessMeansInstalled, Name, Content, Half, Cutover, Retiring, JumpedTo, Result
<1> QED
  BY <1>1, <1>2, <1>3, <1>4, <1>5, <1>6, <1>7

\* PurgeAll keeps the invariant.
LEMMA PurgeAllInv ==
  ASSUME IndInv, PurgeAll
  PROVE  IndInv'
<1> USE SwapConstants DEF IndInv, PurgeAll, Purge, WithoutJumps, Fine, Fault, Goto, Return, Emptied
<1>1. TypeOK'
  BY DEF TypeOK, OffTheRoad, Name, Content, Half, Empty, Step, Result, JumpedTo
<1>2. OffTheRoad'
  BY DEF TypeOK, OffTheRoad, Name, Content, Empty, Cutover, JumpedTo
<1>3. NothingToLose'
  BY DEF TypeOK, OffTheRoad, NothingToLose, AfterFlush, Name, Content, Half, Empty, Cutover, JumpedTo, Whole
<1>4. AfterFlush'
  BY DEF TypeOK, OffTheRoad, AfterFlush, Name, Content, Half, Empty, Cutover, JumpedTo, Whole
<1>5. Moves'
  BY DEF TypeOK, Moves, Name, Cutover, Retiring
<1>6. BuiltHere'
  BY DEF TypeOK, OffTheRoad, BuiltHere, Name, Content, Half, Empty, Cutover, JumpedTo
<1>7. SuccessMeansInstalled'
  BY DEF TypeOK, OffTheRoad, Moves, BuiltHere, SuccessMeansInstalled, Name, Content, Half, Cutover, Retiring, JumpedTo, Result
<1> QED
  BY <1>1, <1>2, <1>3, <1>4, <1>5, <1>6, <1>7

\* Verify keeps the invariant.
LEMMA VerifyInv ==
  ASSUME IndInv, Verify
  PROVE  IndInv'
<1> USE SwapConstants DEF IndInv, Verify, Fine, Fault, Goto, Return, Emptied
<1>1. TypeOK'
  BY DEF TypeOK, OffTheRoad, Name, Content, Half, Empty, Step, Result, JumpedTo
<1>2. OffTheRoad'
  BY DEF TypeOK, OffTheRoad, Name, Content, Empty, Cutover, JumpedTo
<1>3. NothingToLose'
  BY DEF TypeOK, OffTheRoad, NothingToLose, AfterFlush, Name, Content, Half, Empty, Cutover, JumpedTo, Whole
<1>4. AfterFlush'
  BY DEF TypeOK, OffTheRoad, AfterFlush, Name, Content, Half, Empty, Cutover, JumpedTo, Whole
<1>5. Moves'
  BY DEF TypeOK, Moves, Name, Cutover, Retiring
<1>6. BuiltHere'
  BY DEF TypeOK, OffTheRoad, BuiltHere, Name, Content, Half, Empty, Cutover, JumpedTo
<1>7. SuccessMeansInstalled'
  BY DEF TypeOK, OffTheRoad, Moves, BuiltHere, SuccessMeansInstalled, Name, Content, Half, Cutover, Retiring, JumpedTo, Result
<1> QED
  BY <1>1, <1>2, <1>3, <1>4, <1>5, <1>6, <1>7

\* FlushOld keeps the invariant.
LEMMA FlushOldInv ==
  ASSUME IndInv, FlushOld
  PROVE  IndInv'
<1> USE SwapConstants DEF IndInv, FlushOld, Fine, Fault, Goto, Return, Emptied
<1>1. TypeOK'
  BY DEF TypeOK, OffTheRoad, Name, Content, Half, Empty, Step, Result, JumpedTo
<1>2. OffTheRoad'
  BY DEF TypeOK, OffTheRoad, Name, Content, Empty, Cutover, JumpedTo
<1>3. NothingToLose'
  BY DEF TypeOK, OffTheRoad, NothingToLose, AfterFlush, Name, Content, Half, Empty, Cutover, JumpedTo, Whole
<1>4. AfterFlush'
  BY DEF TypeOK, OffTheRoad, AfterFlush, Name, Content, Half, Empty, Cutover, JumpedTo, Whole
<1>5. Moves'
  BY DEF TypeOK, Moves, Name, Cutover, Retiring
<1>6. BuiltHere'
  BY DEF TypeOK, OffTheRoad, BuiltHere, Name, Content, Half, Empty, Cutover, JumpedTo
<1>7. SuccessMeansInstalled'
  BY DEF TypeOK, OffTheRoad, Moves, BuiltHere, SuccessMeansInstalled, Name, Content, Half, Cutover, Retiring, JumpedTo, Result
<1> QED
  BY <1>1, <1>2, <1>3, <1>4, <1>5, <1>6, <1>7

\* DeleteOld keeps the invariant.
LEMMA DeleteOldInv ==
  ASSUME IndInv, DeleteOld
  PROVE  IndInv'
<1> USE SwapConstants DEF IndInv, DeleteOld, Fine, Fault, Goto, Return, Emptied
<1>1. TypeOK'
  BY DEF TypeOK, OffTheRoad, Name, Content, Half, Empty, Step, Result, JumpedTo
<1>2. OffTheRoad'
  BY DEF TypeOK, OffTheRoad, Name, Content, Empty, Cutover, JumpedTo
<1>3. NothingToLose'
  BY DEF TypeOK, OffTheRoad, NothingToLose, AfterFlush, Name, Content, Half, Empty, Cutover, JumpedTo, Whole
<1>4. AfterFlush'
  BY DEF TypeOK, OffTheRoad, AfterFlush, Name, Content, Half, Empty, Cutover, JumpedTo, Whole
<1>5. Moves'
  BY DEF TypeOK, Moves, Name, Cutover, Retiring
<1>6. BuiltHere'
  BY DEF TypeOK, OffTheRoad, BuiltHere, Name, Content, Half, Empty, Cutover, JumpedTo
<1>7. SuccessMeansInstalled'
  BY DEF TypeOK, OffTheRoad, Moves, BuiltHere, SuccessMeansInstalled, Name, Content, Half, Cutover, Retiring, JumpedTo, Result
<1> QED
  BY <1>1, <1>2, <1>3, <1>4, <1>5, <1>6, <1>7

\* Rename keeps the invariant.
LEMMA RenameInv ==
  ASSUME IndInv, Rename
  PROVE  IndInv'
<1> USE SwapConstants DEF IndInv, Rename, Fine, Fault, Goto, Return, Emptied
<1>1. TypeOK'
  BY DEF TypeOK, OffTheRoad, Name, Content, Half, Empty, Step, Result, JumpedTo
<1>2. OffTheRoad'
  BY DEF TypeOK, OffTheRoad, Name, Content, Empty, Cutover, JumpedTo
<1>3. NothingToLose'
  BY DEF TypeOK, OffTheRoad, NothingToLose, AfterFlush, Name, Content, Half, Empty, Cutover, JumpedTo, Whole
<1>4. AfterFlush'
  BY DEF TypeOK, OffTheRoad, AfterFlush, Name, Content, Half, Empty, Cutover, JumpedTo, Whole
<1>5. Moves'
  BY DEF TypeOK, Moves, Name, Cutover, Retiring
<1>6. BuiltHere'
  BY DEF TypeOK, OffTheRoad, BuiltHere, Name, Content, Half, Empty, Cutover, JumpedTo
<1>7. SuccessMeansInstalled'
  <2>1. CASE rc' = 3
    BY <2>1 DEF SuccessMeansInstalled
  <2>2. CASE rc' # 3 /\ pc' = "idle" /\ clean
    <3>1. chain["live"] = Nil /\ ~finishing
      BY <2>2
    <3>2. chain["shadow"] = [rules |-> Half, current |-> TRUE]
      BY <2>2, <3>1 DEF BuiltHere, Cutover
    <3>3. \A i \in Iface : "shadow" \in jump[i] <=> i \in lan
      BY <2>2, <3>1 DEF BuiltHere, Moves, Cutover, Retiring, TypeOK
    <3>4. \A i \in Iface : i \notin lan => jump[i] = {}
      BY <3>1, <3>3 DEF TypeOK, Name, JumpedTo
    <3>5. chain'["live"] = chain["shadow"] /\ chain'["shadow"] = Nil
      BY <2>2 DEF Name
    <3>6. jump' = [i \in Iface |-> IF i \in lan THEN {"live"} ELSE {}]
      BY <2>2, <3>3, <3>4 DEF TypeOK
    <3>7. lan' = lan
      OBVIOUS
    <3> QED
      BY <3>2, <3>5, <3>6, <3>7 DEF SuccessMeansInstalled
  <2> QED
    BY <2>1, <2>2 DEF SuccessMeansInstalled
<1> QED
  BY <1>1, <1>2, <1>3, <1>4, <1>5, <1>6, <1>7

\* Kill keeps the invariant.
LEMMA KillInv ==
  ASSUME IndInv, Kill
  PROVE  IndInv'
<1> USE SwapConstants DEF IndInv, Kill, Fine, Fault, Goto, Return, Emptied
<1>1. TypeOK'
  BY DEF TypeOK, OffTheRoad, Name, Content, Half, Empty, Step, Result, JumpedTo
<1>2. OffTheRoad'
  BY DEF TypeOK, OffTheRoad, Name, Content, Empty, Cutover, JumpedTo
<1>3. NothingToLose'
  BY DEF TypeOK, OffTheRoad, NothingToLose, AfterFlush, Name, Content, Half, Empty, Cutover, JumpedTo, Whole
<1>4. AfterFlush'
  BY DEF TypeOK, OffTheRoad, AfterFlush, Name, Content, Half, Empty, Cutover, JumpedTo, Whole
<1>5. Moves'
  BY DEF TypeOK, Moves, Name, Cutover, Retiring
<1>6. BuiltHere'
  BY DEF TypeOK, OffTheRoad, BuiltHere, Name, Content, Half, Empty, Cutover, JumpedTo
<1>7. SuccessMeansInstalled'
  BY DEF TypeOK, OffTheRoad, Moves, BuiltHere, SuccessMeansInstalled, Name, Content, Half, Cutover, Retiring, JumpedTo, Result
<1> QED
  BY <1>1, <1>2, <1>3, <1>4, <1>5, <1>6, <1>7

\* Flush keeps the invariant.
LEMMA FlushInv ==
  ASSUME IndInv, Flush
  PROVE  IndInv'
<1> USE SwapConstants DEF IndInv, Flush, Fine, Fault, Goto, Return, Emptied
<1>1. TypeOK'
  <2>1. chain' \in [Name -> Content \cup {Nil}]
    BY DEF TypeOK, OffTheRoad, Name, Content, Half, Empty
  <2>2. jump' \in [Iface -> SUBSET Name]
    BY DEF TypeOK, Name
  <2>3. pc' \in Step /\ buildRc' \in Result /\ rc' \in Result \cup {Nil}
    BY DEF TypeOK, Step, Result
  <2>4. lan' \in SUBSET Iface /\ todo' \in SUBSET lan' /\ moved' \in SUBSET lan'
    BY DEF TypeOK
  <2>5. finishing' \in BOOLEAN /\ clean' \in BOOLEAN
    BY Zenon DEF TypeOK
  <2>6. faults' \in 0..MaxFaults
    BY DEF TypeOK
  <2>7. (\A n \in Name : JumpedTo(n) => chain[n] # Nil)'
    BY DEF TypeOK, OffTheRoad, Name, Content, Empty, JumpedTo, Cutover
  <2> QED
    BY <2>1, <2>2, <2>3, <2>4, <2>5, <2>6, <2>7 DEF TypeOK
<1>2. OffTheRoad'
  BY DEF TypeOK, OffTheRoad, Name, Content, Empty, Cutover, JumpedTo
<1>3. NothingToLose'
  BY DEF TypeOK, OffTheRoad, NothingToLose, AfterFlush, Name, Content, Half, Empty, Cutover, JumpedTo, Whole
<1>4. AfterFlush'
  BY DEF TypeOK, OffTheRoad, AfterFlush, Name, Content, Half, Empty, Cutover, JumpedTo, Whole
<1>5. Moves'
  BY DEF TypeOK, Moves, Name, Cutover, Retiring
<1>6. BuiltHere'
  BY DEF TypeOK, OffTheRoad, BuiltHere, Name, Content, Half, Empty, Cutover, JumpedTo
<1>7. SuccessMeansInstalled'
  BY DEF TypeOK, OffTheRoad, Moves, BuiltHere, SuccessMeansInstalled, Name, Content, Half, Cutover, Retiring, JumpedTo, Result
<1> QED
  BY <1>1, <1>2, <1>3, <1>4, <1>5, <1>6, <1>7

\* Start keeps the invariant.
LEMMA StartInv ==
  ASSUME IndInv, NEW ifs \in SUBSET Iface, Start(ifs)
  PROVE  IndInv'
<1> USE SwapConstants DEF IndInv, Start, Fine, Fault, Goto, Return, Emptied
<1>1. TypeOK'
  <2>1. chain' \in [Name -> Content \cup {Nil}]
    BY ZenonT(40) DEF TypeOK, OffTheRoad, Name, Content, Half, Empty
  <2>2. jump' \in [Iface -> SUBSET Name]
    BY DEF TypeOK, Name
  <2>3. pc' \in Step /\ buildRc' \in Result /\ rc' \in Result \cup {Nil}
    BY DEF TypeOK, Step, Result
  <2>4. lan' \in SUBSET Iface /\ todo' \in SUBSET lan' /\ moved' \in SUBSET lan'
    BY DEF TypeOK
  <2>5. finishing' \in BOOLEAN /\ clean' \in BOOLEAN
    BY Zenon DEF TypeOK
  <2>6. faults' \in 0..MaxFaults
    BY DEF TypeOK
  <2>7. (\A n \in Name : JumpedTo(n) => chain[n] # Nil)'
    <3>1. \A c \in Content : [c EXCEPT !.current = FALSE] \in Content
      BY DEF Content
    <3>2. \A n \in Name : chain[n] # Nil => chain'[n] # Nil
      BY <3>1 DEF TypeOK
    <3> QED
      BY <3>2 DEF TypeOK, JumpedTo
  <2> QED
    BY <2>1, <2>2, <2>3, <2>4, <2>5, <2>6, <2>7 DEF TypeOK
<1>2. OffTheRoad'
  BY DEF TypeOK, OffTheRoad, Name, Content, Empty, Cutover, JumpedTo
<1>3. NothingToLose'
  BY DEF TypeOK, OffTheRoad, NothingToLose, AfterFlush, Name, Content, Half, Empty, Cutover, JumpedTo, Whole
<1>4. AfterFlush'
  BY DEF TypeOK, OffTheRoad, AfterFlush, Name, Content, Half, Empty, Cutover, JumpedTo, Whole
<1>5. Moves'
  BY DEF TypeOK, Moves, Name, Cutover, Retiring
<1>6. BuiltHere'
  BY DEF TypeOK, OffTheRoad, BuiltHere, Name, Content, Half, Empty, Cutover, JumpedTo
<1>7. SuccessMeansInstalled'
  BY DEF TypeOK, OffTheRoad, Moves, BuiltHere, SuccessMeansInstalled, Name, Content, Half, Cutover, Retiring, JumpedTo, Result
<1> QED
  BY <1>1, <1>2, <1>3, <1>4, <1>5, <1>6, <1>7

-----------------------------------------------------------------------------
\* The invariant holds at every step: each command of the swap, the kill and
\* the flush keep it.
THEOREM Invariance == Spec => []IndInv
<1>1. IndInv /\ [Next]_vars => IndInv'
  <2> SUFFICES ASSUME IndInv, [Next]_vars PROVE IndInv'
    OBVIOUS
  <2>1. CASE \E ifs \in SUBSET Iface : Start(ifs)
    BY <2>1, StartInv
  <2>2. CASE \E i \in Iface : InsertJump(i)
    BY <2>2, InsertJumpInv
  <2>3. CASE CheckShadow \/ DropShadow \/ CreateShadow \/ BuildHead \/ BuildTail \/ DiscardShadow
    BY <2>3, CheckShadowInv, DropShadowInv, CreateShadowInv, BuildHeadInv, BuildTailInv,
       DiscardShadowInv
  <2>4. CASE Position \/ InsertDone \/ PurgeMoved \/ PurgeAll
    BY <2>4, PositionInv, InsertDoneInv, PurgeMovedInv, PurgeAllInv
  <2>5. CASE Verify \/ FlushOld \/ DeleteOld \/ Rename
    BY <2>5, VerifyInv, FlushOldInv, DeleteOldInv, RenameInv
  <2>6. CASE Kill \/ Flush
    BY <2>6, KillInv, FlushInv
  <2>7. CASE UNCHANGED vars
    BY <2>7 DEF vars, IndInv, TypeOK, OffTheRoad, NothingToLose, AfterFlush, Moves, BuiltHere,
       SuccessMeansInstalled, JumpedTo, Whole
  <2> QED
    BY <2>1, <2>2, <2>3, <2>4, <2>5, <2>6, <2>7 DEF Next, SwapStep
<1> QED
  BY InitInv, <1>1, PTL DEF Spec

\* swap_fw_chain's chains, jumps and counters keep their types, and no jump
\* leads to a chain that is not there.
THEOREM TypeCorrect == Spec => []TypeOK
  BY Invariance, PTL DEF IndInv

\* "A <chain>_NEW a jump leads to is complete", or there is nothing to lose:
\* what lets swap_fw_chain finish an interrupted cutover without a look inside.
THEOREM JumpedShadowWhole == Spec => []JumpedShadowIsWhole
<1>1. IndInv => JumpedShadowIsWhole
  BY DEF IndInv, NothingToLose, JumpedShadowIsWhole
<1> QED
  BY Invariance, <1>1, PTL

\* swap_fw_chain's 0 and 1 mean what its callers write the apply hash and the
\* ready markers on: the chain it built is the one every interface crosses.
THEOREM SuccessIsInstalled == Spec => []SuccessMeansInstalled
  BY Invariance, PTL DEF IndInv

\* No command of swap_fw_chain, whatever becomes of it, takes a finished chain
\* from an interface the swap is for, and neither does the script's death.
LEMMA CarriedStep ==
  ASSUME IndInv, [Next]_vars, ~Flush, NEW j \in lan, Carried(j)
  PROVE  Carried(j)'
<1> USE DEF Carried, Whole, IndInv, TypeOK, Name, Fine, Fault, Goto, Return, Emptied
<1>1. ASSUME NEW ifs \in SUBSET Iface, Start(ifs) PROVE Carried(j)'
  BY <1>1, SwapConstants, ZenonT(40) DEF Start, Content
<1>2. ASSUME NEW i \in Iface, InsertJump(i) PROVE Carried(j)'
  BY <1>2 DEF InsertJump
<1>3. CASE UNCHANGED <<chain, jump>>
  BY <1>3
<1>4. CASE CheckShadow \/ Position \/ InsertDone \/ Verify \/ Kill
  BY <1>4, <1>3 DEF CheckShadow, Position, InsertDone, Verify, Kill
<1>5. CASE DropShadow \/ DiscardShadow
  BY <1>5 DEF DropShadow, DiscardShadow, OffTheRoad, JumpedTo
<1>6. CASE CreateShadow
  BY <1>6 DEF CreateShadow
<1>7. CASE BuildHead \/ BuildTail
  BY <1>7 DEF BuildHead, BuildTail, OffTheRoad, JumpedTo
<1>8. CASE PurgeMoved \/ PurgeAll
  <2>1. chain' = chain /\ pc \in Cutover /\ (Whole("shadow") \/ ~Whole("live"))
    BY <1>8 DEF PurgeMoved, PurgeAll, Cutover, NothingToLose
  <2>2. CASE "shadow" \in jump[j]
    BY <1>8, <2>1, <2>2 DEF PurgeMoved, PurgeAll, Purge, WithoutJumps
  <2>3. CASE "shadow" \notin jump[j]
    <3>1. "live" \in jump[j] /\ Whole("live")
      BY <2>3
    <3>2. clean
      BY <2>1, <3>1, <1>8 DEF AfterFlush, PurgeMoved, PurgeAll
    <3>3. j \notin moved
      BY <2>1, <2>3, <3>2 DEF Moves
    <3>4. PurgeMoved
      BY <1>8, <3>3 DEF PurgeAll, Moves, Retiring
    <3> QED
      BY <3>1, <3>3, <3>4, <2>1 DEF PurgeMoved, Purge, WithoutJumps
  <2> QED
    BY <2>2, <2>3
<1>9. CASE FlushOld \/ DeleteOld
  <2>1. jump' = jump /\ chain'["shadow"] = chain["shadow"]
    BY <1>9 DEF FlushOld, DeleteOld
  <2>2. CASE "shadow" \in jump[j] /\ Whole("shadow")
    BY <2>1, <2>2
  <2>3. CASE ~("shadow" \in jump[j] /\ Whole("shadow"))
    <3>1. "live" \in jump[j] /\ Whole("live")
      BY <2>3
    <3>2. pc \in Retiring /\ pc \in Cutover /\ pc # "idle"
      BY <1>9 DEF FlushOld, DeleteOld, Retiring, Cutover
    <3>3. clean /\ j \in moved /\ Whole("shadow")
      BY <3>1, <3>2 DEF AfterFlush, Moves, NothingToLose
    <3> QED
      BY <2>3, <3>2, <3>3 DEF Moves
  <2> QED
    BY <2>2, <2>3
<1>10. CASE Rename
  BY <1>10, <1>3 DEF Rename
<1> QED
  BY <1>1, <1>2, <1>3, <1>4, <1>5, <1>6, <1>7, <1>8, <1>9, <1>10 DEF Next, SwapStep, vars

\* "No moment in which it is not whole" (swap_fw_chain): with any number of
\* interfaces, refused commands and deaths of the script, only a flush of the
\* firewall takes a finished chain from an interface.
THEOREM SwapKeepsCarrying == Spec => CarriedStaysCarried
<1>1. IndInv /\ [Next]_vars => [Flush \/ \A i \in lan : Carried(i) => Carried(i)']_vars
  BY CarriedStep
<1> QED
  BY Invariance, <1>1, PTL DEF Spec, CarriedStaysCarried

=============================================================================

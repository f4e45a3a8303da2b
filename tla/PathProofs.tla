----------------------------- MODULE PathProofs -----------------------------
(***************************************************************************)
(* The theorems about paths: about MakePath, which makes the directories   *)
(* of one, for any number of processes and any depth, and about Paths,     *)
(* which takes one apart, for texts of any length.                         *)
(*                                                                         *)
(* MakePath: the inductive invariant says who is ahead of whom.  Who made  *)
(* a level has gone beyond it, so a call that failed at a level has        *)
(* another one ahead of it, and among those that wait or succeeded one is  *)
(* ahead of all that failed.                                               *)
(*                                                                         *)
(* Paths: what is remembered of a text is always what the text says; and   *)
(* the loop of resolved keeps a root, "..", and names it can take away,    *)
(* which lead where the names taken so far lead.                           *)
(***************************************************************************)
EXTENDS MakePath, Paths, WellFoundedInduction, TLAPS

Ahead(p, k) == level[p] > k \/ result[p] = "true"

Shape == \A p \in Proc : /\ pc[p] = "done" <=> result[p] # "none"
                         /\ level[p] <= target[p]

\* What is there is in a directory, which is in a directory, up to the root.
Rooted == \A k, j \in Levels : j < k /\ node[k] # "none" => node[j] = "dir"

\* A process has seen a directory at every level above the one it is on.
Passed == \A p \in Proc, k \in Levels : k < level[p] => node[k] = "dir"

MakersAhead == \A k \in Levels, q \in Proc : maker[k] = q =>
                   node[k] = "dir" /\ Ahead(q, k)

\* What a process that is about to call mkdir may find.
AfterStat == \A p \in Proc : pc[p] = "mkdir" =>
                 \/ node[level[p]] \in Obstacles \cup {"none"}
                 \/ maker[level[p]] \in Proc \ {p}

Clear == \A k \in Levels : node[k] \notin Obstacles

Copied == Proc \ Overlong
Leading(p) == /\ result[p] # "false"
              /\ \A q \in Copied : result[q] = "false" => Ahead(p, level[q])
Leader == Clear /\ Copied # {} => \E p \in Copied : Leading(p)

\* Whose path is refused has made no directory.
Quiet == \A k \in Levels : maker[k] \notin Overlong

IInv == TypeOK /\ Quiet /\ Shape /\ Rooted /\ Passed /\ TrueMeansThere /\ MakersAhead /\ AfterStat
        /\ FalseOnlyIf /\ Leader

-----------------------------------------------------------------------------
\* A step of process p, whichever of the two functions it is in.
Acts(p) == \/ Walk(p) /\ p \in Copied
           \/ Refuse(p) /\ p \in Overlong

\* What such a step is, whichever of its three system calls it makes.
Moves(p) ==
    \/ /\ pc' = [pc EXCEPT ![p] = "stat"]
       /\ \/ level' = level /\ pc[p] = "check"
          \/ level' = [level EXCEPT ![p] = @ + 1] /\ level[p] # target[p]
       /\ result' = result
    \/ /\ pc' = [pc EXCEPT ![p] = "mkdir"]
       /\ pc[p] = "stat"
       /\ UNCHANGED <<level, result>>
    \/ \E answer \in {"true", "false"} : Return(p, answer)

\* The initial states of MakePath have the invariant.
LEMMA InitInv == Init => IInv
<1> SUFFICES ASSUME Init PROVE IInv
  OBVIOUS
<1> USE ProcAssumption, DepthAssumption, TargetAssumption DEF Levels
<1>1. TypeOK
  BY DEF Init, TypeOK, Obstacles
<1>2. /\ Shape /\ Rooted /\ Passed /\ TrueMeansThere /\ MakersAhead /\ AfterStat
      /\ FalseOnlyIf /\ Quiet
  BY DEF Init, Obstacles, Shape, Rooted, Passed, TrueMeansThere, MakersAhead, AfterStat,
         FalseOnlyIf, Quiet
<1>3. Leader
  BY DEF Init, Leader, Leading, Copied
<1> QED BY <1>1, <1>2, <1>3 DEF IInv

\* Every step is a move of one process, or changes nothing.
LEMMA StepMoves ==
    ASSUME TypeOK, [Next]_vars
    PROVE  \/ UNCHANGED vars
           \/ \E p \in Proc : pc[p] # "done" /\ Acts(p) /\ Moves(p)
<1> USE DEF Moves, TypeOK
<1>1. ASSUME NEW p \in Proc, Check(p) PROVE pc[p] # "done" /\ Moves(p)
  BY <1>1 DEF Check, Return
<1>2. ASSUME NEW p \in Proc, Stat(p) PROVE pc[p] # "done" /\ Moves(p)
  BY <1>2 DEF Stat, Advance, Descend, Return
<1>3. ASSUME NEW p \in Proc, Mkdir(p) PROVE pc[p] # "done" /\ Moves(p)
  BY <1>3 DEF Mkdir, Advance, Descend, Return
<1>4. ASSUME NEW p \in Proc, Refuse(p) PROVE pc[p] # "done" /\ Moves(p)
  BY <1>4 DEF Refuse, Return
<1>5. ASSUME NEW p \in Proc, Call(p) PROVE Acts(p)
  BY <1>5, ProcAssumption DEF Call, makePath, CreateDirPath, Acts, Copied
<1> QED BY <1>1, <1>2, <1>3, <1>4, <1>5 DEF Next, Stop, Acts, Walk

\* The process that moves, and all others, only get further.
LEMMA MovesOn ==
    ASSUME TypeOK, Shape, NEW p \in Proc, pc[p] # "done", Moves(p)
    PROVE  /\ pc' \in [Proc -> {"check", "stat", "mkdir", "done"}]
           /\ level' \in [Proc -> Levels]
           /\ result' \in [Proc -> {"none", "true", "false"}]
           /\ Shape'
           /\ \A q \in Proc \ {p} : /\ pc'[q] = pc[q]
                                    /\ level'[q] = level[q]
                                    /\ result'[q] = result[q]
           /\ result[p] = "none"
           /\ level'[p] \in {level[p], level[p] + 1}
           /\ result'[p] # "none" => level'[p] = level[p]
<1> USE TargetAssumption, DepthAssumption DEF Levels, TypeOK, Shape
<1>1. CASE pc' = [pc EXCEPT ![p] = "stat"] /\ result' = result /\ level' = level
  BY <1>1
<1>2. CASE /\ pc' = [pc EXCEPT ![p] = "stat"] /\ result' = result
           /\ level' = [level EXCEPT ![p] = @ + 1] /\ level[p] # target[p]
  <2>1. level[p] + 1 \in 1 .. target[p] /\ target[p] \in Levels
    <3>1. level[p] \in 1 .. Depth /\ target[p] \in 1 .. Depth
      OBVIOUS
    <3>2. level[p] <= target[p] /\ level[p] # target[p]
      BY <1>2
    <3> QED BY <3>1, <3>2
  <2>2. level' \in [Proc -> Levels] /\ level'[p] = level[p] + 1
    BY <1>2, <2>1
  <2> QED BY <1>2, <2>1, <2>2
<1>3. CASE pc' = [pc EXCEPT ![p] = "mkdir"] /\ UNCHANGED <<level, result>>
  BY <1>3
<1>4. CASE \E answer \in {"true", "false"} : Return(p, answer)
  BY <1>4 DEF Return
<1> QED BY <1>1, <1>2, <1>3, <1>4 DEF Moves

\* Who is ahead of a level stays ahead of it.
LEMMA AheadStays ==
    ASSUME TypeOK, Shape, NEW p \in Proc, pc[p] # "done", Moves(p),
           NEW q \in Proc, NEW k \in Levels, Ahead(q, k)
    PROVE  Ahead(q, k)'
<1>1. level'[q] \in {level[q], level[q] + 1}
  BY MovesOn
<1>2. result[q] = "true" => result'[q] = "true"
  BY MovesOn
<1>3. level[q] \in Nat /\ k \in Nat
  BY DepthAssumption DEF TypeOK, Levels
<1> QED BY <1>1, <1>2, <1>3 DEF Ahead

\* Only a mkdir of a level where nothing is changes the path, and who makes
\* it goes on at once.
LEMMA Made ==
    ASSUME TypeOK, Shape, NEW p \in Proc, Acts(p)
    PROVE  \/ UNCHANGED <<node, maker>>
           \/ /\ node[level[p]] = "none"
              /\ node' = [node EXCEPT ![level[p]] = "dir"]
              /\ maker' = [maker EXCEPT ![level[p]] = p]
              /\ level'[p] > level[p] \/ result'[p] = "true"
              /\ result'[p] # "false"
<1>1. CASE Check(p) \/ Stat(p) \/ Refuse(p)
  BY <1>1 DEF Check, Stat, Refuse
<1>2. CASE Mkdir(p)
  <2>1. CASE node[level[p]] # "none"
    BY <1>2, <2>1 DEF Mkdir
  <2>2. CASE node[level[p]] = "none"
    <3>1. level[p] \in Nat /\ level \in [Proc -> Levels]
      BY DepthAssumption DEF TypeOK, Levels
    <3>2. pc[p] # "done" /\ result[p] = "none"
      BY <1>2 DEF Mkdir, Shape, TypeOK
    <3>3. Advance(p)
      BY <1>2, <2>2 DEF Mkdir
    <3>4. (level'[p] > level[p] \/ result'[p] = "true") /\ result'[p] # "false"
      <4>1. CASE Return(p, "true")
        BY <4>1 DEF Return, TypeOK
      <4>2. CASE Descend(p)
        BY <4>2, <3>1, <3>2 DEF Descend
      <4> QED BY <3>3, <4>1, <4>2 DEF Advance
    <3> QED BY <1>2, <2>2, <3>4 DEF Mkdir
  <2> QED BY <2>1, <2>2
<1> QED BY <1>1, <1>2 DEF Acts, Walk
-----------------------------------------------------------------------------
\* One step of a process keeps each part of the invariant.
LEMMA StepTypeOK ==
    ASSUME IInv, NEW p \in Proc, Acts(p), pc[p] # "done", Moves(p)
    PROVE  TypeOK' /\ Shape' /\ Rooted'
<1>1. TypeOK /\ Shape /\ Rooted /\ Passed
  BY DEF IInv
<1>2. level[p] \in Levels
  BY <1>1 DEF TypeOK
<1>3. node' \in [Levels -> {"none", "dir"} \cup Obstacles]
      /\ maker' \in [Levels -> Proc \cup {NoProc}]
  BY <1>1, <1>2, Made DEF TypeOK
<1>4. TypeOK' /\ Shape'
  BY <1>1, <1>3, MovesOn DEF TypeOK
<1>5. Rooted'
  <2>1. CASE UNCHANGED node
    BY <1>1, <2>1 DEF Rooted
  <2>2. CASE node' = [node EXCEPT ![level[p]] = "dir"]
    BY <1>1, <1>2, <2>2 DEF Rooted, Passed, TypeOK
  <2> QED BY <1>1, <2>1, <2>2, Made
<1> QED BY <1>4, <1>5

\* Directories stay, and so do obstacles.
LEMMA NodesStay ==
    ASSUME TypeOK, Shape, NEW p \in Proc, Acts(p), NEW k \in Levels
    PROVE  /\ node[k] = "dir" => node'[k] = "dir"
           /\ node[k] \in Obstacles <=> node'[k] \in Obstacles
           /\ maker[k] \in Proc => maker'[k] = maker[k] \/ node[k] = "none"
<1>1. level[p] \in Levels
  BY DEF TypeOK
<1> QED BY <1>1, Made DEF TypeOK, Obstacles

\* What a process went through stays a directory.
LEMMA StepPassed ==
    ASSUME IInv, NEW p \in Proc, Acts(p), pc[p] # "done", Moves(p)
    PROVE  Passed' /\ TrueMeansThere'
<1>1. TypeOK /\ Shape /\ Rooted /\ Passed /\ TrueMeansThere
  BY DEF IInv
<1>2. level \in [Proc -> Levels] /\ target[p] \in Levels /\ level[p] \in Levels
  BY <1>1, TargetAssumption DEF TypeOK, Levels
<1>3. \A k \in Levels : node[k] = "dir" => node'[k] = "dir"
  BY <1>1, NodesStay
<1>4. ASSUME level'[p] # level[p] PROVE node'[level[p]] = "dir"
  BY <1>1, <1>2, <1>4 DEF Acts, Refuse, Walk, Check, Stat, Mkdir, Advance, Return, Descend, TypeOK
<1>5. ASSUME NEW k \in Levels, result'[p] = "true", k <= target[p]
      PROVE  node'[k] = "dir"
  <2>1. result[p] = "none"
    BY <1>1, MovesOn
  <2>2. CASE Check(p)
    <3>1. node[target[p]] = "dir"
      BY <1>1, <1>5, <2>1, <2>2 DEF Check, TypeOK
    <3>2. k = target[p] \/ k < target[p]
      BY <1>2, <1>5, DepthAssumption DEF Levels
    <3> QED BY <1>1, <1>2, <1>3, <3>1, <3>2 DEF Rooted
  <2>3. CASE Stat(p) \/ Mkdir(p)
    <3>1. level[p] = target[p] /\ node'[level[p]] = "dir"
      BY <1>1, <1>2, <1>5, <2>1, <2>3
      DEF Stat, Mkdir, Advance, Return, Descend, TypeOK
    <3>2. k = level[p] \/ k < level[p]
      BY <1>2, <1>5, <3>1, DepthAssumption DEF Levels
    <3> QED BY <1>1, <1>3, <3>1, <3>2 DEF Passed
  <2>4. CASE Refuse(p)
    BY <1>1, <1>5, <2>4 DEF Refuse, Return, TypeOK
  <2> QED BY <2>2, <2>3, <2>4 DEF Acts, Walk
<1>6. Passed'
  <2> SUFFICES ASSUME NEW q \in Proc, NEW k \in Levels, k < level'[q]
               PROVE  node'[k] = "dir"
    BY DEF Passed
  <2>1. CASE level'[q] = level[q]
    BY <1>1, <1>3, <2>1 DEF Passed
  <2>2. CASE level'[q] # level[q]
    <3>1. q = p /\ level'[p] = level[p] + 1
      BY <1>1, <2>2, MovesOn
    <3>2. k = level[p] \/ k < level[p]
      BY <1>2, <3>1, DepthAssumption DEF Levels
    <3> QED BY <1>1, <1>3, <1>4, <2>2, <3>1, <3>2 DEF Passed
  <2> QED BY <2>1, <2>2
<1>7. TrueMeansThere'
  <2> SUFFICES ASSUME NEW q \in Proc, result'[q] = "true", NEW k \in 1 .. target[q]
               PROVE  node'[k] = "dir"
    BY DEF TrueMeansThere, There
  <2>1. k \in Levels /\ k <= target[q]
    BY TargetAssumption, DepthAssumption DEF Levels
  <2>2. CASE q = p
    BY <1>5, <2>1, <2>2
  <2>3. CASE q # p
    <3>1. result[q] = "true"
      BY <1>1, <2>3, MovesOn
    <3> QED BY <1>1, <1>3, <2>1, <3>1 DEF TrueMeansThere, There
  <2> QED BY <2>2, <2>3
<1> QED BY <1>6, <1>7

\* Who makes a level goes beyond it in the same step.
LEMMA StepMakersAhead ==
    ASSUME IInv, NEW p \in Proc, Acts(p), pc[p] # "done", Moves(p)
    PROVE  MakersAhead'
<1>1. TypeOK /\ Shape /\ MakersAhead
  BY DEF IInv
<1> SUFFICES ASSUME NEW k \in Levels, NEW q \in Proc, maker'[k] = q
             PROVE  node'[k] = "dir" /\ Ahead(q, k)'
  BY DEF MakersAhead
<1>2. CASE maker[k] = q
  <2>1. node[k] = "dir" /\ Ahead(q, k)
    BY <1>1, <1>2 DEF MakersAhead
  <2> QED BY <1>1, <2>1, NodesStay, AheadStays
<1>3. CASE maker[k] # q
  <2>1. k = level[p] /\ q = p /\ node'[k] = "dir"
        /\ (level'[p] > level[p] \/ result'[p] = "true")
    BY <1>1, <1>3, Made DEF TypeOK
  <2> QED BY <2>1 DEF Ahead
<1> QED BY <1>2, <1>3

\* Between its stat and its mkdir the level of a process may only be made by
\* another one; so a call that fails has its cause.
LEMMA StepCauses ==
    ASSUME IInv, NEW p \in Proc, Acts(p), pc[p] # "done", Moves(p)
    PROVE  AfterStat' /\ FalseOnlyIf'
<1>1. TypeOK /\ Shape /\ MakersAhead /\ AfterStat /\ FalseOnlyIf
  BY DEF IInv
<1>2. level[p] \in Levels /\ level[p] \in Nat
  BY <1>1, DepthAssumption DEF TypeOK, Levels
<1>3. ~ Ahead(p, level[p])
  BY <1>1, <1>2, MovesOn DEF Ahead
<1>4. maker[level[p]] # p
  BY <1>1, <1>2, <1>3 DEF MakersAhead
<1>5. ASSUME NEW q \in Proc \ {p}, NEW k \in Levels,
             node[k] \in Obstacles \cup {"none"} \/ maker[k] \in Proc \ {q}
      PROVE  node'[k] \in Obstacles \cup {"none"} \/ maker'[k] \in Proc \ {q}
  BY <1>1, <1>2, <1>5, Made DEF TypeOK
<1>6. ASSUME NEW q \in Proc \ {p}, NEW k \in Levels,
             node[k] \in Obstacles \/ maker[k] \in Proc \ {q}
      PROVE  node'[k] \in Obstacles \/ maker'[k] \in Proc \ {q}
  BY <1>1, <1>2, <1>6, Made DEF TypeOK, Obstacles
<1>7. AfterStat'
  <2> SUFFICES ASSUME NEW q \in Proc, pc'[q] = "mkdir"
               PROVE  \/ node'[level'[q]] \in Obstacles \cup {"none"}
                      \/ maker'[level'[q]] \in Proc \ {q}
    BY DEF AfterStat
  <2>1. CASE q # p
    <3>1. pc[q] = "mkdir" /\ level'[q] = level[q] /\ level[q] \in Levels
      BY <1>1, <2>1, MovesOn DEF TypeOK
    <3> QED BY <1>1, <1>5, <2>1, <3>1 DEF AfterStat
  <2>2. CASE q = p
    <3>1. Stat(p) /\ node[level[p]] # "dir" /\ UNCHANGED <<level, node>>
      BY <1>1, <2>2 DEF Acts, Refuse, Walk, Check, Stat, Mkdir, Advance, Return, Descend, TypeOK
    <3> QED BY <1>1, <1>2, <2>2, <3>1 DEF TypeOK
  <2> QED BY <2>1, <2>2
<1>8. FalseOnlyIf'
  <2> SUFFICES ASSUME NEW q \in Proc, result'[q] = "false", q \notin Overlong
               PROVE  \/ node'[level'[q]] \in Obstacles
                      \/ maker'[level'[q]] \in Proc \ {q}
    BY DEF FalseOnlyIf, Blocked, LostRace
  <2>1. CASE q # p
    <3>1. result[q] = "false" /\ level'[q] = level[q] /\ level[q] \in Levels
      BY <1>1, <2>1, MovesOn DEF TypeOK
    <3> QED BY <1>1, <1>6, <2>1, <3>1 DEF FalseOnlyIf, Blocked, LostRace
  <2>2. CASE q = p
    <3>1. result[p] = "none" /\ Walk(p)
      BY <1>1, <2>2, MovesOn DEF Acts
    <3>2. UNCHANGED <<level, node, maker>>
          /\ (node[level[p]] = "file" \/ (pc[p] = "mkdir" /\ node[level[p]] # "none"))
      BY <1>1, <2>2, <3>1
      DEF Walk, Check, Stat, Mkdir, Advance, Return, Descend, TypeOK
    <3> QED BY <1>1, <2>2, <3>2 DEF AfterStat, Obstacles
  <2> QED BY <2>1, <2>2
<1> QED BY <1>7, <1>8

\* Whose path is refused makes nothing.
LEMMA StepQuiet ==
    ASSUME IInv, NEW p \in Proc, Acts(p)
    PROVE  Quiet'
<1>1. TypeOK /\ Shape /\ Quiet
  BY DEF IInv
<1>2. CASE p \in Copied
  BY <1>1, <1>2, Made DEF Quiet, Copied, TypeOK
<1>3. CASE Refuse(p)
  BY <1>1, <1>3 DEF Refuse, Quiet
<1> QED BY <1>2, <1>3 DEF Acts

\* When the process that leads fails, who made the level it failed on takes
\* the lead; and so it is when another one fails where it is not ahead.
LEMMA StepLeader ==
    ASSUME IInv, NEW p \in Proc, Acts(p), pc[p] # "done", Moves(p)
    PROVE  Leader'
<1>1. TypeOK /\ Shape /\ MakersAhead /\ Leader /\ Quiet
  BY DEF IInv
<1>2. FalseOnlyIf' /\ MakersAhead' /\ TypeOK'
  BY StepCauses, StepMakersAhead, StepTypeOK
<1> SUFFICES ASSUME Clear', Copied # {} PROVE \E q \in Copied : Leading(q)'
  BY DEF Leader, Copied
<1>3. Clear
  BY <1>1, NodesStay DEF Clear
<1>4. PICK l \in Copied : Leading(l)
  BY <1>1, <1>3 DEF Leader
<1>5. /\ \A q \in Proc : level[q] \in Nat /\ level'[q] \in Nat /\ level'[q] \in Levels
      /\ \A q \in Proc \ {p} : level'[q] = level[q] /\ result'[q] = result[q]
      /\ result[p] = "none"
      /\ Copied \subseteq Proc
  BY <1>1, <1>2, MovesOn, DepthAssumption DEF TypeOK, Levels, Copied
<1>6. CASE result'[p] # "false" \/ p \notin Copied
  <2>1. result'[l] # "false"
    BY <1>4, <1>5, <1>6 DEF Leading
  <2>2. ASSUME NEW q \in Copied, result'[q] = "false" PROVE Ahead(l, level[q])'
    <3>1. q # p /\ result[q] = "false" /\ level'[q] = level[q]
      BY <1>5, <1>6, <2>2
    <3>2. Ahead(l, level[q])
      BY <1>4, <3>1 DEF Leading
    <3>3. level'[l] \in {level[l], level[l] + 1} /\ (result[l] = "true" => result'[l] = "true")
      BY <1>1, <1>5, MovesOn
    <3> QED BY <1>5, <3>1, <3>2, <3>3 DEF Ahead
  <2> QED BY <2>1, <2>2 DEF Leading
<1>7. CASE result'[p] = "false" /\ p \in Copied
  <2>1. level'[p] = level[p] /\ level[p] \in Levels
    BY <1>1, <1>7, MovesOn DEF TypeOK
  <2>2. CASE l # p /\ Ahead(l, level[p])
    BY <1>4, <1>5, <1>7, <2>1, <2>2 DEF Leading, Ahead
  <2>3. CASE l = p \/ ~ Ahead(l, level[p])
    <3>1. PICK m \in Proc \ {p} : maker'[level'[p]] = m
      BY <1>2, <1>5, <1>7 DEF FalseOnlyIf, Blocked, LostRace, Clear, Copied
    <3>2. Ahead(m, level[p]) /\ m \in Copied
      <4>1. Ahead(m, level[p])
        BY <1>2, <1>5, <2>1, <3>1 DEF MakersAhead, Ahead
      <4>2. Quiet'
        BY StepQuiet
      <4> QED BY <2>1, <3>1, <4>1, <4>2 DEF Quiet, Copied
    <3>3. \A q \in Copied : result[q] = "false" => level[q] < level[p]
      BY <1>4, <1>5, <2>3 DEF Leading, Ahead
    <3>4. result[m] # "false"
      BY <1>5, <3>2, <3>3 DEF Ahead
    <3>5. ASSUME NEW q \in Copied, result'[q] = "false"
          PROVE  level'[m] > level'[q] \/ result'[m] = "true"
      BY <1>5, <2>1, <3>2, <3>3, <3>5 DEF Ahead
    <3> QED BY <1>5, <3>2, <3>1, <3>4, <3>5 DEF Leading, Ahead
  <2> QED BY <2>2, <2>3
<1> QED BY <1>6, <1>7
-----------------------------------------------------------------------------
\* Every step keeps the invariant.
LEMMA NextInv == IInv /\ [Next]_vars => IInv'
<1> SUFFICES ASSUME IInv, [Next]_vars PROVE IInv'
  OBVIOUS
<1>1. CASE UNCHANGED vars
  BY <1>1 DEF vars, IInv, TypeOK, Quiet, Shape, Rooted, Passed, TrueMeansThere, There,
              MakersAhead, AfterStat, FalseOnlyIf, Blocked, LostRace, Leader, Leading,
              Ahead, Clear, Copied
<1>2. ASSUME NEW p \in Proc, pc[p] # "done", Acts(p), Moves(p) PROVE IInv'
  BY <1>2, StepTypeOK, StepPassed, StepMakersAhead, StepCauses, StepLeader, StepQuiet DEF IInv
<1> QED BY <1>1, <1>2, StepMoves DEF IInv

\* When all have returned, whoever leads has returned true.
LEMMA InvImplies == IInv => SomeoneSucceeds
<1> SUFFICES ASSUME IInv, Returned, Clear, Overlong # Proc
             PROVE  \E p \in Proc : result[p] = "true"
  BY DEF SomeoneSucceeds, Clear
<1>1. Copied # {} /\ Copied \subseteq Proc
  BY ProcAssumption DEF Copied
<1>2. PICK p \in Copied : result[p] # "false"
  BY <1>1 DEF IInv, Leader, Leading
<1>3. p \in Proc /\ result[p] \in {"none", "true", "false"} /\ result[p] # "none"
  BY <1>1 DEF IInv, TypeOK, Shape, Returned
<1> QED BY <1>2, <1>3

\* The inductive invariant of MakePath.
THEOREM Invariance == Spec => []IInv
BY InitInv, NextInv, PTL DEF Spec

\* The members keep their types, for any number of processes and any depth.
THEOREM TypeCorrect == Spec => []TypeOK
<1>1. IInv => TypeOK
  BY DEF IInv
<1> QED BY <1>1, Invariance, PTL

\* A call that returned true has all its directories (makePath, CreateDirPath).
THEOREM TrueIsThere == Spec => []TrueMeansThere
<1>1. IInv => TrueMeansThere
  BY DEF IInv
<1> QED BY <1>1, Invariance, PTL

\* A call that returned false was stopped by something that is no directory, had
\* a path that CreateDirPath does not copy, or lost a race for a directory.
THEOREM FalseIsCaused == Spec => []FalseOnlyIf
<1>1. IInv => FalseOnlyIf
  BY DEF IInv
<1> QED BY <1>1, Invariance, PTL

\* Only a lost race makes makePath and CreateDirPath answer against what
\* FsObject.h:410 documents: true exactly when the path is there.
THEOREM AnswersRight == Spec => []AnswersUnlessRaced
<1>1. ASSUME IInv PROVE AnswersUnlessRaced
  <2> SUFFICES ASSUME NEW p \in Proc
               PROVE  /\ result[p] = "true" => There(p)
                      /\ result[p] = "false" /\ There(p) => p \in Overlong \/ LostRace(p)
    BY DEF AnswersUnlessRaced
  <2>1. TypeOK /\ Shape /\ TrueMeansThere /\ FalseOnlyIf
    BY <1>1 DEF IInv
  <2>2. There(p) => ~ Blocked(p)
    <3>1. level[p] \in 1 .. target[p]
      BY <2>1, TargetAssumption, DepthAssumption DEF TypeOK, Shape, Levels
    <3> QED BY <3>1 DEF There, Blocked, Obstacles
  <2> QED BY <2>1, <2>2 DEF TrueMeansThere, FalseOnlyIf
<1> QED BY <1>1, Invariance, PTL

\* The calls cannot all fail when nothing is in the way: lost races form no cycle.
THEOREM SomeoneWins == Spec => []SomeoneSucceeds
BY Invariance, InvImplies, PTL

-----------------------------------------------------------------------------
\* Induction over the numbers, for a set instead of an operator.
LEMMA SetInduction ==
  ASSUME NEW S, 0 \in S, \A n \in Nat : n \in S => n + 1 \in S
  PROVE  Nat \subseteq S
<1> DEFINE T == Nat \ S
           R == OpToRel(<, Nat)
<1>1. SUFFICES ASSUME T # {} PROVE FALSE
  OBVIOUS
<1>2. IsWellFoundedOn(R, Nat)
  BY NatLessThanWellFounded
<1>3. T \subseteq Nat
  OBVIOUS
<1>4. PICK x \in T : \A y \in T : ~ (<<y, x>> \in R)
  <2> HIDE DEF T, R
  <2> QED BY <1>1, <1>2, <1>3, WFMin
<1>5. x \in Nat /\ x \notin S
  OBVIOUS
<1>6. \A y \in Nat : y < x => y \in S
  BY <1>4 DEF OpToRel
<1> HIDE DEF T, R
<1>7. x # 0 
  BY <1>5
<1>8. x - 1 \in Nat /\ x - 1 < x /\ x - 1 + 1 = x
  BY <1>5, <1>7, SMT
<1> QED 
  BY <1>5, <1>6, <1>8

Iterates(S, a, n, G) ==
    \E f \in [0..n -> S] : f[0] = a /\ \A i \in 1..n : f[i] = G[i, f[i-1]]
\* A function by recursion up to n: it starts at a, and G makes each value of
\* the one before.
LEMMA Recursion ==
  ASSUME NEW S, NEW a \in S, NEW n \in Nat, NEW G \in [(1..n) \X S -> S]
  PROVE  Iterates(S, a, n, G)
<1> DEFINE E(k) == \E f \in [0..k -> S] : f[0] = a /\ \A i \in 1..k : f[i] = G[i, f[i-1]]
           P == {k \in Nat : k <= n => E(k)}
<1>1. E(0)
  <2> DEFINE f == [i \in 0..0 |-> a]
  <2>1. f \in [0..0 -> S]
    OBVIOUS
  <2>2. f[0] = a
    OBVIOUS
  <2>3. \A i \in 1..0 : f[i] = G[i, f[i-1]]
    <3>1. 1..0 = {} BY SMT
    <3> QED BY <3>1
  <2> HIDE DEF f
  <2> QED BY <2>1, <2>2, <2>3
<1>2. ASSUME NEW k \in Nat, k <= n => E(k) PROVE k + 1 <= n => E(k + 1)
  <2>1. SUFFICES ASSUME k + 1 <= n PROVE E(k + 1)
    OBVIOUS
  <2>2. k <= n
    BY <2>1
  <2>3. PICK f \in [0..k -> S] : f[0] = a /\ \A i \in 1..k : f[i] = G[i, f[i-1]]
    BY <2>2, <1>2
  <2>4. f[k] \in S /\ k + 1 \in 1..n 
    BY <2>1
  <2> DEFINE g == G[k + 1, f[k]]
  <2>5. g \in S
    BY <2>4
  <2>g. g = G[k + 1, f[k]]
    OBVIOUS
  <2> HIDE DEF g
  <2> DEFINE h == [i \in 0..(k+1) |-> IF i = k + 1 THEN g ELSE f[i]]
  <2>6. h \in [0..(k+1) -> S]
    BY <2>5
  <2>7. h[0] = a
    <3>1. 0 \in 0..(k+1) /\ 0 # k + 1
      OBVIOUS
    <3> QED BY <3>1, <2>3
  <2>8. ASSUME NEW i \in 1..(k+1) PROVE h[i] = G[i, h[i-1]]
    <3>1. i - 1 \in 0..k /\ i \in 0..(k+1) /\ i - 1 \in 0..(k+1) /\ i - 1 # k + 1
      OBVIOUS
    <3>2. h[i-1] = f[i-1]
      BY <3>1
    <3>3. CASE i = k + 1
      <4>1. h[i] = g
        BY <3>3, <3>1, Zenon
      <4>2. i - 1 = k
        BY <3>3
      <4> QED BY <4>1, <4>2, <3>2, <3>3, <2>g
    <3>4. CASE i # k + 1
      <4>1. h[i] = f[i] /\ i \in 1..k
        BY <3>4
      <4> QED BY <4>1, <3>2, <2>3
    <3> QED BY <3>3, <3>4
  <2> HIDE DEF h
  <2> QED BY <2>6, <2>7, <2>8
<1>3. Nat \subseteq P
  <2> HIDE DEF E
  <2>1. 0 \in P BY <1>1
  <2>2. \A k \in Nat : k \in P => k + 1 \in P BY <1>2
  <2> HIDE DEF P
  <2> QED BY <2>1, <2>2, SetInduction
<1>4. E(n)
  <2> HIDE DEF E
  <2> QED BY <1>3
<1> QED BY <1>4 DEF Iterates

-----------------------------------------------------------------------------
\* A sequence that is not empty is its front and its last element.
LEMMA FrontAndLast ==
  ASSUME NEW S, NEW p \in Seq(S), p # <<>>
  PROVE  /\ Front(p) \in Seq(S) /\ Len(Front(p)) = Len(p) - 1 /\ Last(p) \in S
         /\ Append(Front(p), Last(p)) = p
<1>1. Len(p) \in Nat /\ Len(p) >= 1
  OBVIOUS
<1>2. Front(p) \in Seq(S) /\ Len(Front(p)) = Len(p) - 1
  <2>1. 1 \in 1 .. Len(p) + 1 /\ Len(p) - 1 \in 0 .. Len(p)
    BY <1>1
  <2>2. \A k \in 0 .. Len(p) : SubSeq(p, 1, k) \in Seq(S) /\ Len(SubSeq(p, 1, k)) = k
    BY <1>1
  <2> QED BY <2>1, <2>2 DEF Front
<1>3. Last(p) \in S
  BY <1>1 DEF Last
<1>4. Append(Front(p), Last(p)) = p
  BY <1>1 DEF Front, Last
<1> QED BY <1>2, <1>3, <1>4

\* With one more element, the front is what was there.
LEMMA AppendIs ==
  ASSUME NEW S, NEW q \in Seq(S), NEW x \in S
  PROVE  /\ Append(q, x) \in Seq(S) /\ Append(q, x) # <<>> /\ Len(Append(q, x)) = Len(q) + 1
         /\ Front(Append(q, x)) = q /\ Last(Append(q, x)) = x
<1>1. Append(q, x) \in Seq(S) /\ Len(Append(q, x)) = Len(q) + 1
  OBVIOUS
<1>2. Append(q, x) # <<>>
  <2>1. Len(q) \in Nat /\ Len(<<>>) = 0
    OBVIOUS
  <2> QED BY <1>1, <2>1
<1>3. Last(Append(q, x)) = x
  BY <1>1 DEF Last
<1>4. Front(Append(q, x)) = q
  BY <1>1 DEF Front
<1> QED BY <1>1, <1>2, <1>3, <1>4

\* Where sequences of one element more follow from those of one less, all do.
LEMMA SeqInduction ==
  ASSUME NEW S, NEW A, <<>> \in A, \A q \in Seq(S), x \in S : q \in A => Append(q, x) \in A
  PROVE  Seq(S) \subseteq A
<1> DEFINE N == {n \in Nat : \A q \in Seq(S) : Len(q) = n => q \in A}
<1>1. 0 \in N
  OBVIOUS
<1>2. ASSUME NEW n \in Nat, n \in N PROVE n + 1 \in N
  <2> SUFFICES ASSUME NEW q \in Seq(S), Len(q) = n + 1 PROVE q \in A
    OBVIOUS
  <2>1. q # <<>>
    BY <1>2
  <2>2. Front(q) \in Seq(S) /\ Len(Front(q)) = n /\ Last(q) \in S /\ Append(Front(q), Last(q)) = q
    BY <2>1, FrontAndLast
  <2> QED BY <1>2, <2>2
<1> HIDE DEF N
<1>3. Nat \subseteq N
  BY <1>1, <1>2, SetInduction
<1> QED BY <1>3 DEF N

-----------------------------------------------------------------------------
\* A walk along some names, place by place.
Places(S) == Seq(S) \ {<<>>}
IsWalk(f, S, from, names) ==
    /\ f \in [0 .. Len(names) -> Places(S)]
    /\ f[0] = from
    /\ \A i \in 1 .. Len(names) : f[i] = Step(f[i - 1], names[i])
    /\ Walked(from, names) = f[Len(names)]

\* A step leads to a place.
LEMMA StepIs ==
  ASSUME NEW S, NEW p \in Places(S), NEW x \in S
  PROVE  Step(p, x) \in Places(S)
<1>1. p \in Seq(S) /\ p # <<>> /\ Len(p) \in Nat
  BY DEF Places
<1>2. CASE Len(p) > 1
  <2>1. Front(p) \in Seq(S) /\ Len(Front(p)) > 0
    BY <1>1, <1>2, FrontAndLast
  <2>2. Front(p) # <<>>
    BY <2>1
  <2> QED BY <1>1, <2>1, <2>2, AppendIs DEF Step, Places
<1>3. CASE ~(Len(p) > 1)
  BY <1>1, <1>3, AppendIs DEF Step, Places
<1> QED BY <1>2, <1>3

\* There is such a walk, and it is what Walked computes.
LEMMA WalkIs ==
  ASSUME NEW S, NEW from \in Places(S), NEW names \in Seq(S)
  PROVE  \E f : IsWalk(f, S, from, names)
<1> DEFINE n == Len(names)
           P == Places(S)
           G == [x \in (1 .. n) \X P |-> Step(x[2], names[x[1]])]
           Is(h) == h = [i \in 0 .. n |-> IF i = 0 THEN from ELSE Step(h[i - 1], names[i])]
           a == CHOOSE h : Is(h)
<1>1. n \in Nat /\ \A i \in 1 .. n : names[i] \in S
  OBVIOUS
<1>2. G \in [(1 .. n) \X P -> P]
  <2>1. \A i \in 1 .. n, x \in P : Step(x, names[i]) \in P
    <3> HIDE DEF n
    <3> QED BY <1>1, StepIs
  <2> HIDE DEF P, n
  <2> QED BY <2>1
<1>3. \A i \in 1 .. n, x \in P : G[i, x] = Step(x, names[i])
  OBVIOUS
<1>4. PICK f \in [0 .. n -> P] : f[0] = from /\ \A i \in 1 .. n : f[i] = G[i, f[i - 1]]
  <2>1. Iterates(P, from, n, G)
    <3> HIDE DEF G, n
    <3>1. from \in P
      BY DEF P
    <3> HIDE DEF P
    <3> QED BY <1>1, <1>2, <3>1, Recursion
  <2> QED BY <2>1 DEF Iterates
<1>5. \A i \in 1 .. n : i - 1 \in 0 .. n /\ f[i - 1] \in P
  <2>1. \A i \in 1 .. n : i - 1 \in 0 .. n
    BY <1>1
  <2> HIDE DEF P, n
  <2> QED BY <2>1, <1>4
<1>6. \A i \in 1 .. n : f[i] = Step(f[i - 1], names[i])
  <2> HIDE DEF G, n, P
  <2> QED BY <1>3, <1>4, <1>5
<1>7. Is(f)
  <2> DEFINE h == [i \in 0 .. n |-> IF i = 0 THEN from ELSE Step(f[i - 1], names[i])]
  <2>1. f = [i \in 0 .. n |-> f[i]] /\ h = [i \in 0 .. n |-> h[i]]
    OBVIOUS
  <2>2. \A i \in 0 .. n : h[i] = IF i = 0 THEN from ELSE Step(f[i - 1], names[i])
    OBVIOUS
  <2>3. \A i \in 0 .. n : f[i] = h[i]
    <3>1. \A i \in 0 .. n : i # 0 => i \in 1 .. n
      BY <1>1
    <3> HIDE DEF h, P, n
    <3> QED BY <2>2, <3>1, <1>4, <1>6
  <2>4. f = h
    <3> HIDE DEF h, P, n
    <3> QED BY <2>1, <2>3, Zenon
  <2> QED BY <2>4
<1>8. Is(a)
  <2> HIDE DEF Is
  <2> QED BY <1>7, Zenon DEF a
<1>9. Walked(from, names) = a[n]
  BY DEF Walked
<1>10. a \in [0 .. n -> P] /\ a[0] = from /\ \A i \in 1 .. n : a[i] = Step(a[i - 1], names[i])
  <2>1. a = [i \in 0 .. n |-> IF i = 0 THEN from ELSE Step(a[i - 1], names[i])]
    BY <1>8
  <2> HIDE DEF a, P, n
  <2>2. a[0] = from
    BY <1>1, <2>1
  <2>3. \A i \in 1 .. n : a[i] = Step(a[i - 1], names[i])
    <3>1. \A i \in 1 .. n : i \in 0 .. n /\ i # 0
      BY <1>1
    <3> QED BY <2>1, <3>1
  <2> DEFINE B == {k \in Nat : k <= n => a[k] \in P}
  <2>4. 0 \in B
    BY <2>2 DEF P
  <2>5. ASSUME NEW k \in Nat, k \in B PROVE k + 1 \in B
    <3> SUFFICES ASSUME k + 1 <= n PROVE a[k + 1] \in P
      OBVIOUS
    <3>1. k + 1 \in 1 .. n /\ k + 1 - 1 = k /\ k <= n
      BY <1>1
    <3>2. a[k] \in P /\ a[k + 1] = Step(a[k], names[k + 1]) /\ names[k + 1] \in S
      BY <1>1, <2>3, <2>5, <3>1
    <3> QED BY <3>2, StepIs DEF P
  <2> HIDE DEF B
  <2>6. Nat \subseteq B
    BY <2>4, <2>5, SetInduction
  <2>7. \A k \in 0 .. n : a[k] \in P
    BY <1>1, <2>6 DEF B
  <2> QED BY <2>1, <2>2, <2>3, <2>7
<1> HIDE DEF a
<1> QED BY <1>9, <1>10 DEF IsWalk

\* One name more is one step more.
LEMMA WalkAppend ==
  ASSUME NEW S, NEW from \in Places(S), NEW names \in Seq(S)
  PROVE  /\ Walked(from, names) \in Places(S) /\ Walked(from, <<>>) = from
         /\ \A x \in S : Walked(from, Append(names, x)) = Step(Walked(from, names), x)
<1> DEFINE n == Len(names)
<1>1. PICK f : IsWalk(f, S, from, names)
  BY WalkIs
<1>2. Walked(from, names) \in Places(S)
  BY <1>1 DEF IsWalk
<1>3. Walked(from, <<>>) = from
  <2>1. <<>> \in Seq(S) /\ Len(<<>>) = 0
    OBVIOUS
  <2>2. PICK g : IsWalk(g, S, from, <<>>)
    BY <2>1, WalkIs
  <2> QED BY <2>1, <2>2 DEF IsWalk
<1>4. ASSUME NEW x \in S PROVE Walked(from, Append(names, x)) = Step(Walked(from, names), x)
  <2> DEFINE more == Append(names, x)
  <2>1. more \in Seq(S) /\ Len(more) = n + 1 /\ n \in Nat /\ more[n + 1] = x
        /\ \A i \in 1 .. n : more[i] = names[i]
    OBVIOUS
  <2> HIDE DEF more
  <2>2. PICK g : IsWalk(g, S, from, more)
    BY <2>1, WalkIs
  <2> DEFINE B == {k \in Nat : k <= n => g[k] = f[k]}
  <2>3. 0 \in B
    BY <1>1, <2>2 DEF IsWalk
  <2>4. ASSUME NEW k \in Nat, k \in B PROVE k + 1 \in B
    <3> SUFFICES ASSUME k + 1 <= n PROVE g[k + 1] = f[k + 1]
      OBVIOUS
    <3>1. k + 1 \in 1 .. n /\ k + 1 \in 1 .. Len(more) /\ k + 1 - 1 = k /\ k <= n
      BY <2>1
    <3>2. g[k + 1] = Step(g[k], more[k + 1]) /\ f[k + 1] = Step(f[k], names[k + 1])
      BY <1>1, <2>2, <3>1 DEF IsWalk
    <3> QED BY <2>1, <2>4, <3>1, <3>2
  <2> HIDE DEF B
  <2>5. n \in B
    BY <2>1, <2>3, <2>4, SetInduction
  <2>6. n + 1 \in 1 .. Len(more) /\ n + 1 - 1 = n
    BY <2>1
  <2>7. g[n + 1] = Step(g[n], more[n + 1])
    BY <2>2, <2>6 DEF IsWalk
  <2> QED BY <1>1, <2>1, <2>2, <2>5, <2>7 DEF IsWalk, B, more
<1> QED BY <1>2, <1>3, <1>4


\* A sequence of two.
LEMMA PairIs ==
  ASSUME NEW S, NEW x \in S, NEW y \in S
  PROVE  Append(<<x>>, y) = <<x, y>>
<1> DEFINE a == Append(<<x>>, y)
           b == <<x, y>>
<1>1. <<x>> \in Seq(S) /\ Len(<<x>>) = 1 /\ <<x>>[1] = x
  OBVIOUS
<1>2. a \in Seq(S) /\ Len(a) = 2 /\ a[1] = x /\ a[2] = y
  BY <1>1
<1>3. b \in Seq(S) /\ Len(b) = 2 /\ b[1] = x /\ b[2] = y
  OBVIOUS
<1> HIDE DEF a, b
<1>4. a = b
  BY <1>2, <1>3
<1> QED BY <1>4 DEF a, b

\* One element more at the end of two sequences.
LEMMA ConcatAppend ==
  ASSUME NEW S, NEW a \in Seq(S), NEW b \in Seq(S), NEW x \in S
  PROVE  /\ a \o b \in Seq(S) /\ a \o Append(b, x) = Append(a \o b, x)
         /\ Len(a \o b) = Len(a) + Len(b) /\ a \o <<>> = a /\ <<>> \o a = a
<1>1. a \o b \in Seq(S) /\ Len(a \o b) = Len(a) + Len(b)
  OBVIOUS
<1>2. a \o <<>> = a /\ <<>> \o a = a
  OBVIOUS
<1>3. a \o Append(b, x) = Append(a \o b, x)
  OBVIOUS
<1> QED BY <1>1, <1>2, <1>3

\* Walking along two sequences of names is walking along one after the other.
LEMMA WalkConcat ==
  ASSUME NEW S, NEW from \in Places(S), NEW a \in Seq(S), NEW b \in Seq(S)
  PROVE  Walked(from, a \o b) = Walked(Walked(from, a), b)
<1> DEFINE A == {q \in Seq(S) : Walked(from, a \o q) = Walked(Walked(from, a), q)}
           p == Walked(from, a)
<1>1. p \in Places(S)
  BY WalkAppend
<1>2. <<>> \in A
  <2>1. <<>> \in Seq(S) /\ a \o <<>> = a
    OBVIOUS
  <2>2. Walked(p, <<>>) = p
    BY <1>1, <2>1, WalkAppend
  <2> QED BY <2>1, <2>2
<1>3. ASSUME NEW q \in Seq(S), NEW x \in S, q \in A PROVE Append(q, x) \in A
  <2>1. a \o Append(q, x) = Append(a \o q, x) /\ a \o q \in Seq(S) /\ Append(q, x) \in Seq(S)
    BY ConcatAppend, AppendIs
  <2>2. Walked(from, Append(a \o q, x)) = Step(Walked(from, a \o q), x)
    <3> DEFINE c == a \o q
    <3> HIDE DEF c
    <3>1. c \in Seq(S)
      BY <2>1 DEF c
    <3>2. \A y \in S : Walked(from, Append(c, y)) = Step(Walked(from, c), y)
      BY <3>1, WalkAppend
    <3> QED BY <3>2 DEF c
  <2>3. Walked(p, Append(q, x)) = Step(Walked(p, q), x)
    BY <1>1, WalkAppend
  <2>4. Walked(from, a \o q) = Walked(p, q)
    BY <1>3
  <2> QED BY <2>1, <2>2, <2>3, <2>4
<1> HIDE DEF A
<1>4. b \in A
  BY <1>2, <1>3, SeqInduction
<1> QED BY <1>4 DEF A

-----------------------------------------------------------------------------
\* The texts of any length.
Text == Seq(AnyName) \ {<<>>}

\* A text is its parts, and perhaps a separator.
LEMMA PartsAre ==
  ASSUME NEW text \in Text
  PROVE  /\ Parts(text) \in Seq(AnyName)
         /\ \/ text = Parts(text) /\ Last(text) # Empty
            \/ text = Append(Parts(text), Empty)
         /\ Parts(text) = <<>> => text = <<Empty>>
         /\ Parts(text) # <<>> => Head(Parts(text)) = Head(text)
         /\ Empty \in AnyName /\ text \in Seq(AnyName) /\ text # <<>>
<1>1. text \in Seq(AnyName) /\ text # <<>> /\ Empty \in AnyName
  BY DEF Text, AnyName
<1>2. Front(text) \in Seq(AnyName) /\ Append(Front(text), Last(text)) = text
  BY <1>1, FrontAndLast
<1>3. CASE Last(text) = Empty
  <2>1. Parts(text) = Front(text)
    BY <1>3 DEF Parts
  <2> DEFINE f == Front(text)
  <2> HIDE DEF f
  <2>2. f \in Seq(AnyName) /\ text = Append(f, Empty) /\ Parts(text) = f
    BY <1>2, <1>3, <2>1 DEF f
  <2>3. f = <<>> => text = <<Empty>>
    BY <2>2
  <2>4. f # <<>> => Head(f) = Head(text)
    BY <1>1, <2>2
  <2> QED BY <1>1, <2>2, <2>3, <2>4
<1>4. CASE Last(text) # Empty
  <2>1. Parts(text) = text
    BY <1>4 DEF Parts
  <2> QED BY <1>1, <1>4, <2>1
<1> QED BY <1>3, <1>4

\* A text is absolute when it begins with a separator or a drive.
LEMMA AbsoluteIs ==
  ASSUME NEW text \in Text
  PROVE  Absolute(text) <=> text # <<Empty>> /\ Head(text) \in {Empty, Drive}
<1>1. Parts(text) = <<>> <=> text = <<Empty>>
  <2>1. Empty \in AnyName
    BY DEF AnyName
  <2>2. ASSUME text = <<Empty>> PROVE Parts(text) = <<>>
    BY <2>2 DEF Parts, Last, Front
  <2> QED BY <2>2, PartsAre
<1> QED BY <1>1, PartsAre DEF Absolute

\* The first element of two sequences, and what is behind it.
LEMMA HeadAndTail ==
  ASSUME NEW S, NEW a \in Seq(S), a # <<>>, NEW b \in Seq(S)
  PROVE  /\ Head(a) \in S /\ Tail(a) \in Seq(S) /\ a \o b \in Seq(S) /\ a \o b # <<>>
         /\ Head(a \o b) = Head(a) /\ Tail(a \o b) = Tail(a) \o b
         /\ b # <<>> => Last(a \o b) = Last(b)
<1>1. Head(a) \in S /\ Tail(a) \in Seq(S) /\ a \o b \in Seq(S)
  OBVIOUS
<1>2. Len(a) \in Nat /\ Len(b) \in Nat /\ Len(a) > 0 /\ Len(a \o b) = Len(a) + Len(b)
  OBVIOUS
<1>3. a \o b # <<>>
  <2>1. Len(a \o b) > 0 /\ Len(<<>>) = 0
    BY <1>2
  <2> QED BY <2>1
<1>4. Head(a \o b) = Head(a)
  BY <1>2
<1>5. Tail(a \o b) = Tail(a) \o b
  BY <1>2
<1>6. b # <<>> => Last(a \o b) = Last(b)
  BY <1>2 DEF Last
<1> QED BY <1>1, <1>3, <1>4, <1>5, <1>6

\* An element more is a sequence of one more.
LEMMA AppendConcat ==
  ASSUME NEW S, NEW a \in Seq(S), NEW x \in S
  PROVE  Append(a, x) = a \o <<x>> /\ <<x>> \in Seq(S) /\ <<x>> # <<>>
OBVIOUS

\* A step with a separator or a dot stays.
LEMMA WalkStays ==
  ASSUME NEW S, NEW from \in Places(S), NEW names \in Seq(S), NEW x \in S, x \in {Empty, Dot}
  PROVE  Walked(from, Append(names, x)) = Walked(from, names)
<1>1. Walked(from, Append(names, x)) = Step(Walked(from, names), x)
  BY WalkAppend
<1> QED BY <1>1 DEF Step

\* A separator at the end leads nowhere else.
LEMMA LeadsByParts ==
  ASSUME NEW S, AnyName \subseteq S, NEW from \in Places(S), NEW text \in Text
  PROVE  /\ Leads(from, text) = IF Absolute(text) THEN Walked(<<Head(text)>>, Tail(Parts(text)))
                                ELSE Walked(from, Parts(text))
         /\ Leads(from, text) \in Places(S)
         /\ Absolute(text) => /\ <<Head(text)>> \in Places(S) /\ Tail(Parts(text)) \in Seq(S)
                              /\ Parts(text) # <<>>
         /\ text \in Seq(S) /\ Parts(text) \in Seq(S)
<1> DEFINE p == Parts(text)
<1>1. p \in Seq(AnyName) /\ text \in Seq(AnyName) /\ text # <<>> /\ (text = p \/ text = Append(p, Empty))
      /\ Empty \in AnyName
  BY PartsAre
<1>2. p \in Seq(S) /\ text \in Seq(S) /\ Empty \in S /\ Head(text) \in S
  <2> HIDE DEF p
  <2> QED BY <1>1
<1>3. <<Head(text)>> \in Places(S)
  <2>1. <<Head(text)>> \in Seq(S) /\ <<Head(text)>> # <<>>
    BY <1>2
  <2> QED BY <2>1 DEF Places
<1>4. CASE Absolute(text)
  <2>1. p # <<>>
    BY <1>4 DEF Absolute
  <2> HIDE DEF p
  <2>2. Tail(p) \in Seq(S) /\ (text = p \/ Tail(text) = Append(Tail(p), Empty))
    BY <1>1, <1>2, <2>1
  <2>3. Walked(<<Head(text)>>, Tail(text)) = Walked(<<Head(text)>>, Tail(p))
    <3>1. \A h \in Places(S), q \in Seq(S) : Walked(h, Append(q, Empty)) = Walked(h, q)
      BY <1>2, WalkStays
    <3> HIDE DEF p
    <3>2. CASE Tail(text) = Append(Tail(p), Empty)
      BY <1>3, <2>2, <3>1, <3>2
    <3>3. CASE text = p
      BY <3>3
    <3> QED BY <2>2, <3>2, <3>3
  <2>4. Leads(from, text) = Walked(<<Head(text)>>, Tail(text))
    BY <1>4 DEF Leads
  <2>5. Walked(<<Head(text)>>, Tail(p)) \in Places(S)
    BY <1>3, <2>2, WalkAppend
  <2> QED BY <1>2, <1>3, <1>4, <2>1, <2>2, <2>3, <2>4, <2>5 DEF p
<1>5. CASE ~Absolute(text)
  <2> HIDE DEF p
  <2>1. Walked(from, text) = Walked(from, p)
    <3>1. \A q \in Seq(S) : Walked(from, Append(q, Empty)) = Walked(from, q)
      BY <1>2, WalkStays
    <3> QED BY <1>1, <1>2, <3>1
  <2>2. Leads(from, text) = Walked(from, text)
    BY <1>5 DEF Leads
  <2>3. Walked(from, p) \in Places(S)
    BY <1>2, WalkAppend
  <2> QED BY <1>2, <1>5, <2>1, <2>2, <2>3 DEF p
<1> QED BY <1>4, <1>5

\* The full path is the text without a separator at its end, but for a root.
LEMMA FullPathIs ==
  ASSUME NEW S, AnyName \subseteq S, NEW from \in Places(S), NEW text \in Text, text # <<Empty>>
  PROVE  /\ FullPath(text) \in Seq(AnyName) /\ FullPath(text) # <<>>
         /\ Head(FullPath(text)) = Head(text)
         /\ Absolute(text) => Walked(<<Head(text)>>, Tail(FullPath(text))) = Leads(from, text)
         /\ ~Absolute(text) => Walked(from, FullPath(text)) = Leads(from, text)
<1> DEFINE p == Parts(text)
<1>1. p \in Seq(AnyName) /\ p # <<>> /\ Head(p) = Head(text) /\ Empty \in AnyName
  BY PartsAre
<1>2. Leads(from, text) = IF Absolute(text) THEN Walked(<<Head(text)>>, Tail(p)) ELSE Walked(from, p)
  BY LeadsByParts
<1>3. Absolute(text) => <<Head(text)>> \in Places(S) /\ Tail(p) \in Seq(S)
  BY LeadsByParts
<1>4. FullPath(text) = IF Len(p) = 1 /\ Absolute(text) THEN Append(p, Empty) ELSE p
  BY <1>1 DEF FullPath
<1> HIDE DEF p
<1>5. CASE Len(p) = 1 /\ Absolute(text)
  <2>1. FullPath(text) = Append(p, Empty)
    BY <1>4, <1>5
  <2>2. /\ Append(p, Empty) \in Seq(AnyName) /\ Append(p, Empty) # <<>>
        /\ Head(Append(p, Empty)) = Head(p) /\ Tail(Append(p, Empty)) = Append(Tail(p), Empty)
    BY <1>1, <1>5
  <2>3. Walked(<<Head(text)>>, Append(Tail(p), Empty)) = Walked(<<Head(text)>>, Tail(p))
    BY <1>1, <1>3, <1>5, WalkStays
  <2> QED BY <1>1, <1>2, <1>5, <2>1, <2>2, <2>3
<1>6. CASE ~(Len(p) = 1 /\ Absolute(text))
  BY <1>1, <1>2, <1>4, <1>6
<1> QED BY <1>5, <1>6

\* The places below Here and below roots.
All == AnyName \cup Nat

\* From Here all names of texts lead to places.
LEMMA HereIs == Here \in Places(All) /\ AnyName \subseteq All
<1>1. MaxNames + 2 \in Nat /\ MaxNames + 2 > 0
  BY MaxNamesAssumption
<1>2. Here = [i \in 1 .. MaxNames + 2 |-> IF i = 1 THEN Empty ELSE i]
  BY DEF Here
<1>3. \A i \in 1 .. MaxNames + 2 : (IF i = 1 THEN Empty ELSE i) \in All
  BY DEF All, AnyName
<1> DEFINE m == MaxNames + 2
<1> HIDE DEF m
<1>4. Here \in Seq(All)
  <2>1. m \in Nat /\ Here = [i \in 1 .. m |-> IF i = 1 THEN Empty ELSE i]
        /\ \A i \in 1 .. m : (IF i = 1 THEN Empty ELSE i) \in All
    BY <1>1, <1>2, <1>3 DEF m
  <2> HIDE DEF All, Here
  <2>2. Here \in [1 .. m -> All]
    BY <2>1
  <2> QED BY <2>1, <2>2
<1>5. Here # <<>>
  <2>1. 1 \in DOMAIN Here
    BY <1>1, <1>2
  <2> QED BY <2>1
<1> QED BY <1>4, <1>5 DEF Places, All

\* What resolve gives leads where the argument leads from the path's place, and
\* ends with a separator when the argument does.
ResolvesTo(p, q, r) ==
    /\ Leads(Here, r) = Leads(Leads(Here, p), q)
    /\ ~isEmpty(q) => pointsToContent(r) = pointsToContent(q)

\* An absolute text leads to one place from everywhere.
LEMMA AbsoluteLeads ==
  ASSUME NEW text, Absolute(text), NEW from, NEW other
  PROVE  Leads(from, text) = Leads(other, text)
BY DEF Leads

\* The empty text leads nowhere else.
LEMMA EmptyLeads ==
  ASSUME NEW from \in Places(All)
  PROVE  Leads(from, <<Empty>>) = from /\ <<Empty>> \in Text /\ ~Absolute(<<Empty>>)
<1>1. <<Empty>> \in Text
  BY DEF Text, AnyName
<1>2. ~Absolute(<<Empty>>)
  BY <1>1, AbsoluteIs
<1>3. Parts(<<Empty>>) = <<>>
  BY DEF Parts, Last, Front
<1>4. AnyName \subseteq All
  BY DEF All
<1>5. Leads(from, <<Empty>>) = Walked(from, <<>>)
  BY <1>1, <1>2, <1>3, <1>4, LeadsByParts
<1>6. Walked(from, <<>>) = from
  <2>1. <<>> \in Seq(All)
    OBVIOUS
  <2> QED BY <2>1, WalkAppend
<1> QED BY <1>1, <1>2, <1>5, <1>6

\* The full path with a relative text behind it leads on from where it leads.
LEMMA JoinLeads ==
  ASSUME NEW p \in Text, p # <<Empty>>, NEW q \in Text, ~Absolute(q)
  PROVE  FullPath(p) \o q \in Text /\ ResolvesTo(p, q, FullPath(p) \o q)
<1> DEFINE f == FullPath(p)
           r == f \o q
<1>1. Here \in Places(All) /\ AnyName \subseteq All
  BY HereIs
<1>2. /\ f \in Seq(AnyName) /\ f # <<>> /\ Head(f) = Head(p)
      /\ Absolute(p) => Walked(<<Head(p)>>, Tail(f)) = Leads(Here, p)
      /\ ~Absolute(p) => Walked(Here, f) = Leads(Here, p)
  BY <1>1, FullPathIs
<1>3. q \in Seq(AnyName) /\ q # <<>> /\ p # <<>>
  BY DEF Text
<1> HIDE DEF f
<1>4. /\ r \in Seq(AnyName) /\ r # <<>> /\ Head(r) = Head(p) /\ Tail(r) = Tail(f) \o q
      /\ Last(r) = Last(q) /\ Tail(f) \in Seq(AnyName) /\ f \o q = r
  BY <1>2, <1>3, HeadAndTail
<1>5. r # <<Empty>>
  <2>1. Len(f) >= 1 /\ Len(q) >= 1 /\ Len(r) = Len(f) + Len(q) /\ Len(<<Empty>>) = 1
    BY <1>2, <1>3
  <2> QED BY <2>1
<1> HIDE DEF r
<1>6. r \in Text
  BY <1>4 DEF Text
<1>7. Absolute(r) <=> Absolute(p)
  BY <1>4, <1>5, <1>6, AbsoluteIs
<1>8. \A s \in Seq(AnyName) : s \in Seq(All)
  BY <1>1
<1>9. Leads(Here, r) = Walked(Leads(Here, p), q)
  <2>1. CASE Absolute(p)
    <3>1. <<Head(p)>> \in Places(All)
      BY <1>1, <2>1, LeadsByParts
    <3>2. Leads(Here, r) = Walked(<<Head(p)>>, Tail(f) \o q)
      BY <1>4, <1>7, <2>1 DEF Leads
    <3>3. \A a \in Seq(All), b \in Seq(All) :
              Walked(<<Head(p)>>, a \o b) = Walked(Walked(<<Head(p)>>, a), b)
      <4> DEFINE h == <<Head(p)>>
      <4> HIDE DEF h
      <4>1. h \in Places(All)
        BY <3>1 DEF h
      <4>2. \A a \in Seq(All), b \in Seq(All) : Walked(h, a \o b) = Walked(Walked(h, a), b)
        BY <4>1, WalkConcat
      <4> QED BY <4>2 DEF h
    <3> QED BY <1>2, <1>3, <1>4, <1>8, <2>1, <3>2, <3>3
  <2>2. CASE ~Absolute(p)
    <3>1. Leads(Here, r) = Walked(Here, f \o q)
      BY <1>4, <1>7, <2>2 DEF Leads
    <3>2. \A a \in Seq(All), b \in Seq(All) : Walked(Here, a \o b) = Walked(Walked(Here, a), b)
      BY <1>1, WalkConcat
    <3> QED BY <1>2, <1>3, <1>8, <2>2, <3>1, <3>2
  <2> QED BY <2>1, <2>2
<1>10. Leads(Leads(Here, p), q) = Walked(Leads(Here, p), q)
  BY DEF Leads
<1>11. ResolvesTo(p, q, r)
  BY <1>4, <1>9, <1>10 DEF ResolvesTo, pointsToContent
<1> QED BY <1>6, <1>11 DEF r, f

\* A Path: a text, and perhaps what analyze remembers of it, which is right but
\* for a Path that was moved from.
Known(p) ==
    /\ p = [text |-> p.text, analyzed |-> p.analyzed, details |-> p.details, moved |-> p.moved]
    /\ p.text \in Text
    /\ p.analyzed \in BOOLEAN /\ p.moved \in BOOLEAN
    /\ p.analyzed /\ ~p.moved => p.details = Details(p.text)
    /\ p.moved => p.text = <<Empty>>

\* A Path that is made, set or asked is known.
LEMMA PathIs ==
  ASSUME NEW text \in Text, NEW p, Known(p)
  PROVE  /\ Known(Path(text)) /\ Path(text).text = text
         /\ Known(setPath(p, text)) /\ Known(NoPath) /\ NoPath.text = <<Empty>>
         /\ Known(analyze(p)) /\ analyze(p).text = p.text
         /\ ~p.moved => analyze(p).details = Details(p.text)
         /\ Known(MovedFrom(p))
<1>1. \A any : LET s == setPath(any, text) IN Known(s) /\ s.text = text
  BY DEF setPath, Known
<1>2. Known(NoPath) /\ NoPath.text = <<Empty>>
  BY EmptyLeads, HereIs DEF NoPath, Known
<1>3. /\ Known(analyze(p)) /\ analyze(p).text = p.text
      /\ ~p.moved => analyze(p).details = Details(p.text)
  <2>1. CASE p.analyzed
    BY <2>1 DEF analyze, Known
  <2>2. CASE ~p.analyzed
    BY <2>2 DEF analyze, Known
  <2> QED BY <2>1, <2>2
<1>4. Known(MovedFrom(p))
  BY EmptyLeads, HereIs DEF MovedFrom, Known
<1> QED BY <1>1, <1>2, <1>3, <1>4 DEF Path

\* resolve, whatever was asked of either path before.
LEMMA ResolveRight ==
  ASSUME NEW p, Known(p), NEW q, Known(q)
  PROVE  Known(resolve(p, q)) /\ (~q.moved => ResolvesTo(p.text, q.text, resolve(p, q).text))
<1> DEFINE r == resolve(p, q)
           s == p.text
           t == q.text
<1>1. s \in Text /\ t \in Text
  BY DEF Known
<1>2. Here \in Places(All) /\ Leads(Here, s) \in Places(All)
  BY <1>1, HereIs, LeadsByParts
<1>a. CASE q.moved
  <2>1. isEmpty(t)
    BY <1>a DEF Known, isEmpty
  <2>2. r \in {NoPath, analyze(q), p}
    BY <2>1 DEF resolve
  <2> QED BY <1>1, <1>a, <2>2, PathIs
<1> SUFFICES ASSUME ~q.moved PROVE Known(r) /\ ResolvesTo(s, t, r.text)
  BY <1>a
<1>3. /\ analyze(q).details.absolute = Absolute(t)
      /\ ~isEmpty(s) => analyze(p).details.fullPath = FullPath(s)
  <2>1. analyze(q).details = Details(t) /\ (~isEmpty(s) => analyze(p).details = Details(s))
    BY <1>1, PathIs DEF Known, isEmpty
  <2>2. \A text : Details(text).absolute = Absolute(text) /\ Details(text).fullPath = FullPath(text)
    BY DEF Details
  <2> QED BY <2>1, <2>2
<1>4. CASE isEmpty(t) /\ isEmpty(s)
  <2>1. r = NoPath /\ s = <<Empty>> /\ t = <<Empty>>
    BY <1>4 DEF resolve, isEmpty
  <2> QED BY <1>2, <2>1, EmptyLeads, PathIs DEF ResolvesTo, isEmpty
<1>5. CASE ~(isEmpty(t) /\ isEmpty(s)) /\ (Absolute(t) \/ isEmpty(s))
  <2>1. r = analyze(q)
    BY <1>3, <1>5 DEF resolve
  <2>2. Known(r) /\ r.text = t
    BY <1>1, <2>1, PathIs
  <2>3. Leads(Here, t) = Leads(Leads(Here, s), t)
    <3>1. CASE Absolute(t)
      BY <3>1, AbsoluteLeads
    <3>2. CASE isEmpty(s)
      BY <1>2, <3>2, EmptyLeads DEF isEmpty
    <3> QED BY <1>5, <3>1, <3>2
  <2> QED BY <2>2, <2>3 DEF ResolvesTo
<1>6. CASE ~isEmpty(s) /\ ~Absolute(t) /\ isEmpty(t)
  <2>1. r = p /\ t = <<Empty>>
    BY <1>3, <1>6 DEF resolve, isEmpty
  <2> QED BY <1>2, <1>6, <2>1, EmptyLeads DEF ResolvesTo
<1>7. CASE ~isEmpty(s) /\ ~Absolute(t) /\ ~isEmpty(t)
  <2>1. r = Path(FullPath(s) \o t)
    BY <1>3, <1>7 DEF resolve
  <2>2. FullPath(s) \o t \in Text /\ ResolvesTo(s, t, FullPath(s) \o t)
    BY <1>1, <1>7, JoinLeads DEF isEmpty
  <2> QED BY <2>1, <2>2, PathIs
<1> QED BY <1>4, <1>5, <1>6, <1>7

-----------------------------------------------------------------------------
\* Both paths are known: what they remember is right, at every step.
PathsInv == Known(object) /\ Known(given)

\* PathsInv is an inductive invariant of the bounded paths.
LEMMA PathsInvariant == PathsSpec => []PathsInv
<1>1. \A n \in Nat : \A text \in Texts(n) : text \in Text
  <2> SUFFICES ASSUME NEW n \in Nat, NEW k \in 1 .. n, NEW text \in [1 .. k -> AnyName]
               PROVE  text \in Text
    BY DEF Texts
  <2>1. text \in Seq(AnyName)
    OBVIOUS
  <2>2. text # <<>>
    <3>1. 1 \in DOMAIN text
      OBVIOUS
    <3> QED BY <3>1
  <2> QED BY <2>1, <2>2 DEF Text
<1>2. PathsInit => PathsInv
  <2> SUFFICES ASSUME PathsInit PROVE PathsInv
    OBVIOUS
  <2>1. PICK a \in Texts(MaxNames), b \in Texts(2) : object = Path(a) /\ given = Path(b)
    BY DEF PathsInit
  <2>2. a \in Text /\ b \in Text
    BY <1>1, MaxNamesAssumption
  <2>3. \A text \in Text : Known(Path(text))
    BY DEF Path, setPath, Known
  <2> QED BY <2>1, <2>2, <2>3 DEF PathsInv
<1>3. PathsInv /\ [PathsNext]_pathVars => PathsInv'
  <2> SUFFICES ASSUME PathsInv, [PathsNext]_pathVars PROVE Known(object)' /\ Known(given)'
    BY DEF PathsInv
  <2>0. Known(object) /\ Known(given)
    BY DEF PathsInv
  <2>1. CASE SetPath
    <3>1. PICK text \in Texts(2) : object' = setPath(object, text) /\ given' = given
      BY <2>1 DEF SetPath
    <3>2. Known(setPath(object, text))
      BY <1>1, <2>0, PathIs
    <3> QED BY <2>0, <3>1, <3>2 DEF Known
  <2>2. CASE Analyze
    <3>1. object' = analyze(object) /\ given' = given
      BY <2>2 DEF Analyze
    <3>2. Known(analyze(object))
      BY <2>0, EmptyLeads, HereIs, PathIs
    <3> QED BY <2>0, <3>1, <3>2 DEF Known
  <2>3. CASE AnalyzeGiven
    <3>1. given' = analyze(given) /\ object' = object
      BY <2>3 DEF AnalyzeGiven
    <3>2. Known(analyze(given))
      BY <2>0, EmptyLeads, HereIs, PathIs
    <3> QED BY <2>0, <3>1, <3>2 DEF Known
  <2>4. CASE Assign
    BY <2>0, <2>4 DEF Assign, Known
  <2>7. CASE Move
    <3>1. Known(MovedFrom(given))
      BY <2>0, EmptyLeads, HereIs, PathIs
    <3> QED BY <2>0, <2>7, <3>1 DEF Move, Known
  <2>5. CASE Resolve
    <3>1. object' = resolve(object, given) /\ (given' = given \/ given' = analyze(given))
      BY <2>5 DEF Resolve
    <3>2. Known(analyze(given)) /\ Known(resolve(object, given))
      BY <2>0, EmptyLeads, HereIs, PathIs, ResolveRight
    <3> QED BY <2>0, <3>1, <3>2 DEF Known
  <2>6. CASE UNCHANGED pathVars
    BY <2>0, <2>6 DEF pathVars, Known
  <2> QED BY <2>1, <2>2, <2>3, <2>4, <2>5, <2>6, <2>7 DEF PathsNext
<1> QED BY <1>2, <1>3, PTL DEF PathsSpec

\* What a getter answers is what the path says now.
THEOREM DetailsCorrect == PathsSpec => []DetailsAreRight
<1>1. PathsInv => DetailsAreRight
  BY DEF PathsInv, Known, DetailsAreRight
<1> QED BY <1>1, PathsInvariant, PTL

-----------------------------------------------------------------------------
\* The stacks of resolved: no more names can be taken away than are there.
Stacks(S) == {s \in [stack : Seq(S), removable : Nat] : s.removable <= Len(s.stack)}
IsTaking(f, S, from, names) ==
    /\ f \in [0 .. Len(names) -> Stacks(S)]
    /\ f[0] = from
    /\ \A i \in 1 .. Len(names) : f[i] = Take(f[i - 1], names[i])
    /\ Taken(from, names) = f[Len(names)]

\* What taking a name makes of a stack.
Takes(s, x, t) ==
    /\ t.stack = IF x = Dot THEN s.stack
                 ELSE IF x = DotDot /\ s.removable > 0 THEN Front(s.stack) ELSE Append(s.stack, x)
    /\ t.removable = IF x = Dot THEN s.removable
                     ELSE IF x = DotDot THEN IF s.removable > 0 THEN s.removable - 1 ELSE 0
                     ELSE s.removable + 1

\* Taking a name does that, and leaves a stack.
LEMMA TakeIs ==
  ASSUME NEW S, NEW s \in Stacks(S), NEW x \in S
  PROVE  Take(s, x) \in Stacks(S) /\ Takes(s, x, Take(s, x))
<1>1. s = [stack |-> s.stack, removable |-> s.removable] /\ s.stack \in Seq(S) /\ s.removable \in Nat
      /\ s.removable <= Len(s.stack) /\ Len(s.stack) \in Nat
  BY DEF Stacks
<1>2. CASE x = Dot
  BY <1>1, <1>2 DEF Take, Takes
<1>3. CASE x # Dot /\ x = DotDot /\ s.removable > 0
  <2>1. Take(s, x) = [stack |-> Front(s.stack), removable |-> s.removable - 1]
    BY <1>1, <1>3 DEF Take
  <2>2. s.stack # <<>>
    <3>1. Len(s.stack) > 0 /\ Len(<<>>) = 0
      BY <1>1, <1>3
    <3> QED BY <3>1
  <2>3. Front(s.stack) \in Seq(S) /\ Len(Front(s.stack)) = Len(s.stack) - 1
    BY <1>1, <2>2, FrontAndLast
  <2> QED BY <1>1, <1>3, <2>1, <2>3 DEF Stacks, Takes
<1>4. CASE x # Dot /\ ~(x = DotDot /\ s.removable > 0)
  <2> DEFINE n == IF x = DotDot THEN s.removable ELSE s.removable + 1
  <2>1. Take(s, x) = [stack |-> Append(s.stack, x), removable |-> n]
    BY <1>1, <1>4 DEF Take
  <2>2. Append(s.stack, x) \in Seq(S) /\ Len(Append(s.stack, x)) = Len(s.stack) + 1
    BY <1>1, AppendIs
  <2>3. n \in Nat /\ n <= Len(s.stack) + 1
    BY <1>1
  <2>4. x = DotDot => n = 0
    BY <1>1, <1>4
  <2> HIDE DEF n
  <2>5. Take(s, x) \in Stacks(S) /\ Take(s, x).stack = Append(s.stack, x) /\ Take(s, x).removable = n
    BY <2>1, <2>2, <2>3 DEF Stacks
  <2> QED BY <1>1, <1>4, <2>4, <2>5 DEF n, Takes
<1> QED BY <1>2, <1>3, <1>4

\* There are such takings, and they are what Taken computes.
LEMMA TakingIs ==
  ASSUME NEW S, NEW from \in Stacks(S), NEW names \in Seq(S)
  PROVE  \E f : IsTaking(f, S, from, names)
<1> DEFINE n == Len(names)
           P == Stacks(S)
           G == [x \in (1 .. n) \X P |-> Take(x[2], names[x[1]])]
           Is(h) == h = [i \in 0 .. n |-> IF i = 0 THEN from ELSE Take(h[i - 1], names[i])]
           a == CHOOSE h : Is(h)
<1>1. n \in Nat /\ \A i \in 1 .. n : names[i] \in S
  OBVIOUS
<1>2. G \in [(1 .. n) \X P -> P]
  <2>1. \A i \in 1 .. n, x \in P : Take(x, names[i]) \in P
    <3> HIDE DEF n
    <3> QED BY <1>1, TakeIs
  <2> HIDE DEF P, n
  <2> QED BY <2>1
<1>3. \A i \in 1 .. n, x \in P : G[i, x] = Take(x, names[i])
  OBVIOUS
<1>4. PICK f \in [0 .. n -> P] : f[0] = from /\ \A i \in 1 .. n : f[i] = G[i, f[i - 1]]
  <2>1. Iterates(P, from, n, G)
    <3> HIDE DEF G, n
    <3>1. from \in P
      BY DEF P
    <3> HIDE DEF P
    <3> QED BY <1>1, <1>2, <3>1, Recursion
  <2> QED BY <2>1 DEF Iterates
<1>5. \A i \in 1 .. n : i - 1 \in 0 .. n /\ f[i - 1] \in P
  <2>1. \A i \in 1 .. n : i - 1 \in 0 .. n
    BY <1>1
  <2> HIDE DEF P, n
  <2> QED BY <2>1, <1>4
<1>6. \A i \in 1 .. n : f[i] = Take(f[i - 1], names[i])
  <2> HIDE DEF G, n, P
  <2> QED BY <1>3, <1>4, <1>5
<1>7. Is(f)
  <2> DEFINE h == [i \in 0 .. n |-> IF i = 0 THEN from ELSE Take(f[i - 1], names[i])]
  <2>1. f = [i \in 0 .. n |-> f[i]] /\ h = [i \in 0 .. n |-> h[i]]
    OBVIOUS
  <2>2. \A i \in 0 .. n : h[i] = IF i = 0 THEN from ELSE Take(f[i - 1], names[i])
    OBVIOUS
  <2>3. \A i \in 0 .. n : f[i] = h[i]
    <3>1. \A i \in 0 .. n : i # 0 => i \in 1 .. n
      BY <1>1
    <3> HIDE DEF h, P, n
    <3> QED BY <2>2, <3>1, <1>4, <1>6
  <2>4. f = h
    <3> HIDE DEF h, P, n
    <3> QED BY <2>1, <2>3, Zenon
  <2> QED BY <2>4
<1>8. Is(a)
  <2> HIDE DEF Is
  <2> QED BY <1>7, Zenon DEF a
<1>9. Taken(from, names) = a[n]
  BY DEF Taken
<1>10. a \in [0 .. n -> P] /\ a[0] = from /\ \A i \in 1 .. n : a[i] = Take(a[i - 1], names[i])
  <2>1. a = [i \in 0 .. n |-> IF i = 0 THEN from ELSE Take(a[i - 1], names[i])]
    BY <1>8
  <2> HIDE DEF a, P, n
  <2>2. a[0] = from
    BY <1>1, <2>1
  <2>3. \A i \in 1 .. n : a[i] = Take(a[i - 1], names[i])
    <3>1. \A i \in 1 .. n : i \in 0 .. n /\ i # 0
      BY <1>1
    <3> QED BY <2>1, <3>1
  <2> DEFINE B == {k \in Nat : k <= n => a[k] \in P}
  <2>4. 0 \in B
    BY <2>2 DEF P
  <2>5. ASSUME NEW k \in Nat, k \in B PROVE k + 1 \in B
    <3> SUFFICES ASSUME k + 1 <= n PROVE a[k + 1] \in P
      OBVIOUS
    <3>1. k + 1 \in 1 .. n /\ k + 1 - 1 = k /\ k <= n
      BY <1>1
    <3>2. a[k] \in P /\ a[k + 1] = Take(a[k], names[k + 1]) /\ names[k + 1] \in S
      BY <1>1, <2>3, <2>5, <3>1
    <3> QED BY <3>2, TakeIs DEF P
  <2> HIDE DEF B
  <2>6. Nat \subseteq B
    BY <2>4, <2>5, SetInduction
  <2>7. \A k \in 0 .. n : a[k] \in P
    BY <1>1, <2>6 DEF B
  <2> QED BY <2>1, <2>2, <2>3, <2>7
<1> HIDE DEF a
<1> QED BY <1>9, <1>10 DEF IsTaking

\* One name more is one taken more.
LEMMA TakenAppend ==
  ASSUME NEW S, NEW from \in Stacks(S), NEW names \in Seq(S)
  PROVE  /\ Taken(from, names) \in Stacks(S) /\ Taken(from, <<>>) = from
         /\ \A x \in S : Taken(from, Append(names, x)) = Take(Taken(from, names), x)
<1> DEFINE n == Len(names)
<1>1. PICK f : IsTaking(f, S, from, names)
  BY TakingIs
<1>2. Taken(from, names) \in Stacks(S)
  BY <1>1 DEF IsTaking
<1>3. Taken(from, <<>>) = from
  <2>1. <<>> \in Seq(S) /\ Len(<<>>) = 0
    OBVIOUS
  <2>2. PICK g : IsTaking(g, S, from, <<>>)
    BY <2>1, TakingIs
  <2> QED BY <2>1, <2>2 DEF IsTaking
<1>4. ASSUME NEW x \in S PROVE Taken(from, Append(names, x)) = Take(Taken(from, names), x)
  <2> DEFINE more == Append(names, x)
  <2>1. more \in Seq(S) /\ Len(more) = n + 1 /\ n \in Nat /\ more[n + 1] = x
        /\ \A i \in 1 .. n : more[i] = names[i]
    OBVIOUS
  <2> HIDE DEF more
  <2>2. PICK g : IsTaking(g, S, from, more)
    BY <2>1, TakingIs
  <2> DEFINE B == {k \in Nat : k <= n => g[k] = f[k]}
  <2>3. 0 \in B
    BY <1>1, <2>2 DEF IsTaking
  <2>4. ASSUME NEW k \in Nat, k \in B PROVE k + 1 \in B
    <3> SUFFICES ASSUME k + 1 <= n PROVE g[k + 1] = f[k + 1]
      OBVIOUS
    <3>1. k + 1 \in 1 .. n /\ k + 1 \in 1 .. Len(more) /\ k + 1 - 1 = k /\ k <= n
      BY <2>1
    <3>2. g[k + 1] = Take(g[k], more[k + 1]) /\ f[k + 1] = Take(f[k], names[k + 1])
      BY <1>1, <2>2, <3>1 DEF IsTaking
    <3> QED BY <2>1, <2>4, <3>1, <3>2
  <2> HIDE DEF B
  <2>5. n \in B
    BY <2>1, <2>3, <2>4, SetInduction
  <2>6. n + 1 \in 1 .. Len(more) /\ n + 1 - 1 = n
    BY <2>1
  <2>7. g[n + 1] = Take(g[n], more[n + 1])
    BY <2>2, <2>6 DEF IsTaking
  <2> QED BY <1>1, <2>1, <2>2, <2>5, <2>7 DEF IsTaking, B, more
<1> QED BY <1>2, <1>3, <1>4

-----------------------------------------------------------------------------
\* Names that are no separator and no drive.
Plain == Name \cup {Dot, DotDot}
Stack(b, k) == [stack |-> b, removable |-> k]
\* What resolved keeps: the root, if any, and then ".." before names, of which
\* the names can be taken away.  It leads where the names taken so far lead.
Keeps(b, from, s, names, d, n) ==
    /\ s.stack = b \o (d \o n) /\ s.removable = Len(n)
    /\ Walked(from, d \o n) = Walked(from, names)
Cleans(b, from, s, names) == \E d \in Seq({DotDot}), n \in Seq(Name) : Keeps(b, from, s, names, d, n)

\* Sequences of some of the names are sequences of names.
LEMMA PlainIs ==
  /\ Seq({DotDot}) \subseteq Seq(Plain) /\ Seq(Name) \subseteq Seq(Plain)
  /\ Seq(Plain) \subseteq Seq(AnyName) /\ Seq(AnyName) \subseteq Seq(All)
<1>1. {DotDot} \subseteq Plain /\ Name \subseteq Plain /\ Plain \subseteq AnyName /\ AnyName \subseteq All
  BY DEF Plain, AnyName, All
<1>2. \A S, T : S \subseteq T => Seq(S) \subseteq Seq(T)
  OBVIOUS
<1> QED BY <1>1, <1>2

\* A name and then ".." leads back.
LEMMA BackAgain ==
  ASSUME NEW p \in Places(All), NEW x \in Name
  PROVE  Step(Step(p, x), DotDot) = p
<1>1. x \in All /\ x \notin {Empty, Dot, DotDot} /\ DotDot \notin {Empty, Dot}
  BY NamesAssumption DEF All, AnyName
<1>2. p \in Seq(All) /\ Len(p) \in Nat /\ Len(p) > 0
  BY DEF Places
<1>3. Step(p, x) = Append(p, x)
  BY <1>1 DEF Step
<1>4. Len(Append(p, x)) = Len(p) + 1 /\ Front(Append(p, x)) = p
  BY <1>1, <1>2, AppendIs
<1>5. Len(Append(p, x)) > 1
  BY <1>2, <1>4
<1> QED BY <1>1, <1>3, <1>4, <1>5 DEF Step

\* Taking one more name.
LEMMA CleanStep ==
  ASSUME NEW b \in Seq(AnyName), NEW from \in Places(All), NEW s \in Stacks(AnyName),
         NEW names \in Seq(Plain), NEW x \in Plain, Cleans(b, from, s, names)
  PROVE  Cleans(b, from, Take(s, x), Append(names, x))
<1>1. PICK d \in Seq({DotDot}), n \in Seq(Name) : Keeps(b, from, s, names, d, n)
  BY DEF Cleans
<1> DEFINE c == d \o n
           t == Take(s, x)
<1>2. d \in Seq(AnyName) /\ n \in Seq(AnyName) /\ c \in Seq(AnyName) /\ c \in Seq(All) /\ names \in Seq(All)
  <2>1. d \in Seq(AnyName) /\ n \in Seq(AnyName) /\ names \in Seq(All)
    BY PlainIs
  <2>2. c \in Seq(AnyName)
    BY <2>1
  <2> QED BY <2>1, <2>2, PlainIs
<1>3. x \in AnyName /\ x \in All
  BY DEF Plain, AnyName, All
<1>4. s.stack = b \o c /\ s.removable = Len(n) /\ Walked(from, c) = Walked(from, names)
  BY <1>1 DEF Keeps
<1>5. Walked(from, Append(names, x)) = Step(Walked(from, c), x)
  BY <1>2, <1>3, <1>4, WalkAppend
<1>6. Takes(s, x, t)
  BY <1>3, TakeIs
<1> HIDE DEF t
<1>7. CASE x = Dot
  <2>1. Step(Walked(from, c), x) = Walked(from, c)
    BY <1>7 DEF Step
  <2> QED BY <1>4, <1>5, <1>6, <1>7, <2>1 DEF Takes, Cleans, Keeps, t
<1>8. CASE x = DotDot /\ n # <<>>
  <2> DEFINE m == Front(n)
             y == Last(n)
  <2>1. m \in Seq(Name) /\ y \in Name /\ n = Append(m, y) /\ Len(m) = Len(n) - 1
    BY <1>8, FrontAndLast
  <2>2. Len(n) > 0 /\ x # Dot
    BY <1>8, NamesAssumption
  <2> HIDE DEF m, y
  <2>3. m \in Seq(AnyName) /\ y \in AnyName /\ y \in All
    BY <2>1, PlainIs DEF AnyName, All
  <2>4. c = Append(d \o m, y) /\ d \o m \in Seq(AnyName)
    BY <1>2, <2>1, <2>3, ConcatAppend
  <2>5. b \o c = Append(b \o (d \o m), y) /\ b \o (d \o m) \in Seq(AnyName)
    BY <2>3, <2>4, ConcatAppend
  <2>6. t.stack = b \o (d \o m) /\ t.removable = Len(m)
    <3>1. Front(b \o c) = b \o (d \o m)
      <4> DEFINE f == b \o (d \o m)
      <4> HIDE DEF f, c
      <4>1. f \in Seq(AnyName) /\ b \o c = Append(f, y)
        BY <2>5 DEF f
      <4>2. Front(Append(f, y)) = f
        BY <2>3, <4>1, AppendIs
      <4> QED BY <4>1, <4>2 DEF f
    <3> QED BY <1>4, <1>6, <1>8, <2>1, <2>2, <3>1 DEF Takes
  <2>7. Walked(from, d \o m) = Walked(from, Append(names, x))
    <3> DEFINE e == d \o m
    <3>1. e \in Seq(All)
      BY <2>4, PlainIs
    <3> HIDE DEF e
    <3>2. Walked(from, Append(e, y)) = Step(Walked(from, e), y) /\ Walked(from, e) \in Places(All)
      BY <2>3, <3>1, WalkAppend
    <3>3. Step(Step(Walked(from, e), y), DotDot) = Walked(from, e)
      BY <2>1, <3>2, BackAgain
    <3> QED BY <1>5, <1>8, <2>4, <3>2, <3>3 DEF e
  <2> QED BY <2>1, <2>6, <2>7 DEF Cleans, Keeps, t
<1>9. CASE x = DotDot /\ n = <<>>
  <2> DEFINE e == Append(d, DotDot)
  <2>1. e \in Seq({DotDot}) /\ c = d /\ e \o n = e /\ Len(n) = 0
    BY <1>9
  <2>2. b \o e = Append(b \o d, DotDot)
    BY <1>2, <1>3, <1>9, ConcatAppend
  <2>3. t.stack = b \o (e \o n) /\ t.removable = Len(n)
    <3> HIDE DEF e
    <3>1. s.removable = 0 /\ t.stack = Append(s.stack, DotDot) /\ t.removable = 0
      BY <1>4, <1>6, <1>9, <2>1, NamesAssumption DEF Takes
    <3>2. s.stack = b \o d
      BY <1>4, <2>1
    <3> QED BY <2>1, <2>2, <3>1, <3>2
  <2>4. Walked(from, e) = Step(Walked(from, d), DotDot)
    BY <1>2, <1>3, <1>9, <2>1, WalkAppend
  <2> HIDE DEF e
  <2>5. Walked(from, e \o n) = Walked(from, Append(names, x))
    BY <1>5, <1>9, <2>1, <2>4
  <2> QED BY <2>1, <2>3, <2>5 DEF Cleans, Keeps, t
<1>10. CASE x \in Name
  <2> DEFINE e == Append(n, x)
  <2>1. e \in Seq(Name) /\ Len(e) = Len(n) + 1
    BY <1>10
  <2>2. d \o e = Append(c, x) /\ b \o Append(c, x) = Append(b \o c, x)
    BY <1>2, <1>3, ConcatAppend
  <2>3. x \notin {Dot, DotDot}
    BY <1>10, NamesAssumption
  <2>4. Walked(from, Append(c, x)) = Step(Walked(from, c), x)
    <3> HIDE DEF c
    <3> QED BY <1>2, <1>3, WalkAppend
  <2> HIDE DEF e
  <2>5. t.stack = b \o (d \o e) /\ t.removable = Len(e)
    BY <1>4, <1>6, <2>1, <2>2, <2>3 DEF Takes
  <2>6. Walked(from, d \o e) = Walked(from, Append(names, x))
    BY <1>5, <2>2, <2>4
  <2> QED BY <2>1, <2>5, <2>6 DEF Cleans, Keeps, t
<1> QED BY <1>7, <1>8, <1>9, <1>10 DEF Plain

\* The stack without names.
LEMMA StackIs ==
  ASSUME NEW b \in Seq(AnyName)
  PROVE  Stack(b, 0) \in Stacks(AnyName) /\ Stack(b, 0).stack = b /\ Stack(b, 0).removable = 0
BY DEF Stack, Stacks

\* Taking all names.
LEMMA TakenCleans ==
  ASSUME NEW b \in Seq(AnyName), NEW from \in Places(All), NEW names \in Seq(Plain)
  PROVE  Cleans(b, from, Taken(Stack(b, 0), names), names)
<1> DEFINE s == Stack(b, 0)
           A == {q \in Seq(Plain) : Cleans(b, from, Taken(s, q), q)}
<1>1. s \in Stacks(AnyName) /\ s.stack = b /\ s.removable = 0
  BY StackIs
<1> HIDE DEF s
<1>2. <<>> \in A
  <2>1. <<>> \in Seq(Plain) /\ <<>> \in Seq(AnyName) /\ <<>> \in Seq({DotDot}) /\ <<>> \in Seq(Name)
    OBVIOUS
  <2>2. Taken(s, <<>>) = s
    BY <1>1, <2>1, TakenAppend
  <2>3. b \o (<<>> \o <<>>) = b /\ Len(<<>>) = 0 /\ <<>> \o <<>> = <<>>
    OBVIOUS
  <2>4. Keeps(b, from, s, <<>>, <<>>, <<>>)
    BY <1>1, <2>3 DEF Keeps
  <2> QED BY <2>1, <2>2, <2>4 DEF Cleans
<1>3. ASSUME NEW q \in Seq(Plain), NEW x \in Plain, q \in A PROVE Append(q, x) \in A
  <2>1. q \in Seq(AnyName) /\ x \in AnyName /\ Append(q, x) \in Seq(Plain)
    BY PlainIs, AppendIs DEF Plain, AnyName
  <2>2. Taken(s, q) \in Stacks(AnyName) /\ Taken(s, Append(q, x)) = Take(Taken(s, q), x)
    BY <1>1, <2>1, TakenAppend
  <2>3. Cleans(b, from, Take(Taken(s, q), x), Append(q, x))
    BY <1>3, <2>2, CleanStep
  <2> QED BY <2>1, <2>2, <2>3
<1> HIDE DEF A
<1>4. names \in A
  BY <1>2, <1>3, SeqInduction
<1> QED BY <1>4 DEF A, s

\* ".." before names is kept as it is.
LEMMA TakenClean ==
  ASSUME NEW b \in Seq(AnyName), NEW d \in Seq({DotDot}), NEW n \in Seq(Name)
  PROVE  Taken(Stack(b, 0), d \o n).stack = b \o (d \o n)
<1> DEFINE s == Stack(b, 0)
           D == {q \in Seq({DotDot}) : /\ Taken(s, q).stack = b \o q /\ Taken(s, q).removable = 0}
           N == {q \in Seq(Name) : Taken(s, d \o q).stack = b \o (d \o q)}
<1>1. s \in Stacks(AnyName) /\ s.stack = b /\ s.removable = 0
  BY StackIs
<1> HIDE DEF s
<1>2. d \in D
  <2>1. <<>> \in D
    <3>1. <<>> \in Seq({DotDot}) /\ <<>> \in Seq(AnyName) /\ b \o <<>> = b
      OBVIOUS
    <3>2. Taken(s, <<>>) = s
      BY <1>1, <3>1, TakenAppend
    <3> QED BY <1>1, <3>1, <3>2
  <2>2. ASSUME NEW q \in Seq({DotDot}), NEW x \in {DotDot}, q \in D PROVE Append(q, x) \in D
    <3>1. q \in Seq(AnyName) /\ x \in AnyName /\ Append(q, x) \in Seq({DotDot}) /\ x = DotDot /\ x # Dot
      BY PlainIs, AppendIs, NamesAssumption DEF AnyName
    <3>2. Taken(s, q) \in Stacks(AnyName) /\ Taken(s, Append(q, x)) = Take(Taken(s, q), x)
      BY <1>1, <3>1, TakenAppend
    <3>3. Taken(s, q).stack = b \o q /\ Taken(s, q).removable = 0
      BY <2>2
    <3>4. Take(Taken(s, q), x).stack = Append(b \o q, x) /\ Take(Taken(s, q), x).removable = 0
      <4> DEFINE k == Taken(s, q)
      <4>1. k \in Stacks(AnyName) /\ k.stack = b \o q /\ k.removable = 0
        BY <3>2, <3>3
      <4> HIDE DEF k
      <4>2. Takes(k, x, Take(k, x))
        <5>1. x \in AnyName
          BY <3>1
        <5> QED BY <4>1, <5>1, TakeIs
      <4>3. Take(k, x).stack = Append(k.stack, x) /\ Take(k, x).removable = 0
        BY <3>1, <4>1, <4>2 DEF Takes
      <4> QED BY <4>1, <4>3 DEF k
    <3>5. b \o Append(q, x) = Append(b \o q, x)
      BY <3>1, ConcatAppend
    <3> QED BY <3>1, <3>2, <3>4, <3>5
  <2> HIDE DEF D
  <2> QED BY <2>1, <2>2, SeqInduction
<1>3. n \in N
  <2>1. d \in Seq(AnyName)
    BY PlainIs
  <2>2. <<>> \in N
    <3>1. <<>> \in Seq(Name) /\ d \o <<>> = d
      OBVIOUS
    <3> QED BY <1>2, <3>1
  <2>3. ASSUME NEW q \in Seq(Name), NEW x \in Name, q \in N PROVE Append(q, x) \in N
    <3> DEFINE c == d \o q
    <3>1. q \in Seq(AnyName) /\ x \in AnyName /\ Append(q, x) \in Seq(Name) /\ x \notin {Dot, DotDot}
      BY PlainIs, AppendIs, NamesAssumption DEF AnyName
    <3>2. d \o Append(q, x) = Append(c, x) /\ c \in Seq(AnyName)
      BY <2>1, <3>1, ConcatAppend
    <3>3. Taken(s, c).stack = b \o c
      BY <2>3
    <3> HIDE DEF c
    <3>4. Taken(s, c) \in Stacks(AnyName) /\ Taken(s, Append(c, x)) = Take(Taken(s, c), x)
      BY <1>1, <3>1, <3>2, TakenAppend
    <3>5. Take(Taken(s, c), x).stack = Append(b \o c, x)
      <4> DEFINE k == Taken(s, c)
      <4>1. k \in Stacks(AnyName) /\ k.stack = b \o c
        BY <3>3, <3>4
      <4> HIDE DEF k
      <4>2. Take(k, x).stack = Append(k.stack, x)
        BY <3>1, <4>1, TakeIs DEF Takes
      <4> QED BY <4>1, <4>2 DEF k
    <3>6. b \o Append(c, x) = Append(b \o c, x)
      BY <3>1, <3>2, ConcatAppend
    <3> QED BY <3>1, <3>2, <3>4, <3>5, <3>6
  <2> HIDE DEF N
  <2> QED BY <2>2, <2>3, SeqInduction
<1> QED BY <1>3 DEF N, s

\* Without separators in a row and drives inside, what resolved goes through is
\* plain.
LEMMA RestIs ==
  ASSUME NEW text \in Text, Simple(text)
  PROVE  Rest(text) \in Seq(Plain)
<1> DEFINE p == Parts(text)
<1>1. /\ p \in Seq(AnyName) /\ text \in Seq(AnyName)
      /\ (text = p /\ Last(text) # Empty) \/ text = Append(p, Empty)
      /\ p # <<>> => Head(p) = Head(text)
  BY PartsAre
<1>2. Len(p) \in Nat /\ \A i \in 1 .. Len(p) : p[i] \in AnyName
  BY <1>1
<1> HIDE DEF p
<1>3. \A i \in 2 .. Len(p) : p[i] \notin {Empty, Drive}
  <2> SUFFICES ASSUME NEW i \in 2 .. Len(p) PROVE p[i] \notin {Empty, Drive}
    OBVIOUS
  <2>1. CASE text = p /\ Last(text) # Empty
    <3>1. i \in 2 .. Len(text) /\ text[i] = p[i] /\ (i = Len(text) => text[i] # Empty) /\ Len(text) \in Nat
      BY <1>2, <2>1 DEF Last
    <3> QED BY <3>1 DEF Simple
  <2>2. CASE text = Append(p, Empty)
    <3>1. Len(text) = Len(p) + 1 /\ text[i] = p[i]
      BY <1>1, <1>2, <2>2
    <3>2. i \in 2 .. Len(text) /\ i < Len(text)
      BY <1>2, <3>1
    <3> QED BY <3>1, <3>2 DEF Simple
  <2> QED BY <1>1, <2>1, <2>2
<1>4. CASE Absolute(text)
  <2>1. Rest(text) = Tail(p) /\ p # <<>>
    BY <1>4 DEF Rest, Absolute, p
  <2> DEFINE q == Tail(p)
  <2>2. Len(q) = Len(p) - 1 /\ q \in Seq(AnyName) /\ Len(q) \in Nat
    BY <1>1, <2>1
  <2>3. \A i \in 1 .. Len(q) : q[i] = p[i + 1]
    BY <1>1, <2>1
  <2> HIDE DEF q
  <2>4. \A i \in 1 .. Len(q) : q[i] \in Plain
    <3> SUFFICES ASSUME NEW i \in 1 .. Len(q) PROVE q[i] \in Plain
      OBVIOUS
    <3>1. i + 1 \in 2 .. Len(p) /\ i + 1 \in 1 .. Len(p)
      BY <1>2, <2>2
    <3> QED BY <1>2, <1>3, <2>3, <3>1 DEF Plain, AnyName
  <2>5. q \in Seq(Plain)
    BY <2>2, <2>4
  <2> QED BY <2>1, <2>5 DEF q
<1>5. CASE ~Absolute(text)
  <2>1. Rest(text) = p
    BY <1>5 DEF Rest, p
  <2>2. p # <<>> => p[1] \notin {Empty, Drive}
    BY <1>1, <1>5 DEF Absolute, p
  <2>3. \A i \in 1 .. Len(p) : p[i] \in Plain
    <3> SUFFICES ASSUME NEW i \in 1 .. Len(p) PROVE p[i] \in Plain
      OBVIOUS
    <3>1. i \in 2 .. Len(p) \/ (i = 1 /\ p # <<>>)
      BY <1>2
    <3> QED BY <1>2, <1>3, <2>2, <3>1 DEF Plain, AnyName
  <2> QED BY <1>1, <2>1, <2>3
<1> QED BY <1>4, <1>5

\* The first place resolved starts from: a root, or where the path is taken.
From(text) == IF Absolute(text) THEN <<Head(text)>> ELSE Here

\* What resolved gives: ".", a root, or the root, if any, and ".." before names.
IsForm(r, text, b, d, n) ==
    /\ b = IF Absolute(text) THEN <<Head(text)>> ELSE <<>>
    /\ Walked(From(text), d \o n) = Leads(Here, text)
    /\ r = IF d \o n # <<>> THEN b \o (d \o n) ELSE IF Absolute(text) THEN <<Head(text), Empty>> ELSE <<Dot>>
HasForm(r, text) ==
    \E b \in Seq(AnyName), d \in Seq({DotDot}), n \in Seq(Name) : IsForm(r, text, b, d, n)

\* Names of ".." and ordinary ones have no separator, drive or dot among them.
LEMMA KeptNames ==
  ASSUME NEW d \in Seq({DotDot}), NEW n \in Seq(Name)
  PROVE  LET c == d \o n IN
         /\ c \in Seq(AnyName) /\ Len(c) \in Nat
         /\ \A i \in 1 .. Len(c) : c[i] \notin {Empty, Drive, Dot}
         /\ \A i \in 2 .. Len(c) : c[i] = DotDot => c[i - 1] = DotDot
<1> DEFINE c == d \o n
<1>1. Len(d) \in Nat /\ Len(n) \in Nat /\ Len(c) = Len(d) + Len(n)
  OBVIOUS
<1>2. \A i \in 1 .. Len(d) : c[i] = DotDot
  OBVIOUS
<1>3. \A i \in 1 .. Len(n) : c[Len(d) + i] = n[i] /\ n[i] \in Name
  OBVIOUS
<1>4. c \in Seq(AnyName)
  <2>1. d \in Seq(AnyName) /\ n \in Seq(AnyName)
    BY PlainIs
  <2> QED BY <2>1
<1> HIDE DEF c
<1>5. \A i \in 1 .. Len(c) : i > Len(d) => c[i] \in Name
  <2> SUFFICES ASSUME NEW i \in 1 .. Len(c), i > Len(d) PROVE c[i] \in Name
    OBVIOUS
  <2>1. i - Len(d) \in 1 .. Len(n) /\ Len(d) + (i - Len(d)) = i
    BY <1>1
  <2> QED BY <1>3, <2>1
<1>6. \A i \in 1 .. Len(c) : i <= Len(d) => c[i] = DotDot
  BY <1>1, <1>2
<1>7. Name \cap {Empty, Drive, Dot, DotDot} = {} /\ DotDot \notin {Empty, Drive, Dot}
  BY NamesAssumption
<1>8. \A i \in 1 .. Len(c) : c[i] \notin {Empty, Drive, Dot}
  <2> SUFFICES ASSUME NEW i \in 1 .. Len(c) PROVE c[i] \notin {Empty, Drive, Dot}
    OBVIOUS
  <2>1. i > Len(d) \/ i <= Len(d)
    BY <1>1
  <2> QED BY <1>5, <1>6, <1>7, <2>1
<1>9. \A i \in 2 .. Len(c) : c[i] = DotDot => c[i - 1] = DotDot
  <2> SUFFICES ASSUME NEW i \in 2 .. Len(c), c[i] = DotDot PROVE c[i - 1] = DotDot
    OBVIOUS
  <2>1. i \in 1 .. Len(c) /\ i - 1 \in 1 .. Len(c)
    BY <1>1
  <2>2. ~(i > Len(d))
    BY <1>5, <1>7, <2>1
  <2>3. i - 1 <= Len(d)
    BY <1>1, <2>2
  <2> QED BY <1>6, <2>1, <2>3
<1>10. Len(c) \in Nat
  BY <1>1
<1> QED BY <1>4, <1>8, <1>9, <1>10 DEF c

\* resolved gives such a text.
LEMMA ResolvedShape ==
  ASSUME NEW text \in Text, Simple(text)
  PROVE  HasForm(resolved(text), text)
<1> DEFINE b == IF Absolute(text) THEN <<Head(text)>> ELSE <<>>
           names == Rest(text)
           s == Taken(Stack(b, 0), names)
<1>1. text \in Seq(AnyName) /\ text # <<>> /\ Head(text) \in AnyName
  BY DEF Text
<1>2. b \in Seq(AnyName)
  BY <1>1
<1>3. names \in Seq(Plain)
  BY RestIs
<1>4. Here \in Places(All) /\ AnyName \subseteq All
  BY HereIs
<1>5. From(text) \in Places(All)
  BY <1>4, LeadsByParts DEF From
<1>6. First(text) = Stack(b, 0)
  BY DEF First, Stack
<1>7. Leads(Here, text) = Walked(From(text), names)
  BY <1>4, LeadsByParts DEF From, Rest
<1> HIDE DEF b, names
<1>8. Cleans(b, From(text), s, names)
  BY <1>2, <1>3, <1>5, TakenCleans
<1>9. PICK d \in Seq({DotDot}), n \in Seq(Name) : Keeps(b, From(text), s, names, d, n)
  BY <1>8 DEF Cleans
<1> DEFINE c == d \o n
<1>10. /\ s.stack = b \o c /\ Walked(From(text), c) = Leads(Here, text)
  BY <1>7, <1>9 DEF Keeps
<1>11. c \in Seq(AnyName) /\ \A i \in 1 .. Len(c) : c[i] \notin {Empty, Drive, Dot}
  BY KeptNames
<1>12. resolved(text) = IF b \o c \in {<<>>, <<Empty>>} /\ ~Absolute(text) THEN <<Dot>>
                        ELSE IF Len(b \o c) = 1 /\ Absolute(text) THEN Append(b \o c, Empty) ELSE b \o c
  BY <1>6, <1>10 DEF resolved, names
<1> HIDE DEF c, s
<1>13. resolved(text) = IF c # <<>> THEN b \o c
                        ELSE IF Absolute(text) THEN <<Head(text), Empty>> ELSE <<Dot>>
  <2>1. CASE Absolute(text)
    <3>1. b = <<Head(text)>>
      BY <2>1 DEF b
    <3>2. c = <<>> <=> Len(b \o c) = 1
      BY <1>1, <1>11, <3>1
    <3>3. c = <<>> => Append(b \o c, Empty) = <<Head(text), Empty>>
      <4>1. \A q \in Seq(AnyName) : q \o <<>> = q
        OBVIOUS
      <4>2. \A h \in AnyName : <<h>> \in Seq(AnyName)
        OBVIOUS
      <4>3. \A h \in AnyName : Append(<<h>>, Empty) = <<h, Empty>>
        <5>1. Empty \in AnyName
          BY DEF AnyName
        <5> QED BY <5>1, PairIs
      <4> QED BY <1>1, <3>1, <4>1, <4>2, <4>3
    <3> QED BY <1>12, <2>1, <3>2, <3>3
  <2>2. CASE ~Absolute(text)
    <3>1. b = <<>> /\ b \o c = c
      BY <1>11, <2>2 DEF b
    <3>2. c # <<Empty>>
      <4>1. c = <<Empty>> => 1 \in 1 .. Len(c) /\ c[1] = Empty
        OBVIOUS
      <4> QED BY <1>11, <4>1
    <3> QED BY <1>12, <2>2, <3>1, <3>2
  <2> QED BY <2>1, <2>2
<1>14. IsForm(resolved(text), text, b, d, n)
  BY <1>10, <1>13 DEF IsForm, b, c
<1> QED BY <1>2, <1>14 DEF HasForm

\* Ordinary names and dots are no roots.
LEMMA DotIs ==
  /\ <<Dot>> \in Text /\ ~Absolute(<<Dot>>) /\ Parts(<<Dot>>) = <<Dot>>
  /\ Rest(<<Dot>>) = <<Dot>> /\ First(<<Dot>>) = Stack(<<>>, 0)
<1>1. <<Dot>> \in Text /\ Dot \notin {Empty, Drive} /\ Head(<<Dot>>) = Dot /\ <<Dot>> # <<Empty>>
  <2>1. Dot \notin {Empty, Drive} /\ Dot \in AnyName
    BY NamesAssumption DEF AnyName
  <2>2. \A x \in AnyName : <<x>> \in Seq(AnyName)
    OBVIOUS
  <2>3. \A x : <<x>> # <<>> /\ Head(<<x>>) = x
    OBVIOUS
  <2> QED BY <2>1, <2>2, <2>3 DEF Text
<1>2. ~Absolute(<<Dot>>)
  BY <1>1, AbsoluteIs
<1>3. Parts(<<Dot>>) = <<Dot>>
  BY <1>1 DEF Parts, Last
<1> QED BY <1>1, <1>2, <1>3 DEF Rest, First, Stack

\* A root is its own: its text is the separator or the drive, and a separator.
LEMMA RootIs ==
  ASSUME NEW h \in {Empty, Drive}
  PROVE  LET r == <<h, Empty>> IN
         /\ r \in Text /\ Absolute(r) /\ Head(r) = h /\ Parts(r) = <<h>>
         /\ Rest(r) = <<>> /\ First(r) = Stack(<<h>>, 0)
<1> DEFINE r == <<h, Empty>>
<1>1. r \in Text /\ Head(r) = h /\ r # <<Empty>>
  BY DEF Text, AnyName
<1>2. Absolute(r)
  BY <1>1, AbsoluteIs
<1>3. Parts(r) = <<h>>
  <2> DEFINE f == <<h>>
  <2>1. f \in Seq(AnyName) /\ Empty \in AnyName /\ r = Append(f, Empty)
    BY DEF AnyName
  <2> HIDE DEF f, r
  <2>2. Last(r) = Empty /\ Front(r) = f
    BY <2>1, AppendIs
  <2> QED BY <2>2 DEF Parts, f
<1>4. Tail(<<h>>) = <<>>
  OBVIOUS
<1> QED BY <1>1, <1>2, <1>3, <1>4 DEF Rest, First, Stack

\* A root, if any, and names behind it: what its parts are, and where it leads.
LEMMA JoinedIs ==
  ASSUME NEW text \in Text, NEW d \in Seq({DotDot}), NEW n \in Seq(Name), d \o n # <<>>
  PROVE  LET b == IF Absolute(text) THEN <<Head(text)>> ELSE <<>>
             r == b \o (d \o n)
         IN  /\ r \in Text /\ (Absolute(r) <=> Absolute(text)) /\ Parts(r) = r
             /\ Rest(r) = d \o n /\ First(r) = Stack(b, 0)
             /\ Leads(Here, r) = Walked(From(text), d \o n)
<1> DEFINE b == IF Absolute(text) THEN <<Head(text)>> ELSE <<>>
           c == d \o n
           r == b \o c
<1>1. c \in Seq(AnyName) /\ Len(c) \in Nat /\ \A i \in 1 .. Len(c) : c[i] \notin {Empty, Drive, Dot}
  BY KeptNames
<1>2. Here \in Places(All) /\ AnyName \subseteq All /\ text \in Seq(AnyName) /\ text # <<>>
      /\ Head(text) \in AnyName
  BY HereIs DEF Text
<1> HIDE DEF c
<1>3. c # <<>> /\ Len(c) > 0
  BY <1>1 DEF c
<1>4. Last(c) # Empty /\ Head(c) \notin {Empty, Drive}
  BY <1>1, <1>3 DEF Last
<1>5. CASE Absolute(text)
  <2> DEFINE h == Head(text)
  <2>1. b = <<h>> /\ h \in {Empty, Drive} /\ <<h>> \in Seq(AnyName) /\ <<h>> # <<>>
    BY <1>2, <1>5, AbsoluteIs
  <2> HIDE DEF h, b
  <2>2. /\ r \in Seq(AnyName) /\ r # <<>> /\ Head(r) = h /\ Tail(r) = c /\ Last(r) = Last(c)
    <3> DEFINE a == <<h>>
    <3>1. Head(a) = h /\ Tail(a) = <<>> /\ <<>> \o c = c
      BY <1>1
    <3> HIDE DEF a
    <3>2. a \in Seq(AnyName) /\ a # <<>> /\ r = a \o c
      BY <2>1 DEF a
    <3> HIDE DEF r
    <3>3. /\ a \o c \in Seq(AnyName) /\ a \o c # <<>> /\ Head(a \o c) = Head(a)
          /\ Tail(a \o c) = Tail(a) \o c /\ (c # <<>> => Last(a \o c) = Last(c))
      BY <1>1, <3>2, HeadAndTail
    <3> QED BY <1>3, <3>1, <3>2, <3>3
  <2>3. r # <<Empty>>
    <3>1. Tail(<<Empty>>) = <<>>
      OBVIOUS
    <3> QED BY <1>3, <2>2, <3>1
  <2> HIDE DEF r
  <2>4. r \in Text /\ Absolute(r)
    <3>1. r \in Text
      BY <2>2 DEF Text
    <3> QED BY <2>1, <2>2, <2>3, <3>1, AbsoluteIs
  <2>5. Parts(r) = r
    BY <1>4, <2>2 DEF Parts
  <2>6. Rest(r) = c /\ First(r) = Stack(b, 0)
    BY <2>1, <2>2, <2>4, <2>5 DEF Rest, First, Stack
  <2>7. Leads(Here, r) = Walked(From(text), c)
    BY <1>5, <2>2, <2>4 DEF Leads, From, h
  <2> QED BY <1>5, <2>4, <2>5, <2>6, <2>7 DEF r, c, b
<1>6. CASE ~Absolute(text)
  <2>1. b = <<>> /\ r = c
    BY <1>1, <1>6
  <2> HIDE DEF b, r
  <2>2. r \in Text
    BY <1>1, <1>3, <2>1 DEF Text
  <2>3. ~Absolute(r)
    BY <1>4, <2>1, <2>2, AbsoluteIs
  <2>4. Parts(r) = r
    BY <1>4, <2>1 DEF Parts
  <2>5. Rest(r) = c /\ First(r) = Stack(b, 0)
    BY <2>1, <2>3, <2>4 DEF Rest, First, Stack
  <2>6. Leads(Here, r) = Walked(From(text), c)
    BY <1>6, <2>1, <2>3 DEF Leads, From
  <2> QED BY <1>6, <2>2, <2>3, <2>4, <2>5, <2>6 DEF r, c, b
<1> QED BY <1>5, <1>6

\* resolved is right, for texts without separators in a row and drives inside.
LEMMA ResolvedRight ==
  ASSUME NEW text \in Text, Simple(text)
  PROVE  ResolvedIsRight(text)
<1> DEFINE r == resolved(text)
           Right(q) == /\ Leads(Here, q) = Leads(Here, text)
                       /\ Absolute(q) = Absolute(text)
                       /\ q # <<Dot>> => \A i \in DOMAIN q : q[i] # Dot
                       /\ \A i \in 2 .. Len(q) : q[i] = DotDot => q[i - 1] \in {DotDot, Empty, Drive}
                       /\ resolved(q) = q
<1>1. PICK b \in Seq(AnyName), d \in Seq({DotDot}), n \in Seq(Name) : IsForm(r, text, b, d, n)
  BY ResolvedShape DEF HasForm
<1> DEFINE c == d \o n
<1>2. /\ b = IF Absolute(text) THEN <<Head(text)>> ELSE <<>>
      /\ Walked(From(text), c) = Leads(Here, text)
      /\ r = IF c # <<>> THEN b \o c ELSE IF Absolute(text) THEN <<Head(text), Empty>> ELSE <<Dot>>
  BY <1>1 DEF IsForm
<1>3. /\ c \in Seq(AnyName) /\ Len(c) \in Nat
      /\ \A i \in 1 .. Len(c) : c[i] \notin {Empty, Drive, Dot}
      /\ \A i \in 2 .. Len(c) : c[i] = DotDot => c[i - 1] = DotDot
  BY KeptNames
<1>4. Here \in Places(All) /\ AnyName \subseteq All /\ From(text) \in Places(All)
  BY HereIs, LeadsByParts DEF From
<1>5. Head(text) \in AnyName /\ Absolute(text) \in BOOLEAN
      /\ (Absolute(text) => Head(text) \in {Empty, Drive})
  <2>1. Head(text) \in AnyName
    BY DEF Text
  <2> QED BY <2>1, AbsoluteIs DEF Absolute
<1>6. \A p \in Places(All) : Walked(p, <<>>) = p /\ Walked(p, <<Dot>>) = p /\ Walked(p, <<Empty>>) = p
  <2> SUFFICES ASSUME NEW p \in Places(All)
               PROVE  Walked(p, <<>>) = p /\ Walked(p, <<Dot>>) = p /\ Walked(p, <<Empty>>) = p
    OBVIOUS
  <2>1. <<>> \in Seq(All) /\ Dot \in All /\ Empty \in All
    BY DEF All, AnyName
  <2>2. Walked(p, <<>>) = p
    BY <2>1, WalkAppend
  <2>3. \A x \in {Empty, Dot} : Walked(p, Append(<<>>, x)) = p
    <3>1. \A q \in Seq(All), x \in {Empty, Dot} : Walked(p, Append(q, x)) = Walked(p, q)
      BY <2>1, WalkStays
    <3> QED BY <2>1, <2>2, <3>1
  <2>4. \A x : Append(<<>>, x) = <<x>>
    OBVIOUS
  <2> QED BY <2>2, <2>3, <2>4
<1>7. CASE c # <<>>
  <2> HIDE DEF r
  <2>1. /\ r \in Text /\ (Absolute(r) <=> Absolute(text)) /\ Parts(r) = r
        /\ Rest(r) = c /\ First(r) = Stack(b, 0)
        /\ Leads(Here, r) = Walked(From(text), c)
    BY <1>2, <1>7, JoinedIs
  <2>2. r = b \o c
    BY <1>2, <1>7
  <2>3. Taken(Stack(b, 0), c).stack = b \o c
    BY TakenClean
  <2> HIDE DEF c
  <2>4. \A i \in 1 .. Len(r) : \/ i = 1 /\ Absolute(text) /\ r[i] \in {Empty, Drive}
                               \/ ~Absolute(text) /\ i \in 1 .. Len(c) /\ r[i] = c[i]
                               \/ Absolute(text) /\ i > 1 /\ i - 1 \in 1 .. Len(c) /\ r[i] = c[i - 1]
    <3>1. CASE Absolute(text)
      <4>1. b = <<Head(text)>> /\ Len(r) = Len(c) + 1
        BY <1>2, <1>3, <2>2, <3>1
      <4>2. r[1] = Head(text) /\ \A i \in 2 .. Len(r) : r[i] = c[i - 1]
        BY <1>3, <2>2, <4>1
      <4>3. \A i \in 1 .. Len(r) : i = 1 \/ (i \in 2 .. Len(r) /\ i > 1 /\ i - 1 \in 1 .. Len(c))
        BY <1>3, <4>1
      <4> QED BY <1>5, <3>1, <4>2, <4>3
    <3>2. CASE ~Absolute(text)
      <4>1. r = c
        BY <1>2, <1>3, <2>2, <3>2
      <4> QED BY <3>2, <4>1
    <3> QED BY <3>1, <3>2
  <2>5. Dot \notin {Empty, Drive} /\ DotDot \notin {Empty, Drive}
    BY NamesAssumption
  <2>6. \A i \in 1 .. Len(r) : r[i] # Dot
    BY <1>3, <2>4, <2>5
  <2>7. \A i \in 2 .. Len(r) : r[i] = DotDot => r[i - 1] \in {DotDot, Empty, Drive}
    <3> SUFFICES ASSUME NEW i \in 2 .. Len(r), r[i] = DotDot PROVE r[i - 1] \in {DotDot, Empty, Drive}
      OBVIOUS
    <3>1. Len(r) \in Nat
      BY <2>1 DEF Text
    <3>2. i \in 1 .. Len(r) /\ i - 1 \in 1 .. Len(r) /\ i # 1 /\ i \in Nat
      BY <3>1
    <3>3. CASE ~Absolute(text)
      <4>1. i \in 1 .. Len(c) /\ c[i] = DotDot /\ r[i - 1] = c[i - 1]
        BY <2>4, <3>2, <3>3
      <4>2. i \in 2 .. Len(c)
        BY <1>3, <3>2, <4>1
      <4> QED BY <1>3, <4>1, <4>2
    <3>4. CASE Absolute(text) /\ i = 2
      <4>1. i - 1 = 1
        BY <3>4
      <4> QED BY <2>4, <3>2, <3>4, <4>1
    <3>5. CASE Absolute(text) /\ i # 2
      <4>1. i - 1 \in 1 .. Len(c) /\ c[i - 1] = DotDot
        BY <2>4, <3>2, <3>5
      <4>2. i - 1 # 1 /\ i - 1 \in 2 .. Len(c)
        BY <1>3, <3>2, <3>5, <4>1
      <4>3. r[i - 1] = c[i - 1 - 1]
        BY <2>4, <3>2, <3>5, <4>2
      <4> QED BY <1>3, <4>1, <4>2, <4>3
    <3> QED BY <3>3, <3>4, <3>5
  <2>8. resolved(r) = r
    <3>1. resolved(r) = IF r \in {<<>>, <<Empty>>} /\ ~Absolute(r) THEN <<Dot>>
                        ELSE IF Len(r) = 1 /\ Absolute(r) THEN Append(r, Empty) ELSE r
      BY <2>1, <2>2, <2>3 DEF resolved
    <3>2. r # <<>>
      BY <2>1 DEF Text
    <3>3. ~(r = <<Empty>> /\ ~Absolute(r))
      <4>1. r = <<Empty>> => 1 \in 1 .. Len(r) /\ r[1] = Empty
        OBVIOUS
      <4> QED BY <1>3, <2>1, <2>4, <4>1
    <3>4. ~(Len(r) = 1 /\ Absolute(r))
      <4> SUFFICES ASSUME Absolute(r) PROVE Len(r) # 1
        OBVIOUS
      <4>1. b = <<Head(text)>> /\ Len(c) > 0
        BY <1>2, <1>3, <1>7, <2>1
      <4> QED BY <1>3, <2>2, <4>1
    <3> QED BY <3>1, <3>2, <3>3, <3>4
  <2>9. DOMAIN r = 1 .. Len(r) /\ Absolute(r) = Absolute(text)
    <3>1. r \in Seq(AnyName)
      BY <2>1 DEF Text
    <3>2. Absolute(r) \in BOOLEAN
      BY DEF Absolute
    <3> QED BY <1>5, <2>1, <3>1, <3>2
  <2> QED BY <1>2, <2>1, <2>6, <2>7, <2>8, <2>9 DEF ResolvedIsRight, r
<1>8. CASE c = <<>> /\ Absolute(text)
  <2> DEFINE h == Head(text)
             e == <<h, Empty>>
  <2>1. h \in {Empty, Drive} /\ b = <<h>> /\ From(text) = <<h>> /\ r = e
    BY <1>2, <1>5, <1>8 DEF From
  <2> HIDE DEF h
  <2>2. /\ e \in Text /\ Absolute(e) /\ Head(e) = h /\ Rest(e) = <<>> /\ First(e) = Stack(<<h>>, 0)
    BY <2>1, RootIs
  <2>3. Tail(e) = <<Empty>> /\ Len(e) = 2 /\ DOMAIN e = 1 .. 2 /\ e[1] = h /\ e[2] = Empty
    OBVIOUS
  <2> HIDE DEF e
  <2>4. Leads(Here, e) = Leads(Here, text)
    <3>1. Leads(Here, e) = Walked(<<h>>, <<Empty>>)
      BY <2>2, <2>3 DEF Leads
    <3>2. Leads(Here, text) = Walked(<<h>>, <<>>)
      BY <1>2, <1>8, <2>1
    <3> QED BY <1>4, <1>6, <2>1, <3>1, <3>2
  <2>5. resolved(e) = e
    <3>1. <<h>> \in Seq(AnyName)
      BY <2>1 DEF AnyName
    <3>2. Taken(Stack(<<h>>, 0), <<>>) = Stack(<<h>>, 0) /\ Stack(<<h>>, 0).stack = <<h>>
      <4> DEFINE f == <<h>>
      <4> HIDE DEF f
      <4>1. f \in Seq(AnyName) /\ <<>> \in Seq(AnyName)
        BY <3>1 DEF f
      <4>2. Taken(Stack(f, 0), <<>>) = Stack(f, 0) /\ Stack(f, 0).stack = f
        BY <4>1, StackIs, TakenAppend
      <4> QED BY <4>2 DEF f
    <3>3. resolved(e) = Append(<<h>>, Empty)
      <4>1. Len(<<h>>) = 1
        OBVIOUS
      <4> QED BY <2>2, <3>2, <4>1 DEF resolved
    <3>4. h \in AnyName /\ Empty \in AnyName
      BY <2>1 DEF AnyName
    <3>5. Append(<<h>>, Empty) = e
      BY <3>4, PairIs DEF e
    <3> QED BY <3>3, <3>5
  <2>6. \A i \in 1 .. 2 : i = 1 \/ i = 2
    OBVIOUS
  <2>7. Dot \notin {Empty, Drive} /\ DotDot \notin {Empty, Drive}
    BY NamesAssumption
  <2>8. Absolute(e) = Absolute(text)
    <3>1. Absolute(e) \in BOOLEAN
      BY DEF Absolute
    <3> QED BY <1>5, <1>8, <2>2, <3>1
  <2>9. \A i \in 1 .. 2 : e[i] # Dot /\ e[i] # DotDot
    BY <2>1, <2>3, <2>6, <2>7
  <2>10. \A i \in 2 .. Len(e) : i \in 1 .. 2
    BY <2>3
  <2> HIDE DEF r
  <2> QED BY <2>1, <2>3, <2>4, <2>5, <2>8, <2>9, <2>10 DEF ResolvedIsRight, r
<1>9. CASE c = <<>> /\ ~Absolute(text)
  <2> DEFINE e == <<Dot>>
  <2>1. b = <<>> /\ From(text) = Here /\ r = e
    BY <1>2, <1>9 DEF From
  <2>2. /\ ~Absolute(e) /\ Parts(e) = e /\ Rest(e) = e /\ First(e) = Stack(<<>>, 0)
    BY DotIs
  <2>3. Leads(Here, e) = Leads(Here, text)
    <3>1. Leads(Here, e) = Walked(Here, e)
      BY <2>2 DEF Leads
    <3>2. Leads(Here, text) = Walked(Here, <<>>)
      BY <1>2, <1>9, <2>1
    <3> QED BY <1>4, <1>6, <3>1, <3>2
  <2>4. resolved(e) = e
    <3>1. <<>> \in Seq(AnyName) /\ Dot \in AnyName /\ Append(<<>>, Dot) = e
      BY DEF AnyName
    <3>2. Stack(<<>>, 0) \in Stacks(AnyName) /\ Stack(<<>>, 0).stack = <<>>
      BY <3>1, StackIs
    <3>3. Taken(Stack(<<>>, 0), <<>>) = Stack(<<>>, 0)
      BY <3>1, <3>2, TakenAppend
    <3>4. Taken(Stack(<<>>, 0), Append(<<>>, Dot)) = Take(Stack(<<>>, 0), Dot)
      <4> DEFINE k == Stack(<<>>, 0)
      <4> HIDE DEF k
      <4>1. k \in Stacks(AnyName) /\ Taken(k, <<>>) = k
        BY <3>2, <3>3 DEF k
      <4>2. \A q \in Seq(AnyName), x \in AnyName : Taken(k, Append(q, x)) = Take(Taken(k, q), x)
        BY <4>1, TakenAppend
      <4> QED BY <3>1, <4>1, <4>2 DEF k
    <3>5. Take(Stack(<<>>, 0), Dot) = Stack(<<>>, 0)
      BY DEF Take
    <3> HIDE DEF e
    <3>6. Taken(Stack(<<>>, 0), e).stack = <<>>
      BY <3>1, <3>2, <3>4, <3>5
    <3> QED BY <2>2, <3>6 DEF resolved, e
  <2>5. Absolute(e) = Absolute(text)
    <3>1. Absolute(e) \in BOOLEAN
      BY DEF Absolute
    <3> QED BY <1>5, <1>9, <2>2, <3>1
  <2>6. \A i \in 2 .. Len(e) : e[i] = DotDot => e[i - 1] \in {DotDot, Empty, Drive}
    BY NamesAssumption
  <2> HIDE DEF r, e
  <2> QED BY <2>1, <2>3, <2>4, <2>5, <2>6 DEF ResolvedIsRight, r, e
<1> QED BY <1>7, <1>8, <1>9

\* resolve and resolved lead where they should, whatever the path was set to,
\* assigned or asked before.  (Path::resolve and Path::resolved.)
THEOREM ResolvesCorrect == PathsSpec => []ResolvesRight
<1>1. ASSUME PathsInv PROVE ResolvesRight
  <2>1. Known(object) /\ Known(given) /\ object.text \in Text
    BY <1>1 DEF PathsInv, Known
  <2>2. Simple(object.text) => ResolvedIsRight(object.text)
    BY <2>1, ResolvedRight
  <2>3. ~given.moved => ResolveIsRight
    BY <2>1, ResolveRight DEF ResolvesTo, ResolveIsRight
  <2> QED BY <2>2, <2>3 DEF ResolvesRight
<1> QED BY <1>1, PathsInvariant, PTL
=============================================================================

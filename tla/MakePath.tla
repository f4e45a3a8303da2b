------------------------------ MODULE MakePath ------------------------------
(***************************************************************************)
(* FsObject::makePath, one system call at a time, by several processes at  *)
(* once, and CreateDirPath of logging.cpp, which is the same walk for the  *)
(* directories of the log file.  The directories that are wanted lie on    *)
(* one path: process p wants the first target[p] of them.  What the path   *)
(* names after them is not there, and nobody removes anything.             *)
(***************************************************************************)
EXTENDS Integers

CONSTANTS Proc,    \* the processes, each with one call to make
          LogProc, \* those that open a log file, with CreateDirPath
          Overlong, \* those among them whose path is empty, or of 256 characters and more
          Depth,   \* number of directories on the longest path
          target,  \* how many of them each process wants
          NoProc

ASSUME ProcAssumption == Proc # {} /\ NoProc \notin Proc
                         /\ LogProc \subseteq Proc /\ Overlong \subseteq LogProc
ASSUME DepthAssumption == Depth \in Nat \ {0}
ASSUME TargetAssumption == target \in [Proc -> 1 .. Depth]

Levels == 1 .. Depth
Obstacles == {"file", "dangling"}  \* a dangling link: stat finds nothing, mkdir EEXIST

VARIABLES node,    \* what is at each level
          pc,      \* the system call a process makes next
          level,   \* the level it makes it on
          result,  \* what its call returned
          maker    \* history: the process that made a level

vars == <<node, pc, level, result, maker>>

TypeOK ==
    /\ node \in [Levels -> {"none", "dir"} \cup Obstacles]
    /\ pc \in [Proc -> {"check", "stat", "mkdir", "done"}]
    /\ level \in [Proc -> Levels]
    /\ result \in [Proc -> {"none", "true", "false"}]
    /\ maker \in [Levels -> Proc \cup {NoProc}]

\* Directories, perhaps an obstacle below them, and nothing further down.
Init ==
    /\ \E n \in 0 .. Depth, obstacle \in Obstacles \cup {"none"} :
           node = [k \in Levels |-> IF k <= n THEN "dir"
                                    ELSE IF k = n + 1 THEN obstacle ELSE "none"]
    /\ pc = [p \in Proc |-> "check"]
    /\ level = [p \in Proc |-> 1]
    /\ result = [p \in Proc |-> "none"]
    /\ maker = [k \in Levels |-> NoProc]

Return(p, answer) ==
    /\ pc' = [pc EXCEPT ![p] = "done"]
    /\ result' = [result EXCEPT ![p] = answer]
    /\ UNCHANGED level

Descend(p) ==
    /\ pc' = [pc EXCEPT ![p] = "stat"]
    /\ level' = [level EXCEPT ![p] = @ + 1]
    /\ UNCHANGED result

Advance_Early(p) == IF level[p] + 1 >= target[p] THEN Return(p, "true") ELSE Descend(p)
Advance_Late(p) == IF level[p] > target[p] THEN Return(p, "true") ELSE Descend(p)
Advance(p) == IF level[p] = target[p] THEN Return(p, "true") ELSE Descend(p)

\* stat of the whole directory path.
Check(p) ==
    /\ pc[p] = "check"
    /\ IF node[target[p]] = "dir" THEN Return(p, "true")
       ELSE /\ pc' = [pc EXCEPT ![p] = "stat"]
            /\ UNCHANGED <<level, result>>
    /\ UNCHANGED <<node, maker>>

\* CreateDirPath copies the path to a buffer first, and gives up when it does
\* not fit.
Refuse(p) == pc[p] = "check" /\ Return(p, "false") /\ UNCHANGED <<node, maker>>

\* A directory that is there already is taken for a failure.
Stat_DirFails(p) ==
    /\ pc[p] = "stat"
    /\ CASE node[level[p]] = "dir" -> Return(p, "false")
         [] node[level[p]] = "file" -> Return(p, "false")
         [] OTHER -> /\ pc' = [pc EXCEPT ![p] = "mkdir"]
                     /\ UNCHANGED <<level, result>>
    /\ UNCHANGED <<node, maker>>

Stat(p) ==
    /\ pc[p] = "stat"
    /\ CASE node[level[p]] = "dir" -> Advance(p)
         [] node[level[p]] = "file" -> Return(p, "false")
         [] OTHER -> /\ pc' = [pc EXCEPT ![p] = "mkdir"]
                     /\ UNCHANGED <<level, result>>
    /\ UNCHANGED <<node, maker>>

\* EEXIST sends it back to stat.
Mkdir_Retries(p) ==
    /\ pc[p] = "mkdir"
    /\ IF node[level[p]] = "none"
       THEN /\ node' = [node EXCEPT ![level[p]] = "dir"]
            /\ maker' = [maker EXCEPT ![level[p]] = p]
            /\ Advance(p)
       ELSE /\ pc' = [pc EXCEPT ![p] = "stat"]
            /\ UNCHANGED <<node, maker, level, result>>

\* mkdir succeeds, or fails because there is something by now.
Mkdir(p) ==
    /\ pc[p] = "mkdir"
    /\ IF node[level[p]] = "none"
       THEN /\ node' = [node EXCEPT ![level[p]] = "dir"]
            /\ maker' = [maker EXCEPT ![level[p]] = p]
            /\ Advance(p)
       ELSE Return(p, "false") /\ UNCHANGED <<node, maker>>

Walk(p) == Check(p) \/ Stat(p) \/ Mkdir(p)
makePath(p) == p \notin LogProc /\ Walk(p)
CreateDirPath(p) == p \in LogProc /\ IF p \in Overlong THEN Refuse(p) ELSE Walk(p)
Call(p) == makePath(p) \/ CreateDirPath(p)

Returned == \A p \in Proc : pc[p] = "done"
Stop == Returned /\ UNCHANGED vars

Next == (\E p \in Proc : Call(p)) \/ Stop

Fairness == \A p \in Proc : WF_vars(Call(p))
Spec == Init /\ [][Next]_vars /\ Fairness
-----------------------------------------------------------------------------
\* Every directory that process p wants is there.
There(p) == \A k \in 1 .. target[p] : node[k] = "dir"

\* What stopped process p is no directory: nothing it could have passed.
Blocked(p) == node[level[p]] \in Obstacles

\* Process p looked for a directory, and another process made it before p could.
LostRace(p) == maker[level[p]] \in Proc \ {p}

\* A call returns true only when every directory it wants is there.
TrueMeansThere == \A p \in Proc : result[p] = "true" => There(p)

\* A call that returned false was blocked, or had a path of no legal length, or
\* lost a race for one of the directories.  The last is no right answer by
\* makePath's documentation ("'true' if path is created or exist", FsObject.h:410):
\* it is what the code does, and the only case in which the answer is wrong.
FalseOnlyIf ==
    \A p \in Proc : result[p] = "false" => Blocked(p) \/ p \in Overlong \/ LostRace(p)

\* The documented answer, "true" if the path is created or exists and "false"
\* otherwise, is what makePath and CreateDirPath give to every call that lost no
\* race for a directory (and has a path that CreateDirPath can copy).
AnswersUnlessRaced ==
    \A p \in Proc : /\ result[p] = "true" => There(p)
                    /\ result[p] = "false" /\ There(p) => p \in Overlong \/ LostRace(p)

\* With nothing in the way, the processes do not make each other fail all:
\* when every call has returned, one has returned true.
SomeoneSucceeds ==
    Returned /\ (\A k \in Levels : node[k] \notin Obstacles) /\ Overlong # Proc =>
        \E p \in Proc : result[p] = "true"

\* Every call returns.
AllReturn == <>Returned
=============================================================================

----------------------------- MODULE FileSystem -----------------------------
(***************************************************************************)
(* The file system as libfs uses it: a tree of named nodes and the system  *)
(* calls and shell commands libfs applies to it.  A path is a sequence of  *)
(* names from the root, and a tree maps every path of Paths to a node:     *)
(* None, Dir, a regular file (its contents), or a link [to |-> path].      *)
(* A path of Bare is written as a name alone.  Its first names stand for   *)
(* the current directory (a link to it, in the instances), but in a link   *)
(* it is the link's own directory that the name is looked up in.           *)
(* Permissions, hard links and full disks are left out.                    *)
(***************************************************************************)
EXTENDS Integers, Sequences

CONSTANTS Paths,      \* the paths a tree can hold, closed under parents
          Files,      \* contents of regular files
          None, Dir,  \* no node; a directory
          NoPath,     \* failure of realpath
          MaxHops,    \* bound: links one resolution follows
          Bare,       \* those of Paths that are written as a name alone
          Words,      \* Words[p]: the operands a shell makes of p without quotes,
                      \* those a pattern may match among them
          Signs       \* those of Paths whose text ends the command they are in

Names == UNION {{p[i] : i \in DOMAIN p} : p \in Paths}
Parent(p) == SubSeq(p, 1, Len(p) - 1)
Name(p) == p[Len(p)]

ASSUME PathsAssumption ==
    \A p \in Paths : p \in Seq(Names) /\ p # <<>> /\ (Len(p) > 1 => Parent(p) \in Paths)

Link(p) == [to |-> p]
Links == [to : Paths]
Node == {None, Dir} \cup Files \cup Links
IsLink(n) == n \in Links

ASSUME NodeAssumption ==
    /\ Dir # None /\ Files \cap {None, Dir} = {}
    /\ Links \cap (Files \cup {None, Dir}) = {}
    /\ NoPath \notin Seq(Names)
ASSUME MaxHopsAssumption == MaxHops \in Nat
ASSUME TextAssumption == /\ Bare \subseteq Paths /\ Signs \subseteq Paths
                         /\ Words \in [Paths -> Seq(Paths)]

Under(q, p) == Len(p) <= Len(q) /\ SubSeq(q, 1, Len(p)) = p
Children(p) == {q \in Paths : q # p /\ Under(q, p)}

NodeAt(t, p) == IF p = NoPath THEN None ELSE IF p = <<>> THEN Dir ELSE t[p]
In(t, d, name) == IF NodeAt(t, d) = Dir /\ Append(d, name) \in Paths
                  THEN Append(d, name) ELSE NoPath

\* realpath(): links followed one after the other, the first on the way down
\* first; NoPath when there is nothing, or a loop.
LinksOn(t, p) == {k \in 1 .. Len(p) : SubSeq(p, 1, k) \in Paths /\ IsLink(t[SubSeq(p, 1, k)])}
Leads(dir, to) == IF to \in Bare THEN Append(dir, Name(to)) ELSE to
Follow(t, p, k) == Leads(SubSeq(p, 1, k - 1), t[SubSeq(p, 1, k)].to) \o SubSeq(p, k + 1, Len(p))
FirstOf(links) == CHOOSE k \in links : \A j \in links : k <= j
Hop(t, p) == IF LinksOn(t, p) = {} THEN p ELSE Follow(t, p, FirstOf(LinksOn(t, p)))
Hops(t, p) == LET hop[n \in 0 .. MaxHops] == IF n = 0 THEN p ELSE Hop(t, hop[n - 1]) IN hop
Followed(t, p) == Hops(t, p)[MaxHops]
\* ELOOP: more links on the way than one resolution follows.
TooLong(t, p) == LinksOn(t, Followed(t, p)) # {}
Found(t, p) == IF p = <<>> THEN <<>>
               ELSE IF p \in Paths /\ t[p] \notin Links \cup {None} THEN p ELSE NoPath
realpath(t, p) == Found(t, Followed(t, p))

\* Where the last name of a path is looked up, the links before it followed.
Entry(t, p) == In(t, realpath(t, Parent(p)), Name(p))

stat(t, p) == NodeAt(t, realpath(t, p))
lstat(t, p) == IF p = <<>> THEN Dir ELSE NodeAt(t, Entry(t, p))

Put(t, p, n) == [t EXCEPT ![p] = n]
Prune(t, p) == [q \in Paths |-> IF Under(q, p) THEN None ELSE t[q]]

\* A system call yields the new tree and whether it succeeded.  The path <<>>
\* is the empty string to all of them but stat.
Done(t) == [tree |-> t, ok |-> TRUE]
Failed(t) == [tree |-> t, ok |-> FALSE]
Placed(t, e, n) == IF e # NoPath /\ NodeAt(t, e) = None THEN Done(Put(t, e, n)) ELSE Failed(t)
Cleared(t, e) == IF NodeAt(t, e) \notin {None, Dir} THEN Done(Put(t, e, None)) ELSE Failed(t)

mkdir(t, p) == IF p = <<>> THEN Failed(t) ELSE Placed(t, Entry(t, p), Dir)
symlink(t, target, p) == IF p = <<>> THEN Failed(t) ELSE Placed(t, Entry(t, p), Link(target))
unlink(t, p) == IF p = <<>> THEN Failed(t) ELSE Cleared(t, Entry(t, p))

\* open(O_CREAT) of what stat did not find: through dangling links, the file
\* is made where the last of them leads.
Ending(t, p) == LET e == Followed(t, p) IN
                IF e \in Paths /\ LinksOn(t, e) = {} /\ NodeAt(t, Parent(e)) = Dir THEN e ELSE NoPath
creat(t, p, contents) == Placed(t, Ending(t, p), contents)

\* rm -rf: no operand, or a name that is not there, is not an error.
Pruned(t, e) == IF e = NoPath THEN Done(t) ELSE Done(Prune(t, e))
rm_rf(t, p) == IF p = <<>> THEN Done(t) ELSE Pruned(t, Entry(t, p))

\* Where mv and cp put their source: into a directory, else at the name itself.
Into(t, src, dst) == IF stat(t, dst) = Dir THEN Append(dst, Name(src)) ELSE dst

\* The node of the subtree at s that goes to q when it is put at d.
Image(q, s, d) == d \o SubSeq(q, Len(s) + 1, Len(q))
Moved(t, s, d, q) == IF Under(q, d) /\ Image(q, d, s) \in Paths THEN t[Image(q, d, s)] ELSE None

\* Every node of the subtree at s has a path when it is put at d, and neither
\* is inside the other.
Fits(t, s, d) ==
    /\ ~Under(d, s) /\ ~Under(s, d)
    /\ \A q \in Paths : Under(q, s) /\ t[q] # None => Image(q, s, d) \in Paths

\* mv of the node at s to the name e: an empty directory gives way to a
\* directory, another node to one that is no directory.
Replaces(t, s, e) ==
    /\ e # NoPath /\ NodeAt(t, s) # None
    /\ Fits(t, s, e)
    /\ \/ t[e] = None
       \/ t[e] = Dir /\ t[s] = Dir /\ \A q \in Children(e) : t[q] = None
       \/ t[e] # Dir /\ t[s] # Dir
Renamed(t, s, e) ==
    IF Replaces(t, s, e)
    THEN Done([q \in Paths |-> IF Under(q, e) THEN Moved(t, s, e, q)
                               ELSE IF Under(q, s) THEN None ELSE t[q]])
    ELSE Failed(t)
MovedTo(t, s, to) == IF to \in Paths THEN Renamed(t, s, Entry(t, to)) ELSE Failed(t)
mv(t, src, dst) == IF src = <<>> THEN Failed(t) ELSE MovedTo(t, Entry(t, src), Into(t, src, dst))

\* cp -rf of the node at s to e: a directory is merged into one that is there,
\* a link replaces what is there, a file is written through a link to a file.
\* A directory and another node, or a file and a link to anything else, clash:
\* they and what is below them are skipped.
Meet(t, s, e, q) == Under(q, e) /\ t[q] # None /\ Moved(t, s, e, q) # None
ThroughLink(t, s, e, q) == Meet(t, s, e, q) /\ IsLink(t[q]) /\ Moved(t, s, e, q) \in Files
Clash(t, s, e, q) == /\ Meet(t, s, e, q)
                     /\ \/ (t[q] = Dir) # (Moved(t, s, e, q) = Dir)
                        \/ ThroughLink(t, s, e, q) /\ stat(t, q) \notin Files
Clashes(t, s, e) == {q \in Paths : Clash(t, s, e, q)}
Skipped(clashes, q) == \E r \in clashes : Under(q, r)
Over(t, s, e, clashes, q) ==
    {r \in Paths : ThroughLink(t, s, e, r) /\ ~Skipped(clashes, r) /\ realpath(t, r) = q}
Copied(t, s, e, clashes, q) ==
    IF Over(t, s, e, clashes, q) # {}
    THEN Moved(t, s, e, CHOOSE r \in Over(t, s, e, clashes, q) : TRUE)
    ELSE IF Moved(t, s, e, q) = None \/ ThroughLink(t, s, e, q) \/ Skipped(clashes, q)
         THEN t[q] ELSE Moved(t, s, e, q)
Merged(t, s, e, clashes) ==
    [ok |-> clashes = {}, tree |-> [q \in Paths |-> Copied(t, s, e, clashes, q)]]
Written(t, s, e) ==
    IF e \notin {NoPath, <<>>} /\ NodeAt(t, s) # None /\ Fits(t, s, e)
       /\ (IsLink(t[e]) => IsLink(t[s]))
    THEN Merged(t, s, e, Clashes(t, s, e)) ELSE Failed(t)
Target(t, s, to) == IF to \notin Paths THEN NoPath
                    ELSE IF IsLink(NodeAt(t, s)) \/ realpath(t, to) = NoPath THEN Entry(t, to)
                    ELSE realpath(t, to)
cp_rf(t, src, dst) ==
    IF src = <<>> THEN Failed(t)
    ELSE Written(t, Entry(t, src), Target(t, Entry(t, src), Into(t, src, dst)))

\* What the words of a command line do, from the left: each is removed, or moved
\* or copied to the last; the command goes on after one that fails.
Run(name, t, p, dst) ==
    IF name = "rm" THEN rm_rf(t, p) ELSE IF name = "mv" THEN mv(t, p, dst) ELSE cp_rf(t, p, dst)
Then(w, r) == [r EXCEPT !.ok = @ /\ w.ok]
RunEach(name, t, words, dst) ==
    LET run[n \in 0 .. Len(words)] ==
          IF n = 0 THEN Done(t) ELSE Then(run[n - 1], Run(name, run[n - 1].tree, words[n], dst))
    IN  run[Len(words)]

\* A path in a command line without quotes.  One of Signs ends the command: the
\* rest of the line is another, or the file its output goes to.
Text(p) == IF p = <<>> THEN <<>> ELSE Words[p]
Plain(p) == p \notin Signs /\ (p # <<>> => Words[p] = <<p>>)
Line(src, dst) == IF src \in Signs THEN Text(src) ELSE Text(src) \o Text(dst)
Onto(name, t, line, slash) ==
    IF Len(line) < 2 \/ ((Len(line) > 2 \/ slash) /\ stat(t, line[Len(line)]) # Dir) THEN Failed(t)
    ELSE RunEach(name, t, SubSeq(line, 1, Len(line) - 1), line[Len(line)])
=============================================================================

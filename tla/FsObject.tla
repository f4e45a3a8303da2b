------------------------------ MODULE FsObject ------------------------------
(***************************************************************************)
(* Sys::Fs::FsObject: an object that names a path, with what it remembers  *)
(* of it, in a file system that other programs change between its calls.   *)
(* A call runs without interruption; MakePath takes makePath apart.        *)
(* Paths are absolute, but for those of Bare, whose directoryPath is the   *)
(* empty string.  <<>> is the empty string, as a path of the object and as *)
(* what getAbsolutePath returns before it found anything.                  *)
(***************************************************************************)
EXTENDS FileSystem

CONSTANTS Trees,       \* the file systems the object may find
          Sharp,       \* Sharp[p]: p with "#" before its extension
          MaxRenames,  \* bound: times create renames before it gives up
          New,         \* contents of a file create makes, in Files
          ObjectPaths, \* what setPath is called with
          Destinations,\* what move, copy and createSymLink are called with:
                       \* a path, and whether a slash ends it
          EnvPaths,    \* where other programs put EnvNodes and delete
          EnvNodes

UKNOWN == "UKNOWN"
REGULAR_FILE == "REGULAR_FILE"
DIRECTORY == "DIRECTORY"

\* What is there is in a directory.
Rooted(t) == \A p \in Paths : t[p] # None /\ Len(p) > 1 => t[Parent(p)] = Dir

ASSUME TreesAssumption == Trees \subseteq {t \in [Paths -> Node] : Rooted(t)}
ASSUME SharpAssumption == Sharp \in [Paths -> Paths]
ASSUME MaxRenamesAssumption == MaxRenames \in Nat
ASSUME CallsAssumption == /\ ObjectPaths \cup EnvPaths \subseteq Paths
                          /\ Destinations \subseteq [path : Paths, slash : BOOLEAN]
                          /\ EnvNodes \subseteq Node \ {None}
                          /\ New \in Files

VARIABLES tree, m_path, m_exists, m_realPath, m_absolute, m_type

object == <<m_path, m_exists, m_realPath, m_absolute>>
vars == <<tree, object, m_type>>

TypeOK ==
    /\ tree \in [Paths -> Node] /\ Rooted(tree)
    /\ m_path \in Paths \cup {<<>>}
    /\ m_realPath \in Paths \cup {<<>>}
    /\ m_exists \in BOOLEAN
    /\ m_exists => m_path # <<>>
    /\ m_absolute \in BOOLEAN
    /\ m_type \in {UKNOWN, REGULAR_FILE, DIRECTORY}

\* What the handlers pass along: the file system, the members they change,
\* and what the step before returned.
Now == [tree |-> tree, path |-> m_path, exists |-> m_exists, real |-> m_realPath,
        absolute |-> m_absolute, ok |-> TRUE]
Returns(c, ok) == [c EXCEPT !.ok = ok]
IsAbsolute(p) == p # <<>> /\ p \notin Bare
Object(t, p) == [tree |-> t, path |-> p, exists |-> FALSE, real |-> <<>>,
                 absolute |-> IsAbsolute(p), ok |-> TRUE]
On(c, call) == [c EXCEPT !.tree = call.tree, !.ok = call.ok]

TypeOf(n) == IF n = Dir THEN DIRECTORY ELSE IF n \in Files THEN REGULAR_FILE ELSE UKNOWN

\* getStat of an empty path fails, and so does that of a dangling link.
getStat(c) == IF c.path = <<>> THEN None ELSE stat(c.tree, c.path)
getType(c) == TypeOf(getStat(c))
isSymbolicLink(c) == c.path # <<>> /\ IsLink(lstat(c.tree, c.path))

\* Only a positive answer is remembered, and then nothing is asked again.
Matches(n, type) == n # None /\ (type = UKNOWN \/ TypeOf(n) = type)
Remember(c, there) == [c EXCEPT !.exists = there, !.ok = there]
isExist(c, type) == Remember(c, c.exists \/ Matches(getStat(c), type))

\* mkdir of every directory on the way down to p that stat does not find.
Descend(w, q, n) == IF n = None THEN mkdir(w.tree, q) ELSE [w EXCEPT !.ok = n = Dir]
Level(w, q) == IF w.ok THEN Descend(w, q, stat(w.tree, q)) ELSE w
MakeDirs(t, p) ==
    LET walk[k \in 0 .. Len(p)] ==
          IF k = 0 THEN Done(t) ELSE Level(walk[k - 1], SubSeq(p, 1, k))
    IN  walk[Len(p)]

\* For a name in the root, directoryPath "/" loses its slash and mkdir("") fails;
\* for a bare name there is no directoryPath.
Directories(d) == IF d.ok THEN d
                  ELSE IF Len(d.path) <= 1 \/ d.path \in Bare THEN Returns(d, FALSE)
                  ELSE On(d, MakeDirs(d.tree, Parent(d.path)))
makePath(c, type) == Directories(isExist(c, type))

\* The path if it resolves, else its directory with the name put to it; and
\* when neither does, m_realPath keeps the value it had and the path is no longer
\* called absolute.  directoryPath ends in a slash, so what it resolves to is a
\* directory.
Fitting(p) == IF p \in Paths THEN p ELSE <<>>  \* bound: no room for the path
directoryPath(d) == IF d.path \in Bare \/ stat(d.tree, Parent(d.path)) # Dir THEN NoPath
                    ELSE realpath(d.tree, Parent(d.path))
Beside(dir, name, old) == IF dir # NoPath THEN Fitting(Append(dir, name)) ELSE old
Resolve(d, whole) ==
    IF d.path = <<>> THEN [d EXCEPT !.absolute = FALSE]
    ELSE [d EXCEPT !.real = IF whole # NoPath THEN whole
                            ELSE Beside(directoryPath(d), Name(d.path), @),
                   !.absolute = @ /\ (whole # NoPath \/ directoryPath(d) # NoPath)]
Resolved(d) == Resolve(d, IF d.path = <<>> THEN NoPath ELSE realpath(d.tree, d.path))
getAbsolutePath_Cached(c, type) == IF c.real # <<>> THEN c ELSE Resolved(makePath(c, type))
getAbsolutePath(c, type) == Resolved(makePath(c, type))

setPath_KeepsExists(c, p) == [c EXCEPT !.path = p]
setPath(c, p) == [c EXCEPT !.path = p, !.exists = FALSE, !.absolute = IsAbsolute(p)]

MakeObject_AnyType(d, type, n) ==
    IF type = UKNOWN \/ d.path = <<>> THEN Returns(d, FALSE)
    ELSE IF n # None THEN Returns(d, TRUE)
    ELSE On(d, IF type = DIRECTORY THEN mkdir(d.tree, d.path) ELSE creat(d.tree, d.path, New))
MakeObject(d, type, n) ==
    IF type = UKNOWN \/ d.path = <<>> THEN Returns(d, FALSE)
    ELSE IF n # None THEN Returns(d, TypeOf(n) = type)
    ELSE On(d, IF type = DIRECTORY THEN mkdir(d.tree, d.path) ELSE creat(d.tree, d.path, New))
Try(d, type) == MakeObject(d, type, getStat(d))

\* What is there has another type: create starts over with a "#" in the name.
Retry(d, type) ==
    IF ~d.ok /\ type # UKNOWN /\ getStat(d) # None
    THEN Try(makePath(setPath(d, Sharp[d.path]), type), type) ELSE d
create(c, type) ==
    LET tried[n \in 0 .. MaxRenames] ==
          IF n = 0 THEN Try(makePath(c, type), type) ELSE Retry(tried[n - 1], type)
    IN  tried[MaxRenames]

\* The common part of move and copy: check the destination or make its
\* directories, and a directory at it for a directory or a trailing slash.
Enter(c, at) == On(c, mkdir(at.tree, at.real))
Lead(c, d, slash) ==
    IF getType([c EXCEPT !.tree = d.tree]) = DIRECTORY \/ slash
    THEN Enter(c, getAbsolutePath(d, UKNOWN))
    ELSE [c EXCEPT !.tree = d.tree]
Prepare(c, new, slash) ==
    IF new.ok THEN Returns(c, getType(new) = DIRECTORY \/ getType(c) # DIRECTORY)
    ELSE Lead(c, create(new, UKNOWN), slash)
Prepared_Nothing(c, dst) == c
Prepared(c, dst) ==
    IF c.ok THEN Prepare(c, isExist(Object(c.tree, dst.path), UKNOWN), dst.slash) ELSE c

\* up: whether the shell starts the command at all.  When a sign in one of the
\* texts ends the command, the answer is that of the rest of the line, up as
\* well; what the rest does to the tree, Other does.
execCommand(c, up, texts, call) ==
    On(c, IF texts \cap Signs # {} THEN [call EXCEPT !.ok = up]
          ELSE IF up THEN call ELSE Failed(c.tree))
Forget(r) == [r EXCEPT !.exists = @ /\ ~r.ok]

\* The resolved path and the destination as it is written, a space between them.
Transfer(name, a, dst, up) ==
    LET texts == {a.real, dst.path} IN
    execCommand(a, up, texts, Onto(name, a.tree, Line(a.real, dst.path),
                                   dst.slash /\ texts \cap Signs = {}))

Mv(a, dst, up) == Transfer("mv", a, dst, up)
MoveTo(p, type, dst, up) ==
    IF p.ok THEN Forget(Mv(getAbsolutePath(p, type), dst, up)) ELSE p
move(c, type, dst, up) == MoveTo(Prepared(isExist(c, type), dst), type, dst, up)

Cp(a, dst, up) == Transfer("cp", a, dst, up)
CopyTo(p, type, dst, up) == IF p.ok THEN Cp(getAbsolutePath(p, type), dst, up) ELSE p
copy(c, type, dst, up) == CopyTo(Prepared(isExist(c, type), dst), type, dst, up)

\* The link holds the text of the object's path.  A directory that is at the new
\* name is not entered: symlink fails on it.
Symlink(d, at) == On(d, symlink(at.tree, d.path, at.real))
LinkAt(d, new) ==
    IF new.ok /\ getType(new) # DIRECTORY THEN Returns(d, FALSE)
    ELSE Symlink(d, getAbsolutePath(IF new.ok THEN new ELSE create(new, UKNOWN), UKNOWN))
LinkFrom(d, dst) == IF d.ok THEN LinkAt(d, isExist(Object(d.tree, dst.path), UKNOWN)) ELSE d
createSymLink(c, type, dst) == LinkFrom(isExist(c, type), dst)

\* A link is followed: what goes is what the resolved path names.
Delete(a, up, directory) ==
    IF directory THEN execCommand(a, up, {a.real}, RunEach("rm", a.tree, Text(a.real), <<>>))
    ELSE On(a, unlink(a.tree, a.real))
RemoveObject(d, type, up) ==
    IF d.ok THEN Forget(Delete(getAbsolutePath(d, type), up, getType(d) = DIRECTORY)) ELSE d
remove(c, type, up) == RemoveObject(isExist(c, type), type, up)

Unlink_Real(a) == On(a, unlink(a.tree, a.real))
Unlink(a) == On(a, unlink(a.tree, a.path))
Retarget(u) == IF u.ok THEN setPath(u, u.real) ELSE u
RemoveLink(d, type) ==
    IF d.ok /\ isSymbolicLink(d) THEN Retarget(Unlink(getAbsolutePath(d, type))) ELSE d
removeSymLink(c, type) == RemoveLink(isExist(c, type), type)

\* setOwner and setGroup run chown and chgrp on the resolved path, changeMode
\* calls chmod; owners and modes are no part of the tree.  up of chmod: whether
\* the caller may.
Own(a, up, words) ==
    execCommand(a, up, {a.real},
                [tree |-> a.tree, ok |-> words # <<>> /\ \A i \in DOMAIN words :
                                                             stat(a.tree, words[i]) # None])
ChangeOwner(d, type, up) ==
    LET a == getAbsolutePath(d, type) IN IF d.ok THEN Own(a, up, Text(a.real)) ELSE d
setOwner(c, type, up) == ChangeOwner(isExist(c, type), type, up)

ModeAt(a, up) == Returns(a, up /\ a.real # <<>> /\ stat(a.tree, a.real) # None)
Chmod(d, type, up) == IF d.ok /\ getStat(d) # None THEN ModeAt(getAbsolutePath(d, type), up)
                      ELSE Returns(d, FALSE)
changeMode(c, type, up) == Chmod(isExist(c, type), type, up)
-----------------------------------------------------------------------------
Init ==
    /\ tree \in Trees
    /\ m_path \in ObjectPaths \cup {<<>>}
    /\ m_exists = FALSE
    /\ m_realPath = <<>>
    /\ m_absolute = IsAbsolute(m_path)
    /\ m_type \in {UKNOWN, REGULAR_FILE, DIRECTORY}

Becomes(c) ==
    /\ tree' = c.tree
    /\ m_path' = c.path
    /\ m_exists' = c.exists
    /\ m_realPath' = c.real
    /\ m_absolute' = c.absolute
    /\ UNCHANGED m_type

SetPath == \E p \in ObjectPaths \cup {<<>>} : Becomes(setPath(Now, p))
IsExist == Becomes(isExist(Now, m_type))
GetAbsolutePath == Becomes(getAbsolutePath(Now, m_type))
Create == Becomes(create(Now, m_type))
Move == \E dst \in Destinations, up \in BOOLEAN :
            Becomes(move(Now, m_type, dst, up))
Copy == \E dst \in Destinations, up \in BOOLEAN :
            Becomes(copy(Now, m_type, dst, up))
CreateSymLink == \E dst \in Destinations : Becomes(createSymLink(Now, m_type, dst))
Remove == \E up \in BOOLEAN : Becomes(remove(Now, m_type, up))
RemoveSymLink == Becomes(removeSymLink(Now, m_type))
SetOwner == \E up \in BOOLEAN : Becomes(setOwner(Now, m_type, up))
ChangeMode == \E up \in BOOLEAN : Becomes(changeMode(Now, m_type, up))

\* Another program makes a node, or deletes one and what is below it.
Other == \E p \in EnvPaths :
    /\ Entry(tree, p) = p
    /\ IF tree[p] = None THEN \E n \in EnvNodes : tree' = Put(tree, p, n)
       ELSE tree' = Prune(tree, p)
    /\ UNCHANGED <<object, m_type>>

Next == \/ SetPath \/ IsExist \/ GetAbsolutePath \/ Create \/ Move \/ Copy
        \/ CreateSymLink \/ Remove \/ RemoveSymLink \/ SetOwner \/ ChangeMode
        \/ Other

Spec == Init /\ [][Next]_vars
-----------------------------------------------------------------------------
\* What a path names: what it resolves to, or the name itself if it does not.
Named(t, p) == IF p = <<>> THEN {}
               ELSE IF realpath(t, p) # NoPath THEN {realpath(t, p)}
               ELSE {Entry(t, p)} \ {NoPath}
Touched(t, u) == {p \in Paths : t[p] # u[p]}

\* An object that is remembered to exist, of which neither the path nor the
\* directory resolves any more: getAbsolutePath answers with an earlier path.
Strays == m_exists /\ realpath(tree, m_path) = NoPath /\ directoryPath(Now) = NoPath

\* What a shell command does to the directory at n, it does to every word of n.
Operands(n) == IF Plain(n) \/ tree[n] # Dir THEN {n}
               ELSE {Entry(tree, Words[n][i]) : i \in DOMAIN Words[n]} \ {NoPath}
Doomed == IF Strays THEN {Entry(tree, m_realPath)} \ {NoPath}
          ELSE UNION {Operands(n) : n \in Named(tree, m_path)}

\* remove deletes what the object's path names and nothing else, but for two
\* cases: of a directory whose path a shell takes apart, what its words name; of
\* an object that strays, at most the one file or link that getAbsolutePath
\* remembers, no directory.  After a remove that returned true the path names
\* nothing.  (FsObject::remove, with a remembered m_exists and m_realPath.)
RemoveHitsOnlyNamed ==
    \A up \in BOOLEAN :
        LET c == remove(Now, m_type, up)
            hit == Touched(tree, c.tree)
        IN  /\ \A q \in hit : \E n \in Doomed : Under(q, n)
            /\ Strays => \A q \in hit : tree[q] # Dir
            /\ c.ok /\ (\A n \in Named(tree, m_path) : Plain(n)) => stat(c.tree, m_path) = None

\* create changes no node that is there, whatever it returns, and true means
\* that an object of the type is at the path it then has.
CreateIsSafe ==
    LET c == create(Now, m_type) IN
    /\ \A q \in Touched(tree, c.tree) : tree[q] = None
    /\ c.ok => TypeOf(stat(c.tree, c.path)) = m_type

\* create succeeds under its own name when nothing is there and the way down is
\* of directories and missing names, however much of it is missing.  (For a
\* name in the root makePath fails; create does not look at that.)
CreateSucceeds ==
    LET c == create(Now, m_type)
        clear == \A k \in 1 .. Len(m_path) - 1 : tree[SubSeq(m_path, 1, k)] \in {None, Dir}
    IN  m_path \notin Bare \cup {<<>>} /\ ~m_exists /\ m_type # UKNOWN /\ clear /\ tree[m_path] = None
        => c.ok /\ c.path = m_path

\* Whatever create meets, both.
CreateIsRight == CreateIsSafe /\ CreateSucceeds

\* Where move and copy leave the source: below a directory at the destination,
\* which they make for a directory and for a path with a trailing slash.
Landing(t, src, dst) ==
    IF dst.slash \/ t[src] = Dir \/ stat(t, dst.path) = Dir
    THEN Append(dst.path, Name(src)) ELSE dst.path

\* u has at d what t has at s.
SameBelow(t, s, u, d) ==
    \A q \in Paths : Under(q, s) /\ t[q] # None
        => u[d \o SubSeq(q, Len(s) + 1, Len(q))] = t[q]

\* The command is about the object and the destination: the object does not
\* stray, and the shell leaves both texts whole.
Straight(dst) == ~Strays /\ Plain(dst.path) /\ \A n \in Named(tree, m_path) : Plain(n)

\* A move that returned true has put all of the source at its landing, where
\* that was in the directories a move makes before mv; no other node is lost,
\* but for one it replaces there, and nothing by a move that returned false.
MoveKeepsData ==
    \A dst \in Destinations, up \in BOOLEAN : Straight(dst) =>
        LET c == move(Now, m_type, dst, up)
            lost == {q \in Touched(tree, c.tree) : tree[q] # None}
        IN  IF ~c.ok THEN lost = {}
            ELSE \E src \in Named(tree, m_path) :
                     LET to == Entry(move(Now, m_type, dst, FALSE).tree, Landing(tree, src, dst)) IN
                     /\ to # NoPath
                     /\ SameBelow(tree, src, c.tree, to)
                     /\ \A q \in lost : Under(q, src) \/ q = to

\* A copy leaves all of the source where it is and, when it returned true, has
\* the same at its landing; whatever it returns, it changes no node elsewhere.
CopyKeepsSource ==
    \A dst \in Destinations, up \in BOOLEAN : Straight(dst) =>
        LET c == copy(Now, m_type, dst, up)
            lost == {q \in Touched(tree, c.tree) : tree[q] # None}
        IN  \A src \in Named(tree, m_path) :
                LET to == Landing(tree, src, dst)
                    made == copy(Now, m_type, dst, FALSE).tree
                IN
                /\ SameBelow(tree, src, c.tree, src)
                /\ c.ok => \E n \in Named(made, to) \cup {Entry(made, to)} :
                               n # NoPath /\ SameBelow(tree, src, c.tree, n)
                /\ \A q \in lost : \E n \in Named(tree, to) \cup {Entry(tree, to)} : Under(q, n)

\* No data is lost on the way, by either.  (What the words of a text that is not
\* plain move and copy, the object's path does not say: nothing is claimed.)
MoveAndCopyKeepData == MoveKeepsData /\ CopyKeepsSource

\* After createSymLink returned true for an object that is there, the new name
\* leads to that object, unless by more links than are followed, and no node
\* that was there has changed.  An object with a bare name is led to only where
\* the link is in the directory the name is in.
LinkLeadsToObject ==
    \A dst \in Destinations :
        LET c == createSymLink(Now, m_type, dst) IN
        /\ \A q \in Touched(tree, c.tree) : tree[q] = None
        /\ c.ok /\ getStat(Now) # None
           /\ (m_path \in Bare => Parent(Entry(c.tree, dst.path)) = realpath(tree, Parent(m_path))) =>
              \/ realpath(c.tree, dst.path) = realpath(tree, m_path)
              \/ TooLong(c.tree, dst.path)

\* removeSymLink deletes links only, and of a link that resolved it leaves the
\* object naming what the link led to.
RemovesOnlyLinks ==
    LET c == removeSymLink(Now, m_type) IN
    /\ \A q \in Touched(tree, c.tree) : IsLink(tree[q]) /\ c.tree[q] = None
    /\ c.ok /\ getStat(Now) # None =>
          stat(c.tree, c.path) = getStat(Now) /\ ~isSymbolicLink(c)

\* A link is made to the object and taken away without it.
LinksAreRight == LinkLeadsToObject /\ RemovesOnlyLinks
=============================================================================

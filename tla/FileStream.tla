----------------------------- MODULE FileStream -----------------------------
(***************************************************************************)
(* Sys::Fs::File: an FsObject that is a std::fstream as well.  A regular   *)
(* file of the tree is an inode here, with its contents in data, so that a *)
(* stream keeps its file when the name goes.  Contents are a set of words: *)
(* where in the file a word goes, and how often, is left out.              *)
(***************************************************************************)
EXTENDS FsObject

CONSTANTS Old,        \* what the files of Trees hold
          Word        \* what the caller writes

ASSUME EnvNodesAssumption == EnvNodes \cap Files = {}  \* a new file is a new inode

VARIABLES data,   \* the contents of every inode
          stream, \* the open file, its mode, and what is in the buffer
          kept    \* history: opened by a walkable path that did not stray, and
                  \* since then neither an assignment nor another program

fileVars == <<vars, data, stream, kept>>

Closed == [file |-> None, mode |-> "none", pending |-> {}]
Modes == {"in", "out", "app", "inout"}
IsOpen == stream.file # None

Here == [obj |-> Now, data |-> data, stream |-> stream]
InTree(t) == {t[p] : p \in Paths}
Unused(t) == Files \ (InTree(t) \cup {stream.file})
Fresh(t) == CHOOSE f \in Unused(t) : TRUE

Flushed(w) == [w EXCEPT !.data[w.stream.file] = @ \cup w.stream.pending, !.stream.pending = {}]
checkAndClose_Forgets(w) == [w EXCEPT !.stream = Closed]
checkAndClose(w) ==
    IF w.stream.file = None THEN w ELSE [Flushed(w) EXCEPT !.stream = Closed]

\* std::fstream::open: in and in|out need a file, out empties it.
Attached(w, f, mode) ==
    [w EXCEPT !.stream = [file |-> f, mode |-> mode, pending |-> {}],
              !.data[f] = IF mode = "out" THEN {} ELSE @]
Made(w, c, f, mode) ==
    IF c.ok THEN Attached([w EXCEPT !.obj.tree = c.tree, !.data[f] = {}], f, mode) ELSE w
fstream_open(w, mode) ==
    LET n == stat(w.obj.tree, w.obj.real)
        f == Fresh(w.obj.tree)
    IN  IF w.obj.real = <<>> THEN w
        ELSE IF n \in Files THEN Attached(w, n, mode)
        ELSE IF n = None /\ mode \in {"out", "app"}
             THEN Made(w, creat(w.obj.tree, w.obj.real, f), f, mode)
        ELSE w

\* With an empty path even the open stream is left as it is.
openInit(w, mode) ==
    IF w.obj.path = <<>> THEN w
    ELSE fstream_open([checkAndClose(w) EXCEPT !.obj = getAbsolutePath(@, REGULAR_FILE)], mode)

NewPath_KeepsStream(w, p) == [w EXCEPT !.obj = setPath(@, p)]
NewPath(w, p) == [checkAndClose(w) EXCEPT !.obj = setPath(@, p)]

\* move and remove: the stream is closed when the object exists.
IfExists(w) == IF w.obj.ok THEN checkAndClose(w) ELSE w
Ready(w) == IfExists([w EXCEPT !.obj = isExist(@, REGULAR_FILE)])
MovedAway(r, dst, up) == IF r.obj.ok THEN [r EXCEPT !.obj = move(@, REGULAR_FILE, dst, up)] ELSE r
Removed(r, up) == IF r.obj.ok THEN [r EXCEPT !.obj = remove(@, REGULAR_FILE, up)] ELSE r
\* The directories on the way to the path are there or can be made; a bare name
\* is there; and links are no more than are followed.
Walkable(t, p) ==
    /\ ~TooLong(t, p)
    /\ p \in Bare => stat(t, p) # None
    /\ Len(p) > 1 => MakeDirs(t, Parent(p)).ok
-----------------------------------------------------------------------------
FileInit ==
    /\ Init /\ m_type = REGULAR_FILE
    /\ data = [f \in Files |-> IF f \in InTree(tree) THEN {Old} ELSE {}]
    /\ stream = Closed
    /\ kept = TRUE

\* An inode with neither a name nor a stream is given back, empty.
Held(w) == InTree(w.obj.tree) \cup {w.stream.file}
To(w) == /\ Becomes(w.obj)
         /\ data' = [f \in Files |-> IF f \in Held(w) THEN w.data[f] ELSE {}]
         /\ stream' = w.stream
Same == UNCHANGED kept
Sure == Walkable(tree, m_path) /\ ~Strays
Room == Unused(tree) # {}

Open == \E mode \in Modes :
    Room /\ To(openInit(Here, mode)) /\ kept' = IF m_path = <<>> THEN kept ELSE Sure
OpenPath == \E p \in ObjectPaths, mode \in Modes :
    Room /\ To(openInit(NewPath(Here, p), mode)) /\ kept' = Walkable(tree, p)
NewFilePath == \E p \in ObjectPaths \cup {<<>>} : To(NewPath(Here, p)) /\ Same
Assign == \E p \in ObjectPaths \cup {<<>>} :
    To([Here EXCEPT !.obj = setPath(@, p)]) /\ kept' = ~IsOpen
Look == To([Here EXCEPT !.obj = isExist(@, REGULAR_FILE)]) /\ Same
CloseStream == IsOpen /\ To(checkAndClose(Here)) /\ Same
MoveFile == \E dst \in Destinations, up \in BOOLEAN : To(MovedAway(Ready(Here), dst, up)) /\ Same
RemoveFile == \E up \in BOOLEAN : To(Removed(Ready(Here), up)) /\ Same

\* The destructor, and another File in its place.
Replace == \E p \in ObjectPaths :
    To([checkAndClose(Here) EXCEPT !.obj = Object(@.tree, p)]) /\ Same

\* operator << puts a word into the buffer, which empties itself at any time.
Write ==
    /\ IsOpen /\ stream.mode # "in"
    /\ stream' = [stream EXCEPT !.pending = {Word}]
    /\ UNCHANGED <<vars, data, kept>>
Flush == stream.pending # {} /\ To(Flushed(Here)) /\ Same

\* Another program makes a file, a directory or a link, or deletes what is there
\* and what is below it.
Program == \E p \in EnvPaths :
    /\ Entry(tree, p) = p /\ Room
    /\ IF tree[p] = None THEN \E n \in {Fresh(tree)} \cup EnvNodes : tree' = Put(tree, p, n)
       ELSE tree' = Prune(tree, p)
    /\ data' = [f \in Files |-> IF f \notin InTree(tree') \cup {stream.file} THEN {}
                                ELSE IF f \in InTree(tree) \cup {stream.file} THEN data[f] ELSE {Old}]
    /\ kept' = ~IsOpen
    /\ UNCHANGED <<object, m_type, stream>>

FileNext == \/ Open \/ OpenPath \/ NewFilePath \/ Assign \/ Look \/ CloseStream
            \/ MoveFile \/ RemoveFile \/ Replace \/ Write \/ Flush \/ Program

FileSpec == FileInit /\ [][FileNext]_fileVars
-----------------------------------------------------------------------------
\* What openInit opens, and empties, is the file the path names.
OpensOnly(mode) ==
    LET w == openInit(Here, mode)
        before == checkAndClose(Here).data
    IN  /\ \A f \in InTree(tree) \cap Files : w.data[f] # before[f] => f = stat(tree, m_path)
        /\ w.stream.file # None => w.stream.file = stat(w.obj.tree, m_path)

\* openRead, openWrite, openAppend and openReadWrite open the file the path
\* names, and empty no other, when the directories on the way are there or can be
\* made and the object does not stray: a stale m_exists does harm only when the
\* directory has gone as well, a stale m_realPath only then or when nothing can be
\* made of the path.
OpensOnlyNamed == m_path # <<>> /\ Sure /\ Room => \A mode \in Modes : OpensOnly(mode)

\* The same of every path: "Opens the file identified by argument filename"
\* (File.h, open).  It does not hold: see the finding.
OpensNamedFile == m_path # <<>> /\ Room => \A mode \in Modes : OpensOnly(mode)

\* The stream is that of the object's path: setPath, move and remove never
\* leave it on the file of an earlier name.  (An assignment does, an open of
\* an object that strays may, and another program may take the name.)
StreamFollowsPath == IsOpen /\ kept => stat(tree, m_path) = stream.file

\* A file that was moved is complete: what was written before the call is in it
\* and in no buffer.  (File::move closes the stream before mv runs.  Of texts that
\* the shell takes apart the answer of move says nothing, nor does this.)
MovedIsComplete ==
    \A dst \in Destinations, up \in BOOLEAN : Straight(dst) =>
        LET w == MovedAway(Ready(Here), dst, up) IN
        w.obj.ok /\ IsOpen /\ stat(tree, m_path) = stream.file =>
            /\ stream.file \in InTree(w.obj.tree)
            /\ stream.pending \subseteq w.data[stream.file]
            /\ w.stream.file = None
=============================================================================

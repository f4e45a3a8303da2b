------------------------------ MODULE Listing ------------------------------
(***************************************************************************)
(* Sys::Fs::Dir: the entries of a directory, read with ls and kept for as  *)
(* long as the directory's modification time, in whole seconds, is the one *)
(* of the last reading.  Other programs change the directories meanwhile.  *)
(* The directories are no links, and the ones they are in always exist.    *)
(* The path goes to the shell as it is, without quotes: Lists says which   *)
(* directories the command names.                                          *)
(***************************************************************************)
EXTENDS Integers, FiniteSets

CONSTANTS Dirs, Root,   \* directories, one of them the root
          Names,        \* of what directories contain
          Hidden,       \* names ls leaves out
          Dangling,     \* names of links that lead nowhere
          Trim,         \* Trim[n]: n without blanks at its ends
          Lists,        \* Lists[d]: what the text of d's path names to the shell
          Absent,       \* no directory is there
          Disks,        \* what the directories contain at first
          Times,        \* and when they were modified, 1 being now
          Empty,        \* the empty path
          LsMayFail,    \* whether a started ls may fail
          MaxTime,      \* bound: seconds of the clock
          MaxChanges    \* bound: what other programs do

ASSUME NamesAssumption == /\ Root \in Dirs /\ Empty \notin Dirs
                          /\ Hidden \subseteq Names /\ Dangling \subseteq Names
                          /\ Trim \in [Names -> Names]
\* A blank, "*" or "$" in the path of d names other directories, several or none.
ASSUME ListsAssumption == Lists \in [Dirs -> SUBSET Dirs] /\ Lists[Root] = {Root}
ASSUME BoundsAssumption == MaxTime \in Nat /\ MaxChanges \in Nat /\ LsMayFail \in BOOLEAN
                           /\ Times \subseteq 0 .. 1 /\ MaxTime > 0
ASSUME DisksAssumption ==
    /\ \A inside \in SUBSET Names : inside # Absent
    /\ \A c \in Disks : c \in [Dirs -> (SUBSET Names) \cup {Absent}] /\ c[Root] # Absent

VARIABLES content, mtime, clock, changes,    \* the directories and the time
          m_fullPath, m_realPath, m_lastUpdate, m_entries,
          pc, unchecked,          \* getEntries: where it is, lines to go through
          always, ever,           \* history: what was there all the time since ls began, and
                                  \* what was there at some time
          read                    \* history: path and time of the last reading

disk == <<content, mtime, clock, changes>>
place == <<m_fullPath, m_realPath>>
vars == <<disk, place, m_lastUpdate, m_entries, pc, unchecked, always, ever, read>>

NoRead == [path |-> Empty, at |-> 0]
In(d) == IF content[d] = Absent THEN {} ELSE content[d]
Listed(entries) == {e.name : e \in entries}

TypeOK ==
    /\ content \in [Dirs -> (SUBSET Names) \cup {Absent}] /\ content[Root] # Absent
    /\ mtime \in [Dirs -> 0 .. clock] /\ clock \in 0 .. MaxTime
    /\ m_fullPath \in Dirs \cup {Empty} /\ m_realPath \in Dirs \cup {Empty}
    /\ m_lastUpdate \in -1 .. clock
    /\ m_entries \subseteq [dir : Dirs, name : Names \ Dangling]
    /\ pc \in {"idle", "start", "ls", "check"}
    /\ unchecked \subseteq Names \ Hidden /\ (pc # "check" => unchecked = {})
    /\ always \subseteq ever /\ ever \subseteq Names
    /\ read \in [path : Dirs \cup {Empty}, at : 0 .. clock]

getLastUpdateTime(p) == IF p = Empty \/ content[p] = Absent THEN -1 ELSE mtime[p]
isExist_Lstat(d, n) == n \in In(d)
isExist(d, n) == n \in In(d) \ Dangling

\* Entries are looked up below m_realPath; with no path that is the root.
Place == IF m_realPath = Empty THEN Root ELSE m_realPath
\* What ls lists: the command is "ls ", m_realPath and "/".
Target == Lists[Place]
Inside == UNION {In(d) : d \in Target}
Plain(d) == Lists[d] = {d}
-----------------------------------------------------------------------------
Init ==
    /\ content \in Disks
    /\ mtime \in [Dirs -> Times] /\ clock = 1 /\ changes = 0
    /\ m_fullPath \in Dirs \cup {Empty} /\ m_realPath = Empty
    /\ m_lastUpdate = 0 /\ m_entries = {}
    /\ pc = "idle" /\ unchecked = {} /\ always = {} /\ ever = {} /\ read = NoRead

\* setPath, and assignment from another Dir: the time of the other's listing
\* is copied, the listing is not; a move resets the time.
SetPath == \E p \in Dirs \cup {Empty} :
    /\ pc = "idle"
    /\ m_fullPath' = p
    /\ UNCHANGED <<disk, m_realPath, m_lastUpdate, m_entries, pc, unchecked, always, ever, read>>
Assign == \E p \in Dirs \cup {Empty}, t \in {0} \cup {getLastUpdateTime(d) : d \in Dirs} :
    /\ pc = "idle"
    /\ m_fullPath' = p
    /\ m_lastUpdate' = t
    /\ UNCHANGED <<disk, m_realPath, m_entries, pc, unchecked, always, ever, read>>

\* getEntries: the time first, and nothing more if it is the remembered one.
\* An empty path leaves m_realPath as it was, and m_realPath is what ls gets.
RealPath_Cached(path) == IF path = Empty \/ m_realPath # Empty THEN m_realPath ELSE path
RealPath(path) == IF path = Empty THEN m_realPath ELSE path
Cleared_Not(entries) == entries
Cleared(entries) == {}
GetEntries ==
    /\ pc = "idle"
    /\ m_lastUpdate # getLastUpdateTime(m_fullPath)
    /\ m_lastUpdate' = getLastUpdateTime(m_fullPath)
    /\ m_entries' = Cleared(m_entries)
    /\ m_realPath' = RealPath(m_fullPath)
    /\ pc' = "start"
    /\ read' = [path |-> m_fullPath, at |-> clock]
    /\ UNCHANGED <<disk, m_fullPath, unchecked, always, ever>>

LsFails ==
    /\ pc \in {"start", "ls"}
    /\ LsMayFail \/ Target = {} \/ \E d \in Target : content[d] = Absent
    /\ pc' = "idle" /\ always' = {} /\ ever' = {} /\ read' = NoRead
    /\ UNCHANGED <<disk, place, m_lastUpdate, m_entries, unchecked>>
LsOpens ==
    /\ pc = "start" /\ Target # {} /\ \A d \in Target : content[d] # Absent
    /\ pc' = "ls"
    /\ always' = Inside /\ ever' = Inside
    /\ UNCHANGED <<disk, place, m_lastUpdate, m_entries, unchecked, read>>

\* ls prints what is there all the time, and may print what comes or goes.
LsEnds == \E come \in SUBSET (ever \ always) :
    /\ pc = "ls"
    /\ pc' = "check"
    /\ unchecked' = (always \cup come) \ Hidden
    /\ UNCHANGED <<disk, place, m_lastUpdate, m_entries, always, ever, read>>

Check == \E n \in unchecked :
    /\ unchecked' = unchecked \ {n}
    /\ m_entries' = IF isExist(Place, Trim[n])
                    THEN m_entries \cup {[dir |-> Place, name |-> Trim[n]]} ELSE m_entries
    /\ UNCHANGED <<disk, place, m_lastUpdate, pc, always, ever, read>>

Return ==
    /\ pc = "check" /\ unchecked = {}
    /\ pc' = "idle" /\ always' = {} /\ ever' = {}
    /\ UNCHANGED <<disk, place, m_lastUpdate, m_entries, unchecked, read>>

\* Other programs, at any time, and the clock.
Put(d, inside) ==
    /\ changes < MaxChanges
    /\ changes' = changes + 1
    /\ content' = [content EXCEPT ![d] = inside]
    /\ mtime' = [mtime EXCEPT ![d] = clock]
    /\ UNCHANGED <<clock, place, m_lastUpdate, m_entries, pc, unchecked, read>>
    /\ LET now == IF inside = Absent THEN {} ELSE inside IN
       IF d \in Target /\ pc \in {"ls", "check"}
       THEN always' = always \ (In(d) \ now) /\ ever' = ever \cup now
       ELSE UNCHANGED <<always, ever>>
Add == \E d \in Dirs, n \in Names :
    content[d] # Absent /\ n \notin content[d] /\ Put(d, content[d] \cup {n})
Delete == \E d \in Dirs, n \in Names :
    content[d] # Absent /\ n \in content[d] /\ Put(d, content[d] \ {n})
RemoveDir == \E d \in Dirs \ {Root} : content[d] # Absent /\ Put(d, Absent)
MakeDir == \E d \in Dirs : content[d] = Absent /\ Put(d, {})
Tick ==
    /\ clock < MaxTime
    /\ clock' = clock + 1
    /\ UNCHANGED <<content, mtime, changes, place, m_lastUpdate, m_entries, pc, unchecked,
                   always, ever, read>>

Next == SetPath \/ Assign \/ GetEntries \/ LsFails \/ LsOpens \/ LsEnds \/ Check \/ Return
        \/ Add \/ Delete \/ RemoveDir \/ MakeDir \/ Tick

Spec == Init /\ [][Next]_vars
-----------------------------------------------------------------------------
\* Names that ls prints, that survive Trim, and that lead somewhere.
Visible == {n \in Names \ (Hidden \cup Dangling) : Trim[n] = n}
Right(d) == /\ Visible \cap In(d) \subseteq Listed(m_entries)
            /\ Listed(m_entries) \subseteq In(d)

\* When getEntries would give the entries it remembers, and it read them for
\* this path, which the shell takes for one word, with success and in a later
\* second than the last change it saw,
\* then they are what is in the directory now, whatever other programs did
\* during the reading and since.  (Dir.cpp:78: the time is taken before ls.)
RememberedEntriesAreRight ==
    /\ pc = "idle" /\ m_fullPath \in Dirs /\ content[m_fullPath] # Absent /\ Plain(m_fullPath)
    /\ read.path = m_fullPath
    /\ m_lastUpdate = getLastUpdateTime(m_fullPath) /\ m_lastUpdate < read.at
    => Right(m_fullPath)

\* A complete reading returns everything that was in the directory from the
\* start of ls to the return, and nothing that was not there at some time then,
\* when the path is one word to the shell.
Returning == pc = "check" /\ pc' = "idle"
ReadingSeesDirectory ==
    [][Returning /\ Plain(Place) =>
           /\ Visible \cap always \subseteq Listed(m_entries)
           /\ Listed(m_entries) \subseteq ever
           /\ m_fullPath # Empty => \A e \in m_entries : e.dir = m_fullPath]_vars
=============================================================================

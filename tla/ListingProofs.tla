---------------------------- MODULE ListingProofs ----------------------------
(***************************************************************************)
(* Listing for any directories, names, seconds and changes.  The inductive *)
(* invariant ties a reading to the path it was begun for (Way), what it    *)
(* has found to what was there since ls began (Seen), and, as long as the  *)
(* directory's time is older than the reading, both to what is there now   *)
(* (Kept).                                                                 *)
(***************************************************************************)
EXTENDS Listing, TLAPS

\* A reading is of the path the object has, and that is the one pasted into ls.
Way == pc # "idle" => /\ read.path = m_fullPath
                      /\ m_fullPath # Empty => m_realPath = m_fullPath

Seen ==
    /\ pc \in {"start", "ls"} => m_entries = {}
    /\ Plain(Place) =>
       /\ pc \in {"ls", "check"} => always \subseteq In(Place) /\ In(Place) \subseteq ever
       /\ pc = "check" => /\ \A e \in m_entries : e.dir = Place /\ e.name \in ever
                          /\ Visible \cap always \subseteq Listed(m_entries) \cup unchecked

\* Nobody has changed the directory since the reading began, and the shell knows
\* it by its path.
Old == read.path \in Dirs /\ Plain(read.path) /\ mtime[read.path] < read.at
Kept ==
    Old => /\ pc \in {"ls", "check"} => ever \subseteq always
           /\ pc = "idle" => Right(read.path)

IInv == TypeOK /\ Way /\ Seen /\ Kept

Node == (SUBSET Names) \cup {Absent}
Change == \E d \in Dirs, inside \in Node : Put(d, inside) /\ (d = Root => inside # Absent)
-----------------------------------------------------------------------------
LEMMA Contents ==
    ASSUME TypeOK, NEW d \in Dirs
    PROVE  /\ content[d] \in Node /\ In(d) \subseteq Names
           /\ content[d] # Absent => content[d] \in SUBSET Names
  BY DEF TypeOK, Node, In

LEMMA PlaceIn == TypeOK => Place \in Dirs /\ Target \subseteq Dirs
  BY NamesAssumption, ListsAssumption DEF TypeOK, Place, Target

\* With a path of one word, what ls lists is what is in the directory.
LEMMA PlainInside ==
    ASSUME TypeOK, Plain(Place)
    PROVE  Target = {Place} /\ Inside = In(Place)
  BY PlaceIn DEF Plain, Target, Inside

\* What another program does is a change of one directory, which leaves the root.
LEMMA ProgramsChange ==
    ASSUME TypeOK, Add \/ Delete \/ RemoveDir \/ MakeDir
    PROVE  Change
<1>1. ASSUME NEW d \in Dirs, NEW n \in Names, content[d] # Absent, Put(d, content[d] \cup {n})
      PROVE  Change
  <2>1. content[d] \cup {n} \in SUBSET Names
    BY <1>1, Contents
  <2> QED BY <1>1, <2>1, DisksAssumption DEF Change, Node
<1>2. ASSUME NEW d \in Dirs, NEW n \in Names, content[d] # Absent, Put(d, content[d] \ {n})
      PROVE  Change
  <2>1. content[d] \ {n} \in SUBSET Names
    BY <1>2, Contents
  <2> QED BY <1>2, <2>1, DisksAssumption DEF Change, Node
<1>3. ASSUME NEW d \in Dirs \ {Root}, Put(d, Absent)
      PROVE  Change
  BY <1>3 DEF Change, Node
<1>4. ASSUME NEW d \in Dirs, Put(d, {})
      PROVE  Change
  BY <1>4, DisksAssumption DEF Change, Node
<1> QED BY <1>1, <1>2, <1>3, <1>4 DEF Add, Delete, RemoveDir, MakeDir

\* The time getEntries looks at is no later than now.
LEMMA UpdateTime ==
    ASSUME TypeOK, NEW p \in Dirs \cup {Empty}
    PROVE  getLastUpdateTime(p) \in -1 .. clock
  BY DEF TypeOK, getLastUpdateTime

LEMMA Initially == Init => IInv
<1> SUFFICES ASSUME Init PROVE IInv
  OBVIOUS
<1>1. TypeOK
  <2>1. content \in [Dirs -> (SUBSET Names) \cup {Absent}] /\ content[Root] # Absent
    BY DisksAssumption DEF Init
  <2>2. mtime \in [Dirs -> 0 .. clock] /\ clock \in 0 .. MaxTime
    <3>1. clock = 1 /\ mtime \in [Dirs -> Times]
      BY DEF Init
    <3>2. Times \subseteq 0 .. clock
      BY <3>1, BoundsAssumption
    <3>3. clock \in 0 .. MaxTime
      BY <3>1, BoundsAssumption
    <3> QED BY <3>1, <3>2, <3>3
  <2>3. m_lastUpdate \in -1 .. clock /\ read \in [path : Dirs \cup {Empty}, at : 0 .. clock]
    BY DEF Init, NoRead
  <2> QED BY <2>1, <2>2, <2>3 DEF Init, TypeOK
<1>2. Way /\ Seen
  BY DEF Init, Way, Seen
<1>3. Kept
  BY NamesAssumption DEF Init, Kept, Old, NoRead
<1> QED BY <1>1, <1>2, <1>3 DEF IInv
-----------------------------------------------------------------------------
LEMMA TypeStep ==
    ASSUME TypeOK, [Next]_vars
    PROVE  TypeOK'
<1> USE DEF disk, place
<1>1. CASE SetPath
  BY <1>1 DEF TypeOK, SetPath
<1>2. CASE Assign
  <2> PICK p \in Dirs \cup {Empty}, t \in {0} \cup {getLastUpdateTime(d) : d \in Dirs} :
        m_fullPath' = p /\ m_lastUpdate' = t
    BY <1>2 DEF Assign
  <2>1. t \in -1 .. clock
    <3>1. CASE t = 0
      BY <3>1 DEF TypeOK
    <3>2. ASSUME NEW d \in Dirs, t = getLastUpdateTime(d) PROVE t \in -1 .. clock
      BY <3>2, UpdateTime
    <3> QED BY <3>1, <3>2
  <2> QED BY <1>2, <2>1 DEF TypeOK, Assign
<1>3. CASE GetEntries
  <2>1. getLastUpdateTime(m_fullPath) \in -1 .. clock
    BY UpdateTime DEF TypeOK
  <2>2. RealPath(m_fullPath) \in Dirs \cup {Empty}
    BY DEF TypeOK, RealPath
  <2>3. clock \in 0 .. clock
    BY DEF TypeOK
  <2> QED BY <1>3, <2>1, <2>2, <2>3 DEF TypeOK, GetEntries, Cleared
<1>4. CASE LsFails
  BY <1>4 DEF TypeOK, LsFails, NoRead
<1>5. CASE LsOpens
  <2>1. Inside \subseteq Names
    BY PlaceIn, Contents DEF Inside
  <2> QED BY <1>5, <2>1 DEF TypeOK, LsOpens
<1>6. CASE LsEnds
  BY <1>6 DEF TypeOK, LsEnds
<1>7. CASE Check
  <2> PICK n \in unchecked :
        /\ unchecked' = unchecked \ {n}
        /\ m_entries' = IF isExist(Place, Trim[n])
                        THEN m_entries \cup {[dir |-> Place, name |-> Trim[n]]} ELSE m_entries
    BY <1>7 DEF Check
  <2>1. n \in Names /\ Trim[n] \in Names
    BY NamesAssumption DEF TypeOK
  <2>2. m_entries' \subseteq [dir : Dirs, name : Names \ Dangling]
    BY <2>1, PlaceIn DEF TypeOK, isExist
  <2> QED BY <1>7, <2>2 DEF TypeOK, Check
<1>8. CASE Return
  BY <1>8 DEF TypeOK, Return
<1>9. CASE Add \/ Delete \/ RemoveDir \/ MakeDir
  <2> PICK d \in Dirs, inside \in Node : Put(d, inside) /\ (d = Root => inside # Absent)
    BY <1>9, ProgramsChange DEF Change
  <2>1. content' \in [Dirs -> Node] /\ content'[Root] # Absent
    BY NamesAssumption DEF TypeOK, Put, Node
  <2>2. mtime' \in [Dirs -> 0 .. clock]
    BY DEF TypeOK, Put
  <2>3. always' \subseteq ever' /\ ever' \subseteq Names
    BY DEF TypeOK, Put, Node
  <2>4. UNCHANGED <<clock, place, m_lastUpdate, m_entries, pc, unchecked, read>>
    BY DEF Put
  <2> QED BY <2>1, <2>2, <2>3, <2>4 DEF TypeOK, Node
<1>10. CASE Tick
  <2>1. clock' \in 0 .. MaxTime /\ \A n \in -1 .. clock : n \in -1 .. clock'
    BY <1>10, BoundsAssumption DEF TypeOK, Tick
  <2>2. \A n \in 0 .. clock : n \in 0 .. clock'
    BY <1>10 DEF TypeOK, Tick
  <2>3. mtime \in [Dirs -> 0 .. clock'] /\ m_lastUpdate \in -1 .. clock'
    BY <2>1, <2>2 DEF TypeOK
  <2>4. read \in [path : Dirs \cup {Empty}, at : 0 .. clock']
    BY <2>2 DEF TypeOK
  <2> QED BY <1>10, <2>1, <2>3, <2>4 DEF TypeOK, Tick
<1>11. CASE UNCHANGED vars
  BY <1>11 DEF TypeOK, vars
<1> QED BY <1>1, <1>2, <1>3, <1>4, <1>5, <1>6, <1>7, <1>8, <1>9, <1>10, <1>11 DEF Next

LEMMA WayStep ==
    ASSUME TypeOK, Way, [Next]_vars
    PROVE  Way'
<1>1. CASE SetPath \/ Assign \/ LsFails \/ Return
  BY <1>1 DEF Way, SetPath, Assign, LsFails, Return
<1>2. CASE GetEntries
  BY <1>2 DEF Way, GetEntries, RealPath
<1>3. CASE LsOpens \/ LsEnds \/ Check \/ Tick \/ UNCHANGED vars
  BY <1>3 DEF Way, LsOpens, LsEnds, Check, Tick, vars, place, TypeOK
<1>4. CASE Add \/ Delete \/ RemoveDir \/ MakeDir
  BY <1>4, ProgramsChange DEF Way, Change, Put, place
<1> QED BY <1>1, <1>2, <1>3, <1>4 DEF Next
-----------------------------------------------------------------------------
\* Only a change of a directory changes what is in it, and a change gives it
\* the present time.
LEMMA SamePlace ==
    ASSUME UNCHANGED <<content, place>>
    PROVE  Place' = Place /\ \A d \in Dirs : In(d)' = In(d)
  BY DEF place, Place, In

LEMMA SeenStep ==
    ASSUME TypeOK, Seen, [Next]_vars
    PROVE  Seen'
<1> USE DEF disk
<1>0. ASSUME Plain(Place), pc \in {"ls", "check"}
      PROVE  always \subseteq In(Place) /\ In(Place) \subseteq ever
  BY <1>0 DEF Seen
<1>1. CASE SetPath \/ Assign \/ LsFails \/ Return
  BY <1>1 DEF Seen, SetPath, Assign, LsFails, Return
<1>2. CASE GetEntries
  BY <1>2 DEF Seen, GetEntries, Cleared
<1>3. CASE LsOpens
  <2>1. Place' = Place /\ In(Place)' = In(Place)
    BY <1>3, SamePlace, PlaceIn DEF LsOpens
  <2>2. Plain(Place) => always' = In(Place) /\ ever' = In(Place)
    BY <1>3, PlainInside DEF LsOpens
  <2>3. pc' = "ls" /\ m_entries' = {}
    BY <1>3 DEF Seen, LsOpens
  <2> QED BY <2>1, <2>2, <2>3 DEF Seen, Plain
<1>4. CASE LsEnds
  <2>1. Place' = Place /\ In(Place)' = In(Place)
    BY <1>4, SamePlace, PlaceIn DEF LsEnds
  <2>2. m_entries' = {} /\ pc = "ls" /\ pc' = "check" /\ UNCHANGED <<always, ever>>
    BY <1>4 DEF Seen, LsEnds
  <2>3. Visible \cap always \subseteq unchecked'
    BY <1>4 DEF LsEnds, Visible
  <2> QED BY <1>0, <2>1, <2>2, <2>3 DEF Seen, Plain
<1>5. CASE Check
  <2> PICK n \in unchecked :
        /\ unchecked' = unchecked \ {n}
        /\ m_entries' = IF isExist(Place, Trim[n])
                        THEN m_entries \cup {[dir |-> Place, name |-> Trim[n]]} ELSE m_entries
    BY <1>5 DEF Check
  <2>1. Place' = Place /\ In(Place)' = In(Place)
    BY <1>5, SamePlace, PlaceIn DEF Check
  <2>2. pc = "check" /\ pc' = "check" /\ always' = always /\ ever' = ever
    BY <1>5 DEF Check, TypeOK
  <2>3. ASSUME Plain(Place)
        PROVE  /\ \A e \in m_entries' : e.dir = Place /\ e.name \in ever
               /\ Visible \cap always \subseteq Listed(m_entries') \cup unchecked'
    <3>0. /\ always \subseteq In(Place) /\ In(Place) \subseteq ever
          /\ \A e \in m_entries : e.dir = Place /\ e.name \in ever
          /\ Visible \cap always \subseteq Listed(m_entries) \cup unchecked
      BY <2>2, <2>3 DEF Seen
    <3>1. \A e \in m_entries' : e.dir = Place /\ e.name \in ever
      BY <3>0 DEF isExist
    <3>2. Listed(m_entries) \subseteq Listed(m_entries')
      BY DEF Listed
    <3>3. n \in Visible \cap always => n \in Listed(m_entries')
      <4> SUFFICES ASSUME n \in Visible \cap always PROVE n \in Listed(m_entries')
        OBVIOUS
      <4>1. n \in In(Place) \ Dangling /\ Trim[n] = n
        BY <3>0 DEF Visible
      <4>2. [dir |-> Place, name |-> n] \in m_entries'
        BY <4>1 DEF isExist
      <4> QED BY <4>2 DEF Listed
    <3>4. Visible \cap always \subseteq Listed(m_entries') \cup unchecked'
      BY <3>0, <3>2, <3>3
    <3> QED BY <3>1, <3>4
  <2>4. Listed(m_entries)' = Listed(m_entries')
    BY DEF Listed
  <2> QED BY <1>0, <2>1, <2>2, <2>3, <2>4 DEF Seen, Plain
<1>6. CASE Add \/ Delete \/ RemoveDir \/ MakeDir
  <2> PICK d \in Dirs, inside \in Node : Put(d, inside)
    BY <1>6, ProgramsChange DEF Change
  <2>1. UNCHANGED <<pc, m_entries, unchecked>> /\ Place' = Place
    BY DEF Put, place, Place
  <2>2. ASSUME Plain(Place), pc \in {"ls", "check"}
        PROVE  always' \subseteq In(Place)' /\ In(Place)' \subseteq ever'
               /\ ever \subseteq ever' /\ always' \subseteq always
    <3>0. always \subseteq In(Place) /\ In(Place) \subseteq ever /\ Place \in Dirs
          /\ Target = {Place}
      BY <1>0, <2>2, PlaceIn, PlainInside
    <3>1. CASE d = Place
      BY <2>1, <2>2, <3>0, <3>1 DEF Put, In, TypeOK
    <3>2. CASE d # Place
      BY <2>1, <2>2, <3>0, <3>2 DEF Put, In, TypeOK
    <3> QED BY <3>1, <3>2
  <2>3. Listed(m_entries)' = Listed(m_entries)
    BY <2>1 DEF Listed
  <2> QED BY <2>1, <2>2, <2>3 DEF Seen, Plain
<1>7. CASE Tick \/ UNCHANGED vars
  <2>1. UNCHANGED <<pc, m_entries, unchecked, always, ever, content, place>>
    BY <1>7 DEF Tick, vars
  <2>2. Place' = Place /\ In(Place)' = In(Place)
    BY <2>1, SamePlace, PlaceIn
  <2> QED BY <2>1, <2>2 DEF Seen, Listed, Plain
<1> QED BY <1>1, <1>2, <1>3, <1>4, <1>5, <1>6, <1>7 DEF Next

\* In a reading the entries are looked up in the directory it is for.
LEMMA PlaceIsRead ==
    ASSUME Way, pc # "idle", read.path \in Dirs
    PROVE  Place = read.path
  BY NamesAssumption DEF Way, Place

LEMMA KeptStep ==
    ASSUME TypeOK, Way, Seen, Kept, [Next]_vars
    PROVE  Kept'
<1> USE DEF disk
<1> SUFFICES ASSUME Old' PROVE (/\ pc \in {"ls", "check"} => ever \subseteq always
                                /\ pc = "idle" => Right(read.path))'
  BY DEF Kept
<1>1. CASE SetPath \/ Assign \/ Tick \/ UNCHANGED vars
  <2>1. UNCHANGED <<content, mtime, m_entries, pc, always, ever, read>>
    BY <1>1 DEF SetPath, Assign, Tick, vars
  <2> QED BY <2>1 DEF Kept, Old, Right, Listed, In
<1>2. CASE GetEntries
  BY <1>2 DEF GetEntries
<1>3. CASE LsFails
  BY <1>3, NamesAssumption DEF LsFails, NoRead, Old
<1>4. CASE LsOpens
  BY <1>4 DEF LsOpens
<1>5. CASE LsEnds \/ Check
  <2>1. UNCHANGED <<mtime, always, ever, read>> /\ pc \in {"ls", "check"} /\ pc' = "check"
    BY <1>5 DEF LsEnds, Check, TypeOK
  <2> QED BY <2>1 DEF Kept, Old
<1>6. CASE Return
  <2>1. pc = "check" /\ pc' = "idle" /\ unchecked = {}
        /\ UNCHANGED <<content, mtime, m_entries, read>>
    BY <1>6 DEF Return
  <2>2. Old /\ ever \subseteq always
    BY <2>1 DEF Kept, Old
  <2>3. Place = read.path /\ Plain(Place)
    BY <2>1, <2>2, PlaceIsRead DEF Old
  <2>4. always = In(read.path) /\ ever = In(read.path)
    BY <2>1, <2>2, <2>3 DEF Seen
  <2>5. Listed(m_entries) \subseteq ever /\ Visible \cap always \subseteq Listed(m_entries)
    BY <2>1, <2>3 DEF Seen, Listed
  <2>6. Right(read.path)
    BY <2>4, <2>5 DEF Right
  <2> QED BY <2>1, <2>6 DEF Right, Listed, In
<1>7. CASE Add \/ Delete \/ RemoveDir \/ MakeDir
  <2> PICK d \in Dirs, inside \in Node : Put(d, inside)
    BY <1>7, ProgramsChange DEF Change
  <2>1. read.path \in Dirs /\ read' = read /\ mtime'[read.path] < read.at
    BY DEF Put, Old
  <2>2. d # read.path
    <3> SUFFICES ASSUME d = read.path PROVE FALSE
      OBVIOUS
    <3>1. mtime'[read.path] = clock
      BY DEF Put, TypeOK
    <3>2. read.at \in 0 .. clock /\ clock \in Nat
      BY DEF TypeOK
    <3> QED BY <2>1, <3>1, <3>2
  <2>3. mtime'[read.path] = mtime[read.path] /\ content'[read.path] = content[read.path]
        /\ UNCHANGED <<m_entries, pc>>
    BY <2>1, <2>2 DEF Put, TypeOK
  <2>4. Old
    BY <2>1, <2>3 DEF Old
  <2>5. pc \in {"ls", "check"} => UNCHANGED <<always, ever>>
    <3>1. pc \in {"ls", "check"} => Target = {read.path}
      BY <2>4, PlaceIsRead DEF Old, Plain, Target
    <3> QED BY <2>2, <3>1 DEF Put
  <2> QED BY <2>1, <2>3, <2>4, <2>5 DEF Kept, Right, Listed, In
<1> QED BY <1>1, <1>2, <1>3, <1>4, <1>5, <1>6, <1>7 DEF Next
-----------------------------------------------------------------------------
LEMMA Inductive == IInv /\ [Next]_vars => IInv'
  BY TypeStep, WayStep, SeenStep, KeptStep DEF IInv

LEMMA Invariant == Spec => []IInv
<1>1. Init => IInv
  BY Initially
<1>2. IInv /\ [Next]_vars => IInv'
  BY Inductive
<1> QED BY <1>1, <1>2, PTL DEF Spec

\* The types of the directories, of the object and of a reading.
THEOREM TypeCorrect == Spec => []TypeOK
<1>1. IInv => TypeOK
  BY DEF IInv
<1> QED BY <1>1, Invariant, PTL

\* The entries getEntries gives without reading again are those in the
\* directory, for the path and the seconds the condition names.  (Dir.cpp:78:
\* the time is taken before ls; were it taken after, Old would say nothing of
\* the changes in between.)
THEOREM RememberedRight == Spec => []RememberedEntriesAreRight
<1>1. IInv => RememberedEntriesAreRight
  <2> SUFFICES ASSUME IInv, pc = "idle", m_fullPath \in Dirs, content[m_fullPath] # Absent,
                      read.path = m_fullPath, m_lastUpdate = getLastUpdateTime(m_fullPath),
                      m_lastUpdate < read.at, Plain(m_fullPath)
               PROVE  Right(m_fullPath)
    BY DEF RememberedEntriesAreRight
  <2>1. m_lastUpdate = mtime[m_fullPath]
    BY NamesAssumption DEF getLastUpdateTime
  <2> QED BY <2>1 DEF IInv, Kept, Old
<1> QED BY <1>1, Invariant, PTL

\* One reading, of a directory that others change meanwhile.
THEOREM ReadingSees == Spec => ReadingSeesDirectory
<1> DEFINE Sees == Returning /\ Plain(Place) =>
                     /\ Visible \cap always \subseteq Listed(m_entries)
                     /\ Listed(m_entries) \subseteq ever
                     /\ m_fullPath # Empty => \A e \in m_entries : e.dir = m_fullPath
<1>1. IInv /\ [Next]_vars => [Sees]_vars
  <2> SUFFICES ASSUME IInv, Next, Returning, Plain(Place)
               PROVE  /\ Visible \cap always \subseteq Listed(m_entries)
                      /\ Listed(m_entries) \subseteq ever
                      /\ m_fullPath # Empty => \A e \in m_entries : e.dir = m_fullPath
    OBVIOUS
  <2>1. pc = "check" /\ unchecked = {}
    <3>1. ASSUME NEW d \in Dirs, NEW inside, Put(d, inside) PROVE pc' = pc
      BY <3>1 DEF Put
    <3>2. CASE Return
      BY <3>2 DEF Return
    <3> QED BY <3>1, <3>2 DEF Returning, Next, SetPath, Assign, GetEntries, LsFails, LsOpens,
               LsEnds, Check, Add, Delete, RemoveDir, MakeDir, Tick
  <2>2. Visible \cap always \subseteq Listed(m_entries) /\ Listed(m_entries) \subseteq ever
    BY <2>1 DEF IInv, Seen, Listed
  <2>3. m_fullPath # Empty => \A e \in m_entries : e.dir = m_fullPath
    BY <2>1 DEF IInv, Seen, Way, Place
  <2> QED BY <2>2, <2>3
<1> QED BY <1>1, Invariant, PTL DEF Spec, ReadingSeesDirectory
=============================================================================

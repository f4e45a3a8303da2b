-------------------------------- MODULE Paths --------------------------------
(***************************************************************************)
(* Sys::Fs::Path: a text, what analyze remembers of it, resolve and        *)
(* resolved.  A text is the sequence of the names its separators divide:   *)
(* "a/b/" is <<a, b, Empty>>, "/" is <<Empty, Empty>>, "" is <<Empty>>.    *)
(* The characters of a name are left out, and with them baseName and       *)
(* extension.                                                              *)
(***************************************************************************)
EXTENDS Integers, Sequences, SequencesExt

CONSTANTS Name,      \* ordinary names
          Empty, Dot, DotDot, Drive,  \* "", ".", "..", "C:"
          MaxNames   \* bound: names of a text

ASSUME NamesAssumption ==
    /\ Name \cap {Empty, Dot, DotDot, Drive} = {}
    /\ Dot # DotDot /\ {Dot, DotDot} \cap {Empty, Drive} = {} /\ Empty # Drive
ASSUME MaxNamesAssumption == MaxNames \in Nat

VARIABLES object, \* m_path, m_details and what analyze filled in; history: moved from
          given   \* another Path, the argument of resolve and of operator=

pathVars == <<object, given>>

AnyName == Name \cup {Empty, Dot, DotDot, Drive}
Texts(n) == UNION {[1 .. k -> AnyName] : k \in 1 .. n}

\* std::getline drops the empty name behind the last separator.
Parts(text) == IF Last(text) = Empty THEN Front(text) ELSE text
isEmpty(text) == text = <<Empty>>
\* Of a text that was set, "" included; Path() itself says FALSE.
pointsToContent(text) == Last(text) = Empty

Absolute(text) == Parts(text) # <<>> /\ Head(text) \in {Empty, Drive}
FullPath(text) ==
    LET parts == Parts(text) IN
    IF parts = <<>> THEN <<Empty>>
    ELSE IF Len(parts) = 1 /\ Absolute(text) THEN Append(parts, Empty) ELSE parts
DirectoryPath(text) ==
    LET parts == Parts(text) IN
    IF Len(parts) > 1 THEN Append(Front(parts), Empty)
    ELSE IF Absolute(text) THEN FullPath(text) ELSE <<Empty>>
FileName(text) ==
    LET parts == Parts(text) IN
    IF Len(parts) > 1 THEN <<Last(parts)>> ELSE FullPath(text)

Details(text) == [fullPath |-> FullPath(text), directoryPath |-> DirectoryPath(text),
                  fileName |-> FileName(text), absolute |-> Absolute(text)]
NoDetails == [fullPath |-> <<Empty>>, directoryPath |-> <<Empty>>, fileName |-> <<Empty>>, absolute |-> FALSE]

setPath_KeepsDetails(p, text) == [p EXCEPT !.text = text, !.moved = FALSE]
setPath(p, text) == [text |-> text, analyzed |-> FALSE, details |-> NoDetails, moved |-> FALSE]
NoPath == [text |-> <<Empty>>, analyzed |-> FALSE, details |-> NoDetails, moved |-> FALSE]
Path(text) == setPath(NoPath, text)
analyze(p) == IF p.analyzed THEN p ELSE [p EXCEPT !.analyzed = TRUE, !.details = Details(p.text)]

\* std::move empties the strings of a Path and leaves its flags.
MovedFrom(p) == [text |-> <<Empty>>, analyzed |-> p.analyzed, moved |-> TRUE,
                 details |-> [NoDetails EXCEPT !.absolute = p.details.absolute]]

\* fullPath() + "/" + path.unifiedPath(), from what analyze remembers
resolve(p, q) ==
    IF isEmpty(q.text) /\ isEmpty(p.text) THEN NoPath
    ELSE IF analyze(q).details.absolute \/ isEmpty(p.text) THEN analyze(q)
    ELSE IF isEmpty(q.text) THEN p
    ELSE Path(analyze(p).details.fullPath \o q.text)

\* The loop of resolved: ".." takes away a name, except the first one of an
\* absolute path and another "..".
Take_CountsDotDot(s, name) ==
    IF name = Dot THEN s
    ELSE IF name = DotDot /\ s.removable > 0
         THEN [s EXCEPT !.stack = Front(@), !.removable = @ - 1]
    ELSE [s EXCEPT !.stack = Append(@, name), !.removable = @ + 1]
Take(s, name) ==
    IF name = Dot THEN s
    ELSE IF name = DotDot /\ s.removable > 0
         THEN [s EXCEPT !.stack = Front(@), !.removable = @ - 1]
    ELSE [s EXCEPT !.stack = Append(@, name), !.removable = IF name = DotDot THEN @ ELSE @ + 1]
First(text) == IF Absolute(text) THEN [stack |-> <<Head(text)>>, removable |-> 0]
               ELSE [stack |-> <<>>, removable |-> 0]
Rest(text) == IF Absolute(text) THEN Tail(Parts(text)) ELSE Parts(text)
Taken(s, names) ==
    LET take[i \in 0 .. Len(names)] == IF i = 0 THEN s ELSE Take(take[i - 1], names[i])
    IN  take[Len(names)]
resolved(text) ==
    LET stack == Taken(First(text), Rest(text)).stack IN
    IF stack \in {<<>>, <<Empty>>} /\ ~Absolute(text) THEN <<Dot>>
    ELSE IF Len(stack) = 1 /\ Absolute(text) THEN Append(stack, Empty) ELSE stack
-----------------------------------------------------------------------------
PathsInit ==
    /\ object \in {Path(text) : text \in Texts(MaxNames)}
    /\ given \in {Path(text) : text \in Texts(2)}

SetPath == \E text \in Texts(2) : object' = setPath(object, text) /\ UNCHANGED given
\* Any getter
Analyze == object' = analyze(object) /\ UNCHANGED given
AnalyzeGiven == given' = analyze(given) /\ UNCHANGED object
\* operator= takes the details along.
Assign == object' = given /\ UNCHANGED given
Move == object' = given /\ given' = MovedFrom(given)
\* object = object.resolve(given)
Resolve ==
    /\ Len(analyze(object).details.fullPath) + Len(given.text) <= MaxNames
    /\ object' = resolve(object, given)
    /\ given' = IF isEmpty(object.text) /\ isEmpty(given.text) THEN given ELSE analyze(given)

PathsNext == SetPath \/ Analyze \/ AnalyzeGiven \/ Assign \/ Move \/ Resolve
PathsSpec == PathsInit /\ [][PathsNext]_pathVars
-----------------------------------------------------------------------------
\* Where a text leads from a directory of a tree without links: the reference
\* the operations are measured by.  Above a root is the root.
Step(place, name) ==
    IF name \in {Empty, Dot} THEN place
    ELSE IF name = DotDot THEN IF Len(place) > 1 THEN Front(place) ELSE place
    ELSE Append(place, name)
Walked(from, names) ==
    LET walk[i \in 0 .. Len(names)] == IF i = 0 THEN from ELSE Step(walk[i - 1], names[i])
    IN  walk[Len(names)]
Leads(from, text) ==
    IF Absolute(text) THEN Walked(<<Head(text)>>, Tail(text)) ELSE Walked(from, text)

\* A directory deep enough for every "..", below the root Empty.
Here == [i \in 1 .. MaxNames + 2 |-> IF i = 1 THEN Empty ELSE i]

\* No two separators in a row, and a drive only in front.
Simple(text) == \A i \in 2 .. Len(text) : text[i] # Drive /\ (i < Len(text) => text[i] # Empty)

\* What a getter answers is what the path says now, whatever it was set to,
\* assigned or asked before, unless it was moved from and not set again: then an
\* empty path may still say that it is absolute.
DetailsAreRight == \A p \in {object, given} : p.analyzed /\ ~p.moved => p.details = Details(p.text)

\* resolved() leads to the place of the path, keeps it relative or absolute, has
\* no "." and no ".." but in front, and is its own resolved().
ResolvedIsRight(text) ==
    LET r == resolved(text) IN
    /\ Leads(Here, r) = Leads(Here, text)
    /\ Absolute(r) = Absolute(text)
    /\ r # <<Dot>> => \A i \in DOMAIN r : r[i] # Dot
    /\ \A i \in 2 .. Len(r) : r[i] = DotDot => r[i - 1] \in {DotDot, Empty, Drive}
    /\ resolved(r) = r

\* resolve(path) leads where path leads from the place of this path, and ends
\* with a separator when path does.
ResolveIsRight ==
    LET r == resolve(object, given).text IN
    /\ Leads(Here, r) = Leads(Leads(Here, object.text), given.text)
    /\ ~isEmpty(given.text) => pointsToContent(r) = pointsToContent(given.text)

\* Both; the first for paths without an empty name or a drive inside, the second
\* for an argument that was not moved from.
ResolvesRight ==
    /\ Simple(object.text) => ResolvedIsRight(object.text)
    /\ ~given.moved => ResolveIsRight

\* "Resolve path (removed '.' and '..' entries if possible)" (Path.h): a path
\* with two separators in a row still leads to the same place.  It does not:
\* see the finding.
ResolvedLeadsToSame ==
    (\A i \in 2 .. Len(object.text) : object.text[i] # Drive)
        => Leads(Here, resolved(object.text)) = Leads(Here, object.text)
=============================================================================

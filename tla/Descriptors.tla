----------------------------- MODULE Descriptors -----------------------------
(***************************************************************************)
(* The descriptors of a process and who has to close them: the caller's    *)
(* unique_fd objects, one FILE or DIR, the vector of unique_fd a call      *)
(* filled, and the function that is running.  One thread calls one         *)
(* function of the library after the other.                                *)
(***************************************************************************)
EXTENDS Integers, Sequences, SequencesExt, FiniteSets

CONSTANTS Fd,      \* the numbers the table of descriptors has
          Handle,  \* the caller's unique_fd objects
          FILE,    \* what Fdopen and Fdopendir make
          Object,  \* what the caller opens
          None     \* -1

ASSUME FdAssumption == Fd \subseteq Nat /\ IsFiniteSet(Fd) /\ None \notin Fd
ASSUME OwnerAssumption == FILE \notin Handle
ASSUME ObjectAssumption == IsFiniteSet(Object) /\ Cardinality(Object) >= 2

VARIABLES fds,     \* what each number stands for
          held,    \* fd_ of the unique_fd objects and of FILE
          vector,  \* the caller's std::vector<unique_fd>
          wrong,   \* history: a number was closed that was not open
          frame    \* the running function with its local variables

table == <<fds, held, vector, wrong>>
NoCall == [call |-> "none", fd |-> None]
Idle == frame.call = "none"
Owner == Handle \cup {FILE}

Here == [fds |-> fds, held |-> held, vector |-> vector, wrong |-> wrong]
To(t) == fds' = t.fds /\ held' = t.held /\ vector' = t.vector /\ wrong' = t.wrong

\* The kernel gives the lowest number that is free.
Free(t) == {n \in Fd : t.fds[n] = None}
Lowest(t) == Min(Free(t))
IsFull(t) == Free(t) = {}
Opened(t, o) == [t EXCEPT !.fds[Lowest(t)] = o]

close(t, n) ==
    IF n = None THEN t ELSE [t EXCEPT !.fds[n] = None, !.wrong = @ \/ t.fds[n] = None]
\* One after the other: a number that is there twice is closed twice.
CloseAll(t, ns) ==
    [t EXCEPT !.fds = [n \in Fd |-> IF n \in Range(ns) THEN None ELSE t.fds[n]],
              !.wrong = @ \/ ~IsInjective(ns) \/ \E i \in DOMAIN ns : t.fds[ns[i]] = None]

reset(t, h, n) == [close(t, t.held[h]) EXCEPT !.held[h] = n]
release(t, h) == [t EXCEPT !.held[h] = None]
\* operator=(unique_fd&&), with an object and itself too
MoveAssigned(t, h, s) == reset(release(t, s), h, t.held[s])

\* pipe2 and socketpair make two numbers before an old one is closed.
Pair(t, left, right) ==
    LET ends == SetToSeq(Object)
        one == Opened(t, ends[1])
        two == Opened(one, ends[2])
    IN  IF IsFull(t) \/ IsFull(one) THEN t
        ELSE reset(reset(two, left, Lowest(t)), right, Lowest(one))

\* fdopen and fdopendir leave the number open when they fail.
Fdopened(t, h, ok) ==
    IF ok THEN [release(t, h) EXCEPT !.held[FILE] = t.held[h]]
    ELSE close(release(t, h), t.held[h])
-----------------------------------------------------------------------------
DescriptorsInit ==
    /\ fds = [n \in Fd |-> None]
    /\ held = [o \in Owner |-> None]
    /\ vector = <<>>
    /\ wrong = FALSE
    /\ frame = NoCall

\* h.reset(open(...)): -1 when the table is full
Open == \E h \in Handle, o \in Object :
    To(IF IsFull(Here) THEN reset(Here, h, None) ELSE reset(Opened(Here, o), h, Lowest(Here)))
Reset == \E h \in Handle : To(reset(Here, h, None))
Move == \E h, s \in Handle : To(MoveAssigned(Here, h, s))
Pipe == \E read, write \in Handle : To(Pair(Here, read, write))
Fdopen == \E h \in Handle, ok \in BOOLEAN :
    /\ held[FILE] = None
    /\ ok => held[h] # None
    /\ To(Fdopened(Here, h, ok))
Fclose == held[FILE] # None /\ To(reset(Here, FILE, None))
Clear == vector # <<>> /\ To([CloseAll(Here, vector) EXCEPT !.vector = <<>>])

Caller == /\ Idle
          /\ Open \/ Reset \/ Move \/ Pipe \/ Fdopen \/ Fclose \/ Clear
          /\ UNCHANGED frame
-----------------------------------------------------------------------------
\* How many have to close n: objects of the caller, places in the vector, and
\* the function that runs.
Keepers(n) == Cardinality({o \in Owner : held[o] = n})
              + Cardinality({i \in DOMAIN vector : vector[i] = n})
              + IF frame.fd = n THEN 1 ELSE 0

\* At every step every open descriptor has exactly one keeper, a number that is
\* not open has none, and nothing has closed a number that was not open: no
\* error path of the library leaks a descriptor or closes it twice.
NothingLeaks ==
    /\ \A n \in Fd : Keepers(n) = IF fds[n] = None THEN 0 ELSE 1
    /\ ~wrong
=============================================================================

------------------------------- MODULE Logging -------------------------------
(***************************************************************************)
(* logging.cpp: threads that log, and that replace the logger, the aborter,*)
(* the default tag and the minimum severity while others log.  Two mutexes *)
(* order them: LoggingLock, held for a whole message, and TagLock, taken   *)
(* inside it for a line whose message has no tag of its own.  The severity *)
(* is read and written without a lock, and the aborter is called without   *)
(* one.                                                                    *)
(***************************************************************************)
EXTENDS Integers, Sequences, Functions

CONSTANTS Thread, NoThread,
          Programs,    \* what a thread may be going to do: sequences of calls
          StderrLogger,             \* log functions do not log themselves
          DefaultAborter, Crash,
          Does,        \* the calls of every other abort function, a record
          NoTag,       \* nullptr for a message, the empty string for a default
          ProgName,
          WrongSpec    \* an entry of ANDROID_LOG_TAGS that is not "*:" and a level

VERBOSE == 0
INFO == 2
FATAL == 6
Severity == VERBOSE .. FATAL

\* InitLogging with ANDROID_LOG_TAGS split into specs: the logger and the
\* aborter are set before gInitialized is looked at, the rest is skipped when
\* it is set.  NoTag stands for an argv of nullptr.
Configure(spec) ==
    IF spec = WrongSpec THEN [op |-> "LOG", severity |-> FATAL, lines |-> 1, tag |-> NoTag]
                        ELSE [op |-> "SetMinimumLogSeverity", to |-> spec]
InitLogging(logger, aborter, argv0, specs) ==
    LET tag == IF argv0 = NoTag THEN <<>> ELSE <<[op |-> "SetDefaultTag", to |-> argv0]>>
        once == <<[op |-> "SetInitialized"]>> \o tag \o [i \in DOMAIN specs |-> Configure(specs[i])]
    IN  <<[op |-> "SetLogger", to |-> logger], [op |-> "SetAborter", to |-> aborter],
          [op |-> "IfNotInitialized", skip |-> Len(once)]>> \o once

\* The calls of the programs and of the abort functions, and what is a call.
Messages == {"LOG", "LOG_STREAM"}
AbortFunctions == DOMAIN Does \cup {DefaultAborter}
Ops == UNION {Range(p) : p \in Programs \cup Range(Does)}
Legal(c) ==
    /\ c.op \in Messages => c.severity \in Severity /\ c.lines \in Nat \ {0}
    /\ c.op \in {"SetMinimumLogSeverity", "ScopedLogSeverity"} => c.to \in Severity
    /\ c.op = "SetAborter" => c.to \in AbortFunctions
    /\ c.op = "IfNotInitialized" => c.skip \in Nat

ASSUME CallsAssumption ==
    Programs \cup Range(Does) \subseteq Seq(Ops) /\ \A c \in Ops : Legal(c)
ASSUME ThreadAssumption == NoThread \notin Thread
ASSUME TagAssumption == ProgName # NoTag
ASSUME AborterAssumption ==
    DefaultAborter \notin DOMAIN Does /\ Crash \notin AbortFunctions

VARIABLES
    todo,                 \* the calls a thread has left, the current one first
    pc,                   \* where in the current call a thread is
    next,                 \* the next line of the message a thread logs
    old,                  \* old_ of the ScopedLogSeverity objects of a thread, last first
    LoggingLock, TagLock, \* the thread that holds it
    Logger,
    Aborter,              \* what a call of the aborter may run
    gDefaultTag, gMinimumLogSeverity, gInitialized,
    aborted,
    out                   \* the lines the log functions have written

locks == <<LoggingLock, TagLock>>
functions == <<Logger, Aborter>>
settings == <<gDefaultTag, gMinimumLogSeverity, gInitialized>>
vars == <<todo, pc, next, old, locks, functions, settings, aborted, out>>

Init ==
    /\ todo \in [Thread -> Programs]
    /\ pc = [t \in Thread |-> "call"]
    /\ next = [t \in Thread |-> 1]
    /\ old = [t \in Thread |-> <<>>]
    /\ LoggingLock = NoThread /\ TagLock = NoThread
    /\ Logger = StderrLogger /\ Aborter = {DefaultAborter}
    /\ gDefaultTag = NoTag /\ gMinimumLogSeverity = INFO /\ gInitialized = FALSE
    /\ aborted = FALSE
    /\ out = <<>>
-----------------------------------------------------------------------------
At(t, place) == ~ aborted /\ pc[t] = place /\ todo[t] # <<>>
Calls(t, op) == At(t, "call") /\ Head(todo[t]).op = op
Goto(t, place) == pc' = [pc EXCEPT ![t] = place]
Go(t, rest) == todo' = [todo EXCEPT ![t] = rest] /\ Goto(t, "call")
Done(t) == Go(t, Tail(todo[t]))

\* Mutant: the level itself is not logged.
WOULD_LOG_Above(severity) == severity > gMinimumLogSeverity

\* MUST_LOG_MESSAGE is false in this build.
WOULD_LOG(severity) == severity >= gMinimumLogSeverity

\* LOG and PLOG look at the severity before they make a LogMessage; CHECK and
\* LOG_STREAM do not.
LOG(t) ==
    /\ Calls(t, "LOG")
    /\ IF WOULD_LOG(Head(todo[t]).severity) THEN Goto(t, "~LogMessage") /\ UNCHANGED todo
                                            ELSE Done(t)
    /\ UNCHANGED <<next, old, locks, functions, settings, aborted, out>>

LOG_STREAM(t) ==
    /\ Calls(t, "LOG_STREAM")
    /\ Goto(t, "~LogMessage")
    /\ UNCHANGED <<todo, next, old, locks, functions, settings, aborted, out>>

\* The destructor looks at the severity again.
CheckAgain(t) ==
    /\ At(t, "~LogMessage")
    /\ IF WOULD_LOG(Head(todo[t]).severity) THEN Goto(t, "lock") /\ UNCHANGED todo
                                            ELSE Done(t)
    /\ UNCHANGED <<next, old, locks, functions, settings, aborted, out>>

Lock(t) ==
    /\ At(t, "lock") /\ LoggingLock = NoThread
    /\ LoggingLock' = t
    /\ next' = [next EXCEPT ![t] = 1]
    /\ Goto(t, "line")
    /\ UNCHANGED <<todo, old, TagLock, functions, settings, aborted, out>>

\* LogLine up to the call of the log function, with the lock and the tag it needs.
LogLine(t) ==
    /\ At(t, "line")
    /\ IF Head(todo[t]).tag = NoTag
       THEN /\ TagLock = NoThread
            /\ TagLock' = t
            /\ gDefaultTag' = IF gDefaultTag = NoTag THEN ProgName ELSE gDefaultTag
       ELSE UNCHANGED <<TagLock, gDefaultTag>>
    /\ Goto(t, "writing")
    /\ UNCHANGED <<todo, next, old, LoggingLock, functions, gMinimumLogSeverity,
                   gInitialized, aborted, out>>

\* A line as it comes out: whose it is, its place in the message, who wrote it.
Line(t) ==
    [thread |-> t, line |-> next[t], of |-> Head(todo[t]).lines,
     severity |-> Head(todo[t]).severity, by |-> Logger,
     tag |-> IF Head(todo[t]).tag = NoTag THEN gDefaultTag ELSE Head(todo[t]).tag]

\* Mutants: the lock is taken for each line; the aborter is called with the lock.
Unlocked_EveryLine(t) == NoThread
Unlocked_NotForFatal(t) ==
    IF next[t] = Head(todo[t]).lines /\ Head(todo[t]).severity # FATAL THEN NoThread
                                                                      ELSE LoggingLock

\* LoggingLock is released after the last line of the message.
Unlocked(t) == IF next[t] = Head(todo[t]).lines THEN NoThread ELSE LoggingLock

\* The log function returns; FATAL goes on to the aborter.
Written(t) ==
    /\ At(t, "writing")
    /\ out' = Append(out, Line(t))
    /\ TagLock' = IF Head(todo[t]).tag = NoTag THEN NoThread ELSE TagLock
    /\ LoggingLock' = Unlocked(t)
    /\ next' = [next EXCEPT ![t] = @ + 1]
    /\ IF next[t] < Head(todo[t]).lines
       THEN Goto(t, "line") /\ UNCHANGED todo
       ELSE IF Head(todo[t]).severity = FATAL THEN Goto(t, "abort") /\ UNCHANGED todo
                                              ELSE Done(t)
    /\ UNCHANGED <<old, functions, settings, aborted>>

\* An abort function that returns may have made calls of its own, logging too.
Abort(t) ==
    /\ At(t, "abort")
    /\ \E a \in Aborter :
          IF a \in DOMAIN Does THEN Go(t, Does[a] \o Tail(todo[t])) /\ UNCHANGED aborted
                               ELSE aborted' = TRUE /\ UNCHANGED <<todo, pc>>
    /\ UNCHANGED <<next, old, locks, functions, settings, out>>

LogMessage(t) == LOG(t) \/ LOG_STREAM(t) \/ CheckAgain(t) \/ Lock(t) \/ LogLine(t)
                 \/ Written(t) \/ Abort(t)
-----------------------------------------------------------------------------
SetLogger(t) ==
    /\ Calls(t, "SetLogger") /\ LoggingLock = NoThread
    /\ Logger' = Head(todo[t]).to
    /\ Done(t)
    /\ UNCHANGED <<next, old, locks, Aborter, settings, aborted, out>>

\* The aborter is called without the lock, so a call may find it half moved: it
\* runs the old one or the new one, or crashes.
SetAborter(t) ==
    \/ /\ Calls(t, "SetAborter") /\ LoggingLock = NoThread
       /\ LoggingLock' = t
       /\ Aborter' = Aborter \cup {Head(todo[t]).to, Crash}
       /\ Goto(t, "moving")
       /\ UNCHANGED <<todo, next, old, TagLock, Logger, settings, aborted, out>>
    \/ /\ At(t, "moving")
       /\ LoggingLock' = NoThread
       /\ Aborter' = {Head(todo[t]).to}
       /\ Done(t)
       /\ UNCHANGED <<next, old, TagLock, Logger, settings, aborted, out>>

\* Mutant: the default tag is replaced without its lock.
SetDefaultTag_NoLock(t) ==
    /\ Calls(t, "SetDefaultTag")
    /\ gDefaultTag' = Head(todo[t]).to
    /\ Done(t)
    /\ UNCHANGED <<next, old, locks, functions, gMinimumLogSeverity, gInitialized, aborted,
                   out>>

SetDefaultTag(t) ==
    /\ Calls(t, "SetDefaultTag") /\ TagLock = NoThread
    /\ gDefaultTag' = Head(todo[t]).to
    /\ Done(t)
    /\ UNCHANGED <<next, old, locks, functions, gMinimumLogSeverity, gInitialized, aborted,
                   out>>

GetDefaultTag(t) ==
    /\ Calls(t, "GetDefaultTag") /\ TagLock = NoThread
    /\ Done(t)
    /\ UNCHANGED <<next, old, locks, functions, settings, aborted, out>>

SetMinimumLogSeverity(t) ==
    /\ Calls(t, "SetMinimumLogSeverity")
    /\ gMinimumLogSeverity' = Head(todo[t]).to
    /\ Done(t)
    /\ UNCHANGED <<next, old, locks, functions, gDefaultTag, gInitialized, aborted, out>>

\* The constructor reads the old severity and then writes the new one, the
\* destructor of an object there is writes the old one back.
ScopedLogSeverity(t) ==
    \/ /\ Calls(t, "ScopedLogSeverity")
       /\ old' = [old EXCEPT ![t] = <<gMinimumLogSeverity>> \o @]
       /\ Goto(t, "scope")
       /\ UNCHANGED <<todo, next, locks, functions, settings, aborted, out>>
    \/ /\ At(t, "scope")
       /\ gMinimumLogSeverity' = Head(todo[t]).to
       /\ Done(t)
       /\ UNCHANGED <<next, old, locks, functions, gDefaultTag, gInitialized, aborted, out>>
    \/ /\ Calls(t, "~ScopedLogSeverity") /\ old[t] # <<>>
       /\ gMinimumLogSeverity' = Head(old[t])
       /\ old' = [old EXCEPT ![t] = Tail(@)]
       /\ Done(t)
       /\ UNCHANGED <<next, locks, functions, gDefaultTag, gInitialized, aborted, out>>

\* The test and the assignment of gInitialized are two steps.
Initialize(t) ==
    \/ /\ Calls(t, "IfNotInitialized")
       /\ LET rest == Tail(todo[t])
          IN  Go(t, IF gInitialized THEN SubSeq(rest, Head(todo[t]).skip + 1, Len(rest))
                                    ELSE rest)
       /\ UNCHANGED <<next, old, locks, functions, settings, aborted, out>>
    \/ /\ Calls(t, "SetInitialized")
       /\ gInitialized' = TRUE
       /\ Done(t)
       /\ UNCHANGED <<next, old, locks, functions, gDefaultTag, gMinimumLogSeverity, aborted,
                      out>>

Call(t) == LogMessage(t) \/ SetLogger(t) \/ SetAborter(t) \/ SetDefaultTag(t)
           \/ GetDefaultTag(t) \/ SetMinimumLogSeverity(t) \/ ScopedLogSeverity(t)
           \/ Initialize(t)

Finished(t) == todo[t] = <<>>
Over == aborted \/ \A t \in Thread : Finished(t)
Stop == Over /\ UNCHANGED vars

Next == (\E t \in Thread : Call(t)) \/ Stop

Fairness == \A t \in Thread : WF_vars(Call(t))
Spec == Init /\ [][Next]_vars /\ Fairness
-----------------------------------------------------------------------------
\* Who holds the locks follows from where the threads are, and the line a thread
\* is at is one of its message.
TypeOK ==
    /\ todo \in [Thread -> Seq(Ops)] /\ next \in [Thread -> Nat] /\ old \in [Thread -> Seq(Severity)]
    /\ pc \in [Thread -> {"call", "~LogMessage", "lock", "line", "writing", "abort",
                          "moving", "scope"}]
    /\ {LoggingLock, TagLock} \subseteq Thread \cup {NoThread}
    /\ gMinimumLogSeverity \in Severity /\ gInitialized \in BOOLEAN /\ aborted \in BOOLEAN
    /\ Aborter # {} /\ Aborter \subseteq AbortFunctions \cup {Crash}
    /\ \A t \in Thread :
          /\ LoggingLock = t <=> pc[t] \in {"line", "writing", "moving"}
          /\ TagLock = t <=> pc[t] = "writing" /\ Head(todo[t]).tag = NoTag
          /\ pc[t] \in {"line", "writing"} => next[t] \in 1 .. Head(todo[t]).lines

\* The lines of a message come out together and in order, through one log
\* function, whatever other threads log or set: after a line comes the next one
\* of its message, unless it is the last that came out and its thread is at it.
MessagesWhole ==
    \A i \in DOMAIN out :
        /\ out[i].line > 1 => /\ i > 1
                              /\ [out[i - 1] EXCEPT !.line = @ + 1, !.tag = out[i].tag] = out[i]
        /\ out[i].line < out[i].of =>
              \/ i < Len(out) /\ out[i + 1].line = out[i].line + 1
              \/ /\ i = Len(out)
                 /\ pc[out[i].thread] \in {"line", "writing"}
                 /\ next[out[i].thread] = out[i].line + 1

\* The process dies only of a FATAL message that is out to its last line.
LastWords ==
    aborted => \E t \in Thread :
        /\ pc[t] = "abort" /\ Head(todo[t]).severity = FATAL
        /\ \E i \in DOMAIN out :
              /\ out[i].thread = t /\ out[i].severity = FATAL
              /\ out[i].line = Head(todo[t]).lines

\* No thread gets past a FATAL message but by running the aborter, whatever the
\* minimum severity is by then, and the process dies of nothing else.
FatalIsFinal ==
    [][/\ LastWords'
       /\ \A t \in Thread :
             /\ todo[t] # <<>> /\ Head(todo[t]).op \in Messages
             /\ Head(todo[t]).severity = FATAL
             /\ todo'[t] # todo[t]
             => pc[t] = "abort"]_vars

\* While a log function runs, nobody replaces it or the default tag it was given.
NothingChangesUnderCall ==
    [][\A t \in Thread :
          pc[t] = "writing" /\ pc'[t] = "writing" =>
              /\ UNCHANGED Logger
              /\ Head(todo[t]).tag = NoTag => UNCHANGED gDefaultTag]_vars

\* Two locks, and an aborter that logs, and nobody waits for ever.
AllFinish == <>Over
=============================================================================

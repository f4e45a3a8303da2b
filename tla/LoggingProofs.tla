--------------------------- MODULE LoggingProofs ---------------------------
(***************************************************************************)
(* Logging for any set of threads and any programs of legal calls.  The    *)
(* inductive invariant says where in a call a thread can be (Positions),   *)
(* what the lines are that came out (OutOK), which of them belong to the   *)
(* message under way (UnderWay), and that whoever is about to abort has    *)
(* said so (Words).                                                        *)
(***************************************************************************)
EXTENDS Logging, SequenceTheorems, TLAPS

InMessage == {"~LogMessage", "lock", "line", "writing", "abort"}

Positions ==
    \A t \in Thread :
        /\ pc[t] # "call" => todo[t] # <<>>
        /\ pc[t] \in InMessage => Head(todo[t]).op \in Messages
        /\ pc[t] = "moving" => Head(todo[t]).op = "SetAborter"
        /\ pc[t] = "scope" => Head(todo[t]).op = "ScopedLogSeverity"

LogFunctions == {StderrLogger} \cup {c.to : c \in Ops}
Tags == {NoTag, ProgName} \cup {c.tag : c \in Ops} \cup {c.to : c \in Ops}
LineRecord == [thread : Thread, line : Nat, of : Nat, severity : Severity,
               by : LogFunctions, tag : Tags]
OutOK == out \in Seq(LineRecord) /\ Logger \in LogFunctions /\ gDefaultTag \in Tags

\* The lines so far of the message a thread is at are the last ones.
UnderWay ==
    \A t \in Thread : pc[t] \in {"line", "writing"} /\ next[t] > 1 =>
        /\ out # <<>>
        /\ out[Len(out)].thread = t /\ out[Len(out)].line = next[t] - 1
        /\ out[Len(out)].of = Head(todo[t]).lines
        /\ out[Len(out)].severity = Head(todo[t]).severity /\ out[Len(out)].by = Logger

\* The last line of a FATAL message of t is out.
Said(t) == /\ Head(todo[t]).severity = FATAL
           /\ \E i \in DOMAIN out : /\ out[i].thread = t /\ out[i].severity = FATAL
                                    /\ out[i].line = Head(todo[t]).lines
Words == \A t \in Thread : pc[t] = "abort" => Said(t)

IInv == TypeOK /\ Positions /\ OutOK /\ MessagesWhole /\ UnderWay /\ Words /\ LastWords

-----------------------------------------------------------------------------
(* Calls and sequences of them.                                            *)

LEMMA Current ==
    ASSUME TypeOK, NEW t \in Thread, todo[t] # <<>>
    PROVE  /\ Head(todo[t]) \in Ops /\ Legal(Head(todo[t]))
           /\ Tail(todo[t]) \in Seq(Ops)
<1>1. todo[t] \in Seq(Ops)
  BY DEF TypeOK
<1>2. Head(todo[t]) \in Ops /\ Tail(todo[t]) \in Seq(Ops)
  BY <1>1
<1> QED
  BY <1>2, CallsAssumption, Zenon

LEMMA DoesCalls == \A a \in DOMAIN Does : Does[a] \in Seq(Ops)
  BY CallsAssumption, Zenon DEF Range

LEMMA SkipCalls ==
    ASSUME NEW s \in Seq(Ops), NEW n \in Nat
    PROVE  SubSeq(s, n + 1, Len(s)) \in Seq(Ops)
<1>1. \A i \in n + 1 .. Len(s) : s[i] \in Ops
  OBVIOUS
<1> QED
  BY <1>1, SubSeqProperties

LEMMA ProgramCalls == Programs \subseteq Seq(Ops)
  BY CallsAssumption, Zenon

-----------------------------------------------------------------------------
(* A step moves one thread.                                                *)

Moves(t) ==
    /\ ~aborted /\ todo[t] # <<>>
    /\ todo' = [todo EXCEPT ![t] = todo'[t]] /\ todo'[t] \in Seq(Ops)
    /\ pc' = [pc EXCEPT ![t] = pc'[t]]
    /\ next' = [next EXCEPT ![t] = next'[t]] /\ next'[t] \in Nat
    /\ old' = [old EXCEPT ![t] = old'[t]] /\ old'[t] \in Seq(Severity)

LEMMA MessageMoves ==
    ASSUME TypeOK, NEW t \in Thread, LogMessage(t)
    PROVE  Moves(t)
<1>1. todo[t] # <<>>
  BY DEF LogMessage, LOG, LOG_STREAM, CheckAgain, Lock, LogLine, Written, Abort, Calls, At
<1>2. Tail(todo[t]) \in Seq(Ops)
  BY <1>1, Current
<1>3. CASE LOG(t) \/ LOG_STREAM(t) \/ CheckAgain(t)
  BY <1>2, <1>3 DEF LOG, LOG_STREAM, CheckAgain, Calls, At, Moves, Goto, Go, Done, TypeOK
<1>4. CASE Lock(t) \/ LogLine(t)
  BY <1>4 DEF Lock, LogLine, At, Moves, Goto, TypeOK
<1>5. CASE Written(t)
  <2>1. \/ todo' = todo /\ \E place \in {"line", "abort"} : pc' = [pc EXCEPT ![t] = place]
        \/ todo' = [todo EXCEPT ![t] = Tail(@)] /\ pc' = [pc EXCEPT ![t] = "call"]
    BY <1>5, Zenon DEF Written, Goto, Go, Done
  <2>2. ~aborted /\ next' = [next EXCEPT ![t] = @ + 1] /\ old' = old
    BY <1>5, Zenon DEF Written, At
  <2>3. /\ todo \in [Thread -> Seq(Ops)] /\ DOMAIN pc = Thread
        /\ next \in [Thread -> Nat] /\ old \in [Thread -> Seq(Severity)]
    BY DEF TypeOK
  <2>4. next'[t] \in Nat /\ next' = [next EXCEPT ![t] = next'[t]]
    BY <2>2, <2>3
  <2>5. pc' = [pc EXCEPT ![t] = pc'[t]]
    BY <2>1, <2>3
  <2>6. todo'[t] \in Seq(Ops) /\ todo' = [todo EXCEPT ![t] = todo'[t]]
    BY <1>2, <2>1, <2>3
  <2>7. old'[t] \in Seq(Severity) /\ old' = [old EXCEPT ![t] = old'[t]]
    BY <2>2, <2>3
  <2> QED
    BY <1>1, <2>2, <2>4, <2>5, <2>6, <2>7, Zenon DEF Moves
<1>6. CASE Abort(t)
  <2>1. PICK a \in Aborter :
          IF a \in DOMAIN Does THEN Go(t, Does[a] \o Tail(todo[t])) /\ UNCHANGED aborted
                               ELSE aborted' = TRUE /\ UNCHANGED <<todo, pc>>
    BY <1>6 DEF Abort
  <2>2. a \in DOMAIN Does => Does[a] \o Tail(todo[t]) \in Seq(Ops)
    BY <1>2, DoesCalls, ConcatProperties
  <2> QED
    BY <1>6, <2>1, <2>2 DEF Abort, At, Moves, Go, Goto, TypeOK
<1> QED
  BY <1>3, <1>4, <1>5, <1>6 DEF LogMessage

LEMMA SettingMoves ==
    ASSUME TypeOK, NEW t \in Thread,
           SetLogger(t) \/ SetAborter(t) \/ SetDefaultTag(t) \/ GetDefaultTag(t)
           \/ SetMinimumLogSeverity(t)
    PROVE  Moves(t)
<1>1. todo[t] # <<>>
  BY DEF SetLogger, SetAborter, SetDefaultTag, GetDefaultTag, SetMinimumLogSeverity, Calls, At
<1>2. Tail(todo[t]) \in Seq(Ops)
  BY <1>1, Current
<1>3. CASE SetLogger(t) \/ SetDefaultTag(t) \/ GetDefaultTag(t) \/ SetMinimumLogSeverity(t)
  BY <1>2, <1>3
  DEF SetLogger, SetDefaultTag, GetDefaultTag, SetMinimumLogSeverity, Calls, At, Moves, Goto, Go, Done, TypeOK
<1>4. CASE SetAborter(t)
  BY <1>2, <1>4 DEF SetAborter, Calls, At, Moves, Goto, Go, Done, TypeOK
<1> QED
  BY <1>3, <1>4

LEMMA ScopeMoves ==
    ASSUME TypeOK, NEW t \in Thread, ScopedLogSeverity(t)
    PROVE  Moves(t)
<1>1. todo[t] # <<>>
  BY DEF ScopedLogSeverity, Calls, At
<1>2. Tail(todo[t]) \in Seq(Ops)
  BY <1>1, Current
<1>3. old[t] \in Seq(Severity) /\ gMinimumLogSeverity \in Severity
  BY DEF TypeOK
<1>4. <<gMinimumLogSeverity>> \o old[t] \in Seq(Severity)
  BY <1>3
<1>5. old[t] # <<>> => Tail(old[t]) \in Seq(Severity)
  BY <1>3
<1> QED
  BY <1>2, <1>4, <1>5 DEF ScopedLogSeverity, Calls, At, Moves, Goto, Go, Done, TypeOK

LEMMA InitializeMoves ==
    ASSUME TypeOK, NEW t \in Thread, Initialize(t)
    PROVE  Moves(t)
<1>1. todo[t] # <<>>
  BY DEF Initialize, Calls, At
<1>2. Tail(todo[t]) \in Seq(Ops) /\ Legal(Head(todo[t]))
  BY <1>1, Current
<1>3. CASE Calls(t, "IfNotInitialized")
  <2>1. Head(todo[t]).skip \in Nat
    BY <1>2, <1>3 DEF Calls, Legal
  <2>2. SubSeq(Tail(todo[t]), Head(todo[t]).skip + 1, Len(Tail(todo[t]))) \in Seq(Ops)
    BY <1>2, <2>1, SkipCalls
  <2> QED
    BY <1>2, <1>3, <2>2 DEF Initialize, Calls, At, Moves, Goto, Go, Done, TypeOK
<1>4. CASE Calls(t, "SetInitialized")
  BY <1>2, <1>4 DEF Initialize, Calls, At, Moves, Goto, Go, Done, TypeOK
<1> QED
  BY <1>3, <1>4 DEF Initialize

LEMMA CallMoves ==
    ASSUME TypeOK, NEW t \in Thread, Call(t)
    PROVE  Moves(t)
  BY MessageMoves, SettingMoves, ScopeMoves, InitializeMoves DEF Call

-----------------------------------------------------------------------------
(* Where threads are, and who holds the locks.                             *)

\* What a step of t leaves of the parts of the invariant that are about t, and
\* that it takes no lock from another thread.
LocksAt(t) ==
    /\ {LoggingLock', TagLock'} \subseteq Thread \cup {NoThread}
    /\ \A u \in Thread \ {t} : (LoggingLock' = u <=> LoggingLock = u) /\ (TagLock' = u <=> TagLock = u)
    /\ LoggingLock' = t <=> pc'[t] \in {"line", "writing", "moving"}
    /\ TagLock' = t <=> pc'[t] = "writing" /\ Head(todo'[t]).tag = NoTag
PlaceAt(t) ==
    /\ pc'[t] \in InMessage \cup {"call", "moving", "scope"}
    /\ pc'[t] # "call" => todo'[t] # <<>>
    /\ pc'[t] \in InMessage => Head(todo'[t]).op \in Messages
    /\ pc'[t] \in {"line", "writing"} => next'[t] \in 1 .. Head(todo'[t]).lines
    /\ pc'[t] = "moving" => Head(todo'[t]).op = "SetAborter"
    /\ pc'[t] = "scope" => Head(todo'[t]).op = "ScopedLogSeverity"
SettingsOK ==
    /\ gMinimumLogSeverity \in Severity /\ gInitialized \in BOOLEAN /\ aborted \in BOOLEAN
    /\ Aborter # {} /\ Aborter \subseteq AbortFunctions \cup {Crash}

LEMMA TypeStep ==
    ASSUME TypeOK, Positions, NEW t \in Thread, Moves(t), LocksAt(t), PlaceAt(t), SettingsOK'
    PROVE  TypeOK' /\ Positions'
<1>1. /\ todo' \in [Thread -> Seq(Ops)] /\ next' \in [Thread -> Nat]
      /\ old' \in [Thread -> Seq(Severity)]
  BY DEF Moves, TypeOK
<1>2. pc' \in [Thread -> {"call", "~LogMessage", "lock", "line", "writing", "abort", "moving", "scope"}]
  BY DEF Moves, TypeOK, PlaceAt, InMessage
<1>3. \A u \in Thread \ {t} : pc'[u] = pc[u] /\ todo'[u] = todo[u] /\ next'[u] = next[u]
  BY DEF Moves, TypeOK
<1>4. \A u \in Thread :
        /\ LoggingLock' = u <=> pc'[u] \in {"line", "writing", "moving"}
        /\ TagLock' = u <=> pc'[u] = "writing" /\ Head(todo'[u]).tag = NoTag
        /\ pc'[u] \in {"line", "writing"} => next'[u] \in 1 .. Head(todo'[u]).lines
  <2> TAKE u \in Thread
  <2>1. CASE u = t
    BY <2>1 DEF LocksAt, PlaceAt
  <2>2. CASE u # t
    BY <1>3, <2>2 DEF LocksAt, TypeOK
  <2> QED
    BY <2>1, <2>2
<1>5. Positions'
  BY <1>3, Zenon DEF Positions, PlaceAt
<1> QED
  BY <1>1, <1>2, <1>4, <1>5 DEF TypeOK, LocksAt, SettingsOK

LEMMA LockStep ==
    ASSUME TypeOK, Positions, NEW t \in Thread, Call(t), Moves(t)
    PROVE  LocksAt(t)
<1> USE ThreadAssumption
<1>0. /\ todo[t] # <<>> /\ DOMAIN pc = Thread /\ DOMAIN todo = Thread
      /\ {LoggingLock, TagLock} \subseteq Thread \cup {NoThread}
      /\ LoggingLock = t <=> pc[t] \in {"line", "writing", "moving"}
      /\ TagLock = t <=> pc[t] = "writing" /\ Head(todo[t]).tag = NoTag
      /\ pc[t] \in {"line", "writing"} => next[t] \in 1 .. Head(todo[t]).lines
  BY DEF Moves, TypeOK
<1>1. CASE LOG(t) \/ LOG_STREAM(t) \/ CheckAgain(t)
  BY <1>0, <1>1 DEF LOG, LOG_STREAM, CheckAgain, Calls, At, LocksAt, Goto, Go, Done, locks
<1>2. CASE Lock(t)
  BY <1>0, <1>2 DEF Lock, At, LocksAt, Goto
<1>3. CASE LogLine(t)
  BY <1>0, <1>3 DEF LogLine, At, LocksAt, Goto
<1>4. CASE Written(t)
  <2>1. /\ pc[t] = "writing" /\ LoggingLock = t /\ next[t] \in 1 .. Head(todo[t]).lines
        /\ TagLock' = IF Head(todo[t]).tag = NoTag THEN NoThread ELSE TagLock
        /\ LoggingLock' = IF next[t] = Head(todo[t]).lines THEN NoThread ELSE LoggingLock
    BY <1>0, <1>4 DEF Written, Unlocked, At
  <2>2. pc'[t] = IF next[t] < Head(todo[t]).lines THEN "line"
                 ELSE IF Head(todo[t]).severity = FATAL THEN "abort" ELSE "call"
    BY <1>0, <1>4, Zenon DEF Written, Goto, Go, Done
  <2>3. next[t] < Head(todo[t]).lines <=> next[t] # Head(todo[t]).lines
    <3>1. Head(todo[t]).op \in Messages /\ Legal(Head(todo[t]))
      BY <1>0, <2>1, Current, Zenon DEF Positions, InMessage
    <3> QED
      BY <2>1, <3>1 DEF Legal
  <2>4. \A u \in Thread \ {t} : (LoggingLock' = u <=> LoggingLock = u) /\ (TagLock' = u <=> TagLock = u)
    BY <1>0, <2>1
  <2> QED
    BY <1>0, <2>1, <2>2, <2>3, <2>4 DEF LocksAt
<1>5. CASE Abort(t)
  BY <1>0, <1>5 DEF Abort, At, LocksAt, Go, Goto, locks
<1>6. CASE SetLogger(t) \/ SetDefaultTag(t) \/ GetDefaultTag(t) \/ SetMinimumLogSeverity(t)
  BY <1>0, <1>6 DEF SetLogger, SetDefaultTag, GetDefaultTag, SetMinimumLogSeverity, Calls, At,
                    LocksAt, Goto, Go, Done, locks
<1>7. CASE SetAborter(t)
  BY <1>0, <1>7 DEF SetAborter, Calls, At, LocksAt, Goto, Go, Done
<1>8. CASE ScopedLogSeverity(t) \/ Initialize(t)
  BY <1>0, <1>8 DEF ScopedLogSeverity, Initialize, Calls, At, LocksAt, Goto, Go, Done, locks
<1> QED
  BY <1>1, <1>2, <1>3, <1>4, <1>5, <1>6, <1>7, <1>8 DEF Call, LogMessage

LEMMA PlaceStep ==
    ASSUME TypeOK, Positions, NEW t \in Thread, Call(t), Moves(t)
    PROVE  PlaceAt(t)
<1>0. /\ todo[t] # <<>> /\ DOMAIN pc = Thread /\ DOMAIN todo = Thread
      /\ next \in [Thread -> Nat]
      /\ pc[t] \in {"line", "writing"} => next[t] \in 1 .. Head(todo[t]).lines
      /\ Legal(Head(todo[t]))
  BY Current DEF Moves, TypeOK
<1>1. CASE LOG(t) \/ LOG_STREAM(t) \/ CheckAgain(t)
  BY <1>0, <1>1 DEF LOG, LOG_STREAM, CheckAgain, Calls, At, PlaceAt, Goto, Go, Done, Positions, Messages, InMessage
<1>2. CASE Lock(t)
  BY <1>0, <1>2 DEF Lock, At, PlaceAt, Goto, Positions, InMessage, Legal
<1>3. CASE LogLine(t)
  BY <1>0, <1>3 DEF LogLine, At, PlaceAt, Goto, Positions, InMessage
<1>4. CASE Written(t)
  BY <1>0, <1>4 DEF Written, At, PlaceAt, Goto, Go, Done, Positions, InMessage, Legal
<1>5. CASE Abort(t)
  BY <1>0, <1>5 DEF Abort, At, PlaceAt, Go, Goto, Positions, InMessage
<1>6. CASE SetLogger(t) \/ SetDefaultTag(t) \/ GetDefaultTag(t) \/ SetMinimumLogSeverity(t)
  BY <1>0, <1>6 DEF SetLogger, SetDefaultTag, GetDefaultTag, SetMinimumLogSeverity, Calls, At,
                    PlaceAt, Goto, Go, Done, InMessage
<1>7. CASE SetAborter(t)
  BY <1>0, <1>7 DEF SetAborter, Calls, At, PlaceAt, Goto, Go, Done, InMessage
<1>8. CASE ScopedLogSeverity(t) \/ Initialize(t)
  BY <1>0, <1>8 DEF ScopedLogSeverity, Initialize, Calls, At, PlaceAt, Goto, Go, Done, InMessage
<1> QED
  BY <1>1, <1>2, <1>3, <1>4, <1>5, <1>6, <1>7, <1>8 DEF Call, LogMessage

LEMMA SettingsStep ==
    ASSUME TypeOK, Positions, NEW t \in Thread, Call(t), Moves(t)
    PROVE  SettingsOK'
<1>0. SettingsOK /\ todo[t] # <<>> /\ Legal(Head(todo[t])) /\ old[t] \in Seq(Severity)
  BY Current DEF Moves, TypeOK, SettingsOK
<1>1. CASE LogMessage(t) \/ SetLogger(t) \/ SetDefaultTag(t) \/ GetDefaultTag(t)
  <2>1. UNCHANGED <<gMinimumLogSeverity, gInitialized, Aborter>> /\ aborted' \in BOOLEAN
    BY <1>0, <1>1 DEF LogMessage, LOG, LOG_STREAM, CheckAgain, Lock, LogLine, Written, Abort,
                      SetLogger, SetDefaultTag, GetDefaultTag, functions, settings, SettingsOK
  <2> QED
    BY <1>0, <2>1 DEF SettingsOK
<1>2. CASE SetAborter(t)
  <2>1. Head(todo[t]).op = "SetAborter"
    BY <1>2 DEF SetAborter, Calls, At, Positions
  <2>2. Head(todo[t]).to \in AbortFunctions
    BY <1>0, <2>1 DEF Legal
  <2> QED
    BY <1>0, <1>2, <2>2 DEF SetAborter, settings, SettingsOK
<1>3. CASE SetMinimumLogSeverity(t) \/ ScopedLogSeverity(t)
  <2>1. Head(todo[t]).op \in {"SetMinimumLogSeverity", "ScopedLogSeverity"} => Head(todo[t]).to \in Severity
    BY <1>0 DEF Legal
  <2>2. old[t] # <<>> => Head(old[t]) \in Severity
    BY <1>0
  <2>3. gMinimumLogSeverity' \in Severity
    BY <1>0, <1>3, <2>1, <2>2 DEF SetMinimumLogSeverity, ScopedLogSeverity, Calls, At, Positions, settings, SettingsOK
  <2> QED
    BY <1>0, <1>3, <2>3 DEF SetMinimumLogSeverity, ScopedLogSeverity, functions, settings, SettingsOK
<1>4. CASE Initialize(t)
  BY <1>0, <1>4 DEF Initialize, functions, settings, SettingsOK
<1> QED
  BY <1>1, <1>2, <1>3, <1>4 DEF Call

-----------------------------------------------------------------------------
(* What comes out.                                                         *)

LEMMA OutQuiet ==
    ASSUME TypeOK, NEW t \in Thread, Call(t), ~Written(t)
    PROVE  out' = out
  BY DEF Call, LogMessage, LOG, LOG_STREAM, CheckAgain, Lock, LogLine, Abort, SetLogger, SetAborter,
         SetDefaultTag, GetDefaultTag, SetMinimumLogSeverity, ScopedLogSeverity, Initialize

LEMMA LoggerKept ==
    ASSUME TypeOK, NEW t \in Thread, Call(t)
    PROVE  /\ Logger' = Logger \/ SetLogger(t)
           /\ gDefaultTag' = gDefaultTag \/ LogLine(t) \/ SetDefaultTag(t)
  BY DEF Call, LogMessage, LOG, LOG_STREAM, CheckAgain, Lock, LogLine, Written, Abort, SetLogger,
         SetAborter, SetDefaultTag, GetDefaultTag, SetMinimumLogSeverity, ScopedLogSeverity,
         Initialize, functions, settings

\* A thread in a message goes on with it, or starts with its first line.
LEMMA Quiet ==
    ASSUME TypeOK, NEW t \in Thread, Call(t), Moves(t), ~Written(t)
    PROVE  /\ pc[t] \in {"line", "writing"} =>
                 pc[t] = "line" /\ pc'[t] = "writing" /\ next' = next /\ todo' = todo
           /\ pc'[t] \in {"line", "writing"} => next'[t] = 1 \/ pc[t] = "line"
<1>0. DOMAIN pc = Thread /\ DOMAIN next = Thread
  BY DEF TypeOK
<1>1. CASE LogLine(t)
  BY <1>0, <1>1 DEF LogLine, At, Goto
<1>2. CASE Lock(t)
  BY <1>0, <1>2 DEF Lock, At, Goto
<1>3. CASE LOG(t) \/ LOG_STREAM(t) \/ CheckAgain(t)
  BY <1>0, <1>3 DEF LOG, LOG_STREAM, CheckAgain, Calls, At, Goto, Go, Done
<1>4. CASE Abort(t)
  BY <1>0, <1>4 DEF Abort, At, Go, Goto
<1>5. CASE SetLogger(t) \/ SetDefaultTag(t) \/ GetDefaultTag(t) \/ SetMinimumLogSeverity(t)
  BY <1>0, <1>5 DEF SetLogger, SetDefaultTag, GetDefaultTag, SetMinimumLogSeverity, Calls, At, Go, Goto, Done
<1>6. CASE SetAborter(t) \/ ScopedLogSeverity(t) \/ Initialize(t)
  BY <1>0, <1>6 DEF SetAborter, ScopedLogSeverity, Initialize, Calls, At, Go, Goto, Done
<1> QED
  BY <1>1, <1>2, <1>3, <1>4, <1>5, <1>6 DEF Call, LogMessage

\* What Written does, in the words of the invariant.
LEMMA WrittenStep ==
    ASSUME TypeOK, Positions, OutOK, NEW t \in Thread, Written(t)
    PROVE  /\ pc[t] = "writing" /\ LoggingLock = t /\ Head(todo[t]) \in Ops
           /\ Head(todo[t]).lines \in Nat /\ next[t] \in 1 .. Head(todo[t]).lines
           /\ Line(t) \in LineRecord /\ out' = Append(out, Line(t)) /\ Logger' = Logger
           /\ next[t] < Head(todo[t]).lines =>
                 pc'[t] = "line" /\ next'[t] = next[t] + 1 /\ todo' = todo
           /\ pc'[t] = "line" => next[t] < Head(todo[t]).lines
           /\ pc'[t] # "writing"
           /\ pc'[t] = "abort" => next[t] = Head(todo[t]).lines
                                  /\ Head(todo[t]).severity = FATAL /\ todo' = todo
<1>1. pc[t] = "writing" /\ todo[t] # <<>>
  BY Zenon DEF Written, At
<1>2. LoggingLock = t /\ next \in [Thread -> Nat] /\ DOMAIN pc = Thread
      /\ next[t] \in 1 .. Head(todo[t]).lines
  BY <1>1 DEF TypeOK
<1>3. Head(todo[t]) \in Ops /\ Legal(Head(todo[t])) /\ Head(todo[t]).op \in Messages
  BY <1>1, Current, Zenon DEF Positions, InMessage
<1>4. Head(todo[t]).lines \in Nat /\ Head(todo[t]).severity \in Severity
  BY <1>3 DEF Legal
<1>5. IF next[t] < Head(todo[t]).lines
      THEN pc' = [pc EXCEPT ![t] = "line"] /\ todo' = todo
      ELSE IF Head(todo[t]).severity = FATAL THEN pc' = [pc EXCEPT ![t] = "abort"] /\ todo' = todo
                                             ELSE pc' = [pc EXCEPT ![t] = "call"]
  BY Zenon DEF Written, Goto, Go, Done
<1>6. next' = [next EXCEPT ![t] = @ + 1] /\ out' = Append(out, Line(t)) /\ Logger' = Logger
  BY Zenon DEF Written, functions
<1>7. Line(t) \in LineRecord
  <2>1. (IF Head(todo[t]).tag = NoTag THEN gDefaultTag ELSE Head(todo[t]).tag) \in Tags
    BY <1>3, Zenon DEF OutOK, Tags
  <2>2. Logger \in LogFunctions /\ next[t] \in Nat
    BY <1>2 DEF OutOK
  <2> QED
    BY <1>4, <2>1, <2>2 DEF Line, LineRecord
<1> QED
  BY <1>1, <1>2, <1>3, <1>4, <1>5, <1>6, <1>7

LEMMA OutStep ==
    ASSUME TypeOK, Positions, OutOK, NEW t \in Thread, Call(t)
    PROVE  OutOK'
<1>1. out' \in Seq(LineRecord)
  BY OutQuiet, WrittenStep DEF OutOK
<1>2. Logger' \in LogFunctions
  <2>1. CASE SetLogger(t)
    <3>1. Logger' = Head(todo[t]).to /\ Head(todo[t]) \in Ops
      BY <2>1, Current, Zenon DEF SetLogger, Calls, At
    <3> QED
      BY <3>1, Zenon DEF LogFunctions
  <2> QED
    BY <2>1, LoggerKept DEF OutOK
<1>3. gDefaultTag' \in Tags
  <2>1. CASE SetDefaultTag(t)
    <3>1. gDefaultTag' = Head(todo[t]).to /\ Head(todo[t]) \in Ops
      BY <2>1, Current, Zenon DEF SetDefaultTag, Calls, At
    <3> QED
      BY <3>1, Zenon DEF Tags
  <2>2. CASE LogLine(t)
    BY <2>2, Zenon DEF LogLine, OutOK, Tags
  <2> QED
    BY <2>1, <2>2, LoggerKept DEF OutOK
<1> QED
  BY <1>1, <1>2, <1>3 DEF OutOK

-----------------------------------------------------------------------------
(* Messages are whole.                                                     *)

\* The conjunct of MessagesWhole about line i.
WholeAt(i) ==
    /\ out[i].line > 1 => /\ i > 1
                          /\ [out[i - 1] EXCEPT !.line = @ + 1, !.tag = out[i].tag] = out[i]
    /\ out[i].line < out[i].of =>
          \/ i < Len(out) /\ out[i + 1].line = out[i].line + 1
          \/ /\ i = Len(out)
             /\ pc[out[i].thread] \in {"line", "writing"}
             /\ next[out[i].thread] = out[i].line + 1

LEMMA Lines ==
    ASSUME OutOK
    PROVE  /\ Len(out) \in Nat /\ DOMAIN out = 1 .. Len(out)
           /\ \A i \in 1 .. Len(out) : /\ out[i] \in LineRecord /\ out[i].thread \in Thread
                                       /\ out[i].line \in Nat /\ out[i].of \in Nat
<1>1. out \in Seq(LineRecord)
  BY DEF OutOK
<1>2. \A r \in LineRecord : r.thread \in Thread /\ r.line \in Nat /\ r.of \in Nat
  BY DEF LineRecord
<1>3. Len(out) \in Nat /\ DOMAIN out = 1 .. Len(out) /\ \A i \in 1 .. Len(out) : out[i] \in LineRecord
  BY <1>1
<1> QED
  BY <1>2, <1>3

LEMMA WholeLines ==
    ASSUME OutOK
    PROVE  MessagesWhole <=> \A i \in 1 .. Len(out) : WholeAt(i)
  BY Lines, Zenon DEF MessagesWhole, WholeAt

LEMMA WholeQuiet ==
    ASSUME TypeOK, OutOK, MessagesWhole, NEW t \in Thread, Call(t), Moves(t), ~Written(t)
    PROVE  MessagesWhole'
<1>1. out' = out
  BY OutQuiet
<1>2. ASSUME NEW u \in Thread, pc[u] \in {"line", "writing"}
      PROVE  pc'[u] \in {"line", "writing"} /\ next'[u] = next[u]
  BY <1>2, Quiet DEF Moves, TypeOK
<1>3. \A i \in DOMAIN out : out[i].thread \in Thread
  BY Lines
<1> QED
  BY <1>1, <1>2, <1>3 DEF MessagesWhole

LEMMA WholeWritten ==
    ASSUME TypeOK, Positions, OutOK, MessagesWhole, UnderWay, NEW t \in Thread, Moves(t), Written(t)
    PROVE  MessagesWhole'
<1> DEFINE n == Len(out)
           new == Line(t)
           c == Head(todo[t])
<1>1. /\ out \in Seq(LineRecord) /\ new \in LineRecord /\ out' = Append(out, new)
      /\ n \in Nat
  BY WrittenStep DEF OutOK
<1>2. /\ Len(out') = n + 1 /\ DOMAIN out' = 1 .. n + 1 /\ out'[n + 1] = new
      /\ \A i \in 1 .. n : out'[i] = out[i] /\ out[i] \in LineRecord
  BY <1>1
<1>3. /\ new.thread = t /\ new.line = next[t] /\ new.of = c.lines
      /\ new.severity = c.severity /\ new.by = Logger
  BY DEF Line
<1>4. next[t] \in Nat /\ c.lines \in Nat /\ next[t] >= 1 /\ next[t] <= c.lines /\ pc[t] = "writing"
  BY WrittenStep
<1>5. ASSUME NEW i \in 1 .. n, out[i].line > 1
      PROVE  i > 1 /\ [out'[i - 1] EXCEPT !.line = @ + 1, !.tag = out'[i].tag] = out'[i]
  <2>1. i > 1 /\ [out[i - 1] EXCEPT !.line = @ + 1, !.tag = out[i].tag] = out[i]
    BY <1>5, WholeLines, Zenon DEF WholeAt
  <2>2. i - 1 \in 1 .. n
    BY <1>1, <2>1
  <2>3. out'[i - 1] = out[i - 1] /\ out'[i] = out[i]
    BY <1>2, <2>2
  <2> QED
    BY <2>1, <2>3, Zenon
<1>6. ASSUME new.line > 1
      PROVE  n >= 1 /\ [out[n] EXCEPT !.line = @ + 1, !.tag = new.tag] = new
  <2>1. /\ out # <<>> /\ out[n].thread = t /\ out[n].line = next[t] - 1
        /\ out[n].of = c.lines /\ out[n].severity = c.severity /\ out[n].by = Logger
    BY <1>3, <1>4, <1>6 DEF UnderWay
  <2>2. n >= 1 /\ out[n] \in LineRecord
    BY <1>1, <2>1
  <2>3. out[n].line + 1 = new.line
    BY <1>3, <1>4, <2>1
  <2> QED
    BY <1>1, <1>3, <2>1, <2>2, <2>3 DEF LineRecord
<1>7. ASSUME NEW i \in 1 .. n, out[i].line < out[i].of
      PROVE  out'[i + 1].line = out[i].line + 1
  <2>1. CASE i < n
    <3>1. out[i + 1].line = out[i].line + 1
      <4>1. i # Len(out)
        BY <1>1, <2>1
      <4> QED
        BY <1>7, <4>1, WholeLines, Zenon DEF WholeAt
    <3>2. i + 1 \in 1 .. n
      BY <1>1, <2>1
    <3> QED
      BY <1>2, <3>1, <3>2, Zenon
  <2>2. CASE i = n
    <3>1. /\ pc[out[i].thread] \in {"line", "writing"} /\ next[out[i].thread] = out[i].line + 1
          /\ out[i].thread \in Thread
      <4>1. ~(i < Len(out))
        BY <1>1, <2>2
      <4> QED
        BY <1>7, <4>1, WholeLines, Lines, Zenon DEF WholeAt
    <3>2. out[i].thread = t
      BY <3>1, <1>4, WrittenStep DEF TypeOK
    <3> QED
      BY <1>2, <1>3, <2>2, <3>1, <3>2
  <2> QED
    BY <2>1, <2>2
<1>8. new.line < new.of => pc'[t] = "line" /\ next'[t] = new.line + 1
  BY <1>3, WrittenStep
<1> SUFFICES ASSUME NEW i \in 1 .. n + 1 PROVE WholeAt(i)'
  BY <1>2 DEF MessagesWhole, WholeAt
<1>9. CASE i \in 1 .. n
  <2>1. i < Len(out') /\ out'[i] = out[i]
    BY <1>1, <1>2, <1>9
  <2> QED
    BY <1>5, <1>7, <1>9, <2>1, Zenon DEF WholeAt
<1>10. CASE i = n + 1
  <2>1. out'[i].line > 1 =>
          i > 1 /\ [out'[i - 1] EXCEPT !.line = @ + 1, !.tag = out'[i].tag] = out'[i]
    <3>1. SUFFICES ASSUME new.line > 1
                   PROVE  i > 1 /\ [out'[i - 1] EXCEPT !.line = @ + 1, !.tag = out'[i].tag] = out'[i]
      BY <1>2, <1>10
    <3>2. i > 1 /\ i - 1 = n /\ n \in 1 .. n
      BY <1>1, <1>6, <1>10, <3>1
    <3>3. out'[i - 1] = out[n] /\ out'[i] = new
      BY <1>2, <1>10, <3>2
    <3> QED
      BY <1>6, <3>1, <3>2, <3>3, Zenon
  <2>2. out'[i].line < out'[i].of =>
          /\ i = Len(out') /\ pc'[out'[i].thread] \in {"line", "writing"}
          /\ next'[out'[i].thread] = out'[i].line + 1
    BY <1>2, <1>3, <1>8, <1>10
  <2> QED
    BY <2>1, <2>2 DEF WholeAt
<1> QED
  BY <1>9, <1>10

LEMMA UnderWayQuiet ==
    ASSUME TypeOK, UnderWay, NEW t \in Thread, Call(t), Moves(t), ~Written(t)
    PROVE  UnderWay'
<1>1. out' = out
  BY OutQuiet
<1>2. ASSUME NEW u \in Thread, pc'[u] \in {"line", "writing"}, next'[u] > 1
      PROVE  pc[u] \in {"line", "writing"} /\ next'[u] = next[u] /\ todo'[u] = todo[u]
  <2>1. CASE u = t
    BY <1>2, <2>1, Quiet
  <2>2. CASE u # t
    BY <1>2, <2>2 DEF Moves, TypeOK
  <2> QED
    BY <2>1, <2>2
<1>3. ASSUME NEW u \in Thread, pc[u] \in {"line", "writing"}
      PROVE  Logger' = Logger
  <2>1. LoggingLock # NoThread
    BY <1>3, ThreadAssumption DEF TypeOK
  <2> QED
    BY <2>1, LoggerKept DEF SetLogger
<1> QED
  BY <1>1, <1>2, <1>3 DEF UnderWay

LEMMA UnderWayWritten ==
    ASSUME TypeOK, Positions, OutOK, NEW t \in Thread, Moves(t), Written(t)
    PROVE  UnderWay'
<1> SUFFICES ASSUME NEW u \in Thread, pc'[u] \in {"line", "writing"}, next'[u] > 1
             PROVE  /\ out' # <<>>
                    /\ out'[Len(out')].thread = u /\ out'[Len(out')].line = next'[u] - 1
                    /\ out'[Len(out')].of = Head(todo'[u]).lines
                    /\ out'[Len(out')].severity = Head(todo'[u]).severity
                    /\ out'[Len(out')].by = Logger'
  BY DEF UnderWay
<1>1. u = t
  <2> SUFFICES ASSUME u # t PROVE FALSE
    OBVIOUS
  <2>1. pc[u] \in {"line", "writing"}
    BY DEF Moves, TypeOK
  <2> QED
    BY <2>1, WrittenStep DEF TypeOK
<1>2. next[t] < Head(todo[t]).lines /\ next'[t] = next[t] + 1 /\ todo' = todo
  BY <1>1, WrittenStep
<1>3. out' # <<>> /\ out'[Len(out')] = Line(t) /\ Logger' = Logger /\ next[t] \in Nat
  BY WrittenStep DEF OutOK, TypeOK
<1> QED
  BY <1>1, <1>2, <1>3 DEF Line

-----------------------------------------------------------------------------
(* FATAL messages.                                                         *)

\* A thread comes to the aborter from its last line, and stays there only when
\* the process dies.
LEMMA ToAbort ==
    ASSUME TypeOK, NEW t \in Thread, Call(t), Moves(t)
    PROVE  /\ aborted' => pc[t] = "abort" /\ pc' = pc /\ todo' = todo
           /\ pc'[t] = "abort" => Written(t) \/ (pc[t] = "abort" /\ todo' = todo)
<1>0. DOMAIN pc = Thread /\ ~aborted
  BY DEF TypeOK, Moves
<1>1. CASE Written(t)
  BY <1>0, <1>1 DEF Written
<1>2. CASE LOG(t) \/ LOG_STREAM(t) \/ CheckAgain(t) \/ Lock(t) \/ LogLine(t)
  BY <1>0, <1>2 DEF LOG, LOG_STREAM, CheckAgain, Lock, LogLine, Calls, At, Goto, Go, Done
<1>3. CASE Abort(t)
  BY <1>0, <1>3 DEF Abort, At, Go, Goto
<1>4. CASE SetLogger(t) \/ SetDefaultTag(t) \/ GetDefaultTag(t) \/ SetMinimumLogSeverity(t)
  BY <1>0, <1>4 DEF SetLogger, SetDefaultTag, GetDefaultTag, SetMinimumLogSeverity, Calls, At, Go, Goto, Done
<1>5. CASE SetAborter(t) \/ ScopedLogSeverity(t) \/ Initialize(t)
  BY <1>0, <1>5 DEF SetAborter, ScopedLogSeverity, Initialize, Calls, At, Go, Goto, Done
<1> QED
  BY <1>1, <1>2, <1>3, <1>4, <1>5 DEF Call, LogMessage

LEMMA OutGrows ==
    ASSUME TypeOK, Positions, OutOK, NEW t \in Thread, Call(t)
    PROVE  \A i \in DOMAIN out : i \in DOMAIN out' /\ out'[i] = out[i]
<1>1. CASE Written(t)
  BY <1>1, WrittenStep DEF OutOK
<1>2. CASE ~Written(t)
  BY <1>2, OutQuiet
<1> QED
  BY <1>1, <1>2

LEMMA WordsStep ==
    ASSUME TypeOK, Positions, OutOK, Words, NEW t \in Thread, Call(t), Moves(t)
    PROVE  Words'
<1> SUFFICES ASSUME NEW u \in Thread, pc'[u] = "abort" PROVE Said(u)'
  BY Zenon DEF Words
<1>1. ASSUME pc[u] = "abort", todo'[u] = todo[u] PROVE Said(u)'
  <2>1. PICK i \in DOMAIN out : /\ out[i].thread = u /\ out[i].severity = FATAL
                                /\ out[i].line = Head(todo[u]).lines
    BY <1>1, Zenon DEF Words, Said
  <2> QED
    BY <1>1, <2>1, OutGrows, Zenon DEF Words, Said
<1>2. CASE u # t
  BY <1>1, <1>2 DEF Moves, TypeOK
<1>3. CASE u = t /\ Written(t)
  <2>1. /\ next[t] = Head(todo[t]).lines /\ Head(todo[t]).severity = FATAL /\ todo' = todo
        /\ out' = Append(out, Line(t))
    BY <1>3, WrittenStep
  <2>2. Len(out) + 1 \in DOMAIN out' /\ out'[Len(out) + 1] = Line(t)
    BY <1>3, WrittenStep DEF OutOK
  <2>3. Line(t).thread = t /\ Line(t).severity = FATAL /\ Line(t).line = Head(todo[t]).lines
    BY <2>1 DEF Line
  <2> QED
    BY <1>3, <2>1, <2>2, <2>3, Zenon DEF Said
<1>4. CASE u = t /\ ~Written(t)
  BY <1>1, <1>4, ToAbort
<1> QED
  BY <1>2, <1>3, <1>4

LEMMA LastWordsStep ==
    ASSUME TypeOK, Positions, OutOK, Words, NEW t \in Thread, Call(t), Moves(t)
    PROVE  LastWords'
<1> SUFFICES ASSUME aborted'
             PROVE  /\ pc'[t] = "abort" /\ Said(t)'
  BY Zenon DEF LastWords, Said
<1>1. pc[t] = "abort" /\ pc' = pc
  BY ToAbort
<1>2. Words'
  BY WordsStep
<1> QED
  BY <1>1, <1>2, Zenon DEF Words

\* Nothing but the aborter ends a FATAL message.
LEMMA FatalStep ==
    ASSUME TypeOK, Positions, NEW t \in Thread, Call(t), Moves(t), NEW u \in Thread,
           todo[u] # <<>>, Head(todo[u]).op \in Messages, Head(todo[u]).severity = FATAL,
           todo'[u] # todo[u]
    PROVE  pc[u] = "abort"
<1>1. u = t
  BY DEF Moves, TypeOK
<1>2. WOULD_LOG(FATAL)
  BY DEF TypeOK, WOULD_LOG, Severity, VERBOSE, FATAL
<1>3. CASE LOG(t) \/ LOG_STREAM(t) \/ CheckAgain(t) \/ Lock(t) \/ LogLine(t)
  BY <1>1, <1>2, <1>3, Zenon DEF LOG, LOG_STREAM, CheckAgain, Lock, LogLine
<1>4. CASE Written(t)
  BY <1>1, <1>4, Zenon DEF Written
<1>5. CASE Abort(t)
  BY <1>1, <1>5 DEF Abort, At
<1>6. CASE SetLogger(t) \/ SetDefaultTag(t) \/ GetDefaultTag(t) \/ SetMinimumLogSeverity(t)
  BY <1>1, <1>6 DEF SetLogger, SetDefaultTag, GetDefaultTag, SetMinimumLogSeverity, Calls, Messages
<1>7. CASE SetAborter(t) \/ ScopedLogSeverity(t) \/ Initialize(t)
  BY <1>1, <1>7 DEF SetAborter, ScopedLogSeverity, Initialize, Calls, At, Messages, Positions
<1> QED
  BY <1>3, <1>4, <1>5, <1>6, <1>7 DEF Call, LogMessage

-----------------------------------------------------------------------------
(* The theorems.                                                           *)

LEMMA InitInv == Init => IInv
<1> SUFFICES ASSUME Init PROVE IInv
  OBVIOUS
<1>1. TypeOK
  <2>1. todo \in [Thread -> Seq(Ops)]
    BY ProgramCalls DEF Init
  <2>2. \A t \in Thread : LoggingLock # t /\ TagLock # t /\ pc[t] = "call"
    BY ThreadAssumption DEF Init
  <2>3. old \in [Thread -> Seq(Severity)] /\ next \in [Thread -> Nat]
    BY DEF Init
  <2>4. SettingsOK
    <3>1. Aborter # {} /\ Aborter \subseteq AbortFunctions \cup {Crash}
      BY Zenon DEF Init, AbortFunctions
    <3>2. INFO \in Severity
      BY DEF Severity, VERBOSE, INFO, FATAL
    <3> QED
      BY <3>1, <3>2 DEF Init, SettingsOK
  <2> QED
    BY <2>1, <2>2, <2>3, <2>4 DEF Init, TypeOK, SettingsOK
<1>2. Positions /\ UnderWay /\ Words
  BY DEF Init, Positions, InMessage, UnderWay, Words
<1>3. OutOK /\ MessagesWhole /\ LastWords
  BY DEF Init, OutOK, LogFunctions, Tags, MessagesWhole, LastWords
<1> QED
  BY <1>1, <1>2, <1>3 DEF IInv

LEMMA CallInv ==
    ASSUME IInv, NEW t \in Thread, Call(t)
    PROVE  IInv'
<1>1. /\ TypeOK /\ Positions /\ OutOK /\ MessagesWhole /\ UnderWay /\ Words
  BY Zenon DEF IInv
<1>2. Moves(t)
  BY <1>1, CallMoves
<1>3. TypeOK' /\ Positions'
  BY <1>1, <1>2, LockStep, PlaceStep, SettingsStep, TypeStep
<1>4. OutOK'
  BY <1>1, OutStep
<1>5. MessagesWhole' /\ UnderWay'
  BY <1>1, <1>2, WholeQuiet, WholeWritten, UnderWayQuiet, UnderWayWritten
<1>6. Words' /\ LastWords'
  BY <1>1, <1>2, WordsStep, LastWordsStep
<1> QED
  BY <1>3, <1>4, <1>5, <1>6 DEF IInv

LEMMA UnchangedInv ==
    ASSUME IInv, UNCHANGED vars
    PROVE  IInv'
<1> USE DEF vars, locks, functions, settings
<1>1. TypeOK'
  BY DEF IInv, TypeOK
<1>2. Positions' /\ OutOK' /\ MessagesWhole'
  BY DEF IInv, Positions, OutOK, MessagesWhole
<1>3. UnderWay' /\ Words' /\ LastWords'
  BY DEF IInv, UnderWay, Words, Said, LastWords
<1> QED
  BY <1>1, <1>2, <1>3 DEF IInv

LEMMA NextInv == IInv /\ [Next]_vars => IInv'
  BY CallInv, UnchangedInv DEF Next, Stop

LEMMA SpecInv == Spec => []IInv
  BY InitInv, NextInv, PTL DEF Spec

\* Who holds LoggingLock and TagLock follows from where the threads are.
THEOREM TypeCorrect == Spec => []TypeOK
<1>1. IInv => TypeOK
  BY DEF IInv
<1> QED
  BY <1>1, SpecInv, PTL

\* The lines of a message come out together, in order, and through one log
\* function (~LogMessage holds LoggingLock over all of them).
THEOREM MessagesAreWhole == Spec => []MessagesWhole
<1>1. IInv => MessagesWhole
  BY DEF IInv
<1> QED
  BY <1>1, SpecInv, PTL

\* A FATAL message is never skipped by either look at the severity, only the
\* aborter lets its thread go on, and the process dies only of one that is out.
THEOREM FatalStays == Spec => FatalIsFinal
<1> DEFINE Skips == \A t \in Thread :
                      /\ todo[t] # <<>> /\ Head(todo[t]).op \in Messages
                      /\ Head(todo[t]).severity = FATAL
                      /\ todo'[t] # todo[t]
                      => pc[t] = "abort"
<1>1. IInv /\ [Next]_vars => LastWords'
  BY NextInv DEF IInv
<1>2. ASSUME IInv, [Next]_vars PROVE Skips
  <2>1. CASE UNCHANGED vars
    BY <2>1 DEF vars
  <2>2. ASSUME NEW t \in Thread, Call(t) PROVE Skips
    <3>1. TypeOK /\ Positions /\ Moves(t)
      BY <1>2, <2>2, CallMoves DEF IInv
    <3> QED
      BY <2>2, <3>1, FatalStep
  <2> QED
    BY <1>2, <2>1, <2>2 DEF Next, Stop
<1>3. IInv /\ [Next]_vars => [LastWords' /\ Skips]_vars
  BY <1>1, <1>2
<1> QED
  BY <1>3, SpecInv, PTL DEF Spec, FatalIsFinal

\* While a log function runs (LogLine, under both locks), neither it nor the
\* default tag it was given is replaced.
THEOREM CallsUndisturbed == Spec => NothingChangesUnderCall
<1> DEFINE Kept == \A t \in Thread :
                     pc[t] = "writing" /\ pc'[t] = "writing" =>
                         /\ UNCHANGED Logger
                         /\ Head(todo[t]).tag = NoTag => UNCHANGED gDefaultTag
<1>1. ASSUME IInv, [Next]_vars PROVE Kept
  <2>1. CASE UNCHANGED vars
    BY <2>1 DEF vars, functions, settings
  <2>2. ASSUME NEW t \in Thread, Call(t), NEW u \in Thread, pc[u] = "writing", pc'[u] = "writing"
        PROVE  /\ UNCHANGED Logger
               /\ Head(todo[u]).tag = NoTag => UNCHANGED gDefaultTag
    <3>1. TypeOK /\ Positions /\ OutOK /\ Moves(t)
      BY <1>1, <2>2, CallMoves DEF IInv
    <3>2. LoggingLock = u /\ (Head(todo[u]).tag = NoTag => TagLock = u)
      BY <2>2, <3>1 DEF TypeOK
    <3>3. ~SetLogger(t) /\ (Head(todo[u]).tag = NoTag => ~SetDefaultTag(t))
      BY <3>2, ThreadAssumption DEF SetLogger, SetDefaultTag
    <3>4. ASSUME LogLine(t), Head(todo[u]).tag = NoTag PROVE gDefaultTag' = gDefaultTag
      <4>1. pc[t] = "line" /\ LoggingLock = t
        BY <3>1, <3>4 DEF LogLine, At, TypeOK
      <4> QED
        BY <2>2, <3>2, <4>1
    <3> QED
      BY <2>2, <3>1, <3>3, <3>4, LoggerKept
  <2> QED
    BY <1>1, <2>1, <2>2 DEF Next, Stop
<1>2. IInv /\ [Next]_vars => [Kept]_vars
  BY <1>1
<1> QED
  BY <1>2, SpecInv, PTL DEF Spec, NothingChangesUnderCall
=============================================================================

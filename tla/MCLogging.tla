------------------------------ MODULE MCLogging ------------------------------
(***************************************************************************)
(* Every assignment of these programs to two threads, the same one to both *)
(* included.  Every program that logs FATAL can meet one that replaces the *)
(* aborter; the aborter that returns logs itself, as the one of the test   *)
(* LOG_FATAL_NOOP_ABORTER does.                                            *)
(***************************************************************************)
EXTENDS Logging

CONSTANTS t1, t2, StdioLogger, NoopAborter, a, b

ERROR == 4

Message(op, severity, lines, tag) ==
    [op |-> op, severity |-> severity, lines |-> lines, tag |-> tag]
To(op, to) == [op |-> op, to |-> to]

MCThread == {t1, t2}
MCDoes == [x \in {NoopAborter} |-> <<Message("LOG", ERROR, 2, NoTag)>>]
MCPrograms == {
    InitLogging(StdioLogger, NoopAborter, a, <<VERBOSE>>)
        \o <<Message("LOG", VERBOSE, 2, NoTag)>>,
    InitLogging(StderrLogger, DefaultAborter, NoTag, <<FATAL - 1, WrongSpec>>),
    <<Message("LOG", INFO, 2, b), Message("LOG", FATAL, 2, NoTag), Message("LOG", ERROR, 1, a)>>,
    <<To("SetAborter", NoopAborter), To("ScopedLogSeverity", FATAL),
      Message("LOG", FATAL, 1, NoTag), [op |-> "~ScopedLogSeverity"],
      To("SetAborter", DefaultAborter)>>,
    <<To("SetLogger", StdioLogger), To("SetDefaultTag", b), [op |-> "GetDefaultTag"],
      To("SetDefaultTag", NoTag)>>,
    <<To("SetMinimumLogSeverity", ERROR), Message("LOG_STREAM", ERROR, 3, NoTag),
      Message("LOG_STREAM", INFO, 1, NoTag), To("SetLogger", StderrLogger)>>}
=============================================================================

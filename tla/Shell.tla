------------------------------- MODULE Shell -------------------------------
(***************************************************************************)
(* cpputils::base::Unix::Shell: a command run by system() with its output  *)
(* in a pipe, which the caller reads after the command has ended.          *)
(* Texts are sequences of words and quotes, output is a sequence of        *)
(* characters; blanks are left out, and Trim that removes them.            *)
(***************************************************************************)
EXTENDS Integers, Sequences, SequencesExt

CONSTANTS Char,      \* what commands say, character by character
          Texts,     \* what updateCommand is called with
          OutPaths,  \* what setOutPath is called with
          Programs,  \* Programs[c]: what command c may say, and how it exits
          PipeSize,  \* characters a pipe holds
          ReadSize,  \* characters one read() asks for
          Closed,    \* no pipe is open
          Absent     \* no file is there

GT == ">"
QUOTE == "\""
NL == "\n"
NUL == "NUL"
DevNull == "/dev/null"
Lost == [says |-> <<>>, exit |-> 1]     \* no shell was started, or it was killed

ASSUME SizesAssumption == PipeSize \in Nat \ {0} /\ ReadSize \in Nat \ {0}
ASSUME CharAssumption == {NL, NUL} \subseteq Char /\ Closed \notin Seq(Char)
ASSUME ProgramsAssumption ==
    \A c \in DOMAIN Programs : Programs[c] \subseteq [says : Seq(Char), exit : {0, 1}]

VARIABLES m_command, m_output_path, m_output_lines, m_error_msg, m_exec_status,
          m_shell_available,
          pc,     \* the caller: outside, in system(), or reading the pipe
          child,  \* what the command has yet to say, and how it will exit
          pipe,   \* what is in the pipe
          ret, ss,\* what system() returned, and what was read
          file,   \* the file at each path
          run     \* history: the last execute, and what its command said

settings == <<m_command, m_output_path, m_shell_available>>
results == <<m_output_lines, m_error_msg, m_exec_status>>
vars == <<settings, results, pc, child, pipe, ret, ss, file, run>>

\* The command is the text before the last ">", and the rest is the path,
\* unless a quote follows that ">".
Position(text, word) == SelectLastInSeq(text, LAMBDA w : w = word)
Splits(text) == Position(text, GT) > Position(text, QUOTE)
CommandOf(text) == IF Splits(text) THEN SubSeq(text, 1, Position(text, GT) - 1) ELSE text
PathOf(text) == IF Splits(text) THEN SubSeq(text, Position(text, GT) + 1, Len(text)) ELSE <<>>

Paths == ({PathOf(t) : t \in Texts} \cup OutPaths) \ {<<>>}
ToDevNull(path) == Contains(path, DevNull)
NoRun == [captured |-> FALSE]

TypeOK ==
    /\ m_command \in {CommandOf(t) : t \in Texts} \cup {<<>>}
    /\ m_output_path \in Paths \cup {<<>>, <<DevNull>>}
    /\ m_exec_status \in BOOLEAN /\ m_shell_available \in BOOLEAN
    /\ pc \in {"idle", "system", "collect"}
    /\ pc = "idle" => pipe = Closed /\ child = Lost
    /\ pipe # Closed => Len(pipe) <= PipeSize
    /\ pc # "idle" => m_output_lines = <<>> /\ ~m_exec_status

\* A read() takes what is there up to ReadSize characters, of which those
\* before a zero byte are used.
ReadPart(text) == SubSeq(text, 1, IF Len(text) < ReadSize THEN Len(text) ELSE ReadSize)
ReadRest(text) == SubSeq(text, ReadSize + 1, Len(text))
Used(chunk) == LET end == SelectInSeq(chunk, LAMBDA c : c = NUL)
               IN  IF end = 0 THEN chunk ELSE SubSeq(chunk, 1, end - 1)

\* std::getline until the end of the text.
AddChar(cut, c) == IF c = NL THEN [done |-> Append(cut.done, cut.rest), rest |-> <<>>]
                   ELSE [cut EXCEPT !.rest = Append(@, c)]
Cut(text) ==
    LET cut[i \in 0 .. Len(text)] ==
          IF i = 0 THEN [done |-> <<>>, rest |-> <<>>] ELSE AddChar(cut[i - 1], text[i])
    IN  cut[Len(text)]
Lines(text) == LET cut == Cut(text)
               IN  IF cut.rest = <<>> THEN cut.done ELSE Append(cut.done, cut.rest)

\* A line as long as a whole read goes to the file without its line end.
FileLine(line) == IF Len(line) < ReadSize THEN Append(line, NL) ELSE line
Contents(lines) == FlattenSeq([i \in DOMAIN lines |-> FileLine(lines[i])])
-----------------------------------------------------------------------------
Init ==
    /\ m_command = <<>> /\ m_output_path = <<>>
    /\ m_output_lines = <<>> /\ m_error_msg = <<>> /\ m_exec_status = TRUE
    /\ m_shell_available \in BOOLEAN
    /\ pc = "idle" /\ child = Lost /\ pipe = Closed /\ ret = 0 /\ ss = <<>>
    /\ file = [p \in Paths |-> Absent]
    /\ run = NoRun

UpdateCommand == \E t \in Texts :
    /\ pc = "idle"
    /\ m_command' = CommandOf(t)
    /\ m_output_path' = PathOf(t)
    /\ m_output_lines' = <<>>
    /\ run' = NoRun
    /\ UNCHANGED <<m_error_msg, m_exec_status, m_shell_available, pc, child, pipe, ret, ss, file>>

SetOutPath == \E p \in OutPaths :
    /\ pc = "idle"
    /\ m_output_path' = p
    /\ UNCHANGED <<m_command, m_shell_available, results, pc, child, pipe, ret, ss, file, run>>

\* execute(toDevNull) changes the path for good, and execCommand the status.
Begin(toDevNull) ==
    /\ pc = "idle"
    /\ m_output_path' = IF toDevNull THEN <<DevNull>> ELSE m_output_path
    /\ m_exec_status' = FALSE
    /\ UNCHANGED <<m_command, m_shell_available, m_error_msg, ret, ss, file>>

\* No shell; an empty command; or no pipe (pipe or fcntl fails).
GiveUp == \E toDevNull \in BOOLEAN :
    /\ Begin(toDevNull)
    /\ ~m_shell_available \/ m_command = <<>> \/ ~ToDevNull(m_output_path')
    /\ m_output_lines' = IF m_shell_available THEN <<>> ELSE m_output_lines
    /\ run' = NoRun
    /\ UNCHANGED <<pc, child, pipe>>

Cleared_Not(lines) == lines
Cleared(lines) == <<>>

Start == \E toDevNull \in BOOLEAN :
    /\ Begin(toDevNull)
    /\ m_shell_available /\ m_command # <<>>
    /\ m_output_lines' = Cleared(m_output_lines)
    /\ pc' = "system"
    /\ child' \in {Lost} \cup IF m_command \in DOMAIN Programs THEN Programs[m_command] ELSE {}
    /\ pipe' = IF ToDevNull(m_output_path') THEN Closed ELSE <<>>
    /\ run' = [captured |-> ~ToDevNull(m_output_path'), path |-> m_output_path',
               said |-> <<>>, before |-> file, opened |-> FALSE]

\* The command writes as much as the pipe takes, and waits when it is full.
Room == IF pipe = Closed THEN Len(child.says) ELSE PipeSize - Len(pipe)
Say == /\ pc = "system"
       /\ \E n \in 1 .. Len(child.says) :
            /\ n <= Room
            /\ child' = [child EXCEPT !.says = SubSeq(@, n + 1, Len(@))]
            /\ pipe' = IF pipe = Closed THEN pipe ELSE pipe \o SubSeq(child.says, 1, n)
            /\ run' = [run EXCEPT !.said = @ \o SubSeq(child.says, 1, n)]
       /\ UNCHANGED <<settings, results, pc, ret, ss, file>>
Killed == /\ pc = "system" /\ child.says # <<>>
          /\ child' = Lost
          /\ UNCHANGED <<settings, results, pc, pipe, ret, ss, file, run>>

SystemReturns ==
    /\ pc = "system" /\ child.says = <<>>
    /\ IF pipe = Closed
       THEN /\ pc' = "idle"
            /\ m_exec_status' = (child.exit = 0)
            /\ UNCHANGED ret
       ELSE /\ pc' = "collect"
            /\ ret' = child.exit
            /\ UNCHANGED m_exec_status
    /\ child' = Lost
    /\ UNCHANGED <<settings, m_output_lines, m_error_msg, pipe, ss, file, run>>

\* The caller holds the pipe's other end too: only O_NONBLOCK makes the
\* read() of an empty pipe return.
Read_Once ==
    /\ pc = "collect" /\ ret = 0 /\ pipe # <<>>
    /\ ss' = ss \o Used(ReadPart(pipe))
    /\ pipe' = <<>>
    /\ UNCHANGED <<settings, results, pc, child, ret, file, run>>
Read ==
    /\ pc = "collect" /\ ret = 0 /\ pipe # <<>>
    /\ ss' = ss \o Used(ReadPart(pipe))
    /\ pipe' = ReadRest(pipe)
    /\ UNCHANGED <<settings, results, pc, child, ret, file, run>>
Drained_Blocks == ret # 0 /\ pipe # <<>>
Drained == ret # 0 \/ pipe = <<>>

WantsFile_Always(path) == path # <<>>
WantsFile(path) == path # <<>> /\ ret = 0

Finish == \E opens \in BOOLEAN :
    /\ pc = "collect" /\ Drained
    /\ opens => WantsFile(m_output_path)
    /\ m_error_msg' = IF pipe = <<>> THEN m_error_msg ELSE Used(ReadPart(pipe))
    /\ m_output_lines' = m_output_lines \o Lines(ss)
    /\ file' = IF opens THEN [file EXCEPT ![m_output_path] = Contents(Lines(ss))] ELSE file
    /\ m_exec_status' = (ret = 0)
    /\ run' = [run EXCEPT !.opened = opens]
    /\ pc' = "idle" /\ pipe' = Closed /\ ret' = 0 /\ ss' = <<>>
    /\ UNCHANGED <<settings, child>>

Caller == SystemReturns \/ Read \/ Finish
Next == UpdateCommand \/ SetOutPath \/ GiveUp \/ Start \/ Say \/ Killed \/ Caller

Spec == Init /\ [][Next]_vars
FairSpec == Spec /\ WF_vars(Caller) /\ WF_vars(Say)
-----------------------------------------------------------------------------
\* Text with at most its last line end added.
OrEnded(text) == {text, Append(text, NL)}
AllEnded(lines) == FlattenSeq([i \in DOMAIN lines |-> Append(lines[i], NL)])
Plain(text) == ~Contains(text, NUL)
Ran == pc = "idle" /\ run.captured

\* After an execute that captured the output, the lines are all that the
\* command said when it succeeded, however it came through the pipe; when it
\* failed there are none, and the error message is the first read() of what it
\* said.  (sysutil.cpp:148-175; text with zero bytes is cut.)
OutputIsKept ==
    Ran => IF m_exec_status
           THEN Plain(run.said) => AllEnded(m_output_lines) \in OrEnded(run.said)
           ELSE /\ m_output_lines = <<>>
                /\ run.said # <<>> => m_error_msg = Used(ReadPart(run.said))

\* Only the path of the call is written, only after success, and then with
\* what the command said, if no line is as long as a read().
OnlyTheFileIsWritten ==
    Ran => LET short == \A i \in DOMAIN m_output_lines : Len(m_output_lines[i]) < ReadSize IN
           /\ \A p \in Paths : file[p] # run.before[p] =>
                 m_exec_status /\ run.opened /\ p = run.path
           /\ run.opened /\ short /\ Plain(run.said) => file[run.path] \in OrEnded(run.said)

\* Every call returns whose command has no more to say than the pipe holds:
\* nobody reads while system() runs, and a command with more waits for ever.
Fits == pipe # Closed => Len(run.said) + Len(child.says) <= PipeSize
Returns == pc # "idle" /\ Fits ~> pc = "idle"
=============================================================================

------------------------------ MODULE MCShell ------------------------------
(* Values of Shell's constants for TLC: a pipe of four characters read two *)
(* at a time, and commands that say nothing, a text with and without a line *)
(* end, a long line, a zero byte, and more than the pipe holds.            *)
EXTENDS Shell, TLC

\* echo with a ">" between quotes and file, big with more than a pipe of it,
\* fail, and touch with nothing to say.
f == <<"f">>
MCTexts == {<<>>, <<"cat", GT, "f">>, <<"echo", QUOTE, GT, QUOTE>>, <<"big">>,
            <<"fail", GT, "f">>, <<"cat", GT, DevNull>>, <<"raw">>}
MCOutPaths == {<<>>, f, <<"g">>}
Says(text) == [says |-> text, exit |-> 0]
Fails(text) == [says |-> text, exit |-> 1]
MCChar == {"a", "b", "c", "n", "o", GT, NL, NUL}
MCPrograms ==
    <<"cat">> :> {Says(<<"a", NL, "b">>), Says(<<"a", "b", NL, "c">>)}
    @@ <<"echo", QUOTE, GT, QUOTE>> :> {Says(<<GT, NL>>), Says(<<>>)}
    @@ <<"big">> :> {Says(<<"a", NL, "a", NL, "a", NL>>)}
    @@ <<"fail">> :> {Fails(<<"n", "o", NL>>), Fails(<<>>)}
    @@ <<"raw">> :> {Says(<<"a", NUL, "b", NL>>)}
=============================================================================

---- MODULE MCCmdLine ----
(***************************************************************************)
(* CmdLine for TLC: one letter and the blank, hints that share a prefix    *)
(* and one of two words.  "exit" is one of them, reached by completion.    *)
(***************************************************************************)
EXTENDS CmdLine

Letters == {"x", " "}
HelpLine == <<"x">>
ExitLine == <<"x", "x", "x">>
HintList == << <<"x", "x">>, <<"x", "x", "x">>, <<"x", " ", "x", "x">>, <<"x", "x", "x", "x">>,
              <<"x", " ", "x", " ", "x">> >>
====

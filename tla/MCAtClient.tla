----------------------------- MODULE MCAtClient -----------------------------
(***************************************************************************)
(* Instances of AtClient for TLC.                                          *)
(***************************************************************************)
EXTENDS AtClient

\* No answer, success with no, one, two (too many) data lines or one too long for the
\* receive buffer, and an error.
MCAnswers == {<<>>, <<"OK">>, <<"data", "OK">>, <<"data", "data", "OK">>, <<"long", "OK">>,
              <<"ERROR">>}
=============================================================================

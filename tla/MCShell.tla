------------------------------- MODULE MCShell -------------------------------
(***************************************************************************)
(* A small shell: "a" is a binary, "u" names nothing, "s" runs the script, *)
(* "x" is exit and "c" stands for the other built-in commands.             *)
(***************************************************************************)
EXTENDS Shell

MCPrograms == {<<"a">>}

\* Commands in the background and not, an empty line and a line of blanks.
MCTypedLines ==
  { <<"a">>, <<"u">>, <<"s">>, <<"x">>, <<>>, <<" ">>, <<"&">>,
    <<"a", " ", "&">>, <<"u", " ", "&">> }

\* The first line of a script is passed over.
MCScripts ==
  { << <<"#">>, <<"a", " ", "&">>, <<"u">> >>,
    << <<"#">>, <<"a", " ", "&">>, <<"c">>, <<"a">> >>,
    << <<"#">>, <<"u">>, <<"u">>, <<>>, <<"x">>, <<"a">> >>,
    << <<"#">>, <<"u", " ", "&">>, <<"a">> >> }
=============================================================================

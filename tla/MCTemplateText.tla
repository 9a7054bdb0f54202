---------------------------- MODULE MCTemplateText ----------------------------
(***************************************************************************)
(* Instance of TemplateText for TLC: the bytes that one function or        *)
(* another treats in a way of its own, by turns; values of narrow and wide *)
(* characters.                                                             *)
(***************************************************************************)
EXTENDS TemplateText

SomeAlphabets == {{"a", "\\", "n", "ctl", "\""}, {"&", "l", "t", ";", "<"}, {"a", "&", "\"", "'"},
                  {"a", "hi"}, {"a", "A", "b", "hi", " "}}

SomeValues == {<<"a", "b", "a", "a", "A", "b", "a">>,
               <<"b", "hi", "a", "a", "hi", "hi", "b">>,
               <<"a", "a", "a", "a", "a">>}
=============================================================================

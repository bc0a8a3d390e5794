------------------------- MODULE MCProcessEnvironment -------------------------
(***************************************************************************)
(* Short strings for TLC: variables whose names begin alike, repeat, or are*)
(* missing; arguments that are empty, cut by the tail, or hold a zero byte *)
(* or a space.                                                             *)
(***************************************************************************)
EXTENDS ProcessEnvironment

Bytes == {"0", " ", "=", "a", "b", "p", "ARGV="}

EnvStrings ==
  {<<"a", "=", "b">>, <<"a", "=", "=">>, <<"a", "a", "=", "b">>, <<"=", "a">>,
   <<"a">>}

Values ==
  {NIL, <<>>, <<"a">>, <<"b">>, <<"a", "b">>, <<"0", "b">>, <<" ", "a">>}

EnvNames == {<<"a">>, <<"b">>, <<"a", "a">>}
===============================================================================

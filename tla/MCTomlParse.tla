----------------------------- MODULE MCTomlParse -----------------------------
(***************************************************************************)
(* Documents of up to four constructs over two keys: plain and dotted      *)
(* pairs, inline tables (one of them in conflict with itself), and headers *)
(* of up to three parts.                                                   *)
(***************************************************************************)
EXTENDS TomlParse

MCPairs == {
  KV(<<"a">>, 1), KV(<<"b">>, 1), KV(<<"a", "b">>, 1), KV(<<"b", "a">>, 1),
  Inline(<<"a">>, <<KV(<<"b">>, 1)>>),
  Inline(<<"b">>, <<KV(<<"a">>, 1), KV(<<"a", "b">>, 1)>>),
  Inline(<<"a", "b">>, <<>>) }

MCHeaders == {<<"a">>, <<"b">>, <<"a", "b">>, <<"b", "a">>, <<"a", "b", "a">>}
=============================================================================

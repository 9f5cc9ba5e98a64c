--------------------------- MODULE MCEditComments ---------------------------
(***************************************************************************)
(* One starting document and one call for each comment the edit operations *)
(* do not live up to.                                                      *)
(***************************************************************************)
EXTENDS TomlEditLogic

One == KV(<<>>, 1)

\* [[a]] twice; SetCreate("a[0].b.c").
CreatedEntry == {
  [Session({<<ArrayTable(<<"a">>, <<>>), ArrayTable(<<"a">>, <<>>)>>}, 2) EXCEPT
     !.values = {One}, !.create = {<<Key("a"), Index(0), Key("b"), Key("c")>>}]}

\* The same with a table in each entry; Delete("a[0]").
DeletedEntry == {
  [Session({<<ArrayTable(<<"a">>, <<>>), Table(<<"a", "b">>, <<KV(<<"c">>, 1)>>),
              ArrayTable(<<"a">>, <<>>), Table(<<"a", "c">>, <<KV(<<"b">>, 1)>>)>>}, 2)
   EXCEPT !.delete = {<<Key("a"), Index(0)>>}]}

\* An empty document; EnsureDefaults of "a.b[0].c".
FailedDefault == {
  [Session({<<>>}, 2) EXCEPT
     !.defaults = {<< <<<<Key("a"), Key("b"), Index(0), Key("c")>>, One>> >>}]}

\* a = { b.c = 1 }; SetCreate("a.b.d.c").
BelowInline == {
  [Session({<<Inline(<<"a">>, <<KV(<<"b", "c">>, 1)>>)>>}, 2) EXCEPT
     !.values = {One}, !.create = {<<Key("a"), Key("b"), Key("d"), Key("c")>>}]}

\* [a.b.c], [a] with b.a = 1, and [a.b]: accepted by Parse.  Set("a.b.a").
SpelledTwice == {
  [Session({<<Table(<<"a", "b", "c">>, <<>>), Table(<<"a">>, <<KV(<<"b", "a">>, 1)>>),
              Table(<<"a", "b">>, <<>>)>>}, 2)
   EXCEPT !.values = {One}, !.set = {<<Key("a"), Key("b"), Key("a")>>}]}

\* [[a]] and [b] with c = 1; Walk of the document as parsed.
TableBehindArray == {
  Session({<<ArrayTable(<<"a">>, <<>>), Table(<<"b">>, <<KV(<<"c">>, 1)>>)>>}, 0)}

\* The comments a step of its own tells of.
EditComments == UNION {CreatedEntry, DeletedEntry, FailedDefault, SpelledTwice}
\* Those a state tells of.
StateComments == BelowInline \cup TableBehindArray
=============================================================================

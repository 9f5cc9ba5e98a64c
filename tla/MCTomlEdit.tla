----------------------------- MODULE MCTomlEdit -----------------------------
(***************************************************************************)
(* Small instances of TomlEdit: three keys, paths of up to three segments, *)
(* and one starting document per way TOML has of spelling a table.         *)
(***************************************************************************)
EXTENDS TomlEditLogic

One == KV(<<>>, 1)
Two == KV(<<>>, 2)
Tab == Inline(<<>>, <<KV(<<"b">>, 1)>>)

\* Tables spelled by dotted keys, headers, inline tables, and mixtures.
Spellings == {
  <<KV(<<"a", "b">>, 1), KV(<<"c">>, 1), KV(<<"a", "c">>, 1)>>,
  <<KV(<<"c">>, 1), Table(<<"a">>, <<KV(<<"b">>, 1)>>)>>,
  <<Inline(<<"a">>, <<KV(<<"b", "c">>, 1), KV(<<"c">>, 1)>>), KV(<<"c">>, 1)>>,
  <<Table(<<"a", "b">>, <<KV(<<"c">>, 1)>>), Table(<<"a">>, <<KV(<<"c">>, 1)>>)>>,
  <<Table(<<"a">>, <<KV(<<"b", "c">>, 1)>>), Table(<<"a", "c">>, <<KV(<<"b">>, 1)>>)>>,
  <<Table(<<"a", "b", "c">>, <<>>)>> }

a == <<Key("a")>>
b == <<Key("b")>>
c == <<Key("c")>>
ab == a \o b
ac == a \o c
abc == a \o b \o c
ba == b \o a

Written == {Two, Tab, Unwritable}
Orders == {<<2, 1>>, <<1, 1>>, <<1>>}
EditSpellings ==
  [Session(Spellings, 2) EXCEPT
     !.values = Written, !.names = {"b", "c"}, !.orders = Orders,
     !.set = {a, ab, abc, c, ba},
     !.create = {ab, abc, ba, b \o a \o c},
     !.delete = {a, ab, abc, c},
     !.rename = {a, ab, abc, c},
     !.permute = {a},
     !.header = {ab, b, ac, abc},
     !.defaults = {<< <<ab, Two>>, <<ba, One>> >>, << <<ba, One>>, <<abc, Two>> >>}]

---------------------------------------------------------------------------
\* Arrays of tables: entries with pairs, dotted keys, inline tables, and
\* sub-tables with headers of their own.
Arrays == {
  <<ArrayTable(<<"a">>, <<KV(<<"b">>, 1)>>), ArrayTable(<<"a">>, <<KV(<<"b">>, 2)>>)>>,
  <<KV(<<"c">>, 1), ArrayTable(<<"a">>, <<KV(<<"b", "c">>, 1)>>), ArrayTable(<<"a">>, <<>>)>>,
  <<ArrayTable(<<"a">>, <<Inline(<<"b">>, <<KV(<<"c">>, 1)>>)>>)>> }
Nested == Arrays \cup {
  <<ArrayTable(<<"a">>, <<>>), Table(<<"a", "b">>, <<KV(<<"c">>, 1)>>),
    ArrayTable(<<"a">>, <<KV(<<"c">>, 1)>>), Table(<<"a", "b">>, <<KV(<<"c">>, 2)>>)>>,
  <<ArrayTable(<<"a">>, <<KV(<<"b">>, 1)>>), ArrayTable(<<"a", "c">>, <<KV(<<"b">>, 1)>>),
    ArrayTable(<<"a", "c">>, <<KV(<<"b">>, 2)>>)>> }

a0 == a \o <<Index(0)>>
a1 == a \o <<Index(1)>>
aLast == a \o <<Index(-1)>>

\* Writing inside entries: tables are created under the last entry only.
WriteEntries ==
  [Session(Nested, 2) EXCEPT
     !.values = Written, !.names = {"b", "c"},
     !.set = {a0 \o b, aLast \o b \o c, a1 \o c, ab},
     !.create = {aLast \o b \o c, aLast \o c \o b, c \o b},
     !.delete = {a0 \o b, aLast \o b, a0 \o c, c},
     !.rename = {a0 \o b, aLast \o c},
     !.header = {a, ab, ac, ab \o a},
     !.defaults = {<< <<aLast \o b \o c, Two>>, <<a0 \o c, One>> >>}]

\* Whole entries coming and going: no entry has a header below its own.
ReplaceEntries ==
  [Session(Arrays, 3) EXCEPT
     !.values = Written, !.names = {"b", "c"}, !.orders = Orders,
     !.set = {b, a0 \o b, a1 \o b \o c, aLast \o c},
     !.delete = {a0, aLast, a1 \o b, a, a0 \o b \o c},
     !.rename = {a, a0 \o b, c, a1 \o b},
     !.permute = {a0},
     !.header = {a, b}]

\* Merging documents of every spelling into documents of every spelling.
MergeDocuments ==
  [Session(Spellings \cup Arrays \cup {<<>>}, 2) EXCEPT
     !.values = {Two}, !.set = {b \o c}, !.delete = {a},
     !.sources = Spellings \cup Nested]

MCSessions == {EditSpellings, WriteEntries, ReplaceEntries, MergeDocuments}
=============================================================================

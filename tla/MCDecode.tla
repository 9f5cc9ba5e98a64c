------------------------------ MODULE MCDecode ------------------------------
(***************************************************************************)
(* Small instances of Decode, and the reference its walk is judged by: what *)
(* a document that breaks a type's rules breaks, and what a seed overlaid   *)
(* by a document is.                                                       *)
(***************************************************************************)
EXTENDS DeriveType

Both == {"spec", "go"}
Type0 == [class |-> "none", bits |-> 0, container |-> "none", fields |-> <<>>,
          elem |-> NoType, len |-> 0, tagsRead |-> TRUE, by |-> {"go"}]
Sc(c, bits, by) == [Type0 EXCEPT !.class = c, !.bits = bits, !.by = by]
ListOf(t, n, by) == [Type0 EXCEPT !.class = "targetArray", !.elem = t, !.len = n, !.by = by]
MapOf(t) ==
  [Type0 EXCEPT !.class = "targetTable", !.container = "map", !.elem = t, !.by = Both]
StructOf(fs, by) ==
  [Type0 EXCEPT !.class = "targetTable", !.container = "struct", !.fields = fs, !.by = by]
Field(n, t) == [name |-> n, type |-> t, required |-> FALSE]
Required(n, t) == [name |-> n, type |-> t, required |-> TRUE]

Described == [
  int    |-> Sc("targetInteger", IntBits, Both),
  int8   |-> Sc("targetInteger", 3, {"go"}),
  uint8  |-> Sc("targetUnsigned", 3, {"go"}),
  f64    |-> Sc("targetFloat", 64, Both),
  f32    |-> Sc("targetFloat", 32, {"go"}),
  str    |-> Sc("targetString", 0, Both),
  time   |-> Sc("targetTime", 0, {"go"}),
  any    |-> Sc("targetAny", 0, Both),
  chan   |-> Sc("none", 0, {"go"}),
  ints   |-> ListOf("int", 0, Both),
  pair   |-> ListOf("int", 2, {"go"}),
  pairs  |-> ListOf("pair", 0, {"go"}),
  leaf   |-> StructOf(<<Required("a", "int"), Field("b", "str")>>, Both),
  leaves |-> ListOf("leaf", 0, Both),
  maps   |-> MapOf("ints"),
  mapLeaf |-> MapOf("leaf"),
  \* A type that holds itself, by a pointer and by a slice of pointers.
  node   |-> StructOf(<<Field("a", "int"), Field("b", "node"), Field("c", "nodes")>>, Both),
  nodes  |-> ListOf("node", 0, Both),
  wide   |-> StructOf(<<Required("a", "leaf"), Required("b", "leaves"), Field("c", "any")>>, Both),
  arrays |-> StructOf(<<Field("a", "pair"), Field("b", "ints"), Field("c", "int")>>, {"go"}),
  lazy   |-> StructOf(<<Field("a", "int"), Field("b", "chans")>>, {"go"}),
  chans  |-> ListOf("chan", 0, {"go"}),
  badKey |-> Type0,
  tail   |-> StructOf(<<Field("a", "int"), Required("b", "leaves"), Field("c", "any")>>, {"go"}),
  badEmbed |-> [StructOf(<<Field("a", "int")>>, {"go"}) EXCEPT !.tagsRead = FALSE],
  \* Types that hold themselves where deriving does not look for it.
  self   |-> StructOf(<<Field("a", "int")>>, {"go"}),
  loop   |-> ListOf("loop", 0, {"go"}),
  bad    |-> [StructOf(<<Field("a", "int")>>, {"go"}) EXCEPT !.tagsRead = FALSE],
  hasBad |-> StructOf(<<Field("a", "int"), Field("b", "badMap")>>, {"go"}),
  badMap |-> [MapOf("bad") EXCEPT !.by = {"go"}],
  nums   |-> StructOf(<<Field("a", "int8"), Field("b", "uint8"), Field("c", "f32"),
                        Field("d", "f64"), Field("e", "time")>>, {"go"}),
  open   |-> [StructOf(<<Required("a", "int")>>, {"spec"}) EXCEPT !.elem = "str"],
  void   |-> ListOf(NoType, 0, {"spec"}),
  hasVoid |-> StructOf(<<Field("a", "int"), Field("c", "void")>>, {"spec"})]

MCTypes == Described

\* The Go types: those that Described says, in the plainest way unless they are
\* listed here, and pointers to them.
Kind(d) == CASE d.container # "none" -> d.container
             [] d.class = "targetArray" -> IF d.len > 0 THEN "array" ELSE "slice"
             [] d.class = "targetTime" -> "struct"
             [] OTHER -> "other"
GoField(f) == [name |-> f.name, type |-> f.type, required |-> f.required,
               embedded |-> FALSE, tagRead |-> TRUE]
Embedded(t) == [GoField(Field("", t)) EXCEPT !.embedded = TRUE]
Plainly(d) ==
  [kind |-> Kind(d), class |-> d.class, elem |-> d.elem, stringKey |-> TRUE,
   fields |-> [i \in DOMAIN d.fields |-> GoField(d.fields[i])]]
StructType(fs) == [Plainly(StructOf(<<>>, {})) EXCEPT !.fields = fs]
PointerTo(t) == [Plainly(Type0) EXCEPT !.kind = "pointer", !.elem = t]
MCGo ==
  [node |-> StructType(<<GoField(Field("a", "int")), GoField(Field("b", "*node")),
                         GoField(Field("c", "nodes"))>>),
   nodes |-> Plainly(ListOf("*node", 0, {})),
   \* The name a of the embedded struct is bound before it.
   wide |-> StructType(<<GoField(Required("a", "*leaf")), Embedded("*tail")>>),
   bad |-> StructType(<<[GoField(Field("a", "int")) EXCEPT !.tagRead = FALSE]>>),
   badEmbed |-> StructType(<<[Embedded("leaf") EXCEPT !.required = TRUE]>>),
   badKey |-> [Plainly(MapOf("int")) EXCEPT !.stringKey = FALSE],
   self |-> StructType(<<Embedded("*self"), GoField(Field("a", "int"))>>),
   loop |-> Plainly(ListOf("*loop", 0, {}))]
  @@ ("*node" :> PointerTo("node")) @@ ("*leaf" :> PointerTo("leaf"))
  @@ ("*tail" :> PointerTo("tail")) @@ ("*self" :> PointerTo("self"))
  @@ ("*loop" :> PointerTo("loop"))
  @@ [t \in {u \in DOMAIN Described : "go" \in Described[u].by} |-> Plainly(Described[t])]
MCAs == [t \in DOMAIN MCGo |-> IF MCGo[t].kind = "pointer" THEN MCGo[t].elem ELSE t]

Integer(n) == [k |-> "integer", v |-> n]
Text == [k |-> "string", v |-> 1]
Date == [k |-> "ld", v |-> 1]
Float(n) == [k |-> "float", v |-> n]
List(es) == [k |-> "array", es |-> es]
Tables(es) == [k |-> "tables", es |-> es]
Tab(es) == [k |-> "table", es |-> es]
Pair(key, v) == [key |-> key, val |-> v]

\* The tables with at most two of the keys, bound to members of S, the second
\* to one of T.
TwoOf(keys, S, T) ==
  {Tab(<<>>)} \cup {Tab(<<Pair(x, v)>>) : x \in keys, v \in S}
    \cup {Tab(<<Pair(x, v), Pair(y, w)>>) : <<x, y>> \in {z \in keys \X keys : z[1] # z[2]},
                                           v \in S, w \in T}
TablesOf(keys, S) == TwoOf(keys, S, S)

Flat == TablesOf({"a", "b", "c"}, {Integer(1), Text})
Small == TablesOf({"a", "b"}, {Integer(1), Text}) \ TablesOf({"b"}, {Text})
A1 == Tab(<<Pair("a", Integer(1))>>)
B2 == Tab(<<Pair("b", Text), Pair("a", Integer(1))>>)
Lists == {List(<<>>), List(<<Integer(1), Text>>), List(<<Integer(1), Integer(1)>>),
          List(<<A1, Text, Tab(<<>>)>>)}
Nested == Small \cup Lists \cup {Integer(1)} \cup {Tables(<<A1, y>>) : y \in Small}
Second == {List(<<Integer(1), Text>>), B2, Tables(<<B2, Tab(<<>>)>>)}
First == Lists \cup Second \cup {A1, Tab(<<>>), Text}
Docs == TwoOf({"a", "b"}, First, Second)
  \cup {Tab(<<Pair(x, A1), Pair("c", v)>>) : x \in {"a", "d"}, v \in Nested}
Bearing(x) == {Tab(<<Pair("b", x), Pair("a", Integer(1))>>), Tables(<<Tab(<<Pair("c", x)>>)>>)}
Bear == UNION {Bearing(x) : x \in Lists \cup {A1}}
BearTables == UNION {Bearing(x) : x \in {A1, List(<<A1, Text, Tab(<<>>)>>)}}
Deep == TwoOf({"b", "c"}, Bear, BearTables)
Numbers == TablesOf({"a", "b", "c", "d", "e"}, {Date, Float(MaxFloat32), Float(MaxFloat32 + 4)})
  \cup {Tab(<<Pair(x, Integer(n))>>) : x \in {"a", "b", "c", "d"}, n \in MinInt..MaxInt}

\* Seeds: a value in every place a type has.
One == Scalar(Integer(7))
Seeds == [
  leaf |-> Struct([a |-> One, b |-> Zero]),
  wide |-> Struct([a |-> Struct([a |-> One, b |-> Scalar(Text)]),
                   b |-> Slice(<<Struct([a |-> One, b |-> Scalar(Text)])>>), c |-> Zero]),
  node |-> Struct([a |-> One, c |-> Zero,
                   b |-> Struct([a |-> One, b |-> Zero, c |-> Slice(<<>>)])]),
  maps |-> GoMap([a |-> Slice(<<One>>), d |-> Slice(<<One>>)]),
  arrays |-> Struct([a |-> Slice(<<One, One>>), b |-> Slice(<<One, One, One>>), c |-> Zero])]

In(t, vs) == [val : vs, type : {t}, seed : {IF t \in DOMAIN Seeds THEN Seeds[t] ELSE Zero}]
MCInputs ==
  UNION {In(t, Docs) : t \in {"wide", "maps", "arrays"}} \cup In("node", Deep)
    \cup UNION {In(t, Flat) : t \in {"leaf", "open", "hasVoid", "bad", "hasBad", "lazy", "any"}}
    \cup UNION {In(t, Small) : t \in {"badEmbed", "badKey"}}
    \cup UNION {In(t, Nested) : t \in {"pair", "leaves", "int", "mapLeaf", "chans"}}
    \cup In("pairs", {List(<<x, y>>) : x, y \in Lists})
    \cup In("nums", Numbers)
    \cup In("lazy", {Tab(<<Pair("b", List(<<>>))>>), Tab(<<Pair("c", Text), Pair("b", Text)>>)})

\* An embedded pointer to the struct itself; a slice of pointers to itself.
RecursiveInputs ==
  In("self", {Tab(<<Pair("a", Integer(1))>>)}) \cup In("loop", {List(<<List(<<>>)>>)})

\* A seed with tables in a map, all of a shape.
NestedSeed == GoMap([x \in {"a", "c"} |-> Struct([a |-> One, b |-> Scalar(Text)])])
NestedInputs == [val : TablesOf({"a", "b"}, Small), type : {"mapLeaf"}, seed : {NestedSeed}]

\* What the inputs hold, to the depth their values have.
Holding(v) ==
  CASE v.k = "table" -> {v.es[i].val : i \in DOMAIN v.es}
    [] v.k \in {"array", "tables"} -> ToSet(v.es)
    [] OTHER -> {}
InputValues == {in.val : in \in MCInputs \cup NestedInputs \cup RecursiveInputs}
Level2 == InputValues \cup UNION {Holding(v) : v \in InputValues}
Level3 == Level2 \cup UNION {Holding(v) : v \in Level2}
Level4 == Level3 \cup UNION {Holding(v) : v \in Level3}
MCValues == Level4 \cup UNION {Holding(v) : v \in Level4}

MCIndex == [i \in 1..3 |-> <<"[0]", "[1]", "[2]">>[i]]

---------------------------------------------------------------------------
\* The reference: by the type's rules, without a walk.

Broken(kind, path) == [kind |-> kind, path |-> path]
Representable(n, m) == \E e \in 0..IntBits : n % 2 ^ e = 0 /\ Abs(n) \div 2 ^ e < 2 ^ m
Holds(x, t) ==
  CASE Types[t].class = "targetInteger" -> x.v \in Signed(Types[t].bits)
    [] Types[t].class = "targetUnsigned" -> x.v \in Unsigned(Types[t].bits)
    [] Types[t].class = "targetFloat" ->
         IF x.k = "float" THEN Types[t].bits = 64 \/ x.v <= MaxFloat32
         ELSE Representable(x.v, IF Types[t].bits = 32 THEN Mantissa32 ELSE Mantissa64)
    [] OTHER -> TRUE

Keys(v) == {v.es[i].key : i \in DOMAIN v.es}
At(v, key) == v.es[CHOOSE i \in DOMAIN v.es : v.es[i].key = key].val
Names(t) == {Types[t].fields[i].name : i \in DOMAIN Types[t].fields}

RECURSIVE Violations(_, _, _)
Violations(v, t, path) ==
  IF v.k \notin accepts[Types[t].class] THEN {Broken("typeMismatch", path)}
  ELSE CASE Types[t].class = "targetAny" -> {}
    [] Types[t].class = "targetTable" ->
         {Broken("missingKey", Append(path, Types[t].fields[i].name)) :
            i \in {j \in DOMAIN Types[t].fields :
                     Types[t].fields[j].required /\ Types[t].fields[j].name \notin Keys(v)}}
         \cup UNION {LET u == Lookup(t, key)
                         p == Append(path, key)
                     IN IF u # NoType THEN Violations(At(v, key), u, p)
                        ELSE {Broken(IF At(v, key).k \in {"table", "tables"}
                                     THEN "unknownTable" ELSE "unknownKey", p)}
                     : key \in Keys(v)}
    [] Types[t].class = "targetArray" ->
         IF Types[t].len > 0 /\ Types[t].len # Len(v.es) THEN {Broken("inexact", path)}
         ELSE UNION {Violations(v.es[i], Types[t].elem, Append(path, Index[i])) :
                       i \in DOMAIN v.es}
    [] OTHER -> IF Holds(v, t) THEN {} ELSE {Broken("inexact", path)}

\* A document value reaches a type decoding cannot work with.
RECURSIVE Reaches(_, _)
Reaches(v, t) ==
  \/ t \notin Derivable
  \/ /\ v.k \in accepts[Types[t].class]
     /\ \/ Types[t].class = "targetTable"
             /\ \E key \in Keys(v) :
                  Lookup(t, key) # NoType /\ Reaches(At(v, key), Lookup(t, key))
        \/ /\ Types[t].class = "targetArray" /\ (Types[t].len > 0 => Types[t].len = Len(v.es))
           /\ \E i \in DOMAIN v.es : Reaches(v.es[i], Types[t].elem)

FieldIn(seed, key) ==
  IF seed # Zero /\ key \in DOMAIN seed.f THEN seed.f[key] ELSE Zero

RECURSIVE Overlay(_, _, _)
Overlay(seed, v, t) ==
  CASE Types[t].class = "targetAny" -> Native(v)
    [] Types[t].class = "targetArray" ->
         Slice([i \in DOMAIN v.es |->
                  Overlay(IF Types[t].len > 0 /\ seed # Zero THEN seed.s[i] ELSE Zero,
                          v.es[i], Types[t].elem)])
    [] Types[t].container = "map" ->
         GoMap([key \in Keys(v) \cup (IF seed = Zero THEN {} ELSE DOMAIN seed.f) |->
                  IF key \in Keys(v) THEN Overlay(Zero, At(v, key), Types[t].elem)
                  ELSE seed.f[key]])
    [] Types[t].class = "targetTable" ->
         Struct([key \in Names(t) |->
                   IF key \in Keys(v) THEN Overlay(FieldIn(seed, key), At(v, key), Lookup(t, key))
                   ELSE FieldIn(seed, key)])
    [] Types[t].class = "targetFloat" ->
         Scalar(Float(IF Types[t].bits = 32 THEN Round(v.v, Mantissa32) ELSE v.v))
    [] Types[t].class = "targetTime" -> Scalar([k |-> "odt", v |-> v.v])
    [] OTHER -> Scalar(v)

\* The places of a Go value that hold something, with what they hold; what is
\* written whole is one place.
RECURSIVE Leaves(_, _)
Leaves(g, path) ==
  CASE g.g \in {"zero", "none"} -> {}
    [] g.g \in {"struct", "map"} -> UNION {Leaves(g.f[key], Append(path, key)) : key \in DOMAIN g.f}
    [] OTHER -> {<<path, g>>}

\* The document carries the path, or binds a prefix of it to a value.
RECURSIVE Carries(_, _)
Carries(v, path) ==
  \/ path = <<>> \/ v.k # "table"
  \/ Head(path) \in Keys(v) /\ Carries(At(v, Head(path)), Tail(path))

---------------------------------------------------------------------------
\* Outcomes change as a call returns: they are looked at between calls.
Between == mode = "none"
Answered(m) == m \in DOMAIN outcomes
Distinct(s) == \A i, j \in DOMAIN s : s[i] = s[j] => i = j

\* Every entry point reports exactly the violations the document has, each
\* once: all the independent ones, none below a construct it refused, and none
\* when a type cannot be worked with at all.
ReportsEachViolation ==
  Between => \A m \in DOMAIN outcomes :
    LET o == outcomes[m]
        unusable == IF m = "Validate" THEN input.type \notin Describes ELSE Reaches(input.val, input.type)
    IN /\ o.fatal <=> unusable
       /\ ~unusable => ToSet(o.diags) = Violations(input.val, input.type, <<>>) /\ Distinct(o.diags)
       /\ o.ok <=> ~unusable /\ o.diags = <<>>

\* What Decode returns is the document over nothing, what DecodeOver returns
\* the document over the seed: a field the document does not carry is the
\* seed's, an element of a map it does carry is the document's alone.
OverlaysSeed ==
  Between => \A m \in DOMAIN outcomes : m # "Validate" /\ outcomes[m].ok =>
    outcomes[m].out = Overlay(IF m = "Decode" THEN Zero ELSE input.seed, input.val, input.type)

\* The written paths tell what the document supplied from what the seed left:
\* each is in the document, and whatever the result holds that the seed did not
\* is at or below one.
WrittenTellsSupplied ==
  Between /\ Answered("DecodeOver") /\ outcomes["DecodeOver"].ok =>
    LET o == outcomes["DecodeOver"]
    IN /\ \A i \in DOMAIN o.written : Carries(input.val, o.written[i])
       /\ \A l \in Leaves(o.out, <<>>) \ Leaves(input.seed, <<>>) :
            \E i \in DOMAIN o.written : IsPrefix(o.written[i], l[1])

\* A Spec and a Go type of the same shape answer alike, diagnostic by
\* diagnostic and in the same order, and what deriving makes of the Go type is
\* the descriptor the Spec compiles to.
FrontEndsAgree ==
  /\ DerivesDescriptors
  /\ Between /\ Answered("Validate") => \A m \in DOMAIN outcomes :
       /\ outcomes[m].diags = outcomes["Validate"].diags
       /\ outcomes[m].ok = outcomes["Validate"].ok

\* Every call answers: deriving the descriptor of a type that holds itself by a
\* pointer or a slice ends, what is marked not being entered again
\* (decode.go:646-647), and the walk goes on with it or is refused.  Not so for
\* a struct that embeds a pointer to itself, whose fields are promoted before
\* anything is marked: RecursiveInputs.
CallsAnswer == mode # "none" ~> mode = "none"

\* decode.go:113-114: "every key the document does not carry keeps what the
\* seed put there".
KeysNotCarriedKept ==
  Answered("DecodeOver") /\ outcomes["DecodeOver"].ok =>
    \A l \in Leaves(input.seed, <<>>) :
      Carries(input.val, l[1]) \/ l \in Leaves(outcomes["DecodeOver"].out, <<>>)
=============================================================================

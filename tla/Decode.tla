------------------------------- MODULE Decode -------------------------------
(***************************************************************************)
(* The decode engine (decode.go, spec.go): a document's read-layer walked  *)
(* against a descriptor, collecting diagnostics and, when it decodes,      *)
(* filling a Go value.                                                     *)
(*                                                                         *)
(* Document values.  A scalar is as in Conversion.  A table in whatever    *)
(* spelling, an array and an array-of-tables hold their entries in         *)
(* document order: a table <<[key, val], ...>>, the others values.         *)
(*                                                                         *)
(* Descriptors.  Types gives each name its descriptor; the types a         *)
(* descriptor contains are names, so a type may contain itself.  Fields    *)
(* are in name order.  A pointer decodes as what it points to: a nil one   *)
(* is Zero, and one that was allocated is its pointee.                     *)
(*                                                                         *)
(* Go values are records with a tag g.  A zero struct is Zero until a      *)
(* table is written into it; NoValue is the destination of a walk that     *)
(* only validates.                                                         *)
(*                                                                         *)
(* The walk is recursive in the code.  Here its calls are frames on a      *)
(* stack, innermost last: each has its entries, where it is among them,    *)
(* and the Go value it fills; a call that returns delivers that value.     *)
(***************************************************************************)
EXTENDS Conversion, SequencesExt

CONSTANTS
  Types,   \* descriptors by name
  Values,  \* the document values, what they contain included
  Inputs,  \* what may be decoded: [val, type, seed], the seed a Go value
  Index    \* Index[i]: the path segment of the element i - 1

ASSUME InputsAssumption == \A in \in Inputs : in.val \in Values

\* A read-layer's record binds a key once, and each element has its index.
ASSUME ValuesAssumption ==
  \A v \in Values :
    /\ v.k = "table" =>
         /\ \A e \in 1..Len(v.es) : v.es[e].key \in STRING /\ v.es[e].val \in Values
         /\ \A e, d \in 1..Len(v.es) : v.es[e].key = v.es[d].key => e = d
    /\ v.k \in {"array", "tables"} =>
         /\ \A e \in 1..Len(v.es) : v.es[e] \in Values /\ Index[e] \in STRING
         /\ \A e, d \in 1..Len(v.es) : Index[e] = Index[d] => e = d
    /\ v.k \in {"table", "array", "tables"} => Len(v.es) \in Nat

VARIABLES
  input,     \* what is decoded
  mode,      \* the entry point that runs
  stack,     \* its calls
  diags,     \* the diagnostics, in the order they were added
  fatal,     \* the target cannot be worked with at all
  whole,     \* >0 inside a value recorded as one path
  written,   \* the paths the walk wrote
  outcomes   \* what each entry point returned

vars == <<input, mode, stack, diags, fatal, whole, written, outcomes>>

Zero == [g |-> "zero"]
NoValue == [g |-> "none"]
Scalar(x) == [g |-> "scalar", x |-> x]
Native(v) == [g |-> "any", v |-> v]
Struct(f) == [g |-> "struct", f |-> f]
GoMap(f) == [g |-> "map", f |-> f]
Slice(s) == [g |-> "slice", s |-> s]

NoType == "none"
Modes == <<"Validate", "Decode", "DecodeOver">>

---------------------------------------------------------------------------
\* The descriptor.

Elem(t) == {Types[t].elem} \ {NoType}
Elems ==
  [t \in DOMAIN Types |-> IF Types[t].class = "targetArray" THEN Elem(t) ELSE {}]
Contained ==
  [t \in DOMAIN Types |->
     Elem(t) \cup {Types[t].fields[i].type : i \in DOMAIN Types[t].fields}]

\* t and the types reached from it, step by step.
Closure(t, step) ==
  LET reach[n \in 0..Cardinality(DOMAIN Types)] ==
        IF n = 0 THEN {t}
        ELSE LET near == reach[n - 1] IN near \cup UNION {step[u] : u \in near}
  IN reach[Cardinality(DOMAIN Types)]

\* checkTags: the types all of whose tags can be honoured, those of every
\* type they can reach included, whatever the document says.
TagsRead == {t \in DOMAIN Types : \A u \in Closure(t, Contained) : Types[u].tagsRead}

\* fillDesc: an array is derived with its elements, a field on first use.
Derivable ==
  {t \in TagsRead : \A u \in Closure(t, Elems) : Types[u].class # "none"}

\* compileSpec: an array field says what its elements are, wherever it is.
Describes ==
  {t \in DOMAIN Types :
     \A u \in Closure(t, Contained) : Types[u].class = "targetArray" => Elem(u) # {}}

\* lookup: the field of that name, or the slot every other key reads.
FieldOf(t, key) == SelectInSeq(Types[t].fields, LAMBDA f : f.name = key)
Lookup(t, key) ==
  IF FieldOf(t, key) > 0 THEN Types[t].fields[FieldOf(t, key)].type ELSE Types[t].elem

\* The widths a descriptor field implies.
Implied(t) == CASE Types[t].class = "targetInteger"  -> [Types[t] EXCEPT !.bits = IntBits]
                [] Types[t].class = "targetUnsigned" -> [Types[t] EXCEPT !.bits = IntBits]
                [] Types[t].class = "targetFloat"    -> [Types[t] EXCEPT !.bits = 64]
                [] OTHER -> Types[t]

---------------------------------------------------------------------------
\* The walk.

Frame(kind, es, t, dst, path, i) ==
  [kind |-> kind, es |-> es, type |-> t, dst |-> dst, path |-> path, i |-> i]

Top == stack[Len(stack)]
More == stack # <<>> /\ ~fatal /\ Top.i <= Len(Top.es)
Done == stack # <<>> /\ ~fatal /\ Top.i > Len(Top.es)

\* The entry the innermost call is at: its value, the type that reads it, the
\* Go value it writes into (destination), and its path.
Entry == Top.es[Top.i]
Val == IF Top.kind = "table" THEN Entry.val ELSE Entry
Type == CASE Top.kind = "table" -> Lookup(Top.type, Entry.key)
          [] Top.kind = "array" -> Types[Top.type].elem
          [] Top.kind = "call"  -> Top.type
Dst == IF Top.kind = "call" \/ Top.dst = NoValue THEN Top.dst
       ELSE IF Top.kind = "array" THEN Top.dst.s[Top.i]
       ELSE IF Top.dst.g = "map" THEN Zero
       ELSE Top.dst.f[Entry.key]
PathAt(f, e) == IF f.kind = "table" THEN Append(f.path, f.es[e].key)
                ELSE IF f.kind = "array" THEN Append(f.path, Index[e])
                ELSE f.path
Path == PathAt(Top, Top.i)

Add(kind, path) == diags' = Append(diags, [kind |-> kind, path |-> path])

\* A faulty wrote: what is inside a value written whole is recorded too.
FaultyWrote(path, depth) ==
  written' = IF mode = "DecodeOver" THEN Append(written, path) ELSE written

\* wrote: tracked by DecodeOver alone, and not inside a value written whole.
Wrote(path, depth) ==
  written' = IF mode = "DecodeOver" /\ depth = 0 THEN Append(written, path) ELSE written

\* The frame f after its entry i is done, having received v there.
Received(f, v) ==
  LET e == f.es[f.i]
      filled == IF f.kind = "call" THEN v
                ELSE IF f.kind = "array" THEN Slice([f.dst.s EXCEPT ![f.i] = v])
                ELSE IF f.dst.g = "map" THEN GoMap((e.key :> v) @@ f.dst.f)
                ELSE Struct([f.dst.f EXCEPT ![e.key] = v])
  IN Frame(f.kind, f.es, f.type, IF f.dst = NoValue THEN NoValue ELSE filled, f.path, f.i + 1)
Passed(f) == Frame(f.kind, f.es, f.type, f.dst, f.path, f.i + 1)

Below == SubSeq(stack, 1, Len(stack) - 1)
Deliver(v) == stack' = Append(Below, Received(Top, v))
PassOver == stack' = Append(Below, Passed(Top))

Walks == UNCHANGED <<input, mode, outcomes>>

\* An entry whose key the table does not carry.
Unknown ==
  /\ More /\ Type = NoType
  /\ Add(IF Val.k \in {"table", "tables"} THEN "unknownTable" ELSE "unknownKey", Path)
  /\ PassOver
  /\ Walks /\ UNCHANGED <<fatal, whole, written>>

\* A target the engine cannot work with at all stops the walk.
Underivable ==
  /\ More /\ Type # NoType /\ Type \notin Derivable
  /\ fatal' = TRUE
  /\ Walks /\ UNCHANGED <<stack, diags, whole, written>>

Typed == More /\ Type # NoType /\ Type \in Derivable
Accepted == Typed /\ Val.k \in accepts[Types[Type].class]

\* A value of a kind the target refuses.
Mismatch ==
  /\ Typed /\ Val.k \notin accepts[Types[Type].class]
  /\ Add("typeMismatch", Path) /\ PassOver
  /\ Walks /\ UNCHANGED <<fatal, whole, written>>

\* setNative: anything, whole.
TakeNative ==
  /\ Accepted /\ Types[Type].class = "targetAny"
  /\ IF Dst = NoValue THEN PassOver /\ UNCHANGED written
     ELSE Deliver(Native(Val)) /\ Wrote(Path, whole)
  /\ Walks /\ UNCHANGED <<diags, fatal, whole>>

IsScalarClass(c) == c \notin {"targetAny", "targetArray", "targetTable"}

ConvertScalar ==
  /\ Accepted /\ IsScalarClass(Types[Type].class)
  /\ \E x \in ConvertValue(Val, IF Dst = NoValue THEN Implied(Type) ELSE Types[Type]) :
       \/ x = Inexact /\ Add("inexact", Path) /\ PassOver /\ UNCHANGED written
       \/ x # Inexact /\ Dst = NoValue /\ PassOver /\ UNCHANGED <<diags, written>>
       \/ x # Inexact /\ Dst # NoValue /\ Deliver(Scalar(x)) /\ Wrote(Path, whole)
            /\ UNCHANGED diags
  /\ Walks /\ UNCHANGED <<fatal, whole>>

\* A faulty walkRecord: the struct is made anew, as a map's element is.
FaultyOpened(t, dst) ==
  IF dst = NoValue THEN dst
  ELSE IF Types[t].container = "map" THEN (IF dst = Zero THEN GoMap(<<>>) ELSE dst)
  ELSE Struct([n \in {Types[t].fields[i].name : i \in DOMAIN Types[t].fields} |-> Zero])

\* walkTable, walkRecord: the struct or map to fill, allocated if it was nil.
Opened(t, dst) ==
  IF dst # Zero THEN dst
  ELSE IF Types[t].container = "map" THEN GoMap(<<>>)
  ELSE Struct([n \in {Types[t].fields[i].name : i \in DOMAIN Types[t].fields} |-> Zero])
EnterTable ==
  /\ Accepted /\ Types[Type].class = "targetTable"
  /\ stack' = Append(stack, Frame("table", Val.es, Type, Opened(Type, Dst), Path, 1))
  /\ Walks /\ UNCHANGED <<diags, fatal, whole, written>>

\* fill: a slice is made anew, a Go array is filled where it is and has the
\* length it declares.
FixedLength(t) == Types[t].len > 0
Fits == Dst # NoValue /\ FixedLength(Type) => Len(Val.es) = Types[Type].len
\* A faulty fill: with nothing to fill, the elements are not looked at.
FaultyEnterArray ==
  /\ Accepted /\ Types[Type].class = "targetArray" /\ Fits
  /\ IF Dst = NoValue THEN PassOver /\ UNCHANGED whole
     ELSE /\ stack' = Append(stack, Frame("array", Val.es, Type,
                               Slice([i \in 1..Len(Val.es) |-> Zero]), Path, 1))
          /\ whole' = whole + 1
  /\ Walks /\ UNCHANGED <<diags, fatal, written>>
EnterArray ==
  /\ Accepted /\ Types[Type].class = "targetArray" /\ Fits
  /\ LET made == Slice([i \in 1..Len(Val.es) |-> Zero])
         dst == IF Dst = NoValue \/ (FixedLength(Type) /\ Dst # Zero) THEN Dst ELSE made
     IN /\ stack' = Append(stack, Frame("array", Val.es, Type, dst, Path, 1))
        /\ whole' = IF dst = NoValue THEN whole ELSE whole + 1
  /\ Walks /\ UNCHANGED <<diags, fatal, written>>

RefuseLength ==
  /\ Accepted /\ Types[Type].class = "targetArray" /\ ~Fits
  /\ Add("inexact", Path) /\ PassOver
  /\ Walks /\ UNCHANGED <<fatal, whole, written>>

\* The call below the innermost one, which returns v to it.
Return(v) ==
  LET f == stack[Len(stack) - 1]
      g == IF v = NoValue THEN Passed(f) ELSE Received(f, v)
  IN stack' = Append(SubSeq(stack, 1, Len(stack) - 2), g)

\* The required keys the table does not carry, in name order.
MissingKeys(f) ==
  LET carried == {f.es[i].key : i \in DOMAIN f.es}
      missing == SelectSeq(Types[f.type].fields, LAMBDA s : s.required /\ s.name \notin carried)
  IN [i \in DOMAIN missing |-> [kind |-> "missingKey", path |-> Append(f.path, missing[i].name)]]
LeaveTable ==
  /\ Done /\ Top.kind = "table"
  /\ diags' = diags \o MissingKeys(Top)
  /\ Return(Top.dst)
  /\ Walks /\ UNCHANGED <<fatal, whole, written>>

\* A faulty fill: the path is recorded before the count is taken back.
FaultyLeaveArray ==
  /\ Done /\ Top.kind = "array"
  /\ IF Top.dst = NoValue THEN UNCHANGED <<whole, written>>
     ELSE whole' = whole - 1 /\ Wrote(Top.path, whole)
  /\ Return(Top.dst)
  /\ Walks /\ UNCHANGED <<diags, fatal>>
LeaveArray ==
  /\ Done /\ Top.kind = "array"
  /\ IF Top.dst = NoValue THEN UNCHANGED <<whole, written>>
     ELSE whole' = whole - 1 /\ Wrote(Top.path, whole - 1)
  /\ Return(Top.dst)
  /\ Walks /\ UNCHANGED <<diags, fatal>>

---------------------------------------------------------------------------
\* The entry points, in turn on the same document: each has an engine of its
\* own, allocates the value it returns, and returns it or its diagnostics.

Init ==
  /\ input \in Inputs
  /\ mode = "none" /\ stack = <<>> /\ diags = <<>> /\ fatal = FALSE
  /\ whole = 0 /\ written = <<>> /\ outcomes = <<>>

\* A Spec describes documents; a Go type decodes a document or any one node.
Document == input.val.k = "table"
Written(front) ==
  {t \in DOMAIN Types : \A u \in Closure(t, Contained) : front \in Types[u].by}
SpecTypes == Written("spec")
GoTypes == Written("go")
Applies(m) ==
  /\ input.type \in (IF m = "Validate" THEN SpecTypes ELSE GoTypes)
  /\ m # "Decode" => Document
  /\ m = "Validate" => Types[input.type].class = "targetTable"
Call(m) ==
  /\ mode = "none" /\ Applies(m) /\ m \notin DOMAIN outcomes
  /\ \A i \in DOMAIN Modes : Applies(Modes[i]) /\ Modes[i] \notin DOMAIN outcomes =>
       \E j \in 1..i : Modes[j] = m
  /\ mode' = m
  /\ LET dst == IF m = "Validate" THEN NoValue
                ELSE IF m = "Decode" THEN Zero ELSE input.seed
     IN stack' = <<Frame("call", <<input.val>>, input.type, dst, <<>>, 1)>>
  /\ fatal' = (m = "Validate" /\ input.type \notin Describes)
  /\ UNCHANGED <<input, diags, whole, written, outcomes>>

Outcome ==
  LET failed == fatal \/ diags # <<>>
  IN [ok |-> ~failed, fatal |-> fatal,
      diags |-> IF fatal THEN <<>> ELSE diags,
      out |-> IF failed THEN NoValue ELSE Top.dst,
      written |-> IF failed THEN <<>> ELSE written]
Answer ==
  /\ mode # "none"
  /\ fatal \/ (Top.kind = "call" /\ Done)
  /\ outcomes' = outcomes @@ (mode :> Outcome)
  /\ mode' = "none" /\ stack' = <<>> /\ diags' = <<>> /\ fatal' = FALSE /\ whole' = 0
  /\ written' = <<>>
  /\ UNCHANGED input

Next ==
  \/ \E m \in ToSet(Modes) : Call(m)
  \/ Unknown \/ Underivable \/ Mismatch \/ TakeNative \/ ConvertScalar
  \/ EnterTable \/ EnterArray \/ RefuseLength \/ LeaveTable \/ LeaveArray
  \/ Answer

\* The walk runs to its end in the goroutine that called it.
Spec == Init /\ [][Next]_vars /\ WF_vars(Next)

---------------------------------------------------------------------------
Paths == Seq(STRING)

\* Types: the calls are a table's, an array's or the entry point's, each at an
\* entry it has or behind its last.
TypeOK ==
  /\ input \in Inputs /\ mode \in ToSet(Modes) \cup {"none"}
  /\ fatal \in BOOLEAN /\ whole \in Nat
  /\ written \in Seq(Paths)
  /\ Len(stack) \in Nat
  /\ \A j \in 1..Len(stack) :
       /\ stack[j].kind \in {"call", "table", "array"}
       /\ stack[j].path \in Paths
       /\ Len(stack[j].es) \in Nat
       /\ stack[j].i \in 1..(Len(stack[j].es) + 1)

Filling(f) == f.kind = "array" /\ f.dst # NoValue

\* The counter that stands for being inside a value written whole is the
\* number of such values: an early return that forgot to take it back would
\* silence every path written after it (decode.go:531-548).
WholeBalanced == whole = Cardinality({j \in 1..Len(stack) : Filling(stack[j])})

\* A walk that only validates touches no Go value at any depth and records no
\* path (spec.go:164: "No reflection is involved").
ValidateTouchesNothing ==
  mode = "Validate" => written = <<>> /\ \A j \in 1..Len(stack) : stack[j].dst = NoValue

\* q is the path p or inside it.
Within(p, q) == Len(p) <= Len(q) /\ \A n \in 1..Len(p) : p[n] = q[n]

\* "A value written whole is one path, not one per element inside it"
\* (decode.go:128-129): no written path is another or inside another.
WrittenApart == \A i, j \in 1..Len(written) : Within(written[i], written[j]) => i = j
---------------------------------------------------------------------------
\* The inductive invariant.

\* Every call walks what a document value holds; the first is the entry
\* point's, on one value.
Feeds(f) ==
  /\ f.kind = "call"  => Len(f.es) = 1 /\ f.es[1] \in Values
  /\ f.kind = "table" => \E v \in Values : v.k = "table" /\ f.es = v.es
  /\ f.kind = "array" => \E v \in Values : v.k \in {"array", "tables"} /\ f.es = v.es
Fed ==
  /\ stack \in Seq({stack[j] : j \in 1..Len(stack)})
  /\ stack # <<>> => stack[1].kind = "call"
  /\ \A j \in 1..Len(stack) : Feeds(stack[j])

\* A call is inside the entry each call below it is at.
Chained ==
  \A k \in 1..Len(stack) : \A j \in 1..(k - 1) :
    /\ stack[j].i <= Len(stack[j].es)
    /\ Within(PathAt(stack[j], stack[j].i), stack[k].path)

\* What was written is at or inside an entry some call has done, no call down
\* to which fills an array.
Past(s, w) ==
  \E j \in 1..Len(s) :
    /\ \A k \in 1..j : ~Filling(s[k])
    /\ \E e \in 1..(s[j].i - 1) : Within(PathAt(s[j], e), w)
PastOnly == \A m \in 1..Len(written) : Past(stack, written[m])

\* Between two entry points nothing is left of the last one.
Idle == mode = "none" => stack = <<>> /\ whole = 0 /\ written = <<>>

IInv == TypeOK /\ WholeBalanced /\ ValidateTouchesNothing /\ WrittenApart
          /\ Idle /\ Fed /\ Chained /\ PastOnly

=============================================================================

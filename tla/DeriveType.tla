----------------------------- MODULE DeriveType -----------------------------
(***************************************************************************)
(* The reflection front end (decode.go): the walk of Decode over a Go type *)
(* derives the descriptor of each type as it first needs it.               *)
(*                                                                         *)
(* Deriving is a recursion over the type graph that ends because types are *)
(* marked before they are entered: en.tagged for checkTags, en.tables for  *)
(* tableForType, en.types for descForType.  Its calls are frames on a      *)
(* stack, innermost last, and ret is what the last one returned.  The walk *)
(* waits for it.                                                           *)
(*                                                                         *)
(* A descriptor and a key set are each known by the type they are of, as   *)
(* the code's pointers to them are.  Left out: unexported fields and those *)
(* tagged "-", which bind nothing, and the order of names, which decides   *)
(* no more than which of two refusals is reported.                         *)
(***************************************************************************)
EXTENDS Decode

CONSTANTS
  Go,       \* the Go types by name: [kind, class, elem, stringKey, fields]
  As,       \* As[t]: the name in Types of what t decodes as
  MaxCalls  \* the calls a goroutine's stack has room for

\* A pointer decodes as what it points to.
ASSUME GoAssumption ==
  /\ As \in [DOMAIN Go -> DOMAIN Types]
  /\ \A t \in DOMAIN Go :
       As[t] = IF Go[t].kind = "pointer" THEN As[Go[t].elem] ELSE t
ASSUME CallsAssumption == MaxCalls \in Nat

VARIABLES
  tagged,   \* en.tagged: the types whose tags are read, or being read
  tables,   \* en.tables: the key sets, by type
  derived,  \* en.types: the descriptors, by type
  calls,    \* the calls under way
  ret       \* what the last call returned

engine == <<tagged, tables, derived, calls, ret>>
goVars == <<vars, engine>>

Called(fn, t, owner) == [fn |-> fn, type |-> t, owner |-> owner, at |-> "start", i |-> 1]
Running == calls # <<>>
Callee == Last(calls)
Rt == Go[Callee.type]
Stands(fn, at) == Running /\ Callee.fn = fn /\ Callee.at = at

\* The innermost call goes on at the place at, when the call f has returned.
\* One call too many and the process ends: a stack overflow is fatal in Go.
Invoke(at, f) ==
  /\ Len(calls) < MaxCalls
  /\ calls' = Append(Front(calls) \o <<[Callee EXCEPT !.at = at]>>, f)
  /\ ret' = "none"
Replies(r) == calls' = Front(calls) /\ ret' = r
GoesTo(at, i) ==
  calls' = Front(calls) \o <<[Callee EXCEPT !.at = at, !.i = i]>> /\ ret' = "none"

With(memo, t, d) == (t :> d) @@ memo
Without(memo, t) == [u \in DOMAIN memo \ {t} |-> memo[u]]

---------------------------------------------------------------------------
\* checkTags, walkTags: a type is marked, then what it contains is read.

ReadBefore ==
  /\ Stands("tags", "start") /\ Callee.type \in tagged
  /\ Replies("ok") /\ UNCHANGED <<tagged, tables, derived>>

\* walkTags' cases: a struct, what has elements, and what contains nothing.
EntersType ==
  IF Rt.kind = "struct" THEN Invoke("walk", Called("table", Callee.type, NoType))
  ELSE IF Rt.elem # NoType THEN Invoke("walk", Called("tags", Rt.elem, NoType))
  ELSE Replies("ok")

\* A faulty checkTags: a type is marked when it has been read.
FaultyMarkTagged ==
  /\ Stands("tags", "start") /\ Callee.type \notin tagged
  /\ EntersType
  /\ UNCHANGED <<tagged, tables, derived>>

MarkTagged ==
  /\ Stands("tags", "start") /\ Callee.type \notin tagged
  /\ tagged' = tagged \cup {Callee.type}
  /\ EntersType
  /\ UNCHANGED <<tables, derived>>

\* The fields of a struct's mapping are still to be followed.
Ahead == Rt.kind = "struct" /\ Callee.i <= Len(tables[Callee.type].slots)

Follow ==
  /\ Stands("tags", "walk") /\ ret # "failed" /\ Ahead
  /\ Len(calls) < MaxCalls
  /\ calls' = Append(Front(calls) \o <<[Callee EXCEPT !.i = @ + 1]>>,
                     Called("tags", tables[Callee.type].slots[Callee.i].type, NoType))
  /\ ret' = "none" /\ UNCHANGED <<tagged, tables, derived>>

TagsDone ==
  /\ Stands("tags", "walk") /\ ret # "failed" /\ ~Ahead
  /\ Replies("ok") /\ UNCHANGED <<tagged, tables, derived>>

TagsFail ==
  /\ Stands("tags", "walk") /\ ret = "failed"
  /\ tagged' = tagged \ {Callee.type}
  /\ Replies("failed") /\ UNCHANGED <<tables, derived>>

---------------------------------------------------------------------------
\* tableForType: the key set of a struct or a map.

NoKeys == [slots |-> <<>>, dynamic |-> NoType]

TableKnown ==
  /\ Stands("table", "start") /\ Callee.type \in DOMAIN tables
  /\ Replies("ok") /\ UNCHANGED <<tagged, tables, derived>>

MapTable ==
  /\ Stands("table", "start") /\ Callee.type \notin DOMAIN tables /\ Rt.kind = "map"
  /\ IF Rt.stringKey
     THEN tables' = With(tables, Callee.type, [NoKeys EXCEPT !.dynamic = Rt.elem]) /\ Replies("ok")
     ELSE UNCHANGED tables /\ Replies("failed")
  /\ UNCHANGED <<tagged, derived>>

StructTable ==
  /\ Stands("table", "start") /\ Callee.type \notin DOMAIN tables /\ Rt.kind = "struct"
  /\ tables' = With(tables, Callee.type, NoKeys)
  /\ Invoke("collected", Called("fields", Callee.type, Callee.type))
  /\ UNCHANGED <<tagged, derived>>

TableDone ==
  /\ Stands("table", "collected")
  /\ tables' = IF ret = "failed" THEN Without(tables, Callee.type) ELSE tables
  /\ Replies(ret) /\ UNCHANGED <<tagged, derived>>

\* collectFields: the fields of Callee.type go into the key set of Callee.owner.
Decl == Rt.fields[Callee.i]
AtField == Stands("fields", "start") /\ ret # "failed" /\ Callee.i <= Len(Rt.fields)

\* The struct an embedded field promotes, if it is one.
Promoted == IF Go[Decl.type].kind = "pointer" THEN Go[Decl.type].elem ELSE Decl.type
Promotes == Decl.embedded /\ Go[Promoted].kind = "struct"
Refused == ~Decl.tagRead \/ (Promotes /\ Decl.required)

RefuseField ==
  /\ AtField /\ Refused
  /\ Replies("failed") /\ UNCHANGED <<tagged, tables, derived>>

Promote ==
  /\ AtField /\ ~Refused /\ Promotes
  /\ Len(calls) < MaxCalls
  /\ calls' = Append(Front(calls) \o <<[Callee EXCEPT !.i = @ + 1]>>,
                     Called("fields", Promoted, Callee.owner))
  /\ ret' = "none" /\ UNCHANGED <<tagged, tables, derived>>

\* A name already bound is not bound again.
BindField ==
  /\ AtField /\ ~Refused /\ ~Promotes
  /\ LET bound == \E i \in DOMAIN tables[Callee.owner].slots : tables[Callee.owner].slots[i].name = Decl.name
         slot == [name |-> Decl.name, type |-> Decl.type, required |-> Decl.required]
     IN tables' = IF bound THEN tables
                  ELSE [tables EXCEPT ![Callee.owner].slots = Append(@, slot)]
  /\ GoesTo("start", Callee.i + 1) /\ UNCHANGED <<tagged, derived>>

FieldsDone ==
  /\ Stands("fields", "start") /\ (ret = "failed" \/ Callee.i > Len(Rt.fields))
  /\ Replies(IF ret = "failed" THEN ret ELSE "ok")
  /\ UNCHANGED <<tagged, tables, derived>>

---------------------------------------------------------------------------
\* descForType, fillDesc.

Blank == [class |-> "none", elem |-> NoType, table |-> NoType]

CheckTags ==
  /\ Stands("desc", "start")
  /\ Invoke("checked", Called("tags", Callee.type, NoType))
  /\ UNCHANGED <<tagged, tables, derived>>

\* Memoized, or not to be had.
DescKnown ==
  /\ Stands("desc", "checked") /\ (ret = "failed" \/ Callee.type \in DOMAIN derived)
  /\ Replies(IF ret = "failed" THEN ret ELSE "ok")
  /\ UNCHANGED <<tagged, tables, derived>>

Fresh == Stands("desc", "checked") /\ ret # "failed" /\ Callee.type \notin DOMAIN derived

\* What contains another type is marked and filled when that is derived.
FillInner ==
  /\ Fresh /\ (Rt.kind = "pointer" \/ Rt.class = "targetArray")
  /\ derived' = With(derived, Callee.type,
                     IF Rt.kind = "pointer" THEN Blank ELSE [Blank EXCEPT !.class = Rt.class])
  /\ Invoke("inner", Called("desc", Rt.elem, NoType))
  /\ UNCHANGED <<tagged, tables>>

FillTable ==
  /\ Fresh /\ Rt.kind # "pointer" /\ Rt.class = "targetTable"
  /\ derived' = With(derived, Callee.type, [Blank EXCEPT !.class = Rt.class])
  /\ Invoke("table", Called("table", Callee.type, NoType))
  /\ UNCHANGED <<tagged, tables>>

\* A type the conversion table has no row for, or a scalar.
FillLeaf ==
  /\ Fresh /\ Rt.kind # "pointer" /\ Rt.class \notin {"targetArray", "targetTable"}
  /\ IF Rt.class = "none" THEN UNCHANGED derived /\ Replies("failed")
     ELSE derived' = With(derived, Callee.type, [Blank EXCEPT !.class = Rt.class]) /\ Replies("ok")
  /\ UNCHANGED <<tagged, tables>>

Forget == derived' = Without(derived, Callee.type) /\ Replies("failed")

InnerDone ==
  /\ Stands("desc", "inner")
  /\ \/ ret = "failed" /\ Forget
     \/ /\ ret = "ok" /\ Replies("ok")
        /\ derived' = IF Rt.kind = "pointer" THEN [derived EXCEPT ![Callee.type] = derived[Rt.elem]]
                      ELSE [derived EXCEPT ![Callee.type].elem = Rt.elem]
  /\ UNCHANGED <<tagged, tables>>

TableFilled ==
  /\ Stands("desc", "table")
  /\ \/ ret = "failed" /\ Forget
     \/ ret = "ok" /\ Replies("ok") /\ derived' = [derived EXCEPT ![Callee.type].table = Callee.type]
  /\ UNCHANGED <<tagged, tables>>

---------------------------------------------------------------------------
\* The walk with it.

\* The Go type whose descriptor the walk asks for: the target's, or the slot's
\* that the key binds.  An array's elements are derived with the array.
SlotType(t, key) ==
  LET i == SelectInSeq(tables[t].slots, LAMBDA s : s.name = key)
  IN IF i > 0 THEN tables[t].slots[i].type ELSE tables[t].dynamic
Slot == IF Top.kind = "call" THEN Top.type ELSE SlotType(Top.type, Entry.key)
Asks ==
  /\ More /\ mode # "Validate" /\ Top.kind # "array" /\ Slot # NoType
  /\ Slot \notin DOMAIN derived

DeriveSlot ==
  /\ Asks /\ ~Running /\ ret # "failed"
  /\ calls' = <<Called("desc", Slot, NoType)>> /\ ret' = "none"
  /\ UNCHANGED <<vars, tagged, tables, derived>>

Derives ==
  /\ \/ ReadBefore \/ MarkTagged \/ Follow \/ TagsDone \/ TagsFail
     \/ TableKnown \/ MapTable \/ StructTable \/ TableDone
     \/ RefuseField \/ Promote \/ BindField \/ FieldsDone
     \/ CheckTags \/ DescKnown \/ FillInner \/ FillTable \/ FillLeaf
     \/ InnerDone \/ TableFilled
  /\ UNCHANGED vars

\* slotDesc's error ends the walk.
TypeRefused ==
  /\ ~Running /\ ret = "failed" /\ Underivable
  /\ UNCHANGED engine

WalkOn ==
  /\ ~Running /\ ~Asks
  /\ \/ Unknown \/ Mismatch \/ TakeNative \/ ConvertScalar \/ EnterTable \/ EnterArray
     \/ RefuseLength \/ LeaveTable \/ LeaveArray \/ Answer
  /\ UNCHANGED engine

\* Each entry point has an engine of its own.
StartCall ==
  /\ \E m \in ToSet(Modes) : Call(m)
  /\ tagged' = {} /\ tables' = <<>> /\ derived' = <<>> /\ calls' = <<>> /\ ret' = "none"

GoInit ==
  /\ Init
  /\ tagged = {} /\ tables = <<>> /\ derived = <<>> /\ calls = <<>> /\ ret = "none"
GoNext == StartCall \/ DeriveSlot \/ Derives \/ TypeRefused \/ WalkOn

\* Deriving and walking run to their end in the goroutine that called them.
GoSpec == GoInit /\ [][GoNext]_goVars /\ WF_goVars(GoNext)

---------------------------------------------------------------------------
\* "A Go type IS a descriptor" (decode.go:643): what is derived between two
\* steps of the walk is what Types says, the descriptor a Spec of the same
\* shape compiles to, and nothing else is refused.
SameSlots(slots, fields) ==
  /\ {<<slots[i].name, As[slots[i].type], slots[i].required>> : i \in DOMAIN slots}
       = {<<fields[i].name, fields[i].type, fields[i].required>> : i \in DOMAIN fields}
  /\ Len(slots) = Len(fields)
SameDesc(d, t) ==
  /\ d.class = Types[t].class
  /\ d.class = "targetArray" => d.elem # NoType /\ As[d.elem] = Types[t].elem
  /\ d.class = "targetTable" =>
       /\ d.table \in DOMAIN tables
       /\ SameSlots(tables[d.table].slots, Types[t].fields)
       /\ Types[t].container = "map" => As[tables[d.table].dynamic] = Types[t].elem
DerivesDescriptors ==
  ~Running =>
    /\ \A t \in DOMAIN derived : As[t] \in Derivable /\ SameDesc(derived[t], As[t])
    /\ Asks /\ ret = "failed" => As[Slot] \notin Derivable
=============================================================================

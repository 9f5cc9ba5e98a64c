----------------------------- MODULE Conversion -----------------------------
(***************************************************************************)
(* The conversion table (convert.go): which kinds of document value reach  *)
(* a decode target, and what a converted value is allowed to lose.         *)
(*                                                                         *)
(* A scalar is [k |-> kind, v |-> payload], the payload an integer.  The   *)
(* widths are parameters: an int64 is IntBits wide, the mantissa of a      *)
(* float64 has Mantissa64 bits and that of a float32 has Mantissa32; what  *)
(* is wrong at the ends of a range of 64 bits is wrong at those of five.   *)
(* A float that holds no whole number takes the same path as one that does *)
(* and is left out.                                                        *)
(***************************************************************************)
EXTENDS Integers

CONSTANTS
  IntBits,     \* the width of a TOML integer: 64
  Mantissa64,  \* significant bits of a float64: 53
  Mantissa32,  \* significant bits of a float32: 24
  MaxFloat32   \* the largest float32

ASSUME WidthAssumption ==
  /\ {IntBits, Mantissa64, Mantissa32, MaxFloat32} \subseteq Nat \ {0}
  /\ Mantissa32 < Mantissa64 /\ Mantissa64 < IntBits - 1

MinInt == -(2 ^ (IntBits - 1))
MaxInt == 2 ^ (IntBits - 1) - 1

\* The table itself, a row for each class of target.
accepts == [
  targetString         |-> {"string"},
  targetInteger        |-> {"integer"},
  targetUnsigned       |-> {"integer"},
  targetFloat          |-> {"float", "integer"},
  targetBoolean        |-> {"boolean"},
  targetTime           |-> {"odt", "ldt", "ld"},
  targetOffsetDateTime |-> {"odt"},
  targetLocalDateTime  |-> {"ldt"},
  targetLocalDate      |-> {"ld"},
  targetLocalTime      |-> {"lt"},
  targetArray          |-> {"array", "tables"},
  targetTable          |-> {"table"},
  targetAny            |-> {"string", "integer", "float", "boolean", "odt", "ldt",
                            "ld", "lt", "array", "tables", "table"}]

Abs(i) == IF i < 0 THEN -i ELSE i

\* The number nearest to i with m significant bits, the even one of two.
Round(i, m) ==
  LET n == Abs(i)
      e == CHOOSE e \in 0..IntBits : n < 2 ^ (m + e) /\ (e > 0 => n >= 2 ^ (m + e - 1))
      q == n \div 2 ^ e
      r == 2 * (n % 2 ^ e)
      up == r > 2 ^ e \/ (r = 2 ^ e /\ q % 2 = 1)
      f == (IF up THEN q + 1 ELSE q) * 2 ^ e
  IN IF i < 0 THEN -f ELSE f

\* int64(f): of a float outside of the range Go leaves the result to the
\* processor, and processors saturate or wrap.
Int64(f) == IF f \in MinInt..MaxInt THEN {f} ELSE {MinInt, MaxInt}

Inexact == [k |-> "inexact", v |-> 0]

\* A faulty exactFloat: a float that rounded up to 2^63 is converted back.
FaultyExactFloat(i, bits) ==
  LET f == Round(i, Mantissa64)
      lost(back) == back # i \/ (bits = 32 /\ Round(f, Mantissa32) # f)
  IN {IF lost(back) THEN Inexact ELSE [k |-> "float", v |-> f] : back \in Int64(f)}

\* exactFloat: the outcomes it may have, the float or Inexact.
ExactFloat(i, bits) ==
  LET f == Round(i, Mantissa64)
      narrowed == Round(f, Mantissa32)
      lost(back) == f >= 2 ^ (IntBits - 1) \/ back # i \/ (bits = 32 /\ narrowed # f)
  IN {IF lost(back) THEN Inexact ELSE [k |-> "float", v |-> f] : back \in Int64(f)}

\* OverflowInt, OverflowUint: what an integer of the width holds.
Signed(width) == -(2 ^ (width - 1))..(2 ^ (width - 1) - 1)
Unsigned(width) == 0..(2 ^ width - 1)

\* convertValue on the scalar x for a target t of that class and width: the
\* outcomes, what the target then holds or Inexact.
ConvertValue(x, t) ==
  CASE t.class = "targetInteger" -> {IF x.v \in Signed(t.bits) THEN x ELSE Inexact}
    [] t.class = "targetUnsigned" ->
         {IF x.v >= 0 /\ x.v \in Unsigned(t.bits) THEN x ELSE Inexact}
    [] t.class = "targetFloat" /\ x.k = "integer" -> ExactFloat(x.v, t.bits)
    [] t.class = "targetFloat" /\ x.k = "float" ->
         {IF t.bits = 32 /\ Abs(x.v) > MaxFloat32 THEN Inexact
          ELSE IF t.bits = 32 THEN [x EXCEPT !.v = Round(x.v, Mantissa32)] ELSE x}
    [] t.class = "targetTime" -> {[k |-> "odt", v |-> x.v]}
    [] OTHER -> {x}
=============================================================================

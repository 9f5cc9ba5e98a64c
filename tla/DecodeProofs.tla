---------------------------- MODULE DecodeProofs ----------------------------
(***************************************************************************)
(* Proofs about the walk of Decode, its descriptors derived on the way,    *)
(* for any Go types, descriptors, documents and seeds: the counter of      *)
(* values written whole is balanced, a validation touches nothing, and no  *)
(* written path is inside another.                                         *)
(***************************************************************************)
EXTENDS DeriveType, FiniteSetTheorems, SequenceTheorems, TLAPS

---------------------------------------------------------------------------
\* Sequences and paths.

\* A sequence is one over the elements it has.
LEMMA Narrow ==
  ASSUME NEW S, NEW s \in Seq(S)
  PROVE  s \in Seq({s[j] : j \in 1..Len(s)})
  OBVIOUS

\* Being within is transitive.
LEMMA WithinTransitive ==
  ASSUME NEW p \in Paths, NEW q \in Paths, NEW r \in Paths, Within(p, q), Within(q, r)
  PROVE  Within(p, r)
  BY DEF Within, Paths

LEMMA WithinItself == ASSUME NEW p \in Paths PROVE Within(p, p)
  BY DEF Within, Paths

LEMMA WithinAppend == ASSUME NEW p \in Paths, NEW x \in STRING
                      PROVE Append(p, x) \in Paths /\ Within(p, Append(p, x))
  BY DEF Within, Paths

\* Paths of one length that end in different segments have nothing in common
\* below them.
LEMMA Diverging ==
  ASSUME NEW n \in Nat \ {0}, NEW a \in Paths, NEW b \in Paths,
         Len(a) = n, Len(b) = n, a[n] # b[n],
         NEW q \in Paths, NEW r \in Paths, Within(a, q), Within(b, r)
  PROVE  ~Within(q, r) /\ ~Within(r, q)
<1>1. n \in 1..Len(q) /\ q[n] = a[n] /\ n \in 1..Len(r) /\ r[n] = b[n]
  BY DEF Within, Paths
<1>2. QED
  BY <1>1 DEF Within

\* So it is with two siblings.
LEMMA Siblings ==
  ASSUME NEW p \in Paths, NEW x \in STRING, NEW y \in STRING, x # y,
         NEW q \in Paths, NEW r \in Paths,
         Within(Append(p, x), q), Within(Append(p, y), r)
  PROVE  ~Within(q, r) /\ ~Within(r, q)
<1>1. \A z \in STRING : /\ Append(p, z) \in Paths
                        /\ Len(Append(p, z)) = Len(p) + 1
                        /\ Append(p, z)[Len(p) + 1] = z
  BY AppendProperties DEF Paths
<1>2. Len(p) + 1 \in Nat \ {0}
  BY DEF Paths
<1> DEFINE n == Len(p) + 1
           a == Append(p, x)
           b == Append(p, y)
<1>3. a \in Paths /\ b \in Paths /\ Len(a) = n /\ Len(b) = n /\ a[n] # b[n]
  BY <1>1
<1>4. Within(a, q) /\ Within(b, r) /\ n \in Nat \ {0}
  BY <1>2
<1> HIDE DEF n, a, b
<1>5. QED
  BY <1>3, <1>4, Diverging

---------------------------------------------------------------------------
\* The calls.

\* A call's path at an entry it has is a path below its own.
LEMMA PathsAt ==
  ASSUME TypeOK, Fed, NEW j \in 1..Len(stack), NEW e \in 1..Len(stack[j].es)
  PROVE  PathAt(stack[j], e) \in Paths /\ Within(stack[j].path, PathAt(stack[j], e))
<1> DEFINE f == stack[j]
<1>0. f.path \in Paths /\ f.kind \in {"call", "table", "array"}
  BY DEF TypeOK
<1>1. CASE f.kind = "call"
  BY <1>0, <1>1, WithinItself DEF PathAt
<1>2. CASE f.kind = "table"
  <2>1. PICK v \in Values : v.k = "table" /\ f.es = v.es
    BY <1>2 DEF Fed, Feeds
  <2>2. f.es[e].key \in STRING
    BY <2>1, ValuesAssumption
  <2>3. QED
    BY <1>0, <1>2, <2>2, WithinAppend DEF PathAt
<1>3. CASE f.kind = "array"
  <2>1. PICK v \in Values : v.k \in {"array", "tables"} /\ f.es = v.es
    BY <1>3 DEF Fed, Feeds
  <2>2. Index[e] \in STRING
    BY <2>1, ValuesAssumption
  <2>3. QED
    BY <1>0, <1>3, <2>2, WithinAppend DEF PathAt
<1>4. QED
  BY <1>0, <1>1, <1>2, <1>3

\* What is at or inside an entry and what is at or inside a later one are
\* apart.
LEMMA EntriesApart ==
  ASSUME TypeOK, Fed, NEW j \in 1..Len(stack),
         NEW e \in 1..Len(stack[j].es), NEW d \in 1..Len(stack[j].es), d # e,
         NEW q \in Paths, NEW r \in Paths,
         Within(PathAt(stack[j], e), q), Within(PathAt(stack[j], d), r)
  PROVE  ~Within(q, r) /\ ~Within(r, q)
<1> DEFINE f == stack[j]
<1>0. f.path \in Paths /\ f.kind \in {"call", "table", "array"}
  BY DEF TypeOK
<1>1. CASE f.kind = "call"
  <2>1. Len(f.es) = 1
    BY <1>1 DEF Fed, Feeds
  <2>2. QED
    BY <2>1
<1>2. CASE f.kind = "table"
  <2>1. PICK v \in Values : v.k = "table" /\ f.es = v.es
    BY <1>2 DEF Fed, Feeds
  <2>2. f.es[e].key \in STRING /\ f.es[d].key \in STRING /\ f.es[e].key # f.es[d].key
    BY <2>1, ValuesAssumption
  <2>3. Within(Append(f.path, f.es[e].key), q) /\ Within(Append(f.path, f.es[d].key), r)
    BY <1>2 DEF PathAt
  <2>4. QED
    BY <1>0, <2>2, <2>3, Siblings
<1>3. CASE f.kind = "array"
  <2>1. PICK v \in Values : v.k \in {"array", "tables"} /\ f.es = v.es
    BY <1>3 DEF Fed, Feeds
  <2>2. Index[e] \in STRING /\ Index[d] \in STRING /\ Index[e] # Index[d]
    BY <2>1, ValuesAssumption
  <2>3. Within(Append(f.path, Index[e]), q) /\ Within(Append(f.path, Index[d]), r)
    BY <1>3 DEF PathAt
  <2>4. QED
    BY <1>0, <2>2, <2>3, Siblings
<1>4. QED
  BY <1>0, <1>1, <1>2, <1>3

\* An entry before one of l entries is another one of them.
LEMMA EarlierEntry ==
  ASSUME NEW i \in Nat, NEW l \in Nat, i <= l, NEW e \in 1..(i - 1)
  PROVE  i \in 1..l /\ e \in 1..l /\ e # i
  OBVIOUS

\* A path at the entry each call is at is apart from everything written.
LEMMA FreshApart ==
  ASSUME TypeOK, Fed, PastOnly, NEW q \in Paths, NEW n \in 1..Len(stack),
         \A j \in 1..n : /\ stack[j].i <= Len(stack[j].es)
                         /\ Within(PathAt(stack[j], stack[j].i), q),
         NEW m \in 1..Len(written),
         \E j \in 1..n : \E e \in 1..(stack[j].i - 1) :
            Within(PathAt(stack[j], e), written[m])
  PROVE  ~Within(q, written[m]) /\ ~Within(written[m], q)
<1>0. PICK j \in 1..n : \E e \in 1..(stack[j].i - 1) : Within(PathAt(stack[j], e), written[m])
  OBVIOUS
<1>1. PICK e \in 1..(stack[j].i - 1) : Within(PathAt(stack[j], e), written[m])
  BY <1>0
<1>4. j \in 1..Len(stack)
  BY DEF TypeOK
<1>2. /\ stack[j].i \in 1..Len(stack[j].es)
      /\ e \in 1..Len(stack[j].es) /\ e # stack[j].i
  <2>1. stack[j].i \in Nat /\ Len(stack[j].es) \in Nat /\ stack[j].i <= Len(stack[j].es)
    BY <1>4 DEF TypeOK
  <2>2. QED
    BY <2>1, EarlierEntry
<1>3. written[m] \in Paths
  BY DEF TypeOK
<1>5. QED
  BY <1>1, <1>2, <1>3, <1>4, EntriesApart
---------------------------------------------------------------------------
\* The shapes a step gives the stack.

\* g is the call f one entry on.
Onward(f, g) ==
  /\ g.kind = f.kind /\ g.es = f.es /\ g.path = f.path /\ g.i = f.i + 1
  /\ f.dst = NoValue => g.dst = NoValue
  /\ Filling(g) <=> Filling(f)

Same(n) == \A j \in 1..n : stack'[j] = stack[j]
IsStack(s) == s \in Seq({s[j] : j \in 1..Len(s)})

Turned ==
  /\ Len(stack) \in Nat \ {0} /\ IsStack(stack') /\ Len(stack') = Len(stack)
  /\ Same(Len(stack) - 1) /\ Onward(Top, stack'[Len(stack)])
Pushed(f) ==
  /\ Len(stack) \in Nat \ {0} /\ IsStack(stack') /\ Len(stack') = Len(stack) + 1
  /\ Same(Len(stack)) /\ stack'[Len(stack) + 1] = f
Popped ==
  /\ Len(stack) \in Nat \ {0, 1} /\ IsStack(stack') /\ Len(stack') = Len(stack) - 1
  /\ Same(Len(stack) - 2)
  /\ Onward(stack[Len(stack) - 1], stack'[Len(stack) - 1])

LEMMA ReceivedOnward == ASSUME NEW f, NEW v PROVE Onward(f, Received(f, v))
  BY DEF Onward, Received, Frame, Filling, NoValue, Slice
LEMMA PassedOnward == ASSUME NEW f PROVE Onward(f, Passed(f))
  BY DEF Onward, Passed, Frame, Filling

\* A sequence and one more element.
LEMMA Appended ==
  ASSUME NEW S, NEW s \in Seq(S), NEW x
  PROVE  /\ IsStack(Append(s, x)) /\ Len(Append(s, x)) = Len(s) + 1
         /\ \A j \in 1..Len(s) : Append(s, x)[j] = s[j]
         /\ Append(s, x)[Len(s) + 1] = x
<1> DEFINE T == S \cup {x}
<1>1. s \in Seq(T) /\ x \in T
  OBVIOUS
<1>2. /\ Append(s, x) \in Seq(T) /\ Len(Append(s, x)) = Len(s) + 1
      /\ \A j \in 1..Len(s) : Append(s, x)[j] = s[j]
      /\ Append(s, x)[Len(s) + 1] = x
  BY <1>1, AppendProperties
<1>3. IsStack(Append(s, x))
  BY <1>2, Narrow DEF IsStack
<1>4. QED
  BY <1>2, <1>3

\* A sequence without its last elements.
LEMMA Shortened ==
  ASSUME NEW S, NEW s \in Seq(S), NEW n \in 0..Len(s)
  PROVE  /\ SubSeq(s, 1, n) \in Seq(S) /\ Len(SubSeq(s, 1, n)) = n
         /\ \A j \in 1..n : SubSeq(s, 1, n)[j] = s[j]
  OBVIOUS

LEMMA TurnShape ==
  ASSUME TypeOK, Fed, stack # <<>>, NEW g, Onward(Top, g), stack' = Append(Below, g)
  PROVE  Turned
<1>1. Len(stack) \in Nat \ {0}
  BY DEF TypeOK, Fed
<1> DEFINE S == {stack[j] : j \in 1..Len(stack)}
<1>2. stack \in Seq(S)
  BY DEF Fed, Feeds
<1> HIDE DEF S
<1>3. /\ Below \in Seq(S) /\ Len(Below) = Len(stack) - 1
      /\ \A j \in 1..(Len(stack) - 1) : Below[j] = stack[j]
  <2>1. Len(stack) - 1 \in 0..Len(stack)
    BY <1>1
  <2>2. QED
    BY <1>2, <2>1, Shortened DEF Below
<1>4. QED
  BY <1>1, <1>3, Appended DEF Turned, Same

LEMMA PushShape ==
  ASSUME TypeOK, Fed, stack # <<>>, NEW f, stack' = Append(stack, f)
  PROVE  Pushed(f)
<1>1. Len(stack) \in Nat \ {0}
  BY DEF TypeOK, Fed
<1>2. stack \in Seq({stack[j] : j \in 1..Len(stack)})
  BY DEF Fed, Feeds
<1>3. QED
  BY <1>1, <1>2, Appended DEF Pushed, Same

LEMMA PopShape ==
  ASSUME TypeOK, Fed, stack # <<>>, Top.kind # "call", NEW v, Return(v)
  PROVE  Popped
<1>1. Len(stack) \in Nat \ {0, 1}
  BY DEF TypeOK, Fed, Top
<1> DEFINE S == {stack[j] : j \in 1..Len(stack)}
<1>2. stack \in Seq(S)
  BY DEF Fed, Feeds
<1> HIDE DEF S
<1> DEFINE f == stack[Len(stack) - 1]
           g == IF v = NoValue THEN Passed(f) ELSE Received(f, v)
           B == SubSeq(stack, 1, Len(stack) - 2)
<1>3. /\ B \in Seq(S) /\ Len(B) = Len(stack) - 2
      /\ \A j \in 1..(Len(stack) - 2) : B[j] = stack[j]
  <2>0. \A n \in Nat \ {0, 1} : n - 2 \in 0..n
    OBVIOUS
  <2>1. Len(stack) - 2 \in 0..Len(stack)
    BY <1>1, <2>0
  <2>2. QED
    BY <1>2, <2>1, Shortened
<1>4. Onward(f, g)
  BY ReceivedOnward, PassedOnward
<1>5. stack' = Append(B, g)
  BY DEF Return
<1> HIDE DEF B, g, f
<1>6. /\ IsStack(stack') /\ Len(stack') = Len(B) + 1
      /\ \A j \in 1..Len(B) : stack'[j] = B[j]
      /\ stack'[Len(B) + 1] = g
  BY <1>3, <1>5, Appended
<1>7. QED
  BY <1>1, <1>3, <1>4, <1>6 DEF Popped, Same, f
---------------------------------------------------------------------------
\* What each shape keeps.

Filled(s) == {j \in 1..Len(s) : Filling(s[j])}

LEMMA FilledFinite == ASSUME TypeOK PROVE IsFiniteSet(Filled(stack)) /\ Cardinality(Filled(stack)) \in Nat
<1>1. IsFiniteSet(1..Len(stack)) /\ Filled(stack) \subseteq 1..Len(stack)
  BY FS_Interval DEF TypeOK, Filled
<1>2. IsFiniteSet(Filled(stack))
  BY <1>1, FS_Subset
<1>3. QED
  BY <1>2, FS_CardinalityType

\* The counter is zero only outside of every value written whole.
LEMMA NoneFilled ==
  ASSUME TypeOK, WholeBalanced, whole = 0
  PROVE  \A j \in 1..Len(stack) : ~Filling(stack[j])
<1>1. Filled(stack) = {}
  BY FilledFinite, FS_EmptySet DEF WholeBalanced, Filled
<1>2. QED
  BY <1>1 DEF Filled

\* Where a call's kind, entries and path stay, so do the paths of its entries.
LEMMA PathAtKept ==
  ASSUME NEW f, NEW g, NEW e, g.kind = f.kind, g.es = f.es, g.path = f.path
  PROVE  PathAt(g, e) = PathAt(f, e)
  BY DEF PathAt

LEMMA OnwardPath ==
  ASSUME NEW f, NEW g, Onward(f, g), f.i \in Nat \ {0}, NEW e
  PROVE  PathAt(g, e) = PathAt(f, e) /\ f.i \in 1..(g.i - 1)
<1>1. PathAt(g, e) = PathAt(f, e)
  BY PathAtKept DEF Onward
<1>2. g.i = f.i + 1
  BY DEF Onward
<1>3. QED
  BY <1>1, <1>2

\* The path the innermost call is at is in every entry below it.
LEMMA PathInside ==
  ASSUME TypeOK, Fed, Chained, More
  PROVE  /\ Path \in Paths /\ Len(stack) \in Nat \ {0}
         /\ \A j \in 1..Len(stack) : /\ stack[j].i <= Len(stack[j].es)
                                    /\ Within(PathAt(stack[j], stack[j].i), Path)
<1> DEFINE n == Len(stack)
<1>1. n \in Nat \ {0} /\ Top = stack[n]
  BY DEF More, TypeOK, Fed, Top
<1>2. n \in 1..n /\ stack[n].i \in 1..Len(stack[n].es)
  BY <1>1 DEF More, TypeOK
<1>3. Path \in Paths /\ Within(stack[n].path, Path) /\ Path = PathAt(stack[n], stack[n].i)
  BY <1>1, <1>2, PathsAt DEF Path
<1>4. ASSUME NEW j \in 1..n
      PROVE  stack[j].i <= Len(stack[j].es) /\ Within(PathAt(stack[j], stack[j].i), Path)
  <2>1. CASE j = n
    BY <1>2, <1>3, <2>1, WithinItself DEF TypeOK
  <2>2. CASE j # n
    <3>1. j \in 1..(n - 1)
      BY <1>1, <2>2
    <3>2. stack[j].i <= Len(stack[j].es) /\ Within(PathAt(stack[j], stack[j].i), stack[n].path)
      BY <1>2, <3>1 DEF Chained
    <3>3. stack[j].i \in 1..Len(stack[j].es) /\ stack[n].path \in Paths
      BY <1>2, <3>2 DEF TypeOK
    <3>4. PathAt(stack[j], stack[j].i) \in Paths
      BY <3>3, PathsAt
    <3>5. QED
      BY <1>3, <3>2, <3>3, <3>4, WithinTransitive
  <2>3. QED
    BY <2>1, <2>2
<1>5. QED
  BY <1>1, <1>3, <1>4

\* An entry is done: what was past stays past.
LEMMA TurnPast ==
  ASSUME TypeOK, Turned, NEW w, Past(stack, w)
  PROVE  Past(stack', w)
<1> DEFINE n == Len(stack)
<1>1. PICK j \in 1..n : /\ \A k \in 1..j : ~Filling(stack[k])
                        /\ \E e \in 1..(stack[j].i - 1) : Within(PathAt(stack[j], e), w)
  BY DEF Past
<1>2. PICK e \in 1..(stack[j].i - 1) : Within(PathAt(stack[j], e), w)
  BY <1>1
<1>3. n \in Nat \ {0} /\ Len(stack') = n /\ Top = stack[n]
  BY DEF Turned, Top
<1>4. \A k \in 1..n : Filling(stack'[k]) <=> Filling(stack[k])
  BY <1>3 DEF Turned, Same, Onward
<1>5. PathAt(stack'[j], e) = PathAt(stack[j], e) /\ e \in 1..(stack'[j].i - 1)
  <2>1. CASE j = n
    <3>1. /\ stack'[j].kind = stack[j].kind /\ stack'[j].es = stack[j].es
          /\ stack'[j].path = stack[j].path /\ stack'[j].i = stack[j].i + 1
      BY <1>3, <2>1 DEF Turned, Onward
    <3>2. stack[j].i \in Nat
      BY DEF TypeOK
    <3>3. QED
      BY <3>1, <3>2, PathAtKept
  <2>2. CASE j # n
    BY <1>3, <2>2 DEF Turned, Same
  <2>3. QED
    BY <2>1, <2>2
<1>6. QED
  BY <1>1, <1>2, <1>3, <1>4, <1>5 DEF Past

\* And the entry itself is now past, when nothing is being filled.
LEMMA TurnPasses ==
  ASSUME TypeOK, Fed, Chained, WholeBalanced, Turned, More, whole = 0
  PROVE  Past(stack', Path)
<1> DEFINE n == Len(stack)
<1>1. n \in 1..n /\ n \in Nat \ {0} /\ Len(stack') = n /\ Top = stack[n]
  BY DEF Turned, Top
<1>2. \A k \in 1..n : ~Filling(stack'[k])
  BY <1>1, NoneFilled DEF Turned, Same, Onward
<1>3. stack[n].i \in 1..(stack'[n].i - 1)
  BY <1>1 DEF Turned, Onward, TypeOK
<1>4. Within(PathAt(stack'[n], stack[n].i), Path)
  <2>1. PathAt(stack'[n], stack[n].i) = PathAt(stack[n], stack[n].i)
    BY <1>1, PathAtKept DEF Turned, Onward
  <2>2. QED
    BY <1>1, <2>1, PathInside
<1>5. QED
  BY <1>1, <1>2, <1>3, <1>4 DEF Past
\* A call begins: what was past stays past.
LEMMA PushPast ==
  ASSUME TypeOK, NEW f, Pushed(f), NEW w, Past(stack, w)
  PROVE  Past(stack', w)
<1> DEFINE n == Len(stack)
<1>1. PICK j \in 1..n : /\ \A k \in 1..j : ~Filling(stack[k])
                        /\ \E e \in 1..(stack[j].i - 1) : Within(PathAt(stack[j], e), w)
  BY DEF Past
<1>2. n \in Nat /\ Len(stack') = n + 1 /\ \A k \in 1..n : stack'[k] = stack[k]
  BY DEF Pushed, Same
<1>3. j \in 1..Len(stack') /\ \A k \in 1..j : ~Filling(stack'[k])
  BY <1>1, <1>2
<1>4. \E e \in 1..(stack'[j].i - 1) : Within(PathAt(stack'[j], e), w)
  BY <1>1, <1>2
<1>5. QED
  BY <1>3, <1>4 DEF Past

\* A call that is not filling ends: what it has past is past in its caller.
\* Of one that fills nothing below it is past.
LEMMA PopPast ==
  ASSUME TypeOK, Fed, Chained, Popped, NEW w \in Paths, Past(stack, w)
  PROVE  Past(stack', w)
<1> DEFINE n == Len(stack)
<1>1. PICK j \in 1..n : /\ \A k \in 1..j : ~Filling(stack[k])
                        /\ \E e \in 1..(stack[j].i - 1) : Within(PathAt(stack[j], e), w)
  BY DEF Past
<1>2. PICK e \in 1..(stack[j].i - 1) : Within(PathAt(stack[j], e), w)
  BY <1>1
<1>3. n \in Nat \ {0, 1} /\ Len(stack') = n - 1 /\ \A k \in 1..(n - 2) : stack'[k] = stack[k]
  BY DEF Popped, Same
<1>4. /\ stack'[n-1].kind = stack[n-1].kind /\ stack'[n-1].es = stack[n-1].es
      /\ stack'[n-1].path = stack[n-1].path /\ stack'[n-1].i = stack[n-1].i + 1
      /\ Filling(stack'[n-1]) <=> Filling(stack[n-1])
  BY DEF Popped, Onward
<1>5. \A k \in 1..(n - 1) : Filling(stack'[k]) <=> Filling(stack[k])
  BY <1>3, <1>4, SMTT(30)
<1>6. \A k \in 1..n : stack[k].i \in Nat \ {0} /\ stack[k].path \in Paths
  BY DEF TypeOK
<1>7. CASE j \in 1..(n - 2)
  <2>1. stack'[j] = stack[j] /\ j \in 1..Len(stack')
    BY <1>3, <1>7
  <2>2. \A k \in 1..j : ~Filling(stack'[k])
    BY <1>1, <1>3, <1>5, <1>7
  <2>3. e \in 1..(stack'[j].i - 1) /\ Within(PathAt(stack'[j], e), w)
    BY <1>2, <2>1
  <2>4. QED
    BY <2>1, <2>2, <2>3 DEF Past
<1>8. CASE j = n - 1
  <2>1. PathAt(stack'[j], e) = PathAt(stack[j], e) /\ e \in 1..(stack'[j].i - 1)
    BY <1>4, <1>6, <1>8, PathAtKept, SMTT(30)
  <2>2. j \in 1..Len(stack') /\ \A k \in 1..j : ~Filling(stack'[k])
    BY <1>1, <1>3, <1>5, <1>8
  <2>3. Within(PathAt(stack'[j], e), w)
    BY <1>2, <2>1
  <2>4. QED
    BY <2>1, <2>2, <2>3 DEF Past
<1>9. CASE j = n
  <2> DEFINE d == stack[n-1].i
  <2>1. n - 1 \in 1..n /\ n \in 1..n /\ n - 1 \in 1..(n - 1)
    BY <1>3
  <2>2. d <= Len(stack[n-1].es) /\ Within(PathAt(stack[n-1], d), stack[n].path)
    BY <2>1 DEF Chained
  <2>3. d \in 1..Len(stack[n-1].es)
    BY <2>1, <2>2 DEF TypeOK
  <2>4. PathAt(stack[n-1], d) \in Paths
    BY <2>1, <2>3, PathsAt
  <2>5. e \in 1..Len(stack[n].es)
    BY <1>9, <2>1 DEF TypeOK
  <2>6. PathAt(stack[n], e) \in Paths /\ Within(stack[n].path, PathAt(stack[n], e))
    BY <2>1, <2>5, PathsAt
  <2>7. Within(PathAt(stack[n-1], d), w)
    BY <1>2, <1>6, <1>9, <2>1, <2>2, <2>4, <2>6, WithinTransitive
  <2>8. PathAt(stack'[n-1], d) = PathAt(stack[n-1], d) /\ d \in 1..(stack'[n-1].i - 1)
    BY <1>6, <2>1, OnwardPath, SMTT(30) DEF Popped
  <2>9. \A k \in 1..(n - 1) : ~Filling(stack'[k])
    BY <1>1, <1>3, <1>5, <1>9
  <2>10. QED
    BY <1>3, <2>1, <2>7, <2>8, <2>9 DEF Past
<1>10. QED
  BY <1>3, <1>7, <1>8, <1>9

\* The container itself is now past, when nothing around it is being filled.
LEMMA PopPasses ==
  ASSUME TypeOK, Chained, Popped, \A k \in 1..(Len(stack) - 1) : ~Filling(stack[k])
  PROVE  Past(stack', Top.path)
<1> DEFINE n == Len(stack)
           d == stack[n-1].i
<1>1. n \in Nat \ {0, 1} /\ Len(stack') = n - 1 /\ \A k \in 1..(n - 2) : stack'[k] = stack[k]
  BY DEF Popped, Same
<1>2. /\ stack'[n-1].kind = stack[n-1].kind /\ stack'[n-1].es = stack[n-1].es
      /\ stack'[n-1].path = stack[n-1].path /\ stack'[n-1].i = stack[n-1].i + 1
      /\ Filling(stack'[n-1]) <=> Filling(stack[n-1])
  BY DEF Popped, Onward
<1>3. \A k \in 1..(n - 1) : ~Filling(stack'[k])
  BY <1>1, <1>2
<1>4. n - 1 \in 1..(n - 1) /\ n \in 1..n /\ n - 1 \in 1..n
  BY <1>1
<1>5. d \in Nat \ {0} /\ Within(PathAt(stack[n-1], d), Top.path)
  BY <1>4 DEF TypeOK, Chained, Top
<1>6. PathAt(stack'[n-1], d) = PathAt(stack[n-1], d) /\ d \in 1..(stack'[n-1].i - 1)
  BY <1>5, OnwardPath DEF Popped
<1>7. QED
  BY <1>1, <1>3, <1>4, <1>5, <1>6 DEF Past
---------------------------------------------------------------------------
\* The written paths grow by one that is apart from them, or stay.

Grown(q) ==
  \/ written' = written
  \/ /\ written' = Append(written, q) /\ mode = "DecodeOver" /\ q \in Paths
     /\ Past(stack', q)
     /\ \A m \in 1..Len(written) : ~Within(q, written[m]) /\ ~Within(written[m], q)

LEMMA GrownApart ==
  ASSUME written \in Seq(Paths), WrittenApart, PastOnly, NEW q, Grown(q),
         \A m \in 1..Len(written) : Past(stack', written[m])
  PROVE  written' \in Seq(Paths) /\ WrittenApart' /\ PastOnly'
<1>1. CASE written' = written
  BY <1>1 DEF WrittenApart, PastOnly
<1>2. CASE written' # written
  <2> DEFINE L == Len(written)
  <2>1. /\ written' = Append(written, q) /\ q \in Paths /\ Past(stack', q)
        /\ \A m \in 1..L : ~Within(q, written[m]) /\ ~Within(written[m], q)
    BY <1>2 DEF Grown
  <2>2. /\ written' \in Seq(Paths) /\ Len(written') = L + 1 /\ L \in Nat
        /\ \A m \in 1..L : written'[m] = written[m]
        /\ written'[L + 1] = q
    BY <2>1, AppendProperties
  <2>3. WrittenApart'
    <3> SUFFICES ASSUME NEW i \in 1..(L + 1), NEW j \in 1..(L + 1),
                        Within(written'[i], written'[j])
                 PROVE  i = j
      BY <2>2 DEF WrittenApart
    <3>1. CASE i \in 1..L /\ j \in 1..L
      BY <2>2, <3>1 DEF WrittenApart
    <3>2. CASE i = L + 1 /\ j \in 1..L
      BY <2>1, <2>2, <3>2
    <3>3. CASE i \in 1..L /\ j = L + 1
      BY <2>1, <2>2, <3>3
    <3>4. QED
      BY <2>2, <3>1, <3>2, <3>3
  <2>4. PastOnly'
    <3> SUFFICES ASSUME NEW m \in 1..(L + 1) PROVE Past(stack', written'[m])
      BY <2>2 DEF PastOnly
    <3>1. CASE m \in 1..L
      BY <2>2, <3>1
    <3>2. CASE m = L + 1
      BY <2>1, <2>2, <3>2
    <3>3. QED
      BY <2>2, <3>1, <3>2
  <2>5. QED
    BY <2>2, <2>3, <2>4
<1>3. QED
  BY <1>1, <1>2

\* The path of the entry the innermost call is at is apart from what is
\* written.
LEMMA PathApart ==
  ASSUME TypeOK, Fed, Chained, PastOnly, More, NEW m \in 1..Len(written)
  PROVE  ~Within(Path, written[m]) /\ ~Within(written[m], Path)
<1>1. Past(stack, written[m])
  BY DEF PastOnly
<1>2. \E j \in 1..Len(stack) : \E e \in 1..(stack[j].i - 1) :
        Within(PathAt(stack[j], e), written[m])
  BY <1>1 DEF Past
<1>3. Len(stack) \in 1..Len(stack)
  BY PathInside
<1>4. QED
  BY <1>2, <1>3, PathInside, FreshApart

\* So is the path of a container that was filled.
LEMMA ContainerApart ==
  ASSUME TypeOK, Fed, Chained, PastOnly, Popped, Filling(Top), NEW m \in 1..Len(written)
  PROVE  ~Within(Top.path, written[m]) /\ ~Within(written[m], Top.path)
<1> DEFINE n == Len(stack)
<1>1. n \in Nat \ {0, 1} /\ Top = stack[n]
  BY DEF Popped, Top
<1>2. n - 1 \in 1..n /\ n \in 1..n /\ n \in 1..Len(stack)
  <2>1. \A k \in Nat \ {0, 1} : k - 1 \in 1..k /\ k \in 1..k
    OBVIOUS
  <2>2. QED
    BY <1>1, <2>1
<1>3. PICK j \in 1..n : /\ \A k \in 1..j : ~Filling(stack[k])
                        /\ \E e \in 1..(stack[j].i - 1) : Within(PathAt(stack[j], e), written[m])
  BY DEF PastOnly, Past
<1>4. j \in 1..(n - 1)
  BY <1>1, <1>3
<1>5. Top.path \in Paths
  BY <1>1, <1>2 DEF TypeOK
<1>6. \A k \in 1..(n - 1) : /\ stack[k].i <= Len(stack[k].es)
                           /\ Within(PathAt(stack[k], stack[k].i), Top.path)
  BY <1>1, <1>2 DEF Chained
<1>7. \E l \in 1..(n - 1) : \E e \in 1..(stack[l].i - 1) :
        Within(PathAt(stack[l], e), written[m])
  BY <1>3, <1>4
<1>8. QED
  BY <1>2, <1>5, <1>6, <1>7, FreshApart

---------------------------------------------------------------------------
\* Each shape keeps the invariant.

LEMMA FeedsKept ==
  ASSUME NEW f, NEW g, g.kind = f.kind, g.es = f.es, Feeds(f)
  PROVE  Feeds(g)
  BY DEF Feeds

\* The step moves the innermost call one entry on.
LEMMA TurnInv ==
  ASSUME IInv, More, Turned, input' = input, mode' = mode, fatal' \in BOOLEAN,
         whole' = whole, Grown(Path)
  PROVE  IInv'
<1> USE DEF IInv
<1> DEFINE n == Len(stack)
<1>1. /\ n \in Nat \ {0} /\ Len(stack') = n /\ Top = stack[n] /\ IsStack(stack')
      /\ \A j \in 1..(n - 1) : stack'[j] = stack[j]
  BY DEF Turned, Same, Top
<1>2. /\ stack'[n].kind = stack[n].kind /\ stack'[n].es = stack[n].es
      /\ stack'[n].path = stack[n].path /\ stack'[n].i = stack[n].i + 1
      /\ stack[n].dst = NoValue => stack'[n].dst = NoValue
      /\ Filling(stack'[n]) <=> Filling(stack[n])
  BY <1>1 DEF Turned, Onward
<1>3. \A j \in 1..n : /\ stack'[j].kind = stack[j].kind /\ stack'[j].es = stack[j].es
                      /\ stack'[j].path = stack[j].path
                      /\ stack[j].dst = NoValue => stack'[j].dst = NoValue
                      /\ Filling(stack'[j]) <=> Filling(stack[j])
  BY <1>1, <1>2
<1>4. written' \in Seq(Paths) /\ WrittenApart' /\ PastOnly'
  BY TurnPast, GrownApart DEF TypeOK, PastOnly
<1>5. TypeOK'
  <2>1. \A j \in 1..n : stack'[j].i \in 1..(Len(stack'[j].es) + 1)
    <3>1. stack'[n].i \in 1..(Len(stack'[n].es) + 1)
      BY <1>1, <1>2 DEF More, TypeOK
    <3>2. \A j \in 1..n : j = n \/ j \in 1..(n - 1)
      BY <1>1
    <3>3. \A j \in 1..(n - 1) : stack'[j].i \in 1..(Len(stack'[j].es) + 1)
      BY <1>1 DEF TypeOK
    <3>4. QED
      BY <3>1, <3>2, <3>3
  <2>2. QED
    BY <1>1, <1>3, <1>4, <2>1 DEF TypeOK
<1>6. WholeBalanced'
  <2>1. {j \in 1..Len(stack') : Filling(stack'[j])} = {j \in 1..Len(stack) : Filling(stack[j])}
    BY <1>1, <1>3
  <2>2. QED
    BY <2>1 DEF WholeBalanced
<1>7. ValidateTouchesNothing'
  BY <1>1, <1>3 DEF ValidateTouchesNothing, Grown
<1>8. Fed'
  <2>1. stack' # <<>> => stack'[1].kind = "call"
    BY <1>1, <1>3 DEF Fed
  <2>2. \A j \in 1..n : Feeds(stack'[j])
    BY <1>3, FeedsKept DEF Fed
  <2>3. QED
    BY <1>1, <2>1, <2>2 DEF Fed, IsStack
<1>9. Chained'
  <2> SUFFICES ASSUME NEW k \in 1..n, NEW j \in 1..(k - 1)
               PROVE  /\ stack'[j].i <= Len(stack'[j].es)
                      /\ Within(PathAt(stack'[j], stack'[j].i), stack'[k].path)
    BY <1>1 DEF Chained
  <2>1. stack'[j] = stack[j]
    BY <1>1
  <2>2. QED
    BY <1>3, <2>1 DEF Chained
<1>10. Idle'
  BY DEF Idle, More
<1>11. QED
  BY <1>4, <1>5, <1>6, <1>7, <1>8, <1>9, <1>10

\* The step begins a call inside the entry the innermost one is at.
LEMMA PushInv ==
  ASSUME IInv, More, NEW f, Pushed(f), input' = input, mode' = mode, fatal' = fatal,
         whole' = IF Filling(f) THEN whole + 1 ELSE whole, written' = written,
         f.kind \in {"table", "array"}, f.path = Path, f.i = 1,
         mode = "Validate" => f.dst = NoValue,
         NEW v \in Values, f.es = v.es,
         f.kind = "table" => v.k = "table",
         f.kind = "array" => v.k \in {"array", "tables"}
  PROVE  IInv'
<1> USE DEF IInv
<1> DEFINE n == Len(stack)
<1>1. /\ n \in Nat \ {0} /\ Len(stack') = n + 1 /\ stack'[n + 1] = f /\ IsStack(stack')
      /\ \A j \in 1..n : stack'[j] = stack[j]
  BY DEF Pushed, Same
<1>2. written' \in Seq(Paths) /\ WrittenApart' /\ PastOnly'
  BY PushPast, GrownApart DEF TypeOK, PastOnly, Grown
<1>3. TypeOK'
  <2>1. Len(f.es) \in Nat
    BY ValuesAssumption
  <2>2. f.path \in Paths /\ f.i \in 1..(Len(f.es) + 1)
    BY <2>1, PathInside
  <2>3. whole' \in Nat
    BY DEF TypeOK
  <2>4. QED
    BY <1>1, <1>2, <2>1, <2>2, <2>3, SMTT(30) DEF TypeOK
<1>4. WholeBalanced'
  <2> DEFINE F == Filled(stack)
  <2>1. IsFiniteSet(F) /\ whole = Cardinality(F) /\ n + 1 \notin F
    BY <1>1, FilledFinite DEF WholeBalanced, Filled
  <2>2. CASE Filling(f)
    <3>1. {j \in 1..Len(stack') : Filling(stack'[j])} = F \cup {n + 1}
      BY <1>1, <2>2 DEF Filled
    <3>2. Cardinality(F \cup {n + 1}) = Cardinality(F) + 1
      BY <2>1, FS_AddElement
    <3>3. QED
      BY <2>1, <2>2, <3>1, <3>2 DEF WholeBalanced
  <2>3. CASE ~Filling(f)
    <3>1. {j \in 1..Len(stack') : Filling(stack'[j])} = F
      BY <1>1, <2>3 DEF Filled
    <3>2. QED
      BY <2>1, <2>3, <3>1 DEF WholeBalanced
  <2>4. QED
    BY <2>2, <2>3
<1>5. ValidateTouchesNothing'
  BY <1>1 DEF ValidateTouchesNothing
<1>6. Fed'
  <2>1. stack' # <<>> => stack'[1].kind = "call"
    BY <1>1 DEF Fed
  <2>2. \A j \in 1..(n + 1) : j = n + 1 \/ j \in 1..n
    BY <1>1
  <2>3. Feeds(f)
    BY DEF Feeds
  <2>4. \A j \in 1..(n + 1) : Feeds(stack'[j])
    BY <1>1, <2>2, <2>3 DEF Fed
  <2>5. QED
    BY <1>1, <2>1, <2>4 DEF Fed, IsStack
<1>7. Chained'
  <2> SUFFICES ASSUME NEW k \in 1..(n + 1), NEW j \in 1..(k - 1)
               PROVE  /\ stack'[j].i <= Len(stack'[j].es)
                      /\ Within(PathAt(stack'[j], stack'[j].i), stack'[k].path)
    BY <1>1 DEF Chained
  <2>1. j \in 1..n /\ stack'[j] = stack[j]
    BY <1>1
  <2>2. CASE k = n + 1
    BY <1>1, <2>1, <2>2, PathInside
  <2>3. CASE k # n + 1
    BY <1>1, <2>1, <2>3 DEF Chained
  <2>4. QED
    BY <2>2, <2>3
<1>8. Idle'
  BY DEF Idle, More
<1>9. QED
  BY <1>2, <1>3, <1>4, <1>5, <1>6, <1>7, <1>8

\* The step ends the innermost call and moves its caller one entry on.
LEMMA PopInv ==
  ASSUME IInv, Popped, input' = input, mode' = mode, fatal' = fatal,
         whole' = IF Filling(Top) THEN whole - 1 ELSE whole, Grown(Top.path)
  PROVE  IInv'
<1> USE DEF IInv
<1> DEFINE n == Len(stack)
           b == n - 1
<1>1. /\ n \in Nat \ {0, 1} /\ Len(stack') = b /\ Top = stack[n] /\ IsStack(stack')
      /\ \A j \in 1..(n - 2) : stack'[j] = stack[j]
  BY DEF Popped, Same, Top
<1>2. b \in Nat \ {0} /\ n = b + 1 /\ b \in 1..n /\ n \in 1..n /\ n - 2 = b - 1
  BY <1>1
<1>3. /\ stack'[b].kind = stack[b].kind /\ stack'[b].es = stack[b].es
      /\ stack'[b].path = stack[b].path /\ stack'[b].i = stack[b].i + 1
      /\ stack[b].dst = NoValue => stack'[b].dst = NoValue
      /\ Filling(stack'[b]) <=> Filling(stack[b])
  BY DEF Popped, Onward
<1>4. stack[b].i \in 1..Len(stack[b].es)
  BY <1>2 DEF Chained, TypeOK
<1> HIDE DEF b
<1>5. \A j \in 1..b : j = b \/ j \in 1..(b - 1)
  BY <1>2
<1>6. \A j \in 1..b : /\ stack'[j].kind = stack[j].kind /\ stack'[j].es = stack[j].es
                      /\ stack'[j].path = stack[j].path
                      /\ stack[j].dst = NoValue => stack'[j].dst = NoValue
                      /\ Filling(stack'[j]) <=> Filling(stack[j])
  BY <1>1, <1>2, <1>3, <1>5
<1>7. written' \in Seq(Paths) /\ WrittenApart' /\ PastOnly'
  BY PopPast, GrownApart DEF TypeOK, PastOnly
<1>8. TypeOK'
  <2>1. \A j \in 1..b : stack'[j].i \in 1..(Len(stack'[j].es) + 1)
    <3>1. stack'[b].i \in 1..(Len(stack'[b].es) + 1)
      BY <1>2, <1>3, <1>4, SMTT(30) DEF TypeOK
    <3>2. \A j \in 1..(b - 1) : stack'[j].i \in 1..(Len(stack'[j].es) + 1)
      <4>1. \A j \in 1..(b - 1) : j \in 1..(n - 2) /\ j \in 1..n
        BY <1>2
      <4>2. QED
        BY <1>1, <4>1 DEF TypeOK
    <3>3. QED
      BY <1>5, <3>1, <3>2
  <2>2. whole' \in Nat
    <3> DEFINE F == Filled(stack)
    <3>1. CASE Filling(Top)
      <4>1. F # {} /\ IsFiniteSet(F) /\ whole = Cardinality(F)
        BY <1>1, <1>2, <3>1, FilledFinite DEF WholeBalanced, Filled
      <4>2. whole # 0
        BY <4>1, FS_EmptySet
      <4>3. QED
        BY <3>1, <4>2 DEF TypeOK
    <3>2. CASE ~Filling(Top)
      BY <3>2 DEF TypeOK
    <3>3. QED
      BY <3>1, <3>2
  <2>3. \A j \in 1..b : j \in 1..Len(stack)
    BY <1>2
  <2>4. QED
    BY <1>1, <1>2, <1>6, <1>7, <2>1, <2>2, <2>3 DEF TypeOK
<1>9. WholeBalanced'
  <2> DEFINE F == Filled(stack)
  <2>1. IsFiniteSet(F) /\ whole = Cardinality(F) /\ (n \in F <=> Filling(Top))
    BY <1>1, <1>2, FilledFinite DEF WholeBalanced, Filled
  <2>2. {j \in 1..Len(stack') : Filling(stack'[j])} = F \ {n}
    <3>1. {j \in 1..Len(stack') : Filling(stack'[j])} = {j \in 1..b : Filling(stack[j])}
      BY <1>1, <1>6
    <3>2. 1..b = (1..n) \ {n}
      BY <1>2
    <3>3. QED
      BY <3>1, <3>2 DEF Filled
  <2>3. CASE Filling(Top)
    BY <2>1, <2>2, <2>3, FS_RemoveElement DEF WholeBalanced
  <2>4. CASE ~Filling(Top)
    <3>1. F \ {n} = F
      BY <2>1, <2>4
    <3>2. QED
      BY <2>1, <2>2, <2>4, <3>1 DEF WholeBalanced
  <2>5. QED
    BY <2>3, <2>4
<1>10. ValidateTouchesNothing'
  <2>1. \A j \in 1..b : j \in 1..n
    BY <1>2
  <2>2. QED
    BY <1>1, <1>6, <2>1 DEF ValidateTouchesNothing, Grown
<1>11. Fed'
  <2>1. \A j \in 1..b : j \in 1..n
    BY <1>2
  <2>2. stack' # <<>> => stack'[1].kind = "call"
    <3>1. 1 \in 1..b /\ stack # <<>>
      BY <1>1, <1>2
    <3>2. QED
      BY <1>6, <3>1 DEF Fed
  <2>3. \A j \in 1..b : Feeds(stack'[j])
    BY <1>6, <2>1, FeedsKept DEF Fed
  <2>4. QED
    BY <1>1, <2>2, <2>3 DEF Fed, IsStack
<1>12. Chained'
  <2> SUFFICES ASSUME NEW k \in 1..b, NEW j \in 1..(k - 1)
               PROVE  /\ stack'[j].i <= Len(stack'[j].es)
                      /\ Within(PathAt(stack'[j], stack'[j].i), stack'[k].path)
    BY <1>1 DEF Chained
  <2>1. j \in 1..(b - 1) /\ k \in 1..n
    BY <1>2
  <2>2. stack'[j] = stack[j] /\ stack'[k].path = stack[k].path
    BY <1>1, <1>2, <1>6, <2>1
  <2>3. QED
    BY <2>1, <2>2 DEF Chained
<1>13. Idle'
  BY <1>1 DEF Idle
<1>14. QED
  BY <1>7, <1>8, <1>9, <1>10, <1>11, <1>12, <1>13
---------------------------------------------------------------------------
\* One lemma per action.

\* What the innermost call is at is a document value.
LEMMA ValInValues == ASSUME TypeOK, Fed, More PROVE Val \in Values
<1>1. Len(stack) \in 1..Len(stack) /\ Top = stack[Len(stack)]
  BY DEF More, TypeOK, Fed, Top
<1>2. Feeds(Top) /\ Top.i \in 1..Len(Top.es) /\ Top.kind \in {"call", "table", "array"}
  BY <1>1 DEF Fed, TypeOK, More
<1>3. CASE Top.kind = "call"
  BY <1>2, <1>3 DEF Feeds, Val, Entry
<1>4. CASE Top.kind = "table"
  BY <1>2, <1>4, ValuesAssumption DEF Feeds, Val, Entry
<1>5. CASE Top.kind = "array"
  BY <1>2, <1>5, ValuesAssumption DEF Feeds, Val, Entry
<1>6. QED
  BY <1>2, <1>3, <1>4, <1>5

\* A validation's destination is none.
LEMMA NoDst == ASSUME TypeOK, Fed, ValidateTouchesNothing, More, mode = "Validate" PROVE Dst = NoValue
<1>1. Len(stack) \in 1..Len(stack) /\ Top = stack[Len(stack)]
  BY DEF More, TypeOK, Fed, Top
<1>2. QED
  BY <1>1 DEF ValidateTouchesNothing, Dst

LEMMA PassTurns == ASSUME IInv, More, PassOver PROVE Turned
  BY TurnShape, PassedOnward DEF IInv, More, PassOver
LEMMA DeliverTurns == ASSUME IInv, More, NEW v, Deliver(v) PROVE Turned
  BY TurnShape, ReceivedOnward DEF IInv, More, Deliver

\* A path written for one entry.
LEMMA WroteGrown == ASSUME IInv, More, Turned, Wrote(Path, whole) PROVE Grown(Path)
<1>1. CASE mode = "DecodeOver" /\ whole = 0
  <2>1. Path \in Paths
    BY PathInside DEF IInv
  <2>2. Past(stack', Path)
    BY <1>1, TurnPasses DEF IInv
  <2>3. \A m \in 1..Len(written) : ~Within(Path, written[m]) /\ ~Within(written[m], Path)
    BY PathApart DEF IInv
  <2>4. QED
    BY <1>1, <2>1, <2>2, <2>3 DEF Wrote, Grown
<1>2. CASE ~(mode = "DecodeOver" /\ whole = 0)
  BY <1>2 DEF Wrote, Grown
<1>3. QED
  BY <1>1, <1>2

\* The path of the one value being written whole, once it is done.
LEMMA ContainerGrown ==
  ASSUME IInv, Popped, Filling(Top), Wrote(Top.path, whole - 1)
  PROVE  Grown(Top.path)
<1> USE DEF IInv
<1> DEFINE n == Len(stack)
           F == Filled(stack)
<1>1. n \in Nat \ {0, 1} /\ Top = stack[n]
  BY DEF Popped, Top
<1>2. n \in 1..n
  BY <1>1
<1>3. CASE mode = "DecodeOver" /\ whole - 1 = 0
  <2>1. Top.path \in Paths
    BY <1>1, <1>2 DEF TypeOK
  <2>2. IsFiniteSet(F) /\ n \in F /\ Cardinality(F) = whole
    BY <1>1, <1>2, FilledFinite DEF WholeBalanced, Filled
  <2>3. IsFiniteSet(F \ {n}) /\ Cardinality(F \ {n}) = 0
    BY <1>3, <2>2, FS_RemoveElement
  <2>4. F \ {n} = {}
    BY <2>3, FS_EmptySet
  <2>5. \A k \in 1..(n - 1) : ~Filling(stack[k])
    <3>1. \A k \in 1..(n - 1) : k \in 1..n /\ k # n
      BY <1>1
    <3>2. QED
      BY <2>4, <3>1 DEF Filled
  <2>6. Past(stack', Top.path)
    BY <2>5, PopPasses
  <2>7. \A m \in 1..Len(written) : ~Within(Top.path, written[m]) /\ ~Within(written[m], Top.path)
    BY ContainerApart
  <2>8. QED
    BY <1>3, <2>1, <2>6, <2>7 DEF Wrote, Grown
<1>4. CASE ~(mode = "DecodeOver" /\ whole - 1 = 0)
  BY <1>4 DEF Wrote, Grown
<1>5. QED
  BY <1>3, <1>4

\* A turn that writes nothing.
LEMMA QuietTurn ==
  ASSUME IInv, More, PassOver, Walks, fatal' = fatal, whole' = whole, written' = written
  PROVE  IInv'
  BY PassTurns, TurnInv DEF Walks, Grown, IInv, TypeOK

LEMMA UnknownInv == ASSUME IInv, Unknown PROVE IInv'
  BY QuietTurn DEF Unknown
LEMMA MismatchInv == ASSUME IInv, Mismatch PROVE IInv'
  BY QuietTurn DEF Mismatch, Typed
LEMMA RefuseLengthInv == ASSUME IInv, RefuseLength PROVE IInv'
  BY QuietTurn DEF RefuseLength, Accepted, Typed

\* A turn that writes its entry.
LEMMA WritingTurn ==
  ASSUME IInv, More, NEW v, Deliver(v), Wrote(Path, whole), Walks, fatal' = fatal, whole' = whole
  PROVE  IInv'
  BY DeliverTurns, WroteGrown, TurnInv DEF Walks, IInv, TypeOK

LEMMA TakeNativeInv == ASSUME IInv, TakeNative PROVE IInv'
<1>1. More /\ Walks /\ fatal' = fatal /\ whole' = whole
  BY DEF TakeNative, Accepted, Typed
<1>2. CASE Dst = NoValue
  BY <1>1, <1>2, QuietTurn DEF TakeNative
<1>3. CASE Dst # NoValue
  BY <1>1, <1>3, WritingTurn DEF TakeNative
<1>4. QED
  BY <1>2, <1>3

LEMMA ConvertScalarInv == ASSUME IInv, ConvertScalar PROVE IInv'
<1>1. More /\ Walks /\ fatal' = fatal /\ whole' = whole
  BY DEF ConvertScalar, Accepted, Typed
<1>2. \/ PassOver /\ written' = written
      \/ \E x : Deliver(Scalar(x)) /\ Wrote(Path, whole)
  BY DEF ConvertScalar
<1>3. QED
  BY <1>1, <1>2, QuietTurn, WritingTurn

LEMMA EnterTableInv == ASSUME IInv, EnterTable PROVE IInv'
<1> DEFINE f == Frame("table", Val.es, Type, Opened(Type, Dst), Path, 1)
<1>1. More /\ Walks /\ fatal' = fatal /\ whole' = whole /\ written' = written
  BY DEF EnterTable, Accepted, Typed
<1>2. Val \in Values /\ Val.k = "table"
  BY <1>1, ValInValues DEF IInv, EnterTable, Accepted, accepts
<1>3. f.kind = "table" /\ f.es = Val.es /\ f.path = Path /\ f.i = 1 /\ ~Filling(f)
      /\ f.dst = Opened(Type, Dst)
  BY DEF Frame, Filling
<1>4. mode = "Validate" => f.dst = NoValue
  <2>1. mode = "Validate" => Dst = NoValue
    BY <1>1, NoDst DEF IInv
  <2>2. Opened(Type, NoValue) = NoValue
    BY DEF Opened, NoValue, Zero
  <2>3. QED
    BY <1>3, <2>1, <2>2
<1>5. Pushed(f)
  BY <1>1, PushShape DEF IInv, More, EnterTable
<1> HIDE DEF f
<1>6. QED
  BY <1>1, <1>2, <1>3, <1>4, <1>5, PushInv DEF Walks

LEMMA EnterArrayInv == ASSUME IInv, EnterArray PROVE IInv'
<1> DEFINE made == Slice([i \in 1..Len(Val.es) |-> Zero])
           dst == IF Dst = NoValue \/ (FixedLength(Type) /\ Dst # Zero) THEN Dst ELSE made
           f == Frame("array", Val.es, Type, dst, Path, 1)
<1>1. More /\ Walks /\ fatal' = fatal /\ written' = written
      /\ whole' = IF dst = NoValue THEN whole ELSE whole + 1
  BY DEF EnterArray, Accepted, Typed
<1>2. Val \in Values /\ Val.k \in {"array", "tables"}
  BY <1>1, ValInValues DEF IInv, EnterArray, Accepted, accepts
<1>3. f.kind = "array" /\ f.es = Val.es /\ f.path = Path /\ f.i = 1
      /\ (Filling(f) <=> dst # NoValue) /\ f.dst = dst
  BY DEF Frame, Filling
<1>4. mode = "Validate" => f.dst = NoValue
  BY <1>1, <1>3, NoDst DEF IInv
<1>5. Pushed(f)
  BY <1>1, PushShape DEF IInv, More, EnterArray
<1> HIDE DEF f, dst
<1>6. QED
  BY <1>1, <1>2, <1>3, <1>4, <1>5, PushInv DEF Walks

LEMMA LeaveTableInv == ASSUME IInv, LeaveTable PROVE IInv'
<1>1. Popped
  BY PopShape DEF LeaveTable, Done, IInv
<1>2. ~Filling(Top)
  BY DEF LeaveTable, Filling
<1>3. QED
  BY <1>1, <1>2, PopInv DEF LeaveTable, Walks, Grown

LEMMA LeaveArrayInv == ASSUME IInv, LeaveArray PROVE IInv'
<1>1. Popped
  BY PopShape DEF LeaveArray, Done, IInv
<1>2. CASE Top.dst = NoValue
  BY <1>1, <1>2, PopInv DEF LeaveArray, Walks, Grown, Filling
<1>3. CASE Top.dst # NoValue
  <2>1. Filling(Top) /\ Wrote(Top.path, whole - 1)
    BY <1>3 DEF LeaveArray, Filling
  <2>2. Grown(Top.path)
    BY <1>1, <2>1, ContainerGrown
  <2>3. QED
    BY <1>1, <1>3, <2>1, <2>2, PopInv DEF LeaveArray, Walks
<1>4. QED
  BY <1>2, <1>3

LEMMA UnderivableInv == ASSUME IInv, Underivable PROVE IInv'
<1>1. /\ stack' = stack /\ input' = input /\ mode' = mode /\ whole' = whole
      /\ written' = written /\ fatal' \in BOOLEAN
  BY DEF Underivable, Walks
<1>2. /\ TypeOK' /\ WholeBalanced' /\ ValidateTouchesNothing' /\ WrittenApart'
      /\ Idle' /\ Fed' /\ Chained' /\ PastOnly'
  BY <1>1 DEF IInv, TypeOK, WholeBalanced, ValidateTouchesNothing, WrittenApart,
              Idle, Fed, Chained, PastOnly
<1>3. QED
  BY <1>2 DEF IInv

LEMMA InitInv == Init => IInv
<1> SUFFICES ASSUME Init PROVE IInv
  OBVIOUS
<1>1. {j \in 1..Len(stack) : Filling(stack[j])} = {} /\ Cardinality({}) = 0
  BY FS_EmptySet DEF Init
<1>2. WholeBalanced
  BY <1>1 DEF WholeBalanced, Init
<1>3. TypeOK /\ ValidateTouchesNothing /\ WrittenApart /\ Idle
  <2>1. TypeOK
    <3>1. <<>> \in Seq(Paths) /\ Len(<<>>) = 0
      OBVIOUS
    <3>2. mode \in ToSet(Modes) \cup {"none"}
      BY Zenon DEF Init
    <3>3. 1..Len(stack) = {} /\ Len(stack) \in Nat
      BY <3>1 DEF Init
    <3>4. input \in Inputs /\ fatal \in BOOLEAN /\ whole \in Nat /\ written \in Seq(Paths)
      BY <3>1 DEF Init
    <3>5. QED
      BY <3>2, <3>3, <3>4 DEF TypeOK
  <2>2. ValidateTouchesNothing
    BY DEF ValidateTouchesNothing, Init
  <2>3. WrittenApart /\ Idle
    BY DEF WrittenApart, Idle, Init
  <2>4. QED
    BY <2>1, <2>2, <2>3
<1>4. Fed /\ Chained /\ PastOnly
  BY DEF Fed, Chained, PastOnly, Init
<1>5. QED
  BY <1>2, <1>3, <1>4 DEF IInv

LEMMA AnswerInv == ASSUME IInv, Answer PROVE IInv'
<1>1. /\ stack' = <<>> /\ whole' = 0 /\ written' = <<>> /\ fatal' = FALSE
      /\ mode' = "none" /\ input' \in Inputs
  BY DEF Answer, IInv, TypeOK
<1>2. {j \in 1..Len(stack') : Filling(stack'[j])} = {} /\ Cardinality({}) = 0
  BY <1>1, FS_EmptySet
<1>3. WholeBalanced'
  BY <1>1, <1>2 DEF WholeBalanced
<1>4. TypeOK' /\ ValidateTouchesNothing' /\ WrittenApart' /\ Idle'
  <2>1. TypeOK'
    <3>1. <<>> \in Seq(Paths) /\ Len(<<>>) = 0
      OBVIOUS
    <3>2. mode' \in ToSet(Modes) \cup {"none"}
      BY <1>1, Zenon
    <3>3. 1..Len(stack') = {} /\ Len(stack') \in Nat
      BY <1>1, <3>1
    <3>4. /\ input' \in Inputs /\ fatal' \in BOOLEAN /\ whole' \in Nat
          /\ written' \in Seq(Paths)
      BY <1>1, <3>1
    <3>5. QED
      BY <3>2, <3>3, <3>4 DEF TypeOK
  <2>2. ValidateTouchesNothing'
    BY <1>1 DEF ValidateTouchesNothing
  <2>3. WrittenApart' /\ Idle'
    BY <1>1 DEF WrittenApart, Idle
  <2>4. QED
    BY <2>1, <2>2, <2>3
<1>5. Fed' /\ Chained' /\ PastOnly'
  BY <1>1 DEF Fed, Chained, PastOnly
<1>6. QED
  BY <1>3, <1>4, <1>5 DEF IInv

LEMMA CallInv == ASSUME IInv, NEW m \in ToSet(Modes), Call(m) PROVE IInv'
<1> DEFINE dst == IF m = "Validate" THEN NoValue
                  ELSE IF m = "Decode" THEN Zero ELSE input.seed
           f == Frame("call", <<input.val>>, input.type, dst, <<>>, 1)
<1>1. /\ stack' = <<f>> /\ mode' = m /\ input' = input /\ whole' = 0 /\ written' = <<>>
      /\ fatal' \in BOOLEAN
  BY DEF Call, IInv, Idle
<1>2. /\ f.kind = "call" /\ f.es = <<input.val>> /\ f.path = <<>> /\ f.i = 1
      /\ m = "Validate" => f.dst = NoValue
  BY DEF Frame
<1>3. input.val \in Values /\ ~Filling(f) /\ input \in Inputs
  BY <1>2, InputsAssumption DEF IInv, TypeOK, Filling
<1> HIDE DEF f
<1>4. Len(stack') = 1 /\ stack'[1] = f /\ stack' \in Seq({f}) /\ {stack'[j] : j \in 1..Len(stack')} = {f}
  BY <1>1
<1>5. TypeOK'
  <2>1. f.path \in Paths /\ Len(f.es) = 1
    BY <1>2 DEF Paths
  <2>2. QED
    BY <1>1, <1>2, <1>3, <1>4, <2>1 DEF TypeOK
<1>6. WholeBalanced'
  <2>1. {j \in 1..Len(stack') : Filling(stack'[j])} = {} /\ Cardinality({}) = 0
    BY <1>3, <1>4, FS_EmptySet
  <2>2. QED
    BY <1>1, <2>1 DEF WholeBalanced
<1>7. ValidateTouchesNothing' /\ WrittenApart'
  BY <1>1, <1>2, <1>4 DEF ValidateTouchesNothing, WrittenApart
<1>8. Idle'
  <2>1. m # "none"
    BY DEF ToSet, Modes
  <2>2. QED
    BY <1>1, <2>1 DEF Idle
<1>9. Fed'
  <2>1. Feeds(f)
    BY <1>2, <1>3 DEF Feeds
  <2>2. QED
    BY <1>2, <1>4, <2>1 DEF Fed
<1>10. Chained' /\ PastOnly'
  BY <1>1, <1>4 DEF Chained, PastOnly
<1>11. QED
  BY <1>5, <1>6, <1>7, <1>8, <1>9, <1>10 DEF IInv

LEMMA NextInv == IInv /\ [Next]_vars => IInv'
<1> SUFFICES ASSUME IInv, [Next]_vars PROVE IInv'
  OBVIOUS
<1>1. CASE \E m \in ToSet(Modes) : Call(m)
  BY <1>1, CallInv
<1>2. CASE Unknown
  BY <1>2, UnknownInv
<1>3. CASE Underivable
  BY <1>3, UnderivableInv
<1>4. CASE Mismatch
  BY <1>4, MismatchInv
<1>5. CASE TakeNative
  BY <1>5, TakeNativeInv
<1>6. CASE ConvertScalar
  BY <1>6, ConvertScalarInv
<1>7. CASE EnterTable
  BY <1>7, EnterTableInv
<1>8. CASE EnterArray
  BY <1>8, EnterArrayInv
<1>9. CASE RefuseLength
  BY <1>9, RefuseLengthInv
<1>10. CASE LeaveTable
  BY <1>10, LeaveTableInv
<1>11. CASE LeaveArray
  BY <1>11, LeaveArrayInv
<1>12. CASE Answer
  BY <1>12, AnswerInv
<1>13. CASE UNCHANGED vars
  <2>1. TypeOK' /\ WholeBalanced' /\ ValidateTouchesNothing'
    BY <1>13 DEF vars, IInv, TypeOK, WholeBalanced, ValidateTouchesNothing
  <2>2. WrittenApart' /\ PastOnly'
    BY <1>13 DEF vars, IInv, WrittenApart, PastOnly, Past
  <2>3. Idle' /\ Fed' /\ Chained'
    BY <1>13 DEF vars, IInv, Idle, Fed, Chained
  <2>4. QED
    BY <2>1, <2>2, <2>3 DEF IInv
<1>14. QED
  BY <1>1, <1>2, <1>3, <1>4, <1>5, <1>6, <1>7, <1>8, <1>9, <1>10, <1>11, <1>12, <1>13
  DEF Next

---------------------------------------------------------------------------
\* The theorems.

\* What derives descriptors leaves the walk where it is, and the rest are steps
\* of the walk.
LEMMA StepsWalk == [GoNext]_goVars => [Next]_vars
<1>1. StartCall => Next
  BY DEF StartCall, Next
<1>2. DeriveSlot => UNCHANGED vars
  BY DEF DeriveSlot, vars
<1>3. Derives => UNCHANGED vars
  BY DEF Derives
<1>4. TypeRefused => Next
  BY DEF TypeRefused, Next
<1>5. WalkOn => Next
  BY DEF WalkOn, Next
<1>6. UNCHANGED goVars => UNCHANGED vars
  BY DEF goVars
<1>7. QED
  BY <1>1, <1>2, <1>3, <1>4, <1>5, <1>6 DEF GoNext

\* Every reachable state satisfies the inductive invariant, the descriptors being
\* derived on the way.
THEOREM DecodeInvariant == GoSpec => []IInv
<1>1. GoInit => IInv
  BY InitInv DEF GoInit
<1>2. IInv /\ [GoNext]_goVars => IInv'
  BY NextInv, StepsWalk
<1>3. QED
  BY <1>1, <1>2, PTL DEF GoSpec

\* Each call of the walk is at an entry it has or behind its last, at a path.
THEOREM DecodeTypes == GoSpec => []TypeOK
<1>1. IInv => TypeOK
  BY DEF IInv
<1>2. QED
  BY <1>1, DecodeInvariant, PTL

\* However arrays nest and whichever of their elements are refused, the
\* counter fill keeps (decode.go:531-548) is the number of values being written
\* whole: no early return leaves it behind.
THEOREM CounterBalanced == GoSpec => []WholeBalanced
<1>1. IInv => WholeBalanced
  BY DEF IInv
<1>2. QED
  BY <1>1, DecodeInvariant, PTL

\* Whatever the descriptor and the document, a validation hands no Go value to
\* any of its calls and records no path.
THEOREM ValidationTouchesNothing == GoSpec => []ValidateTouchesNothing
<1>1. IInv => ValidateTouchesNothing
  BY DEF IInv
<1>2. QED
  BY <1>1, DecodeInvariant, PTL

\* "A value written whole is one path" (decode.go:128-129): of the paths
\* DecodeOver reports, none is another or inside another.
THEOREM WrittenPathsApart == GoSpec => []WrittenApart
<1>1. IInv => WrittenApart
  BY DEF IInv
<1>2. QED
  BY <1>1, DecodeInvariant, PTL
=============================================================================

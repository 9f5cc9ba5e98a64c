----------------------------- MODULE FoldLemmas -----------------------------
(***************************************************************************)
(* What is known of a fold over a sequence, for any Step: what it makes of *)
(* the empty sequence, of one more element, of two sequences one behind    *)
(* the other, and what it preserves; and the same of FlattenSeq.  A module *)
(* that folds with an operator of its own takes these facts from an        *)
(* instance WITH Step <- that operator.  Induction is over the set of the  *)
(* numbers a statement holds for.  FoldLeft, FlattenSeq and Max are those  *)
(* of SequencesExt, written out: an instance of a module brings all that   *)
(* the module extends into every proof, and there are eight of this one.   *)
(***************************************************************************)
EXTENDS Integers, Sequences, Folds, WellFoundedInduction, TLAPS

CONSTANT Step(_, _)

Max(S) == CHOOSE x \in S : \A y \in S : x >= y
FoldLeft(op(_, _), base, s) ==
  MapThenFoldSet(LAMBDA x, y : op(y, x), base, LAMBDA i : s[i], Max, DOMAIN s)
FlattenSeq(ss) ==
  IF Len(ss) = 0 THEN ss
  ELSE LET flatten[i \in 1..Len(ss)] == IF i = 1 THEN ss[i] ELSE flatten[i - 1] \o ss[i]
       IN flatten[Len(ss)]
Fold(base, s) == FoldLeft(Step, base, s)

---------------------------------------------------------------------------
\* A set of numbers that is not empty has a least one.
LEMMA NatLeast ==
  ASSUME NEW T \in SUBSET Nat, T # {}
  PROVE  \E x \in T : \A y \in T : ~(y < x)
<1>1. IsWellFoundedOn(OpToRel(<, Nat), Nat)
  BY NatLessThanWellFounded
<1>2. \E x \in T : \A y \in T : ~(<<y, x>> \in OpToRel(<, Nat))
  BY <1>1, WFMin
<1>3. \A x, y \in Nat : y < x => <<y, x>> \in OpToRel(<, Nat)
  BY DEF OpToRel
<1>4. QED
  BY <1>2, <1>3

\* Induction, over a set.
LEMMA Induct ==
  ASSUME NEW S, 0 \in S, \A n \in Nat : n \in S => n + 1 \in S
  PROVE  Nat \subseteq S
<1> SUFFICES ASSUME NEW m \in Nat, m \notin S PROVE FALSE
  OBVIOUS
<1>1. PICK x \in Nat \ S : \A y \in Nat \ S : ~(y < x)
  BY NatLeast
<1>2. x # 0
  BY <1>1
<1>3. x - 1 \in Nat /\ x - 1 < x /\ (x - 1) + 1 = x
  BY <1>1, <1>2
<1>4. x - 1 \in S
  BY <1>1, <1>3
<1>5. QED
  BY <1>1, <1>3, <1>4

---------------------------------------------------------------------------
(***************************************************************************)
(* FoldLeft.  Its definition takes the greatest index off a set of them.   *)
(***************************************************************************)
IsIter(iter, base, s, D) ==
  iter = [t \in SUBSET D |-> IF t = {} THEN base ELSE Step(iter[t \ {Max(t)}], s[Max(t)])]

LEMMA MaxAt ==
  ASSUME NEW n \in Nat, NEW t \in SUBSET (1..(n + 1)), n + 1 \in t
  PROVE  Max(t) = n + 1
<1>1. \A y \in t : n + 1 >= y
  OBVIOUS
<1>2. \A x \in t : (\A y \in t : x >= y) => x = n + 1
  OBVIOUS
<1>3. QED
  BY <1>1, <1>2 DEF Max

LEMMA IterExists ==
  ASSUME NEW base, NEW s
  PROVE  \A n \in Nat : \E iter : IsIter(iter, base, s, 1..n)
<1> DEFINE S == {n \in Nat : \E iter : IsIter(iter, base, s, 1..n)}
<1>1. 0 \in S
  <2> DEFINE iter == [t \in SUBSET (1..0) |-> base]
  <2>1. \A t \in SUBSET (1..0) : t = {}
    OBVIOUS
  <2>2. iter = [t \in SUBSET (1..0) |->
                  IF t = {} THEN base ELSE Step(iter[t \ {Max(t)}], s[Max(t)])]
    BY <2>1
  <2>3. QED
    BY <2>2 DEF IsIter
<1>2. ASSUME NEW n \in Nat, n \in S PROVE n + 1 \in S
  <2>1. PICK old : IsIter(old, base, s, 1..n)
    BY <1>2
  <2> DEFINE new == [t \in SUBSET (1..(n + 1)) |->
                       IF n + 1 \in t THEN Step(old[t \ {n + 1}], s[n + 1]) ELSE old[t]]
  <2>2. \A t \in SUBSET (1..(n + 1)) : n + 1 \notin t => t \in SUBSET (1..n)
    OBVIOUS
  <2>3. \A t \in SUBSET (1..n) : new[t] = old[t]
    OBVIOUS
  <2>4. ASSUME NEW t \in SUBSET (1..(n + 1))
        PROVE  new[t] = IF t = {} THEN base ELSE Step(new[t \ {Max(t)}], s[Max(t)])
    <3>1. CASE n + 1 \in t
      <4>1. Max(t) = n + 1 /\ t \ {n + 1} \in SUBSET (1..n)
        BY <3>1, MaxAt
      <4>2. new[t \ {n + 1}] = old[t \ {n + 1}]
        BY <2>3, <4>1
      <4>3. QED
        BY <3>1, <4>1, <4>2
    <3>2. CASE n + 1 \notin t
      <4>1. t \in SUBSET (1..n) /\ t \ {Max(t)} \in SUBSET (1..n)
        BY <2>2, <3>2
      <4>2. new[t] = old[t] /\ new[t \ {Max(t)}] = old[t \ {Max(t)}]
        BY <2>3, <4>1
      <4>3. old[t] = IF t = {} THEN base ELSE Step(old[t \ {Max(t)}], s[Max(t)])
        BY <2>1, <4>1 DEF IsIter
      <4>4. QED
        BY <4>2, <4>3
    <3>3. QED
      BY <3>1, <3>2
  <2>5. new = [t \in SUBSET (1..(n + 1)) |->
                 IF t = {} THEN base ELSE Step(new[t \ {Max(t)}], s[Max(t)])]
    BY <2>4, Zenon
  <2>6. IsIter(new, base, s, 1..(n + 1))
    BY <2>5 DEF IsIter
  <2>7. QED
    BY <2>6
<1>3. Nat \subseteq S
  BY <1>1, <1>2, Induct, Zenon
<1>4. QED
  BY <1>3

\* A run: a sequence of values each of which is a step from the one before it.
IsRun(f, base, s, n) ==
  DOMAIN f = 0..n /\ f[0] = base /\ \A k \in 1..n : f[k] = Step(f[k - 1], s[k])

\* A fold is the last value of a run.
LEMMA FoldIs ==
  ASSUME NEW base, NEW n \in Nat, NEW s, DOMAIN s = 1..n
  PROVE  \E f : IsRun(f, base, s, n) /\ f[n] = Fold(base, s)
<1> DEFINE iter == CHOOSE g : IsIter(g, base, s, 1..n)
           f == [k \in 0..n |-> iter[1..k]]
<1>1. IsIter(iter, base, s, 1..n)
  <2>1. \E g : IsIter(g, base, s, 1..n)
    BY IterExists
  <2>2. QED
    BY <2>1, Zenon
<1>2. Fold(base, s) = iter[1..n]
  BY Zenon DEF Fold, FoldLeft, MapThenFoldSet, IsIter
<1> HIDE DEF iter
<1>3. f[0] = base
  <2>1. 1..0 = {} /\ {} \in SUBSET (1..n) /\ 0 \in 0..n
    OBVIOUS
  <2>2. iter[{}] = base
    BY <1>1, <2>1 DEF IsIter
  <2>3. QED
    BY <2>1, <2>2
<1>4. ASSUME NEW k \in 1..n PROVE f[k] = Step(f[k - 1], s[k])
  <2> HIDE DEF f
  <2>1. /\ k - 1 \in Nat /\ k = (k - 1) + 1 /\ k \in 1..k /\ 1..k # {}
        /\ 1..k \in SUBSET (1..n) /\ k \in 0..n /\ k - 1 \in 0..n
    <3>1. k \in Nat /\ 1 <= k /\ k <= n
      OBVIOUS
    <3>2. k \in 1..k
      BY <3>1
    <3>3. QED
      BY <3>1, <3>2
  <2>2. (1..k) \ {k} = 1..(k - 1)
    BY <2>1
  <2>3. \A m \in Nat : Max(1..(m + 1)) = m + 1
    BY MaxAt
  <2>4. Max(1..k) = k
    BY <2>1, <2>3
  <2>5. iter[1..k] = IF 1..k = {} THEN base ELSE Step(iter[(1..k) \ {Max(1..k)}], s[Max(1..k)])
    BY <1>1, <2>1 DEF IsIter
  <2>6. iter[1..k] = Step(iter[1..(k - 1)], s[k])
    BY <2>1, <2>2, <2>4, <2>5
  <2>7. QED
    BY <2>1, <2>6 DEF f
<1>5. f[n] = Fold(base, s) /\ DOMAIN f = 0..n
  BY <1>2
<1> HIDE DEF f
<1>6. IsRun(f, base, s, n)
  BY <1>3, <1>4, <1>5 DEF IsRun
<1>7. QED
  BY <1>5, <1>6

\* There is one run.
LEMMA RunUnique ==
  ASSUME NEW n \in Nat, NEW base, NEW s, NEW f, NEW g,
         IsRun(f, base, s, n), IsRun(g, base, s, n)
  PROVE  f[n] = g[n]
<1> DEFINE S == {k \in Nat : k <= n => f[k] = g[k]}
<1>1. 0 \in S
  BY DEF IsRun
<1>2. ASSUME NEW k \in Nat, k \in S PROVE k + 1 \in S
  <2> SUFFICES ASSUME k + 1 <= n PROVE f[k + 1] = g[k + 1]
    OBVIOUS
  <2>1. f[k] = g[k] /\ k + 1 \in 1..n /\ (k + 1) - 1 = k
    BY <1>2
  <2>2. QED
    BY <2>1 DEF IsRun
<1>3. Nat \subseteq S
  BY <1>1, <1>2, Induct, Zenon
<1>4. QED
  BY <1>3

\* The run of a sequence in a set.
LEMMA FoldRun ==
  ASSUME NEW T, NEW base, NEW s \in Seq(T)
  PROVE  \E f : /\ f[0] = base /\ f[Len(s)] = Fold(base, s) /\ DOMAIN f = 0..Len(s)
                /\ \A k \in 1..Len(s) : f[k] = Step(f[k - 1], s[k])
<1>1. Len(s) \in Nat /\ DOMAIN s = 1..Len(s)
  OBVIOUS
<1>2. PICK f : IsRun(f, base, s, Len(s)) /\ f[Len(s)] = Fold(base, s)
  BY <1>1, FoldIs
<1>3. QED
  BY <1>2, Zenon DEF IsRun

LEMMA FoldEmpty == \A base : Fold(base, <<>>) = base
<1>1. ASSUME NEW base PROVE Fold(base, <<>>) = base
  <2>1. DOMAIN <<>> = 1..0 /\ 0 \in Nat
    OBVIOUS
  <2>2. PICK f : IsRun(f, base, <<>>, 0) /\ f[0] = Fold(base, <<>>)
    BY <2>1, FoldIs
  <2>3. QED
    BY <2>2 DEF IsRun
<1>2. QED
  BY <1>1

LEMMA FoldAppend ==
  ASSUME NEW T, NEW base, NEW s \in Seq(T), NEW x \in T
  PROVE  Fold(base, Append(s, x)) = Step(Fold(base, s), x)
<1> DEFINE t == Append(s, x)
           n == Len(s)
<1>1. /\ n \in Nat /\ n + 1 \in Nat /\ DOMAIN s = 1..n /\ DOMAIN t = 1..(n + 1)
      /\ t[n + 1] = x /\ \A k \in 1..n : t[k] = s[k]
  OBVIOUS
<1> HIDE DEF t, n
<1>2. PICK f : IsRun(f, base, s, n) /\ f[n] = Fold(base, s)
  BY <1>1, FoldIs
<1>3. PICK g : IsRun(g, base, t, n + 1) /\ g[n + 1] = Fold(base, t)
  BY <1>1, FoldIs
<1> DEFINE h == [k \in 0..n |-> g[k]]
<1>4. IsRun(h, base, s, n)
  <2>1. \A k \in 1..n : k \in 0..n /\ k - 1 \in 0..n /\ k \in 1..(n + 1)
    BY <1>1
  <2>2. \A k \in 1..n : h[k] = Step(h[k - 1], s[k])
    BY <1>1, <1>3, <2>1 DEF IsRun
  <2>3. h[0] = base /\ DOMAIN h = 0..n
    BY <1>1, <1>3 DEF IsRun
  <2> HIDE DEF h
  <2>4. QED
    BY <2>2, <2>3 DEF IsRun
<1>5. f[n] = g[n]
  <2>1. h[n] = g[n]
    BY <1>1
  <2> HIDE DEF h
  <2>2. f[n] = h[n]
    BY <1>1, <1>2, <1>4, RunUnique
  <2>3. QED
    BY <2>1, <2>2
<1>6. g[n + 1] = Step(g[n], x)
  <2>1. n + 1 \in 1..(n + 1) /\ (n + 1) - 1 = n
    BY <1>1
  <2>2. QED
    BY <1>1, <1>3, <2>1 DEF IsRun
<1>7. QED
  BY <1>2, <1>3, <1>5, <1>6 DEF t

LEMMA FoldConcat ==
  ASSUME NEW T, NEW base, NEW s \in Seq(T), NEW t \in Seq(T)
  PROVE  Fold(base, s \o t) = Fold(Fold(base, s), t)
<1> DEFINE b == Fold(base, s)
           S == {n \in Nat : n <= Len(t) =>
                   Fold(base, s \o SubSeq(t, 1, n)) = Fold(b, SubSeq(t, 1, n))}
<1>1. 0 \in S
  <2>1. SubSeq(t, 1, 0) = <<>> /\ s \o <<>> = s
    OBVIOUS
  <2>2. QED
    BY <2>1, FoldEmpty
<1>2. ASSUME NEW n \in Nat, n \in S PROVE n + 1 \in S
  <2> SUFFICES ASSUME n + 1 <= Len(t)
               PROVE  Fold(base, s \o SubSeq(t, 1, n + 1)) = Fold(b, SubSeq(t, 1, n + 1))
    OBVIOUS
  <2> DEFINE u == SubSeq(t, 1, n)
             x == t[n + 1]
             v == s \o u
  <2>1. u \in Seq(T) /\ x \in T /\ SubSeq(t, 1, n + 1) = Append(u, x)
    OBVIOUS
  <2>2. Fold(base, v) = Fold(b, u)
    BY <1>2
  <2> HIDE DEF u, x, b
  <2>3. v \in Seq(T) /\ s \o Append(u, x) = Append(v, x)
    BY <2>1
  <2> HIDE DEF v
  <2>4. Fold(base, Append(v, x)) = Step(Fold(base, v), x)
    BY <2>1, <2>3, FoldAppend
  <2>5. Fold(b, Append(u, x)) = Step(Fold(b, u), x)
    BY <2>1, FoldAppend
  <2>6. QED
    BY <2>1, <2>2, <2>3, <2>4, <2>5
<1>3. Nat \subseteq S
  <2> HIDE DEF S
  <2>1. QED
    BY <1>1, <1>2, Induct, Zenon
<1>4. SubSeq(t, 1, Len(t)) = t /\ Len(t) \in Nat
  OBVIOUS
<1>5. Fold(base, s \o SubSeq(t, 1, Len(t))) = Fold(b, SubSeq(t, 1, Len(t)))
  BY <1>3, <1>4
<1>6. QED
  BY <1>4, <1>5

\* What each step keeps, the fold keeps.
LEMMA FoldKeeps ==
  ASSUME NEW T, NEW I, NEW base \in I, NEW s \in Seq(T),
         \A r \in I, x \in T : Step(r, x) \in I
  PROVE  Fold(base, s) \in I
<1>1. PICK f : /\ f[0] = base /\ f[Len(s)] = Fold(base, s) /\ DOMAIN f = 0..Len(s)
               /\ \A k \in 1..Len(s) : f[k] = Step(f[k - 1], s[k])
  BY FoldRun
<1> DEFINE S == {n \in Nat : n <= Len(s) => f[n] \in I}
<1>2. 0 \in S
  BY <1>1
<1>3. ASSUME NEW n \in Nat, n \in S PROVE n + 1 \in S
  <2> SUFFICES ASSUME n + 1 <= Len(s) PROVE f[n + 1] \in I
    OBVIOUS
  <2>1. f[n] \in I /\ n + 1 \in 1..Len(s) /\ (n + 1) - 1 = n /\ s[n + 1] \in T
    BY <1>3
  <2>2. f[n + 1] = Step(f[n], s[n + 1])
    BY <1>1, <2>1
  <2>3. QED
    BY <2>1, <2>2
<1>4. Nat \subseteq S
  <2> HIDE DEF S
  <2>1. QED
    BY <1>2, <1>3, Induct, Zenon
<1>5. QED
  BY <1>1, <1>4

---------------------------------------------------------------------------
(***************************************************************************)
(* FlattenSeq.                                                             *)
(***************************************************************************)
IsFlatten(f, ss, n) == f = [i \in 1..n |-> IF i = 1 THEN ss[i] ELSE f[i - 1] \o ss[i]]

LEMMA FlattenExists ==
  ASSUME NEW ss
  PROVE  \A n \in Nat : \E f : IsFlatten(f, ss, n)
<1> DEFINE S == {n \in Nat : \E f : IsFlatten(f, ss, n)}
<1>1. 0 \in S
  <2> DEFINE f == [i \in 1..0 |-> 0]
  <2>1. f = [i \in 1..0 |-> IF i = 1 THEN ss[i] ELSE f[i - 1] \o ss[i]]
    OBVIOUS
  <2>2. QED
    BY <2>1 DEF IsFlatten
<1>2. ASSUME NEW n \in Nat, n \in S PROVE n + 1 \in S
  <2>1. PICK old : IsFlatten(old, ss, n)
    BY <1>2
  <2> DEFINE last == IF n + 1 = 1 THEN ss[n + 1] ELSE old[n] \o ss[n + 1]
             f == [i \in 1..(n + 1) |-> IF i = n + 1 THEN last ELSE old[i]]
  <2>2. ASSUME NEW i \in 1..(n + 1)
        PROVE  f[i] = IF i = 1 THEN ss[i] ELSE f[i - 1] \o ss[i]
    <3>1. CASE i = n + 1
      <4>1. i # 1 => i - 1 \in 1..(n + 1) /\ i - 1 = n /\ i - 1 # n + 1
        BY <3>1
      <4> HIDE DEF last
      <4>2. i # 1 => f[i - 1] = old[n]
        BY <4>1
      <4>3. f[i] = last
        BY <3>1
      <4>4. QED
        BY <3>1, <4>2, <4>3 DEF last
    <3>2. CASE i # n + 1
      <4>1. i \in 1..n /\ (i # 1 => i - 1 \in 1..(n + 1) /\ i - 1 # n + 1)
        BY <3>2
      <4> HIDE DEF last
      <4>2. f[i] = old[i] /\ (i # 1 => f[i - 1] = old[i - 1])
        BY <3>2, <4>1
      <4>3. old[i] = IF i = 1 THEN ss[i] ELSE old[i - 1] \o ss[i]
        BY <2>1, <4>1 DEF IsFlatten
      <4>4. QED
        BY <4>2, <4>3
    <3>3. QED
      BY <3>1, <3>2
  <2>3. f = [i \in 1..(n + 1) |-> IF i = 1 THEN ss[i] ELSE f[i - 1] \o ss[i]]
    BY <2>2, Zenon
  <2>4. IsFlatten(f, ss, n + 1)
    BY <2>3 DEF IsFlatten
  <2>5. QED
    BY <2>4
<1>3. Nat \subseteq S
  BY <1>1, <1>2, Induct, Zenon
<1>4. QED
  BY <1>3

LEMMA FlattenIs ==
  ASSUME NEW T, NEW ss \in Seq(T), ss # <<>>
  PROVE  \E f : IsFlatten(f, ss, Len(ss)) /\ f[Len(ss)] = FlattenSeq(ss)
<1> DEFINE n == Len(ss)
           f == CHOOSE g : IsFlatten(g, ss, n)
<1>1. n \in Nat /\ n # 0
  OBVIOUS
<1>2. IsFlatten(f, ss, n)
  <2>1. \E g : IsFlatten(g, ss, n)
    BY <1>1, FlattenExists
  <2>2. QED
    BY <2>1, Zenon
<1>3. FlattenSeq(ss) = f[n]
  BY <1>1, Zenon DEF FlattenSeq, IsFlatten
<1> HIDE DEF f
<1>4. QED
  BY <1>2, <1>3

LEMMA FlattenUnique ==
  ASSUME NEW n \in Nat, NEW m \in Nat, n <= m, NEW ss, NEW tt, NEW f, NEW g,
         IsFlatten(f, ss, n), IsFlatten(g, tt, m), \A i \in 1..n : ss[i] = tt[i]
  PROVE  \A i \in 1..n : f[i] = g[i]
<1> DEFINE S == {k \in Nat : k + 1 <= n => f[k + 1] = g[k + 1]}
<1>1. 0 \in S
  <2>1. 1 <= n => f[1] = g[1]
    BY DEF IsFlatten
  <2>2. QED
    BY <2>1
<1>2. ASSUME NEW k \in Nat, k \in S PROVE k + 1 \in S
  <2> SUFFICES ASSUME (k + 1) + 1 <= n PROVE f[(k + 1) + 1] = g[(k + 1) + 1]
    OBVIOUS
  <2> DEFINE i == (k + 1) + 1
  <2>1. f[k + 1] = g[k + 1]
    BY <1>2
  <2>2. i \in 1..n /\ i \in 1..m /\ i # 1 /\ i - 1 = k + 1
    OBVIOUS
  <2> HIDE DEF i
  <2>3. f[i] = f[i - 1] \o ss[i]
    BY <2>2 DEF IsFlatten
  <2>4. g[i] = g[i - 1] \o tt[i]
    BY <2>2 DEF IsFlatten
  <2>5. f[i] = g[i]
    BY <2>1, <2>2, <2>3, <2>4
  <2>6. QED
    BY <2>5 DEF i
<1>3. Nat \subseteq S
  <2> HIDE DEF S
  <2>1. QED
    BY <1>1, <1>2, Induct, Zenon
<1>4. ASSUME NEW i \in 1..n PROVE f[i] = g[i]
  <2>1. i - 1 \in Nat /\ (i - 1) + 1 = i /\ (i - 1) + 1 <= n
    OBVIOUS
  <2>2. i - 1 \in S
    BY <1>3, <2>1
  <2>3. QED
    BY <2>1, <2>2
<1>5. QED
  BY <1>4

LEMMA FlattenEmpty == FlattenSeq(<<>>) = <<>>
BY DEF FlattenSeq

LEMMA FlattenAppend ==
  ASSUME NEW T, NEW ss \in Seq(Seq(T)), NEW s \in Seq(T)
  PROVE  FlattenSeq(Append(ss, s)) = FlattenSeq(ss) \o s
<1> DEFINE tt == Append(ss, s)
           n == Len(ss)
<1>1. /\ n \in Nat /\ tt \in Seq(Seq(T)) /\ Len(tt) = n + 1 /\ tt # <<>>
      /\ tt[n + 1] = s /\ \A i \in 1..n : ss[i] = tt[i]
  <2>1. n \in Nat
    OBVIOUS
  <2>2. QED
    BY <2>1
<1> HIDE DEF tt
<1>2. PICK g : IsFlatten(g, tt, n + 1) /\ g[n + 1] = FlattenSeq(tt)
  BY <1>1, FlattenIs
<1>3. CASE ss = <<>>
  <2>1. n = 0
    BY <1>3
  <2>2. g[1] = s
    BY <1>1, <1>2, <2>1 DEF IsFlatten
  <2>3. <<>> \o s = s
    OBVIOUS
  <2>4. QED
    BY <1>2, <1>3, <2>1, <2>2, <2>3, FlattenEmpty DEF tt
<1>4. CASE ss # <<>>
  <2>1. PICK f : IsFlatten(f, ss, n) /\ f[n] = FlattenSeq(ss)
    BY <1>4, FlattenIs
  <2>2. n \in 1..n /\ n + 1 \in 1..(n + 1) /\ n + 1 # 1 /\ (n + 1) - 1 = n /\ n <= n + 1
        /\ n + 1 \in Nat
    BY <1>1, <1>4
  <2> HIDE DEF n
  <2>3. \A i \in 1..n : f[i] = g[i]
    <3>1. n \in Nat /\ n + 1 \in Nat /\ n <= n + 1
      BY <1>1, <2>2
    <3>2. IsFlatten(f, ss, n) /\ IsFlatten(g, tt, n + 1)
      BY <1>2, <2>1
    <3>3. \A i \in 1..n : ss[i] = tt[i]
      BY <1>1
    <3>4. QED
      BY <3>1, <3>2, <3>3, FlattenUnique, SMTT(60)
  <2>4. g[n + 1] = g[n] \o s
    BY <1>1, <1>2, <2>2 DEF IsFlatten
  <2>5. QED
    BY <1>2, <2>1, <2>2, <2>3, <2>4 DEF tt
<1>5. QED
  BY <1>3, <1>4

\* What concatenation keeps, FlattenSeq keeps.
LEMMA FlattenKeeps ==
  ASSUME NEW T, NEW I \in SUBSET Seq(T), <<>> \in I, \A s, t \in I : s \o t \in I,
         NEW ss \in Seq(I)
  PROVE  FlattenSeq(ss) \in I
<1> DEFINE S == {n \in Nat : n <= Len(ss) => FlattenSeq(SubSeq(ss, 1, n)) \in I}
<1>1. 0 \in S
  <2>1. SubSeq(ss, 1, 0) = <<>>
    OBVIOUS
  <2>2. QED
    BY <2>1, FlattenEmpty
<1>2. ASSUME NEW n \in Nat, n \in S PROVE n + 1 \in S
  <2> SUFFICES ASSUME n + 1 <= Len(ss) PROVE FlattenSeq(SubSeq(ss, 1, n + 1)) \in I
    OBVIOUS
  <2> DEFINE u == SubSeq(ss, 1, n)
             x == ss[n + 1]
  <2>1. u \in Seq(I) /\ x \in I /\ SubSeq(ss, 1, n + 1) = Append(u, x)
    OBVIOUS
  <2>2. FlattenSeq(u) \in I
    BY <1>2
  <2> HIDE DEF u, x
  <2>3. u \in Seq(Seq(T)) /\ x \in Seq(T)
    <3> DEFINE Q == Seq(T)
    <3>1. I \subseteq Q
      OBVIOUS
    <3> HIDE DEF Q
    <3>2. u \in Seq(Q) /\ x \in Q
      BY <2>1, <3>1
    <3>3. QED
      BY <3>2 DEF Q
  <2>4. FlattenSeq(Append(u, x)) = FlattenSeq(u) \o x
    BY <2>3, FlattenAppend
  <2>5. QED
    BY <2>1, <2>2, <2>4
<1>3. Nat \subseteq S
  <2> HIDE DEF S
  <2>1. QED
    BY <1>1, <1>2, Induct, Zenon
<1>4. SubSeq(ss, 1, Len(ss)) = ss /\ Len(ss) \in Nat
  OBVIOUS
<1>5. FlattenSeq(SubSeq(ss, 1, Len(ss))) \in I
  BY <1>3, <1>4
<1>6. QED
  BY <1>4, <1>5

\* The beginnings of a sequence of sequences.
LEMMA FlattenStages ==
  ASSUME NEW T, NEW ss \in Seq(Seq(T))
  PROVE  /\ FlattenSeq(SubSeq(ss, 1, 0)) = <<>>
         /\ FlattenSeq(SubSeq(ss, 1, Len(ss))) = FlattenSeq(ss)
         /\ \A n \in 0..Len(ss) : FlattenSeq(SubSeq(ss, 1, n)) \in Seq(T)
         /\ \A n \in Nat : n < Len(ss) =>
              FlattenSeq(SubSeq(ss, 1, n + 1)) = FlattenSeq(SubSeq(ss, 1, n)) \o ss[n + 1]
<1>1. SubSeq(ss, 1, 0) = <<>> /\ SubSeq(ss, 1, Len(ss)) = ss
  OBVIOUS
<1>2. ASSUME NEW n \in Nat, n < Len(ss)
      PROVE  FlattenSeq(SubSeq(ss, 1, n + 1)) = FlattenSeq(SubSeq(ss, 1, n)) \o ss[n + 1]
  <2> DEFINE u == SubSeq(ss, 1, n)
             x == ss[n + 1]
  <2>1. u \in Seq(Seq(T)) /\ x \in Seq(T) /\ SubSeq(ss, 1, n + 1) = Append(u, x)
    BY <1>2
  <2> HIDE DEF u, x
  <2>2. FlattenSeq(Append(u, x)) = FlattenSeq(u) \o x
    BY <2>1, FlattenAppend
  <2>3. QED
    BY <2>1, <2>2 DEF u, x
<1>3. ASSUME NEW n \in 0..Len(ss) PROVE FlattenSeq(SubSeq(ss, 1, n)) \in Seq(T)
  <2> DEFINE u == SubSeq(ss, 1, n)
  <2>1. u \in Seq(Seq(T))
    OBVIOUS
  <2>2. <<>> \in Seq(T) /\ \A s, t \in Seq(T) : s \o t \in Seq(T)
    OBVIOUS
  <2> HIDE DEF u
  <2>3. FlattenSeq(u) \in Seq(T)
    BY <2>1, <2>2, FlattenKeeps
  <2>4. QED
    BY <2>3 DEF u
<1>4. QED
  BY <1>1, <1>2, <1>3, FlattenEmpty

LEMMA FlattenTyped ==
  ASSUME NEW T, NEW ss \in Seq(Seq(T))
  PROVE  FlattenSeq(ss) \in Seq(T)
<1>1. Len(ss) \in 0..Len(ss)
  OBVIOUS
<1>2. QED
  BY <1>1, FlattenStages

LEMMA FlattenConcat ==
  ASSUME NEW T, NEW ss \in Seq(Seq(T)), NEW tt \in Seq(Seq(T))
  PROVE  FlattenSeq(ss \o tt) = FlattenSeq(ss) \o FlattenSeq(tt)
<1> DEFINE b == FlattenSeq(ss)
           S == {n \in Nat : n <= Len(tt) =>
                   FlattenSeq(ss \o SubSeq(tt, 1, n)) = b \o FlattenSeq(SubSeq(tt, 1, n))}
<1>1. b \in Seq(T)
  BY FlattenTyped
<1>2. 0 \in S
  <2>1. SubSeq(tt, 1, 0) = <<>> /\ ss \o <<>> = ss
    OBVIOUS
  <2>2. b \o <<>> = b
    BY <1>1
  <2> HIDE DEF b
  <2>3. QED
    BY <2>1, <2>2, FlattenEmpty DEF b
<1>3. ASSUME NEW n \in Nat, n \in S PROVE n + 1 \in S
  <2> SUFFICES ASSUME n + 1 <= Len(tt)
               PROVE  FlattenSeq(ss \o SubSeq(tt, 1, n + 1)) = b \o FlattenSeq(SubSeq(tt, 1, n + 1))
    OBVIOUS
  <2> DEFINE u == SubSeq(tt, 1, n)
             x == tt[n + 1]
             v == ss \o u
             f == FlattenSeq(u)
  <2>1. u \in Seq(Seq(T)) /\ x \in Seq(T) /\ SubSeq(tt, 1, n + 1) = Append(u, x)
    OBVIOUS
  <2>2. FlattenSeq(v) = b \o f
    BY <1>3
  <2> HIDE DEF u, x, b
  <2>3. v \in Seq(Seq(T)) /\ ss \o Append(u, x) = Append(v, x)
    <3> DEFINE Q == Seq(T)
    <3>1. ss \in Seq(Q) /\ u \in Seq(Q) /\ x \in Q
      BY <2>1
    <3> HIDE DEF Q
    <3>2. ss \o u \in Seq(Q)
      BY <3>1
    <3>3. ss \o Append(u, x) = Append(ss \o u, x)
      BY <3>1
    <3>4. QED
      BY <3>2, <3>3 DEF Q
  <2> HIDE DEF v
  <2>4. FlattenSeq(Append(v, x)) = FlattenSeq(v) \o x
    BY <2>1, <2>3, FlattenAppend
  <2>5. FlattenSeq(Append(u, x)) = f \o x /\ f \in Seq(T)
    BY <2>1, FlattenAppend, FlattenTyped
  <2> HIDE DEF f
  <2>6. (b \o f) \o x = b \o (f \o x)
    <3>1. b \in Seq(T) /\ f \in Seq(T) /\ x \in Seq(T)
      BY <1>1, <2>1, <2>5
    <3>2. QED
      BY <3>1
  <2>7. QED
    BY <2>1, <2>2, <2>3, <2>4, <2>5, <2>6
<1>4. Nat \subseteq S
  <2> HIDE DEF S
  <2>1. QED
    BY <1>2, <1>3, Induct, Zenon
<1>5. SubSeq(tt, 1, Len(tt)) = tt /\ Len(tt) \in Nat
  OBVIOUS
<1>6. FlattenSeq(ss \o SubSeq(tt, 1, Len(tt))) = b \o FlattenSeq(SubSeq(tt, 1, Len(tt)))
  BY <1>4, <1>5
<1>7. QED
  BY <1>5, <1>6

LEMMA SameSeq ==
  ASSUME NEW S, NEW s \in Seq(S), NEW t \in Seq(S), Len(s) = Len(t),
         \A i \in 1..Len(s) : s[i] = t[i]
  PROVE  s = t
OBVIOUS

LEMMA ConcatParts ==
  ASSUME NEW S, NEW w \in Seq(S), NEW v \in Seq(S)
  PROVE  /\ w \o v \in Seq(S) /\ Len(w \o v) = Len(w) + Len(v)
         /\ \A k \in 1..Len(w) + Len(v) :
              (w \o v)[k] = IF k <= Len(w) THEN w[k] ELSE v[k - Len(w)]
OBVIOUS

\* One of the sequences, and what stands before and behind it.
LEMMA FlattenSplit ==
  ASSUME NEW T, NEW ss \in Seq(Seq(T)), NEW i \in 1..Len(ss)
  PROVE  FlattenSeq(ss) = FlattenSeq(SubSeq(ss, 1, i - 1))
                            \o (ss[i] \o FlattenSeq(SubSeq(ss, i + 1, Len(ss))))
<1> DEFINE u == SubSeq(ss, 1, i - 1)
           v == SubSeq(ss, i + 1, Len(ss))
           x == ss[i]
           w == Append(u, x)
           n == Len(ss)
<1>1. n \in Nat /\ i \in Nat /\ 1 <= i /\ i <= n /\ x \in Seq(T)
  OBVIOUS
<1>2. u \in Seq(Seq(T)) /\ Len(u) = i - 1 /\ \A k \in 1..(i - 1) : u[k] = ss[k]
  BY <1>1
<1>3. v \in Seq(Seq(T)) /\ Len(v) = n - i /\ \A k \in 1..(n - i) : v[k] = ss[i + k]
  BY <1>1
<1> HIDE DEF u, v
<1>4. /\ w \in Seq(Seq(T)) /\ Len(w) = i /\ w[i] = x
      /\ \A k \in 1..(i - 1) : w[k] = ss[k]
  BY <1>1, <1>2
<1> DEFINE z == w \o v
<1> HIDE DEF w
<1>5. /\ z \in Seq(Seq(T)) /\ Len(z) = n
      /\ \A k \in 1..n : z[k] = IF k <= i THEN w[k] ELSE v[k - i]
  <2>1. /\ z \in Seq(Seq(T)) /\ Len(z) = Len(w) + Len(v)
        /\ \A k \in 1..Len(w) + Len(v) : z[k] = IF k <= Len(w) THEN w[k] ELSE v[k - Len(w)]
    BY <1>3, <1>4, ConcatParts
  <2> HIDE DEF z
  <2>2. Len(w) = i /\ Len(v) = n - i /\ i + (n - i) = n
    BY <1>1, <1>3, <1>4
  <2>3. QED
    BY <2>1, <2>2
<1> HIDE DEF z
<1>6. ASSUME NEW k \in 1..n PROVE z[k] = ss[k]
  <2>1. CASE k < i
    <3>1. k \in 1..(i - 1) /\ k <= i
      BY <1>1, <2>1
    <3>2. QED
      BY <1>4, <1>5, <3>1
  <2>2. CASE k = i
    BY <1>1, <1>4, <1>5, <2>2
  <2>3. CASE k > i
    <3>1. k - i \in 1..(n - i) /\ i + (k - i) = k /\ ~(k <= i)
      BY <1>1, <2>3
    <3>2. z[k] = v[k - i]
      BY <1>5, <3>1
    <3>3. v[k - i] = ss[i + (k - i)]
      BY <1>3, <3>1, Zenon
    <3>4. QED
      BY <3>1, <3>2, <3>3
  <2>4. QED
    <3>1. k < i \/ k = i \/ k > i
      BY <1>1
    <3>2. z[k] = ss[k]
      BY <2>1, <2>2, <2>3, <3>1
    <3>3. QED
      BY <3>2
<1>7. z = ss
  <2>1. Len(z) = Len(ss) /\ \A k \in 1..Len(z) : z[k] = ss[k]
    BY <1>5, <1>6
  <2>2. z \in Seq(Seq(T))
    BY <1>5
  <2>3. QED
    BY <2>1, <2>2, SameSeq, Zenon
<1>8. FlattenSeq(z) = FlattenSeq(w) \o FlattenSeq(v)
  BY <1>3, <1>4, FlattenConcat DEF z
<1>9. FlattenSeq(w) = FlattenSeq(u) \o x
  BY <1>1, <1>2, FlattenAppend DEF w
<1> DEFINE f == FlattenSeq(u)
           g == FlattenSeq(v)
<1>10. f \in Seq(T) /\ g \in Seq(T)
  BY <1>2, <1>3, FlattenTyped
<1> HIDE DEF f, g, x
<1>11. (f \o x) \o g = f \o (x \o g)
  BY <1>1, <1>10
<1>12. QED
  BY <1>7, <1>8, <1>9, <1>11 DEF f, g, u, v, x

\* A fold over a flattened sequence goes from sequence to sequence.
LEMMA FoldFlatten ==
  ASSUME NEW T, NEW base, NEW ss \in Seq(Seq(T)), NEW f, f[0] = base,
         \A k \in 1..Len(ss) : Fold(f[k - 1], ss[k]) = f[k]
  PROVE  Fold(base, FlattenSeq(ss)) = f[Len(ss)]
<1> DEFINE X == [n \in Nat |-> FlattenSeq(SubSeq(ss, 1, n))]
           S == {n \in Nat : n <= Len(ss) => Fold(base, X[n]) = f[n]}
<1>1. /\ X[0] = <<>> /\ X[Len(ss)] = FlattenSeq(ss) /\ Len(ss) \in Nat
      /\ \A n \in 0..Len(ss) : X[n] \in Seq(T)
      /\ \A n \in Nat : n < Len(ss) => X[n + 1] = X[n] \o ss[n + 1]
  <2>1. Len(ss) \in Nat /\ \A n \in Nat : X[n] = FlattenSeq(SubSeq(ss, 1, n))
    OBVIOUS
  <2>2. /\ FlattenSeq(SubSeq(ss, 1, 0)) = <<>>
        /\ FlattenSeq(SubSeq(ss, 1, Len(ss))) = FlattenSeq(ss)
        /\ \A n \in 0..Len(ss) : FlattenSeq(SubSeq(ss, 1, n)) \in Seq(T)
        /\ \A n \in Nat : n < Len(ss) =>
             FlattenSeq(SubSeq(ss, 1, n + 1)) = FlattenSeq(SubSeq(ss, 1, n)) \o ss[n + 1]
    BY FlattenStages
  <2> HIDE DEF X
  <2>3. 0 \in Nat /\ \A n \in Nat : n + 1 \in Nat
    OBVIOUS
  <2>4. \A n \in 0..Len(ss) : n \in Nat
    BY <2>1
  <2>5. X[0] = <<>> /\ X[Len(ss)] = FlattenSeq(ss)
    BY <2>1, <2>2, <2>3, Zenon
  <2>6. \A n \in 0..Len(ss) : X[n] \in Seq(T)
    BY <2>1, <2>2, <2>4, Zenon
  <2>7. \A n \in Nat : n < Len(ss) => X[n + 1] = X[n] \o ss[n + 1]
    BY <2>1, <2>2, <2>3, Zenon
  <2>8. QED
    BY <2>1, <2>5, <2>6, <2>7
<1> HIDE DEF X
<1>2. 0 \in S
  BY <1>1, FoldEmpty
<1>3. ASSUME NEW n \in Nat, n \in S PROVE n + 1 \in S
  <2> SUFFICES ASSUME n + 1 <= Len(ss) PROVE Fold(base, X[n + 1]) = f[n + 1]
    OBVIOUS
  <2> DEFINE p == X[n]
             q == ss[n + 1]
  <2>1. n < Len(ss) /\ n \in 0..Len(ss) /\ n + 1 \in 1..Len(ss) /\ (n + 1) - 1 = n
    BY <1>1
  <2>2. p \in Seq(T)
    BY <1>1, <2>1, Zenon
  <2>3. q \in Seq(T)
    BY <2>1
  <2>4. X[n + 1] = p \o q
    BY <1>1, <2>1, Zenon
  <2>5. Fold(base, p) = f[n]
    BY <1>3, <2>1
  <2>6. Fold(f[n], q) = f[n + 1]
    BY <2>1
  <2> HIDE DEF p, q
  <2>7. Fold(base, p \o q) = Fold(Fold(base, p), q)
    BY <2>2, <2>3, FoldConcat
  <2>8. QED
    BY <2>4, <2>5, <2>6, <2>7
<1> HIDE DEF S
<1>4. Nat \subseteq S
  BY <1>2, <1>3, Induct, Zenon
<1>5. Len(ss) \in S
  BY <1>1, <1>4
<1>6. QED
  BY <1>1, <1>5 DEF S

\* A fold over what changes nothing.
LEMMA FoldSame ==
  ASSUME NEW T, NEW base, NEW s \in Seq(T), \A x \in T : Step(base, x) = base
  PROVE  Fold(base, s) = base
<1> DEFINE I == {base}
<1>1. base \in I /\ \A r \in I, x \in T : Step(r, x) \in I
  OBVIOUS
<1> HIDE DEF I
<1>2. Fold(base, s) \in I
  BY <1>1, FoldKeeps
<1>3. QED
  BY <1>2 DEF I
=============================================================================

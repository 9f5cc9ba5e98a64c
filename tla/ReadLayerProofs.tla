--------------------------- MODULE ReadLayerProofs ---------------------------
(***************************************************************************)
(* Proofs about ReadLayer, for any set of threads, any shapes and any      *)
(* width of the generation counter.                                        *)
(***************************************************************************)
EXTENDS ReadLayer, TLAPS

USE GenerationsAssumption, FoldableAssumption, DistinctAssumption

\* The initial state satisfies the inductive invariant.
LEMMA InitInv == Init => IInv
  BY DEF Init, IInv, TypeOK, MutualExclusion, Exclusive, LayerCurrent,
         AnswersAreFresh, PCs, Halfway

\* Waiting for the mutex changes no more than the thread's own place.
LEMMA CallReadInv == ASSUME IInv, NEW t \in Threads, CallRead(t) PROVE IInv'
  BY DEF IInv, TypeOK, MutualExclusion, Exclusive, LayerCurrent, PCs, Halfway,
         AnswersAreFresh, CallRead, At, Answer

\* Taking the mutex.
LEMMA LockInv == ASSUME IInv, NEW t \in Threads, Lock(t) PROVE IInv'
  BY DEF IInv, TypeOK, MutualExclusion, Exclusive, LayerCurrent, PCs, Halfway,
         AnswersAreFresh, Lock, At, Answer

\* A thread inside readLayer runs while no write is halfway.
LEMMA ReadingAlone ==
  ASSUME IInv, NEW t \in Threads, pc[t] = "reading"
  PROVE ~Halfway
  BY DEF IInv, TypeOK, Exclusive, Halfway

\* A cache hit answers the layer, which is the document's.
LEMMA HitInv == ASSUME IInv, NEW t \in Threads, Hit(t) PROVE IInv'
<1>1. pc[t] = "reading" /\ layer # NoLayer
  BY DEF Hit, At, Cached
<1>2. layer = shape /\ shape \in Foldable
  BY <1>1, ReadingAlone DEF IInv, TypeOK, LayerCurrent
<1>3. QED
  BY <1>1, <1>2 DEF IInv, TypeOK, MutualExclusion, Exclusive, LayerCurrent, PCs,
     Halfway, AnswersAreFresh, Hit, At, Answer

\* A fold that fails caches nothing.
LEMMA FoldFailsInv == ASSUME IInv, NEW t \in Threads, FoldFails(t) PROVE IInv'
  BY DEF IInv, TypeOK, MutualExclusion, Exclusive, LayerCurrent, PCs, Halfway,
         AnswersAreFresh, FoldFails, At, Answer

\* A fold happens only where nothing is cached, so it is the first.
LEMMA FoldDocumentInv == ASSUME IInv, NEW t \in Threads, FoldDocument(t) PROVE IInv'
<1>1. pc[t] = "reading" /\ layer = NoLayer /\ builds = 0
  BY DEF IInv, LayerCurrent, FoldDocument, At, Cached
<1>2. QED
  BY <1>1 DEF IInv, TypeOK, MutualExclusion, Exclusive, LayerCurrent, PCs, Halfway,
         AnswersAreFresh, FoldDocument, At, Answer

\* Returning hands on the answer and the mutex.
LEMMA ReturnInv == ASSUME IInv, NEW t \in Threads, Return(t) PROVE IInv'
  BY DEF IInv, TypeOK, MutualExclusion, Exclusive, LayerCurrent, PCs, Halfway,
         AnswersAreFresh, Return, At, Answer

\* The drop of the layer ends the gap the change opened.
LEMMA BumpInv == ASSUME IInv, NEW t \in Threads, Bump(t) PROVE IInv'
<1>1. generation' \in 0..(Generations - 1)
  BY DEF IInv, TypeOK, Bump
<1>2. QED
  BY <1>1 DEF IInv, TypeOK, MutualExclusion, Exclusive, LayerCurrent, PCs, Halfway,
         AnswersAreFresh, Bump, At, Answer

\* A write begins when no thread is inside the library.
LEMMA BeginWriteInv == ASSUME IInv, NEW t \in Threads, BeginWrite(t) PROVE IInv'
  BY DEF IInv, TypeOK, MutualExclusion, Exclusive, LayerCurrent, PCs, Halfway,
         AnswersAreFresh, BeginWrite, Answer

\* A change opens the gap; no other thread is there to see it.
LEMMA MutateInv == ASSUME IInv, NEW t \in Threads, Mutate(t) PROVE IInv'
<1>1. \A u \in Threads : pc[u] = "idle"
  BY DEF IInv, Exclusive, Mutate, At
<1>2. QED
  BY <1>1 DEF IInv, TypeOK, MutualExclusion, Exclusive, LayerCurrent, PCs, Halfway,
         AnswersAreFresh, Mutate, At, Answer

\* A write ends between two changes.
LEMMA EndWriteInv == ASSUME IInv, NEW t \in Threads, EndWrite(t) PROVE IInv'
  BY DEF IInv, TypeOK, MutualExclusion, Exclusive, LayerCurrent, PCs, Halfway,
         AnswersAreFresh, EndWrite, Answer

\* Every step preserves the inductive invariant.
LEMMA NextInv == IInv /\ [Next]_vars => IInv'
<1> SUFFICES ASSUME IInv, [Next]_vars PROVE IInv'
  OBVIOUS
<1>1. CASE UNCHANGED vars
  BY <1>1 DEF IInv, TypeOK, MutualExclusion, Exclusive, LayerCurrent, PCs, Halfway,
              AnswersAreFresh, vars, Answer
<1>2. CASE Next
  <2>1. PICK t \in Threads : CallRead(t) \/ Step(t) \/ BeginWrite(t) \/ Mutate(t)
                             \/ EndWrite(t)
    BY <1>2 DEF Next
  <2>2. QED
    BY <2>1, CallReadInv, LockInv, HitInv, FoldFailsInv, FoldDocumentInv, ReturnInv,
       BumpInv, BeginWriteInv, MutateInv, EndWriteInv DEF Step
<1>3. QED
  BY <1>1, <1>2

\* The document's fields and every thread keep their types.
THEOREM Invariance == Spec => []IInv
  BY InitInv, NextInv, PTL DEF Spec

\* Types, for any number of threads.
THEOREM TypeCorrect == Spec => []TypeOK
  BY Invariance, PTL DEF IInv

\* No read ever answers a document that no longer exists (node_types.go,
\* readLayer), although the generation counter wraps around.
THEOREM ReadsAreFresh == Spec => []AnswersAreFresh
  BY Invariance, PTL DEF IInv

\* Between two writes the document is folded at most once.
THEOREM FoldedOnce == Spec => []FoldsOnce
<1>1. IInv => FoldsOnce
  BY DEF IInv, LayerCurrent, FoldsOnce
<1>2. QED
  BY <1>1, Invariance, PTL

\* At most one thread is inside readLayer.
THEOREM Exclusion == Spec => []MutualExclusion
  BY Invariance, PTL DEF IInv

\* A step of the cached document is a write, a fresh read or a stutter of the
\* uncached one.
LEMMA StepRefines == IInv /\ [Next]_vars => [Fresh!Next]_<<shape, got>>
<1> SUFFICES ASSUME IInv, [Next]_vars, ~UNCHANGED <<shape, got>>
             PROVE Fresh!Next
  OBVIOUS
<1>1. PICK t \in Threads : CallRead(t) \/ Step(t) \/ BeginWrite(t) \/ Mutate(t)
                           \/ EndWrite(t)
  BY DEF Next, vars
<1>2. Return(t) \/ Mutate(t)
  BY <1>1 DEF CallRead, Step, BeginWrite, EndWrite, Lock, Hit, FoldFails,
              FoldDocument, Bump
<1>3. CASE Mutate(t)
  BY <1>3 DEF Mutate, Fresh!Next, Fresh!Write
<1>4. CASE Return(t)
  <2>1. ans[t] = Answer(shape)
    BY <1>4 DEF IInv, AnswersAreFresh, Return, At
  <2>2. Fresh!Read(t)
    BY <1>4, <2>1 DEF Return, Fresh!Read, Fresh!Answer, Answer
  <2>3. QED
    BY <2>2 DEF Fresh!Next
<1>5. QED
  BY <1>2, <1>3, <1>4

\* The cached read-layer implements fresh reads.
THEOREM CacheRefines == Spec => ImplementsFresh
<1>1. Init => Fresh!Init
  BY DEF Init, Fresh!Init
<1>2. QED
  BY <1>1, StepRefines, Invariance, PTL DEF Spec, ImplementsFresh, Fresh!Spec
=============================================================================

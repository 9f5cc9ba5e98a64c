------------------------------ MODULE ReadLayer ------------------------------
(***************************************************************************)
(* The cached read-layer of a document (node_types.go, mutate.go): readers *)
(* that share one fold under the document's mutex, and writes that drop it.*)
(* Any number of threads may read at once; a write is made by one thread   *)
(* while no other uses the document, which is what the library asks of its *)
(* callers.  A write changes the shape of the document first and drops the *)
(* layer after, possibly several times, and reads the layer in between     *)
(* (resolveOrCreateParent).                                                *)
(*                                                                         *)
(* The generation counter has the width of the code's, 2^64 there and      *)
(* Generations here: it wraps around.                                      *)
(***************************************************************************)
EXTENDS Integers

CONSTANTS
  Threads,      \* the goroutines that use the document
  Shapes,       \* what the document may say
  Foldable,     \* the shapes that fold into a layer
  NoAnswer,     \* the error of a read that could not fold
  NoLayer,      \* no cached layer
  Nobody,       \* no thread
  Generations   \* how many values the generation counter has

ASSUME GenerationsAssumption == Generations \in Nat \ {0}
ASSUME FoldableAssumption == Foldable \subseteq Shapes
ASSUME DistinctAssumption ==
  NoAnswer \notin Shapes /\ NoLayer \notin Shapes /\ Nobody \notin Threads

VARIABLES
  shape,       \* what the document says
  layer,       \* the cached layer: the shape it was folded from, or NoLayer
  layerGen,    \* the generation the layer was folded at
  generation,  \* the writes made to the document
  mu,          \* the thread that holds the mutex, or Nobody
  writer,      \* the thread that has the document to itself, or Nobody
  pc,          \* where each thread stands
  ans,         \* the answer a thread holding the mutex is about to return
  got,         \* the last answer each thread was given
  builds       \* the folds since the layer was last dropped (layerBuilds)

vars == <<shape, layer, layerGen, generation, mu, writer, pc, ans, got, builds>>

Init ==
  /\ shape \in Shapes
  /\ layer = NoLayer
  /\ layerGen = 0
  /\ generation = 0
  /\ mu = Nobody
  /\ writer = Nobody
  /\ pc = [t \in Threads |-> "idle"]
  /\ ans = [t \in Threads |-> NoAnswer]
  /\ got = [t \in Threads |-> NoAnswer]
  /\ builds = 0

At(t, from, to) == pc[t] = from /\ pc' = [pc EXCEPT ![t] = to]

---------------------------------------------------------------------------
\* readLayer, from the call to its return.
CallRead(t) ==
  /\ writer \in {Nobody, t}
  /\ At(t, "idle", "locking")
  /\ UNCHANGED <<shape, layer, layerGen, generation, mu, writer, ans, got, builds>>

Lock(t) ==
  /\ At(t, "locking", "reading")
  /\ mu = Nobody
  /\ mu' = t
  /\ UNCHANGED <<shape, layer, layerGen, generation, writer, ans, got, builds>>

\* A faulty test: two equal generations are taken for a layer.
CachedByGeneration == layerGen = generation

Cached == layer # NoLayer /\ layerGen = generation

Hit(t) ==
  /\ At(t, "reading", "returning")
  /\ Cached
  /\ ans' = [ans EXCEPT ![t] = layer]
  /\ UNCHANGED <<shape, layer, layerGen, generation, mu, writer, got, builds>>

\* A faulty answer to a failed fold: fold again.
FoldFailsRetrying(t) ==
  /\ At(t, "reading", "reading")
  /\ ~Cached
  /\ shape \notin Foldable
  /\ UNCHANGED <<shape, layer, layerGen, generation, mu, writer, ans, got, builds>>

FoldFails(t) ==
  /\ At(t, "reading", "returning")
  /\ ~Cached
  /\ shape \notin Foldable
  /\ ans' = [ans EXCEPT ![t] = NoAnswer]
  /\ UNCHANGED <<shape, layer, layerGen, generation, mu, writer, got, builds>>

\* A faulty fold: the layer is not stamped with its generation.
FoldUnstamped(t) ==
  /\ At(t, "reading", "returning")
  /\ ~Cached
  /\ shape \in Foldable
  /\ layer' = shape
  /\ ans' = [ans EXCEPT ![t] = shape]
  /\ builds' = builds + 1
  /\ UNCHANGED <<shape, layerGen, generation, mu, writer, got>>

FoldDocument(t) ==
  /\ At(t, "reading", "returning")
  /\ ~Cached
  /\ shape \in Foldable
  /\ layer' = shape
  /\ layerGen' = generation
  /\ ans' = [ans EXCEPT ![t] = shape]
  /\ builds' = builds + 1
  /\ UNCHANGED <<shape, generation, mu, writer, got>>

Return(t) ==
  /\ At(t, "returning", "idle")
  /\ mu' = Nobody
  /\ got' = [got EXCEPT ![t] = ans[t]]
  /\ UNCHANGED <<shape, layer, layerGen, generation, writer, ans, builds>>

---------------------------------------------------------------------------
\* A write: the caller keeps every other thread away from the document.
BeginWrite(t) ==
  /\ writer = Nobody
  /\ \A u \in Threads : pc[u] = "idle"
  /\ writer' = t
  /\ UNCHANGED <<shape, layer, layerGen, generation, mu, pc, ans, got, builds>>

\* The structure funnel stores new contents (setContents, setVal, renamePart)...
Mutate(t) ==
  /\ writer = t
  /\ At(t, "idle", "mutated")
  /\ shape' \in Shapes
  /\ UNCHANGED <<layer, layerGen, generation, mu, writer, ans, got, builds>>

\* A faulty form: the layer is kept, left to its generation to expire.
BumpKeepingLayer(t) ==
  /\ At(t, "mutated", "idle")
  /\ mu = Nobody
  /\ generation' = (generation + 1) % Generations
  /\ builds' = 0
  /\ UNCHANGED <<shape, layer, layerGen, mu, writer, ans, got>>

\* ... and ends in invalidateLayer: bumpGeneration, under the mutex.
Bump(t) ==
  /\ At(t, "mutated", "idle")
  /\ mu = Nobody
  /\ generation' = (generation + 1) % Generations
  /\ layer' = NoLayer
  /\ builds' = 0
  /\ UNCHANGED <<shape, layerGen, mu, writer, ans, got>>

EndWrite(t) ==
  /\ writer = t
  /\ pc[t] = "idle"
  /\ writer' = Nobody
  /\ UNCHANGED <<shape, layer, layerGen, generation, mu, pc, ans, got, builds>>

Step(t) ==
  \/ Lock(t)
  \/ Hit(t)
  \/ FoldFails(t)
  \/ FoldDocument(t)
  \/ Return(t)
  \/ Bump(t)

Next == \E t \in Threads :
  \/ CallRead(t)
  \/ Step(t)
  \/ BeginWrite(t)
  \/ Mutate(t)
  \/ EndWrite(t)

\* A thread inside the library goes on; Go's mutex hands itself to every
\* waiter in the end (starvation mode), hence SF for Lock.  Nothing obliges a
\* caller to read or to write.
Fairness == \A t \in Threads : WF_vars(Step(t)) /\ SF_vars(Lock(t))

Spec == Init /\ [][Next]_vars /\ Fairness

---------------------------------------------------------------------------
PCs == {"idle", "locking", "reading", "returning", "mutated"}

\* Types of the document's fields and of each thread's state.
TypeOK ==
  /\ shape \in Shapes
  /\ layer \in Foldable \cup {NoLayer}
  /\ layerGen \in 0..(Generations - 1)
  /\ generation \in 0..(Generations - 1)
  /\ mu \in Threads \cup {Nobody}
  /\ writer \in Threads \cup {Nobody}
  /\ pc \in [Threads -> PCs]
  /\ ans \in [Threads -> Foldable \cup {NoAnswer}]
  /\ got \in [Threads -> Foldable \cup {NoAnswer}]
  /\ builds \in Nat

Answer(s) == IF s \in Foldable THEN s ELSE NoAnswer

\* A read about to return answers the document as it stands, whatever was
\* written before and however far the generation counter has wrapped.
AnswersAreFresh == \A t \in Threads : pc[t] = "returning" => ans[t] = Answer(shape)

\* Readers share one fold: the layer is built at most once between two writes
\* (node_types.go: "the first reader folds, the rest wait for it").
FoldsOnce == builds <= 1

\* The mutex is held by exactly the thread inside readLayer.
MutualExclusion ==
  \A t \in Threads : (pc[t] \in {"reading", "returning"}) <=> (mu = t)

\* The cached reads implement fresh reads of an uncached document.
Fresh == INSTANCE FreshReads
ImplementsFresh == Fresh!Spec

\* Every read returns: nobody keeps the mutex and no reader waits for ever.
ReadsReturn == \A t \in Threads : pc[t] = "locking" ~> pc[t] = "idle"

---------------------------------------------------------------------------
(***************************************************************************)
(* The inductive invariant.                                                *)
(***************************************************************************)
Halfway == \E t \in Threads : pc[t] = "mutated"

\* Whoever writes has the document to itself.
Exclusive ==
  /\ \A t \in Threads : pc[t] = "mutated" => writer = t
  /\ writer # Nobody => \A t \in Threads \ {writer} : pc[t] = "idle"

\* Outside the gap between a change and its bump, a cached layer is the fold
\* of the document at the current generation, and the only fold so far.
LayerCurrent ==
  /\ layer = NoLayer => builds = 0
  /\ layer # NoLayer => builds = 1 /\ layerGen = generation
  /\ layer # NoLayer /\ ~Halfway => layer = shape

IInv ==
  /\ TypeOK
  /\ MutualExclusion
  /\ Exclusive
  /\ LayerCurrent
  /\ AnswersAreFresh
=============================================================================

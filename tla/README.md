# TLA+ models of go-toml-edit

go-toml-edit parses TOML into a syntax tree that keeps every byte, edits the
tree through logical paths, and renders it back with everything it did not edit
unchanged.  These modules model the library's own logic: which documents the
parser accepts and what they mean, what every edit does to that meaning, how the
cached logical view stays true to the tree, which bytes are spliced and which
rendered anew, what becomes of comments and blank lines, what the decoder fills
and reports, and how a document replaces a file.  TLC checks them on small
instances; TLAPS proves the central results for instances of every size.

All source references are to the repository's Go files at its root.

## 1. Inventory

### The system's parts

| Part | Source | State it keeps | Operations |
| --- | --- | --- | --- |
| Lexer | `lexer.go`, `token.go` | position, key/value context, stack of open arrays and inline tables | `lex`: bytes to tokens |
| Parser and definition tracker | `parser.go` | the tree so far; a tree of definition entries (value, explicit, implicit, dotted-implicit, array-table) | `Parse`, `parseTable`, `parseArrayTable`, `parseKeyValue` |
| Syntax tree | `node_types.go`, `node.go`, `accessors.go` | containers with children, keys with parts, values, trivia, `dirty` and `subtreeDirty` flags, parent links | the write funnels of `mutate.go` |
| Read-layer | `record.go` | one `Record` tree per document, cached with the generation it was folded at, behind `Document.mu` | `readLayer`, `foldDocument`, `Root`, `Record.Get`, `Entries` |
| Path resolution | `path.go`, `resolve.go`, `document.go` | none | `ParsePath`, `JoinPath`, `walkPath`, `Resolve`, `Lookup` |
| Edit operations | `edit.go`, `structural.go`, `defaults.go` | none of their own; they write the tree | `Set`, `SetCreate`, `Delete`, `RenameKey`, `NewTable`, `NewArrayTable`, `PermuteChildren`, `AppendToArray`, `RemoveFromArray`, `EnsureDefaults` |
| Merge and diff | `merge.go`, `diff.go` | none | `Merge` writes one document into another; `Diff` compares what two walks hand out |
| Walk | `walk.go` | entry counters, per owner | `Walk` in two modes, with a visitor that may skip or stop |
| Comments and fragments | `comments.go`, `fragments.go` | trivia of nodes; the gaps of an array, a second copy of its comments | `SetComment`, `SetLeadingComments`, `containerGaps`, `dropGapsOf` |
| Renderer | `render.go`, `renderers.go` | none | `Bytes`, `Render`: splice what is clean, render what is dirty |
| Formatter | `format.go` | none; it reads trivia, never gaps | `Format` |
| Decoder | `decode.go`, `spec.go`, `convert.go` | descriptors of types; per walk: diagnostics, written paths, the count of arrays being filled whole | `Decode`, `DecodeOver`, `Validate`, `convertValue` |
| Cursor, iteration, typed access | `cursor.go`, `iterate.go`, `access.go`, `scalar_accessors.go` | a path | reads only |
| Atomic write | `writefile.go` | one temporary file | `WriteFile` |
| Diagnostics | `errors.go`, `span.go`, `tomledit.go` | none | text |

### How they interact

`Parse` runs the lexer to the end, then the parser, which asks the definition
tracker before it accepts a construct.  Reads fold the tree into the read-layer
once and share it under a mutex.  An edit parses its path, resolves it over the
read-layer, and writes the tree through the funnels of `mutate.go`
(`setContents`, `setVal`, `renamePart`); each funnel marks the node, climbs the
parent links to flag the containers, and drops the cached read-layer, so that an
operation that reads again (`resolveOrCreateParent`, `Merge`) folds again.
`Bytes` reads the flags.  The decoder compiles a Go type or a `Spec` to one form
of descriptor and walks the read-layer against it.  `WriteFile` renders, parses its own rendering as a
proof of the round trip, and installs the bytes by renaming a temporary file.

### What is hard

- One logical table can be spelled by dotted keys, headers, inline tables and
  array-of-tables entries in any mixture, over constructs anywhere in the file.
  The tracker, the fold, the walk, and each edit decide about those mixtures by
  rules of their own, and they have to agree.
- An edit addresses the logical document and changes the syntactic one.  A
  header is a child of the document, not of its table; a header's path resolves
  through the *last* entries of arrays; a pair behind a header belongs to it.
- The lexer runs to the end before the parser starts, and guesses from its own
  stack of scopes what only the grammar knows: whether a bracket opens an array
  or a header, whether two are one token, what a comma separates.
- An edit of several steps may fail after its first.
- Readers share a cache that writes invalidate, with a counter that wraps.
- Dirtiness is said upward once: a flag that is missing loses an edit, one too
  many loses the file's formatting.
- Comments and blank lines belong to the construct below them, or to nobody at
  the end of the input; a construct that was written to is put together from
  fragments again, and one behind a line without a newline must not join it.
- An array's comments are kept in its gaps and in the trivia of its elements;
  `Bytes` reads one as long as it may and `Format` the other, and every edit has
  to keep them telling one story or drop the gaps.
- One walk of the decoder validates, fills and reports, over descriptors that
  refer to themselves; each early return has to leave the counters, the values
  and the diagnostics as if it had gone on.  An integer stored in a float is
  exact or refused, at the ends of two ranges at once.
- `WriteFile` may fail, die or race another writer between any two calls.

### What makes each part correct

- Lexer and parser: what TOML 1.0 allows is read the way its grammar means it,
  and what it does not allow is refused at the same place.
- Paths: `ParsePath` returns, and reads back what `JoinPath` wrote.
- Tracker and fold: what is accepted folds, to what the tracker said of it; what
  is refused is refused for a conflict.
- Edits: the written path changes and nothing else, in the logical document; the
  result folds, renders, parses and reads back as it is; keys keep their order.
- Walk: every path it hands out resolves to the value handed out with it.
- Read-layer: every read answers the document as it stands; one fold between
  writes; every read returns.
- Flags: nothing stale is spliced, nothing untouched is rendered.
- Lines: what `Bytes` and `Format` write reads back as the constructs and
  comments of the tree, in their order; an edit touches the lines it is about;
  formatting twice is formatting once, and the writer's groups stay.
- Array comments: what `Bytes` and `Format` write reads back as what the
  document answers; an edit touches the comments it is about and no others.
- Decoder: the diagnostics are the document's violations, each once; validation
  and both kinds of decoding agree; the value is the document over the seed; the
  paths reported written are what was supplied, none inside another.
- Atomic write: the destination is at every moment one whole sound rendering;
  an existing one keeps its permission bits; no litter but a dead writer's.

PROJECT.json lists the places in the code where each of these could go wrong
("hazards") with the properties that would show it.

## 2. The modules

```
TomlSyntax         text to tokens to constructs, beside the grammar  <- TomlSyntaxProofs
PathSyntax         paths to segments and back           <- MCPathSyntax
TomlDoc            constructs; the definition tracker
  TomlLayer        the fold into records; positions and path resolution
    TomlParse      Parse, construct by construct             <- MCTomlParse
    TomlEdit       the edit operations
      TomlMerge    Merge, over the edit operations
      TomlWalk     Walk, leaf mode
        TomlEditLogic   both, with the logical tree beside them
                        INSTANCE LogicalToml                 <- MCTomlEdit, MCEditComments
LogicalToml        what the edits promise, on the logical document
ReadLayer          the cached read-layer, INSTANCE FreshReads   <- MCReadLayer, ReadLayerProofs
FreshReads         reads that fold every time
DirtyTree          the flags                                 <- MCDirtyTree, DirtyTreeProofs
WriteFile          WriteFile, call by call, INSTANCE AtomicFile <- MCWriteFile, WriteFileProofs
AtomicFile         a file replaced in one step
ArrayTrivia        an array, its comments, Bytes and Format  <- MCArrayTrivia, ArrayTriviaProofs
DocTrivia          a document's lines, Bytes and Format      <- MCDocTrivia, DocTriviaProofs
FoldLemmas         what is known of any fold                 <- ArrayTriviaProofs,
                                                                DocTriviaProofs
Conversion         which TOML value a Go target takes
  Decode           Validate, Decode and DecodeOver
    DeriveType     the same, descriptors derived on the way  <- MCDecode, DecodeProofs
```

**TomlSyntax** reads a document piece by piece, each the maximal run the lexer
takes in one turn.  The lexer's contexts are its variables, an action per kind
of token; the parser's descent is a pushdown machine over the tokens, and the
grammar of TOML 1.0 the same kind of machine over the pieces (`Take` is a step
of either).  The grammar is the specification: it has no contexts to go wrong.
The text is chosen on the way and has no bound; only the nesting has.

**PathSyntax** is `ParsePath` with the loops of `parseQuotedKey` and
`parseBareKey` a byte a step, and `JoinPath` as a fold over segments.  A path
that was parsed is joined and parsed again.

**TomlDoc** cuts the tree down to what the meaning depends on: a construct is a
pair (of a scalar, or of an inline table), a `[header]` or an `[[header]]`, with
its key path.  The tracker is a function from key paths to the kind of entry; a
`sub` map of the code is the set of longer paths.  `Reparse` is what the parser
makes of a rendered tree: a pair behind a header is that header's.

**TomlLayer** is `foldDocument` and its helpers.  A record is named by its
logical path, and a construct by its position in the tree, which stands for the
Go pointer (`Record.node`, `Record.region`).  `StepPos` and `WalkFrom` are
`layerPos.step` and `walkFrom`.

**TomlParse** feeds every sequence of constructs to the tracker and keeps the
tree it accepts.

**TomlEdit** has one operator per operation, from a document to the answer and
the document left behind -- which a refused call may have changed -- and one
action per operation.  A *session* fixes the documents to start from and the
calls to make.  Since nothing in the library runs concurrently with a write, a
call is one step; what happens between its passes (`resolveOrCreateParent` folds
anew for each segment) is inside the operator.  **TomlMerge** adds `Merge`,
entry by entry over `SetCreateOp` and `NewArrayTableOp`.  **TomlWalk** is `Walk`
as the sequence of visits.

**LogicalToml** knows no constructs: a document is a set of tables and a set of
leaves, a write binds one path, a deletion takes all that lies under one, the
entries behind a deleted one move up, a merge adds where nothing stands.
**TomlEditLogic** maps the document to the tree it folds to and states that the
edits implement it.

**ReadLayer** splits `readLayer` and `bumpGeneration` at the mutex; a write may
bump several times and read in between.  **DirtyTree** splits an edit into its
funnel and the turns of `markSubtree`.  **WriteFile** has one action per call of
the operating system, one for each way it fails, and the death of the process.
A file's mode is its permission bits and the special ones (setuid, setgid,
sticky); a writer has the umask of its process.  `ModeKept` speaks of
permission bits: once all calls under way that have looked found the destination
with the same ones (`Settled`), it has them for ever.

**ArrayTrivia** is one array: a sequence of elements with trivia, the comments
behind the last, and the gaps.  Reading is a fold of tokens whose states are the
places in `parseArrayValue`'s loop; `RenderArray` and `FormatArray` write tokens
again.  The actions are the six edits of an array's elements and comments.  The
variables `kept`, `unread` and `moved` are bookkeeping for the properties: which
comments should be there, which the parser passed over, and whether elements
changed places under gaps that stand.

**DocTrivia** is a document as lines: a pair or a header with the whitespace
before it, the gap and the comment behind it and its newline; a comment; a blank
line.  `ParseDocument` is a fold that hands the trivia above a construct to it
and the trivia at the end to nodes of their own, `Bytes` a fold of
`serializeChildren` over the nodes, `Format` one of `formatChild`.  Keys and
values are opaque, so an edit is what it does to the tree, at any place of it:
`Bindings` are the sets of pairs and headers one key may be spelled by.  `kept`
is bookkeeping: the comments that should be there.

**Conversion** is `convert.go`'s table and `convertValue`, with integers and
floats of a few bits (`Round` is what the processor does).  **Decode** is the
engine: a stack of calls (`walkRecord`, `fill`, `walkEntry`), descriptors as
graphs named by constants, and a Go value per call.  One action per entry of a
table or element of an array and one per return.  **DeriveType** is what happens
between two steps of it when a type is first needed: `checkTags`, `descForType`,
`tableForType` and `collectFields` as frames of one stack over a graph of Go
types, with the engine's three memos as functions that a failure takes its
entries out of.  A goroutine's stack holds `MaxCalls` calls, and what needs more
never returns.  Its steps are steps of `Decode` or leave its variables alone.
MCDecode holds the reference
it is compared with: the violations, the overlaid value and the paths of a
document, each defined by recursion over the document without a walk.

## 3. What the runs check

| Run | Instance | Shows |
| --- | --- | --- |
| `parse` | documents of up to four constructs over two keys, headers of up to three parts, 7 pairs | `AcceptedFolds`, `TrackerMatchesLayer`, `RefusedForAReason` |
| `edit` | four sessions of two or three calls over 14 starting documents; three keys, paths of up to three segments | `AlwaysFolds`, `ReadsBack`, `Implements` (LogicalToml), `OrderKept`, `WalkResolves` |
| `syntax` | texts of any length, values nested up to four deep | `AcceptsToml`, `RefusesTheRest`, `ScopesAgree` |
| `path` | every path of up to four bytes over those the code tells apart, every list of up to two segments of awkward keys and indices | `RoundTrip`, `ParseReturns` |
| `readlayer` | three threads, two shapes that fold and one that does not, a counter of two values | `AnswersAreFresh`, `FoldsOnce`, `ImplementsFresh`, `ReadsReturn` |
| `writefile` | two writers of different umasks, two names, three permissions, a destination with setgid, one sound and one unsound rendering, one retry | `DestinationWhole`, `NoLitter`, `ModeKept`, `ImplementsAtomic`, `CallsReturn` |
| `dirtytree` | a document of a pair with an array and a header; two nodes to be built | `NoStaleSplice`, `NothingElseRendered` |
| `arrays` | every array of up to eight tokens, up to three elements, three calls | `BytesReadBack`, `EditsKeepComments`, `FormatReadsBack`, `RestStands` |
| `decode` | documents of two or three keys nested up to three deep, 20 targets over some 30 Go types, 24 calls deep, seeds, integers of 5 bits, mantissas of 3 and 2 bits | `ReportsEachViolation`, `OverlaysSeed`, `WrittenTellsSupplied`, `WrittenApart`, `FrontEndsAgree`, `CallsAnswer` |
| `lines` | every document of up to three lines and two of four, plain or with whitespace everywhere, with or without a newline at the end; two calls, four nodes | `DocumentReadsBack`, `OtherLinesStand`, `CommentsStay`, `FormatKeepsComments`, `FormatKeepsGroups`, `FormatAgainChangesNothing` |
| `same_line`, `comment_lost` | as `syntax`; as `arrays` | a disagreement each, see section 6 |

Why the bounds are enough.  `parse`: every rule of the tracker relates at most
three constructs (one that implies a table, one that opens it, one that adds to
it), and four leave room for a new array entry in between.  `edit`: the starting
documents are one per way of spelling a table, so that one call meets every
branch of the operation, and the second and third meet what the first left
behind (a table created and renamed, an entry deleted and another added).
`syntax`: the parser and the lexer look at the innermost scope and at whether
there is an array or an inline table at all, and four levels hold every
alternation of the two between a scope and the next of its kind.  `path`: a
quote, an escape, its byte and what follows are four bytes; paths that
begin with a dot are left to `leading_dot`.  `readlayer`: with two values the
counter wraps within one write, which is the only way an old layer could look
current.  `writefile`: two writers and two
names make a taken name, a full directory and a dead writer's litter.
`arrays`: eight tokens hold two elements with a comment in each of the places
the parser tells apart (before, behind the value, behind the comma, behind the
last), and the third call meets gaps that the first two kept and dropped.
`lines`: what stands around a construct depends on the lines above it, and three
lines hold a run, a comment and a construct in every order; the two of four
lines have a run between comments above a pair, and a comment with a run above
it at the end of a header.  The first call leaves every kind of dirty construct
beside spliced ones and in front of them, the second writes to it again, and
four nodes let a call build one behind the last.
`decode`: five-bit integers reach past a mantissa of three bits on both sides
and have a largest one that rounds up to a power of two, as 64 bits do past 53;
three levels hold an array in a table in an array, which is what the count of
arrays being filled is for; the types are one per branch of the walk, those that
hold themselves and those that cannot be derived included.  No type of the run
needs half of the 24 calls, so the bound is met only by what does not end.
`dirtytree`: a path of four nodes is the shortest on which a climb can stop
below an ancestor that does not know; the proof covers every tree.

The sessions of `edit` leave out the calls that section 6 says the code answers
otherwise: creating below an entry that is not the last, deleting an entry with
headers of its own, creating below a dotted key in an inline table, defaults
that fail after a table was made, permuting the document's own children.
`CHECK_DEADLOCK FALSE` stands in the configurations of systems that stop: a
session ends, a parse is refused, a text or a path comes to its end, a history
of calls is over, each entry point has answered, every writer may be dead, every
loose node put somewhere.

### Fairness

`ReadLayer`: a thread inside the library goes on (weak fairness of its steps:
there is no blocking call but the mutex), and the mutex is handed to every
waiter in the end, since Go's `sync.Mutex` goes into starvation mode (strong
fairness of `Lock`).  No caller has to read or write.  `WriteFile`: a call of
the operating system comes back, one way or the other (weak fairness of the
steps that proceed); a short write does not have to be followed by another
one, and no failure or death has to happen.  `PathSyntax`: a sequential loop
goes on (weak fairness of its turns), and the caller does not have to join what
it got.  `DeriveType`: deriving and the walk are sequential and go on (weak
fairness of `GoNext`).
The other modules state no liveness.

## 4. What is proved

`tlapm` checks every proof; nothing is assumed but the named `ASSUME`s of the
modules.  Those say that the markers (`NoLayer`, `Nobody`, `NoNode`, `NoFile`,
...) are distinct from what they mark, that the counter has at least one value,
and of which form the inputs are (`InputsAssumption` of `ArrayTrivia`,
`DocTrivia` and `Decode`, `ValuesAssumption` of `Decode`, `WidthAssumption` of
`Conversion`).  For `DocTrivia` that is: only the last line of a text lacks its
newline, a comment line has a comment, and a blank line has none.

**ReadLayerProofs**, for any set of threads and any width of the counter: types,
`AnswersAreFresh`, `FoldsOnce`, `MutualExclusion`, and that the cache implements
`FreshReads`.  The invariant needs `Exclusive` (a writer is alone) and
`LayerCurrent`: outside the gap between a change and its bump a cached layer *is*
the fold of the document.  `AnswersAreFresh` alone is not inductive, since it
says nothing of a layer nobody is reading.  It turns out that the generation
adds nothing while every bump also drops the layer: the proof goes through for a
counter of one value.

**WriteFileProofs**, for any number of writers: `DestinationWhole`, `NoLitter`,
`NamesDistinct`, `ModeKept`, and that `WriteFile` implements `AtomicFile`.  The
invariant adds `NamesHeld` (who owns a temporary file names it, and it is
there), `Progress` (past the verification the rendering is sound, past the write
it is on disk) and `ModeCarried` (a call that found the destination renames a
file with the permission bits it found, and the destination is still there).
`ModeKept` then follows in two steps: a call that may install a file looked for
the destination before or looks now (`LooksOnce`), so what it installs in a
settled destination has the bits it found there (`StaysSettled`).

**DirtyTreeProofs**, for trees of any shape: `NoStaleSplice` and
`NothingElseRendered`.  "Below" is the least set closed under the parent links,
so the proof needs no recursion: a set that is closed after an edit was closed
before it (`ClosedBefore`).  The invariant's core is `KnownAbove`: a flagged
node's container is flagged, or the climb stands at it -- which is why
`markSubtree` may stop at the first ancestor that knows.

**DecodeProofs**, for any Go types, descriptors, documents, seeds and front end,
and any room on the stack: types, `WholeBalanced` (the counter is the number of
arrays being filled whole), `ValidateTouchesNothing`, and `WrittenApart` (no path
reported written is inside another).  The invariant adds `Fed` (every call works on what the one below it
handed over), `Chained` (the paths of the calls extend each other), `PastOnly`
(a written path is one the walk has passed) and `Idle` (between two calls the
stack is empty and the counter zero).  Deriving leaves all of that alone
(`StepsWalk`), so what is proved of the walk's steps holds of `GoSpec`.
`WrittenApart` rests on all of them: a new
path is apart from the old since those are past, and it is recorded only where
no call below will record a path that holds it.

**TomlSyntaxProofs**, for texts of any length and nesting of any depth:
`AcceptsToml`, `RefusesTheRest` and `ScopesAgree`, from one inductive invariant.
`InStep` says that the lexer's contexts, the parser and the grammar stand at the
same place: `Standing` names the place of the parser for each place of the
grammar, the stacks are equal, and `arrayDepth` and the brace count are the
scopes of each kind on it; `Stopped` says what is left when one of them has
refused.  None of the three properties is inductive alone, since what the next
piece may be depends on the contexts the last one left.  The proof goes token by
token: what the parser and the grammar make of each is a lemma of its own, and
the counts change at the stack's head only (`DepthPushed`, `DepthPopped`).

**FoldLemmas** is about no module: what a fold over a sequence makes of the
empty sequence, of one more element, of two sequences in a row, what it keeps,
and the same of `FlattenSeq`.  `FoldLeft` takes the greatest index off a set of
them, so the lemmas begin with the function that it is (`FoldIs`).  The
library's induction theorems take an operator, which the provers cannot
instantiate; here the induction is over the set of numbers a statement holds
for (`Induct`), and what folds, the constant `Step`, is replaced in an instance.
Of the library only `Folds` is extended: what an instance extends is in the
context of every obligation, and `DocTriviaProofs` alone has ten.

**ArrayTriviaProofs**, for arrays and texts of any length and any number of
calls: `EditsKeepComments`, `BytesReadBack`, `FormatReadsBack` and `RestStands`.
Each edit's proof says where a comment of the old array is in the new one (`Carried`):
`RemoveFromArray` moves the elements behind, a permutation is onto, a
replacement takes over the trivia.  An array that is laid out anew reads back
line by line: the parser is at a known place with the elements so far (`At`,
`ElementRead`, `LinesRead`).  For one spliced from its gaps the invariant needs
`GapsTell`: while gaps describe the array, they and the values read back as what
its accessors tell, unless elements changed places under them.  `BytesReadBack`
alone says nothing of gaps that an edit leaves; `GapsTell` carries it, since a
value that replaces another leaves the fold at the same place (`SwapRead`,
`RevalReads`).  The texts to start from are assumed to be ones the parser reads,
no more.

`RestStands` is an action property from the same invariant.  Each of the three
renderings is a row of pieces, one per element, each with one value in it;
`StagesCounted` counts the values before the i-th piece, `ValueFound` says that
`ValueAt` finds the element's value in it, and `OneReplaced` that two rows that
differ in that value differ in that token alone.  Which rendering is taken does
not change under the call: a write leaves the number of gaps and every comment as
they were (`RenderReplaced`).

**DocTriviaProofs**, for documents and texts of any size and any number of
calls: `CommentsStay`, `DocumentReadsBack`, `FormatKeepsComments`,
`OtherLinesStand` and `FormatKeepsGroups`.  The first three come from what a
text tells line by line (`LinesTell`) and a document node by node (`Told`).  The
parser reads what the lines tell (`ParsedTold`: a fold over the lines keeps
`Tallies`, the nodes so far tell what the lines did but for the trivia still
pending).  `Bytes` writes what the nodes tell (`BytesTold`), and so does
`Format` but for what stands before a comment's text (`DocumentShown`,
`EndShown`).  That needs more than the type of a node: that the bytes a clean
one is spliced from are its fragments, and that each of its lines but the last
ends.  `Good` says so, and `Document` of every node and child;
`DocumentReadsBack` alone is not inductive, since it says nothing of the
fragments of a node that is clean until a call touches it.  What is read is good
(`ParsedSound`): only the text's last line may lack its newline, and it ends a
node.  An edit is taken apart into what it puts in place of a container's items
(`Stored`), and what `InsertAt`, the removal of places (`LeftOver`, by counting
the places up to each) and a permutation keep of a sequence.

`OtherLinesStand` is an action property and follows from the same invariant.  A
call that writes puts one node in the place of another, and the nodes are those
before it, the node and those behind (`NodesSplit`).  The nodes before write the
same text; those behind do too, and what ends the node's last line is decided by
them alone, since a good node writes at least one line and only its last may
lack the newline (`PutConstruct`).  What is left is one node's lines, which are
the same laid out anew as spliced.  `SetLines`, `SetCommentLines` and
`SetLeadingLines` compare them for the three calls, the last through the blank
lines that `BlanksAround` keeps above and below.

`FormatKeepsGroups` compares two folds over lines (`Grouped`): over what the
tree holds, and over what `Format` has made of it so far.  `Keeps` relates the
two and the openings of headers: a formatted line has a blank line above where
it had one or opens a group, but for the first; no blank line stands first or
behind another; and one stands at the end exactly where one was read or an
opening is due.  The last part is what the property does not say and the proof
needs: `Format` writes a blank line before it knows what comes below.  Each line
it writes keeps the relation (`BlankKept`, `SolidKept`, `AboveKept`), so does
each node (`ChildTracked`), and `EnsureTrailingNewline` takes a blank line off
the end and no mark (`EndGrouped`).

Only model-checked: `ReadsReturn`, `CallsReturn`, `ParseReturns` and
`CallsAnswer` (liveness); what the decoder reports and fills, since the
reference it is compared with recurses over documents; that the derived
descriptors are the declared ones; that
formatting again changes nothing (`FormatAgainChangesNothing`, which compares
two texts line by line: section 7); `RoundTrip` of `PathSyntax`, whose
`JoinPath` is a string built byte by byte; and everything `TomlDoc` and the
modules above it say.  Those recurse over the tree (`DefinePairs`,
`FoldKeyValue`, `MergeRecord`, `WalkTables`), and what a recursive operator
computes for every tree is beyond the prover.

## 5. What is left out

- In the documents of `TomlEdit` and `TomlLayer`, values are scalars and inline
  tables.  Arrays are `ArrayTrivia`'s, one at a time, and their elements are
  opaque there: arrays in arrays and paths through an element are left out, and
  so is the sharing of an array node with a `Record` handed out earlier, whose
  holder is outside of the library.
- In `ArrayTrivia`: blank lines and the whitespace before values and commas.
- In `DocTrivia`: what is inside keys and values, so which construct a path names
  and when an edit is refused (`TomlEdit`), and one construct to a line; two
  comments are the same when their texts are; `LineWidth`, and inline tables.
- In `DeriveType`: the text of a tag (a field is given as it names, requires and
  embeds), fields that bind nothing, the order in which a struct's fields are
  followed by `checkTags`.  In `Decode`: a `Spec`'s descriptor is given, so
  compiling one is no step; the native form of an `any` is one value, and a
  `Spec`'s map of it too; diagnostics are a path and a kind, without positions
  and wording; floats are whole numbers.  At an error that ends a decoding the walk stops, where the
  code's loop over an array goes on with what the answer then does not contain.
- What is inside a piece of text: escapes, the forms of numbers and dates, byte
  checks.  A refusal by the lexer, which reads to the end first, and one by the
  parser are not told apart.
- Spans, spellings and the wording of errors.
- The edit operations take segments, not text; the text is `PathSyntax`'s.
- In `PathSyntax`, integers are unbounded: an index too large for an `int`,
  which `Atoi` refuses, is not modelled.
- In `WriteFile`: removing a temporary file is taken to succeed, nobody but
  the writers touches the destination, and that is a regular file, no link.
- In `DirtyTree`: the nodes of a value that is built are joined one `Insert` at
  a time before or after they are put into the document; the code builds the
  value first.
- `Diff`, the cursor and iteration, the typed accessors, errors and renderers:
  not modelled (PROJECT.json says why, part by part).

## 6. Known disagreements

Each was met while modelling.  The first two are reproduced by a run that ends
in a counterexample:

- `same_line`: a pair, or a header, is accepted behind a pair on its line:
  `"a" = "b" ["c"]`, `a = 1 "b" = 2`.  The parser takes the newline if it is
  there and does not ask for it; the lexer refuses bare words only.
- `comment_lost`: in an array, a second comment behind a value without a comma
  is read into no trivia (`skipArrayTrivia`).  It stands in the gaps and is gone
  with the next edit that drops them, and when the document is formatted.

Others have a configuration of their own and end in a counterexample likewise.
For `tlc -continue -config edit_comments.cfg MCEditComments`, which checks the
four at once:

- `SetReplaces`: `[a.b.c]`, then `[a]` with `b.a = 1`, then `[a.b]` is
  accepted; `Set("a.b.a", 1)` then adds a second pair for the key, and `Root`
  panics.
- `CreatesOnItsPath`: `SetCreate("a[0].b.c", 1)` on two `[[a]]` entries appends
  `[a.b]`, which belongs to the last entry.  `createIntermediateTable` says a
  parent reached through an index is refused; only one without a construct is.
- `EntryDeletedWhole`: `Delete("a[0]")` removes the entry's `[[a]]` and leaves its
  `[a.b]` to attach elsewhere.
- `FailedDefaultWritesNothing`: `EnsureDefaults` with a default `a.b[0].c` fails and leaves
  `[a]` and `[a.b]`, "not even the tables leading to it" notwithstanding
  (`defaults.go:34-35`).

For `tlc -continue -config state_comments.cfg MCEditComments`:

- `ReadsBack`: `SetCreate("a.b.d.c", 1)` on `a = { b.c = 1 }` succeeds, and
  the result does not parse.
- `WalkVisitsAll`: a `[b]` behind `[[a]]` is never visited, so `Diff` misses it
  too.

For `tlc -config <name>.cfg <module>`, of `MCWriteFile`:

- `writefile_mode`: `destinationMode` takes the permission bits of the mode, so a
  destination with setuid, setgid or sticky loses it, where `writefile.go:41`
  says the mode is preserved (`WholeModeKept`).  One writer is enough.

For `MCPathSyntax`:

- `leading_dot`: `ParsePath(".")` does not return.  A dot is skipped between
  segments only, and an empty bare key is appended at it for ever.

For `MCDecode`:

- `derive` (with `-continue`): `collectFields` does not end on
  `type T struct{ *T }`, while `decode.go:646-647` says that memoizing is what
  makes a recursive type terminate (`CallsAnswer`: the stack is full); and
  `descForType` of a type like `type A []*A` copies a descriptor that is not
  filled yet, so the element is one of no class (`DerivesDescriptors`).
- `decode_seed`: `DecodeOver` makes the elements of a map anew.  A document that
  carries part of a table held in a map loses the rest of the seed's element,
  where `decode.go:113-114` says every key the document does not carry keeps
  what the seed put there.

For `MCArrayTrivia`:

- `array_permuted`: `PermuteChildren` of an array keeps the gaps, and with them
  the comments where they were, while `structural.go:27-29` says a child's
  comments travel with it.  The accessors answer the trivia, which did travel;
  a later edit that drops the gaps moves the comments after all.

For `MCDocTrivia`:

- `format_text`: a comment at the end of the input is kept with the whitespace
  before it, and `formatStandaloneComment` asks whether its text begins with
  `#`: an indented `  # note` is written `#   # note`, where `format.go:52` says
  that what is preserved is "CONTENT -- the comments".

Without a configuration:

- A nested array-of-tables cannot be merged into a document without
  the outer one; what was written before the error stays.
- `Format` of what it wrote indents the comments in arrays once
  more, since a comment's line is read with its whitespace.
- `PermuteChildren` of the document itself may move a pair behind a header, and
  it then reads back as that header's.
- `Format` of an array without elements writes `[]`, comments or not.
- Diagnostics and written paths come in the order of the walk, depth first and
  with a table's missing keys last, not "in document order" (`decode.go:72`,
  `spec.go:141`).
- Two calls of `WriteFile` that both find no destination create it with the
  umasks of their processes, which may differ: the last to rename decides.  One
  that looked in between restores what it saw, whatever came after.
- A comment at the end of the input belongs to nothing until a call appends a
  header: in the bytes it then stands above the header, and reads back as its
  comment.  `Format` of the edited tree separates the two by a blank line and
  `Format` of what was read back puts it above the comment; this is why
  `FormatAgainChangesNothing` is about what was read.
- `SetLeadingComments` keeps the blank lines above and below the comments it
  replaces and drops the ones between them.
- An empty table in the document makes a nil map or pointer of the seed, without
  a written path.

## 7. Plan

Done: the lexer's contexts and the parser's descent against the grammar, path
syntax, the definition tracker, the fold, the edit operations on tables, merging
and the walk; the decoder against a reference; the comments of an array and the
lines of a document under edits, rendering and formatting; the read-layer cache,
the flags, the atomic write, the decoder's walk and both kinds of comments with
their proofs.

Next, in this order:

1. Arrays as values of `TomlEdit`: paths through an element, arrays in arrays,
   and the array nodes a `Record` shares with the document.
2. `Diff` over the walk; the comments of pairs and headers that travel with a
   merge.
3. The cursor.
4. Proofs: `FormatAgainChangesNothing`, from what `Format` makes of each line,
   as for `FormatKeepsGroups`; that a turn of `ParsePath` advances or hands over to a loop that does; the
   tracker as a function of the set of constructs, in a module without
   recursion, and that an accepted construct keeps it well formed for documents
   of any length; the leaf operators of `TomlLayer` where they do not recurse.

------------------------------ MODULE WriteFile ------------------------------
(***************************************************************************)
(* Document.WriteFile (writefile.go): render, prove the round trip, read   *)
(* the destination's mode, write a temporary file beside it and rename it  *)
(* over.  Any number of writers, in one process or several, write the same *)
(* destination; every call of the operating system may fail, and a writer  *)
(* may die between any two of them.                                        *)
(*                                                                         *)
(* A file is [data, mode].  Data is a rendering, Partial (a write that     *)
(* stopped short, or has not finished) or Nothing (a file just created).   *)
(* A mode is its permission bits and the special ones that are set (setuid,*)
(* setgid, sticky): Perm() drops those.  Each writer's process has an umask*)
(* of its own.  Removing a file is taken to succeed, and nobody but the    *)
(* writers touches the destination, a regular file.                        *)
(***************************************************************************)
EXTENDS Naturals

CONSTANTS
  Writers,      \* the goroutines or processes that call WriteFile
  Renderings,   \* what a document may render to
  Sound,        \* the renderings that survive a round trip
  Names,        \* the names createTemp draws from
  NoName,       \* no temporary file
  Perms,        \* permission bits
  Specials,     \* the special bits of a mode
  NewPerm,      \* 0o644, the permission bits of a new file
  Umask,        \* Umask[w][p]: what the umask of w's process leaves of p
  NoFile,       \* a name nothing is stored under
  Nothing,      \* the contents of an empty file
  Partial,      \* part of a rendering
  MaxAttempts   \* the names createTemp tries before giving up

ASSUME SoundAssumption == Sound \subseteq Renderings
ASSUME DataAssumption == Nothing \notin Renderings /\ Partial \notin Renderings
ASSUME ModeAssumption == NewPerm \in Perms /\ Umask \in [Writers -> [Perms -> Perms]]
ASSUME NameAssumption == NoName \notin Names
ASSUME AttemptsAssumption == MaxAttempts \in Nat

Data == Renderings \cup {Nothing, Partial}
Modes == [perm : Perms, special : SUBSET Specials]
Files == [data : Data, mode : Modes]
ASSUME FileAssumption == NoFile \notin Files

VARIABLES
  dest,      \* the destination: a file or NoFile
  tmp,       \* the temporary files of the directory, by name
  pc,        \* where each call stands
  out,       \* the bytes each call rendered
  perm,      \* destinationMode: the permission bits ...
  existed,   \* ... and whether there was a destination
  name,      \* the name of each call's temporary file
  attempt,   \* createTemp's attempts
  result     \* each writer's last answer

locals == <<out, perm, existed, name, attempt>>
vars == <<dest, tmp, pc, out, perm, existed, name, attempt, result>>

\* A destination somebody else wrote before may hold anything.
Init ==
  /\ dest \in {NoFile} \cup [data : Sound, mode : Modes]
  /\ tmp = [n \in Names |-> NoFile]
  /\ pc = [w \in Writers |-> "idle"]
  /\ out \in [Writers -> Renderings]
  /\ perm = [w \in Writers |-> NewPerm]
  /\ existed = [w \in Writers |-> FALSE]
  /\ name = [w \in Writers |-> NoName]
  /\ attempt = [w \in Writers |-> 0]
  /\ result = [w \in Writers |-> "none"]

Goes(w, from, to) == pc[w] = from /\ pc' = [pc EXCEPT ![w] = to]
Answers(w, r) == result' = [result EXCEPT ![w] = r]

\* A call that fails before it owns a temporary file returns at once.
FailsAt(w, from) ==
  /\ Goes(w, from, "idle")
  /\ Answers(w, "failed")
  /\ UNCHANGED <<dest, tmp, out, perm, existed, name, attempt>>

---------------------------------------------------------------------------
Render(w) ==
  /\ Goes(w, "idle", "verify")
  /\ \E bytes \in Renderings : out' = [out EXCEPT ![w] = bytes]
  /\ attempt' = [attempt EXCEPT ![w] = 0]
  /\ Answers(w, "none")
  /\ UNCHANGED <<dest, tmp, perm, existed, name>>

\* A faulty write: the round trip is not checked.
VerifyNothing(w) ==
  /\ Goes(w, "verify", "stat")
  /\ UNCHANGED <<dest, tmp, locals, result>>

\* verifyRoundTrip.
Verify(w) ==
  \/ /\ out[w] \in Sound
     /\ Goes(w, "verify", "stat")
     /\ UNCHANGED <<dest, tmp, locals, result>>
  \/ out[w] \notin Sound /\ FailsAt(w, "verify")

\* destinationMode: Perm() of the destination's mode, or 0o644.
Stat(w) ==
  /\ Goes(w, "stat", "create")
  /\ existed' = [existed EXCEPT ![w] = dest # NoFile]
  /\ perm' = [perm EXCEPT ![w] = IF dest # NoFile THEN dest.mode.perm ELSE NewPerm]
  /\ UNCHANGED <<dest, tmp, out, name, attempt, result>>

StatFails(w) == FailsAt(w, "stat")

\* The mode a create or a chmod with the bits p gives.
Plain(p) == [perm |-> p, special |-> {}]
Created(w, p) == Plain(Umask[w][p])

\* createTemp, one attempt: O_EXCL takes a name nobody has.
Create(w, n) ==
  /\ tmp[n] = NoFile
  /\ Goes(w, "create", "write")
  /\ tmp' = [tmp EXCEPT ![n] = [data |-> Nothing, mode |-> Created(w, perm[w])]]
  /\ name' = [name EXCEPT ![w] = n]
  /\ UNCHANGED <<dest, out, perm, existed, attempt, result>>

NameTaken(w, n) ==
  /\ tmp[n] # NoFile
  /\ attempt[w] < MaxAttempts
  /\ pc[w] = "create"
  /\ attempt' = [attempt EXCEPT ![w] = @ + 1]
  /\ UNCHANGED <<dest, tmp, pc, out, perm, existed, name, result>>

LastNameTaken(w, n) ==
  /\ tmp[n] # NoFile
  /\ attempt[w] = MaxAttempts
  /\ FailsAt(w, "create")

CreateFails(w) == FailsAt(w, "create")

\* writeAll: the bytes arrive bit by bit, and may stop arriving.
Stored(w, data) == tmp' = [tmp EXCEPT ![name[w]].data = data]

\* A faulty writeAll: a short write is taken for a whole one.
WriteShort(w) ==
  /\ Goes(w, "write", "sync")
  /\ Stored(w, Partial)
  /\ UNCHANGED <<dest, locals, result>>

WriteSome(w) ==
  /\ pc[w] = "write"
  /\ Stored(w, Partial)
  /\ UNCHANGED <<dest, pc, locals, result>>

WriteAll(w) ==
  /\ Goes(w, "write", "sync")
  /\ Stored(w, out[w])
  /\ UNCHANGED <<dest, locals, result>>

\* Any failure after createTemp goes on to remove the temporary file.
DiscardsFrom(w, from) ==
  /\ Goes(w, from, "discard")
  /\ UNCHANGED <<dest, tmp, locals, result>>

WriteFails(w) == DiscardsFrom(w, "write")

Sync(w) == Goes(w, "sync", "close") /\ UNCHANGED <<dest, tmp, locals, result>>
SyncFails(w) == DiscardsFrom(w, "sync")

\* A faulty write: no chmod after the umask.
CloseAndRename(w) ==
  /\ Goes(w, "close", "rename")
  /\ UNCHANGED <<dest, tmp, locals, result>>

Close(w) ==
  /\ Goes(w, "close", IF existed[w] THEN "chmod" ELSE "rename")
  /\ UNCHANGED <<dest, tmp, locals, result>>

\* A faulty error path: the temporary file stays.
CloseFailsAtOnce(w) == FailsAt(w, "close")

CloseFails(w) == DiscardsFrom(w, "close")

Chmod(w) ==
  /\ Goes(w, "chmod", "rename")
  /\ tmp' = [tmp EXCEPT ![name[w]].mode = Plain(perm[w])]
  /\ UNCHANGED <<dest, locals, result>>
ChmodFails(w) == DiscardsFrom(w, "chmod")

RenameOver(w) ==
  /\ Goes(w, "rename", "idle")
  /\ dest' = tmp[name[w]]
  /\ tmp' = [tmp EXCEPT ![name[w]] = NoFile]
  /\ name' = [name EXCEPT ![w] = NoName]
  /\ Answers(w, "written")
  /\ UNCHANGED <<out, perm, existed, attempt>>

\* A faulty error path: the rename is tried again and again.
RenameFailsRetrying(w) ==
  Goes(w, "rename", "close") /\ UNCHANGED <<dest, tmp, locals, result>>

RenameFails(w) == DiscardsFrom(w, "rename")

\* discard, and the os.Remove of the later failures.
Remove(w) ==
  /\ Goes(w, "discard", "idle")
  /\ tmp' = [tmp EXCEPT ![name[w]] = NoFile]
  /\ name' = [name EXCEPT ![w] = NoName]
  /\ Answers(w, "failed")
  /\ UNCHANGED <<dest, out, perm, existed, attempt>>

\* The process dies; what it left in the directory stays.
Die(w) ==
  /\ pc[w] \notin {"idle", "dead"}
  /\ pc' = [pc EXCEPT ![w] = "dead"]
  /\ UNCHANGED <<dest, tmp, locals, result>>

Fails(w) ==
  \/ StatFails(w) \/ CreateFails(w) \/ WriteFails(w) \/ SyncFails(w)
  \/ CloseFails(w) \/ ChmodFails(w) \/ RenameFails(w)

Proceeds(w) ==
  \/ Verify(w) \/ Stat(w) \/ WriteAll(w) \/ Sync(w) \/ Close(w) \/ Chmod(w)
  \/ RenameOver(w) \/ Remove(w)
  \/ \E n \in Names : Create(w, n) \/ NameTaken(w, n) \/ LastNameTaken(w, n)

Next == \E w \in Writers :
  \/ Render(w) \/ Proceeds(w) \/ WriteSome(w) \/ Fails(w) \/ Die(w)

\* A call of the operating system comes back, one way or the other.
Fairness == \A w \in Writers : WF_vars(Proceeds(w))

Spec == Init /\ [][Next]_vars /\ Fairness

---------------------------------------------------------------------------
Owning == {"write", "sync", "close", "chmod", "rename", "discard"}
PCs == Owning \cup {"idle", "verify", "stat", "create", "dead"}

\* Types of the directory and of each call's variables.
TypeOK ==
  /\ dest \in Files \cup {NoFile}
  /\ tmp \in [Names -> Files \cup {NoFile}]
  /\ pc \in [Writers -> PCs]
  /\ out \in [Writers -> Renderings]
  /\ perm \in [Writers -> Perms]
  /\ existed \in [Writers -> BOOLEAN]
  /\ name \in [Writers -> Names \cup {NoName}]
  /\ attempt \in [Writers -> 0..MaxAttempts]
  /\ result \in [Writers -> {"none", "written", "failed"}]

\* The destination is never empty, partial or something that does not survive
\* a round trip, whoever fails or dies and whoever else is writing.
DestinationWhole == dest # NoFile => dest.data \in Sound

\* No temporary file is left behind but by a writer that died: each belongs to
\* the one call that is still working on it.
NoLitter ==
  \A n \in Names : tmp[n] # NoFile => \E w \in Writers :
    name[w] = n /\ pc[w] \in Owning \cup {"dead"}

\* Two calls never write through the same temporary name.
NamesDistinct ==
  \A v, w \in Writers : v # w /\ name[v] # NoName => name[v] # name[w]

\* The calls that may still install a file, and looked for the destination.
Looked == {"create", "write", "sync", "close", "chmod", "rename"}

\* The destination has the permission bits p, and no call under way found
\* anything else there, or nothing.
Settled(p) ==
  /\ dest # NoFile /\ dest.mode.perm = p
  /\ \A w \in Writers : pc[w] \in Looked => existed[w] /\ perm[w] = p

\* "The destination's file mode is preserved when it already exists"
\* (writefile.go:41), as far as its permission bits go: once it is settled it
\* stays so, whatever the umasks of the processes that write it, since a create
\* applies the umask and the chmod sets the bits outright (writefile.go:81-89).
\* Calls that found no destination may differ on the mode of the one they make.
ModeKept == [][\A p \in Perms : Settled(p) => Settled(p)']_vars

\* The whole mode, as writefile.go:41 reads, for a writer without a rival:
\* setuid, setgid and sticky are gone (Perm(), writefile.go:136).
WholeModeKept == [][dest # NoFile => dest'.mode = dest.mode]_vars

\* The destination's history is the one AtomicFile allows: it changes only as
\* a call answers success, and to that call's own rendering.
Content == IF dest = NoFile THEN Nothing ELSE dest.data
Atomic == INSTANCE AtomicFile WITH content <- Content, wanted <- out
ImplementsAtomic == Atomic!Spec

\* Every call comes back, unless its process died.
CallsReturn == \A w \in Writers : pc[w] = "verify" ~> pc[w] \in {"idle", "dead"}

---------------------------------------------------------------------------
(***************************************************************************)
(* The inductive invariant.                                                *)
(***************************************************************************)
\* A call that owns a temporary file names it, and the file is there.
NamesHeld ==
  \A w \in Writers :
    /\ pc[w] \in Owning => name[w] # NoName
    /\ name[w] # NoName => pc[w] \in Owning \cup {"dead"} /\ tmp[name[w]] # NoFile

\* Past verifyRoundTrip the rendering is sound; past writeAll it is on disk.
Progress ==
  \A w \in Writers :
    /\ pc[w] \in Owning \cup {"stat", "create"} => out[w] \in Sound
    /\ pc[w] \in {"sync", "close", "chmod", "rename"} => tmp[name[w]].data = out[w]

\* A call that found the destination installs the permission bits it found,
\* and there is a destination ever since.
ModeCarried ==
  \A w \in Writers : pc[w] \in Looked /\ existed[w] =>
    /\ dest # NoFile
    /\ pc[w] = "rename" => tmp[name[w]].mode = Plain(perm[w])

\* A call is answered when it returns, not before.
Unanswered == \A w \in Writers : pc[w] # "idle" => result[w] = "none"

IInv ==
  /\ TypeOK
  /\ NamesDistinct
  /\ NoLitter
  /\ NamesHeld
  /\ Progress
  /\ ModeCarried
  /\ Unanswered
  /\ DestinationWhole
=============================================================================

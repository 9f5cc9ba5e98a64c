--------------------------- MODULE WriteFileProofs ---------------------------
(***************************************************************************)
(* Proofs about WriteFile, for any number of writers, any renderings, names*)
(* and modes, and any number of attempts.                                  *)
(***************************************************************************)
EXTENDS WriteFile, TLAPS

USE SoundAssumption, DataAssumption, ModeAssumption, NameAssumption,
    AttemptsAssumption, FileAssumption

\* The initial state satisfies the inductive invariant.
LEMMA InitInv == Init => IInv
<1> SUFFICES ASSUME Init PROVE IInv
  OBVIOUS
<1>1. dest \in Files \cup {NoFile}
  BY DEF Init, Files, Data
<1>2. TypeOK
  BY <1>1 DEF Init, TypeOK, PCs, Owning
<1>3. QED
  BY <1>2 DEF Init, IInv, TypeOK, NamesDistinct, NoLitter, NamesHeld, Progress, ModeCarried,
     Looked, Unanswered, DestinationWhole, Owning

\* A call that fails before it owns a temporary file.
LEMMA FailsAtInv ==
  ASSUME IInv, NEW w \in Writers, NEW from \in {"verify", "stat", "create"},
         FailsAt(w, from)
  PROVE  IInv'
  BY DEF IInv, TypeOK, NamesDistinct, NoLitter, NamesHeld, Progress, ModeCarried,
     Looked, Unanswered, DestinationWhole,
     PCs, Owning, Goes, Answers, FailsAt

\* A call that goes on to remove its temporary file.
LEMMA DiscardsFromInv ==
  ASSUME IInv, NEW w \in Writers,
         NEW from \in {"write", "sync", "close", "chmod", "rename"},
         DiscardsFrom(w, from)
  PROVE  IInv'
  BY DEF IInv, TypeOK, NamesDistinct, NoLitter, NamesHeld, Progress, ModeCarried,
     Looked, Unanswered, DestinationWhole,
     PCs, Owning, Goes, locals, DiscardsFrom

\* A new call.
LEMMA RenderInv == ASSUME IInv, NEW w \in Writers, Render(w) PROVE IInv'
  BY DEF IInv, TypeOK, NamesDistinct, NoLitter, NamesHeld, Progress, ModeCarried,
     Looked, Unanswered, DestinationWhole,
     PCs, Owning, Goes, Answers, locals, Render

\* The round trip is proved before the destination is looked at.
LEMMA VerifyInv == ASSUME IInv, NEW w \in Writers, Verify(w) PROVE IInv'
<1>1. CASE out[w] \in Sound /\ Goes(w, "verify", "stat")
           /\ UNCHANGED <<dest, tmp, locals, result>>
  BY <1>1 DEF IInv, TypeOK, NamesDistinct, NoLitter, NamesHeld, Progress, ModeCarried,
     Looked, Unanswered, DestinationWhole,
     PCs, Owning, Goes, locals
<1>2. CASE FailsAt(w, "verify")
  BY <1>2, FailsAtInv
<1>3. QED
  BY <1>1, <1>2 DEF Verify

\* The destination's mode is read once.
LEMMA StatInv == ASSUME IInv, NEW w \in Writers, Stat(w) PROVE IInv'
<1>1. (IF dest # NoFile THEN dest.mode.perm ELSE NewPerm) \in Perms
  BY DEF IInv, TypeOK, Files, Modes
<1>2. TypeOK'
  BY <1>1 DEF IInv, TypeOK, PCs, Owning, Goes, Stat
<1>3. NamesDistinct' /\ NoLitter' /\ NamesHeld' /\ Progress' /\ Unanswered'
      /\ DestinationWhole'
  BY DEF IInv, TypeOK, NamesDistinct, NoLitter, NamesHeld, Progress, Unanswered,
     DestinationWhole, Owning, Goes, Stat
<1>4. ModeCarried'
  BY DEF IInv, TypeOK, ModeCarried, Looked, Owning, Goes, Stat
<1>5. QED
  BY <1>2, <1>3, <1>4 DEF IInv

\* A name nobody has becomes this call's.
LEMMA CreateInv ==
  ASSUME IInv, NEW w \in Writers, NEW n \in Names, Create(w, n) PROVE IInv'
<1> DEFINE f == [data |-> Nothing, mode |-> Created(w, perm[w])]
<1>1. f \in Files /\ f # NoFile
  <2>1. Created(w, perm[w]) \in Modes
    BY DEF IInv, TypeOK, Created, Plain, Modes
  <2>2. QED
    BY <2>1 DEF Files, Data
<1>2. /\ tmp' = [tmp EXCEPT ![n] = f] /\ name' = [name EXCEPT ![w] = n]
      /\ pc' = [pc EXCEPT ![w] = "write"] /\ tmp[n] = NoFile /\ pc[w] = "create"
      /\ UNCHANGED <<dest, out, perm, existed, attempt, result>>
  BY DEF Create, Goes
<1>3. \A v \in Writers : name[v] # n
  BY <1>2 DEF IInv, NamesHeld, TypeOK
<1> HIDE DEF f
<1>4. TypeOK'
  BY <1>1, <1>2 DEF IInv, TypeOK, PCs, Owning
<1>5. NamesDistinct'
  BY <1>2, <1>3 DEF IInv, TypeOK, NamesDistinct
<1>6. NoLitter'
  <2> SUFFICES ASSUME NEW m \in Names, tmp'[m] # NoFile
               PROVE \E v \in Writers : name'[v] = m /\ pc'[v] \in Owning \cup {"dead"}
    BY DEF NoLitter
  <2>1. CASE m = n
    BY <1>2, <2>1 DEF IInv, TypeOK, Owning
  <2>2. CASE m # n
    <3>1. PICK v \in Writers : name[v] = m /\ pc[v] \in Owning \cup {"dead"}
      BY <1>2, <2>2 DEF IInv, TypeOK, NoLitter
    <3>2. QED
      BY <1>2, <3>1 DEF IInv, TypeOK, Owning
  <2>3. QED
    BY <2>1, <2>2
<1>7. NamesHeld'
  BY <1>1, <1>2, <1>3 DEF IInv, TypeOK, NamesHeld, Owning
<1>8. Progress'
  BY <1>2, <1>3 DEF IInv, TypeOK, NamesHeld, Progress, Owning
<1>9. ModeCarried'
  BY <1>2, <1>3 DEF IInv, TypeOK, NamesHeld, ModeCarried, Looked, Owning
<1>10. Unanswered' /\ DestinationWhole'
  BY <1>2 DEF IInv, TypeOK, Unanswered, DestinationWhole
<1>11. QED
  BY <1>4, <1>5, <1>6, <1>7, <1>8, <1>9, <1>10 DEF IInv

\* A name somebody has costs an attempt.
LEMMA NameTakenInv ==
  ASSUME IInv, NEW w \in Writers, NEW n \in Names, NameTaken(w, n) PROVE IInv'
<1>1. attempt' \in [Writers -> 0..MaxAttempts]
  BY DEF IInv, TypeOK, NameTaken
<1>2. QED
  BY <1>1 DEF IInv, TypeOK, NamesDistinct, NoLitter, NamesHeld, Progress, ModeCarried,
     Looked, Unanswered, DestinationWhole, NameTaken

\* A temporary file changes under its owner's hands only: data and mode may,
\* the file stays.
LEMMA TempStaysFile ==
  ASSUME IInv, NEW w \in Writers, pc[w] \in Owning
  PROVE  /\ name[w] \in Names
         /\ tmp[name[w]] \in Files
         /\ \A v \in Writers : v # w => name[v] # name[w]
  BY DEF IInv, TypeOK, NamesHeld, NamesDistinct

\* What a call stores in its temporary file leaves a file there, with the
\* same mode, and every other file alone.
LEMMA StoredFile ==
  ASSUME IInv, NEW w \in Writers, pc[w] \in Owning, NEW data \in Data, Stored(w, data)
  PROVE  /\ tmp' \in [Names -> Files \cup {NoFile}]
         /\ tmp'[name[w]].data = data
         /\ tmp'[name[w]].mode = tmp[name[w]].mode
         /\ tmp'[name[w]] \in Files
         /\ \A n \in Names : n # name[w] => tmp'[n] = tmp[n]
<1>1. name[w] \in Names /\ tmp[name[w]] \in Files
  BY TempStaysFile
<1>2. [tmp[name[w]] EXCEPT !.data = data] \in Files
  BY <1>1 DEF Files
<1>3. QED
  BY <1>1, <1>2 DEF IInv, TypeOK, Stored, Files

\* Writing part of the rendering.
LEMMA WriteSomeInv == ASSUME IInv, NEW w \in Writers, WriteSome(w) PROVE IInv'
<1>1. pc[w] = "write" /\ pc[w] \in Owning /\ Partial \in Data /\ Stored(w, Partial)
      /\ UNCHANGED <<dest, pc, out, perm, existed, name, attempt, result>>
  BY DEF WriteSome, Owning, Data, locals
<1>2. name[w] \in Names /\ \A v \in Writers : v # w => name[v] # name[w]
  BY <1>1, TempStaysFile
<1>3. /\ tmp' \in [Names -> Files \cup {NoFile}]
      /\ tmp'[name[w]].mode = tmp[name[w]].mode
      /\ tmp'[name[w]] # NoFile /\ tmp[name[w]] # NoFile
      /\ \A n \in Names : n # name[w] => tmp'[n] = tmp[n]
  BY <1>1, TempStaysFile, StoredFile
<1>4. TypeOK' /\ NamesDistinct' /\ Unanswered' /\ DestinationWhole'
  BY <1>1, <1>3 DEF IInv, TypeOK, NamesDistinct, Unanswered, DestinationWhole
<1>5. NoLitter' /\ NamesHeld'
  BY <1>1, <1>2, <1>3 DEF IInv, TypeOK, NoLitter, NamesHeld
<1>6. Progress'
  BY <1>1, <1>2, <1>3 DEF IInv, TypeOK, NamesHeld, Progress, Owning
<1>7. ModeCarried'
  BY <1>1, <1>2, <1>3 DEF IInv, TypeOK, NamesHeld, ModeCarried, Looked, Owning
<1>8. QED
  BY <1>4, <1>5, <1>6, <1>7 DEF IInv

\* Writing the rest: the temporary file holds the whole rendering.
LEMMA WriteAllInv == ASSUME IInv, NEW w \in Writers, WriteAll(w) PROVE IInv'
<1>1. /\ pc[w] = "write" /\ pc[w] \in Owning /\ out[w] \in Data /\ Stored(w, out[w])
      /\ pc' = [pc EXCEPT ![w] = "sync"]
      /\ UNCHANGED <<dest, out, perm, existed, name, attempt, result>>
  BY DEF IInv, TypeOK, WriteAll, Goes, Owning, Data, locals
<1>2. name[w] \in Names /\ \A v \in Writers : v # w => name[v] # name[w]
  BY <1>1, TempStaysFile
<1>3. /\ tmp' \in [Names -> Files \cup {NoFile}]
      /\ tmp'[name[w]].data = out[w]
      /\ tmp'[name[w]].mode = tmp[name[w]].mode
      /\ tmp'[name[w]] # NoFile /\ tmp[name[w]] # NoFile
      /\ \A n \in Names : n # name[w] => tmp'[n] = tmp[n]
  BY <1>1, TempStaysFile, StoredFile
<1>4. TypeOK' /\ NamesDistinct' /\ Unanswered' /\ DestinationWhole'
  BY <1>1, <1>3 DEF IInv, TypeOK, NamesDistinct, Unanswered, DestinationWhole, PCs, Owning
<1>5. NoLitter' /\ NamesHeld'
  BY <1>1, <1>2, <1>3 DEF IInv, TypeOK, NoLitter, NamesHeld, Owning
<1>6. Progress'
  BY <1>1, <1>2, <1>3 DEF IInv, TypeOK, NamesHeld, Progress, Owning
<1>7. ModeCarried'
  BY <1>1, <1>2, <1>3 DEF IInv, TypeOK, NamesHeld, ModeCarried, Looked, Owning
<1>8. QED
  BY <1>4, <1>5, <1>6, <1>7 DEF IInv

\* The bytes reach the disk.
LEMMA SyncInv == ASSUME IInv, NEW w \in Writers, Sync(w) PROVE IInv'
  BY DEF IInv, TypeOK, NamesDistinct, NoLitter, NamesHeld, Progress, ModeCarried,
     Looked, Unanswered, DestinationWhole,
     PCs, Owning, Goes, Answers, locals, Sync

\* The file is closed; an existing destination's mode is still to be set.
LEMMA CloseInv == ASSUME IInv, NEW w \in Writers, Close(w) PROVE IInv'
  BY DEF IInv, TypeOK, NamesDistinct, NoLitter, NamesHeld, Progress, ModeCarried,
     Looked, Unanswered, DestinationWhole,
     PCs, Owning, Goes, Answers, locals, Close

\* A death leaves the directory as it stands.
LEMMA DieInv == ASSUME IInv, NEW w \in Writers, Die(w) PROVE IInv'
  BY DEF IInv, TypeOK, NamesDistinct, NoLitter, NamesHeld, Progress, ModeCarried,
     Looked, Unanswered, DestinationWhole,
     PCs, Owning, Goes, Answers, locals, Die

\* The temporary file takes the destination's mode.
LEMMA ChmodInv == ASSUME IInv, NEW w \in Writers, Chmod(w) PROVE IInv'
<1>1. /\ pc[w] = "chmod" /\ pc[w] \in Owning
      /\ tmp' = [tmp EXCEPT ![name[w]].mode = Plain(perm[w])]
      /\ pc' = [pc EXCEPT ![w] = "rename"]
      /\ UNCHANGED <<dest, out, perm, existed, name, attempt, result>>
  BY DEF Chmod, Goes, Owning, locals
<1>2. name[w] \in Names /\ \A v \in Writers : v # w => name[v] # name[w]
  BY <1>1, TempStaysFile
<1>3. [tmp[name[w]] EXCEPT !.mode = Plain(perm[w])] \in Files /\ tmp[name[w]] \in Files
  <2>1. Plain(perm[w]) \in Modes
    BY DEF IInv, TypeOK, Plain, Modes
  <2>2. QED
    BY <1>1, <2>1, TempStaysFile DEF Files
<1>4. /\ tmp' \in [Names -> Files \cup {NoFile}]
      /\ tmp'[name[w]].data = tmp[name[w]].data
      /\ tmp'[name[w]].mode = Plain(perm[w])
      /\ tmp'[name[w]] # NoFile /\ tmp[name[w]] # NoFile
      /\ \A n \in Names : n # name[w] => tmp'[n] = tmp[n]
  BY <1>1, <1>2, <1>3 DEF IInv, TypeOK, Files
<1>5. TypeOK' /\ NamesDistinct' /\ Unanswered' /\ DestinationWhole'
  BY <1>1, <1>4 DEF IInv, TypeOK, NamesDistinct, Unanswered, DestinationWhole, PCs, Owning
<1>6. NoLitter' /\ NamesHeld'
  BY <1>1, <1>2, <1>4 DEF IInv, TypeOK, NoLitter, NamesHeld, Owning
<1>7. Progress'
  BY <1>1, <1>2, <1>4 DEF IInv, TypeOK, NamesHeld, Progress, Owning
<1>8. ModeCarried'
  BY <1>1, <1>2, <1>4 DEF IInv, TypeOK, NamesHeld, ModeCarried, Looked, Owning
<1>9. QED
  BY <1>5, <1>6, <1>7, <1>8 DEF IInv

\* A temporary file that goes away goes with its owner's name for it.
LEMMA GoneFile ==
  ASSUME IInv, NEW w \in Writers, pc[w] \in Owning,
         tmp' = [tmp EXCEPT ![name[w]] = NoFile],
         name' = [name EXCEPT ![w] = NoName],
         pc' = [pc EXCEPT ![w] = "idle"]
  PROVE  NamesDistinct' /\ NoLitter' /\ NamesHeld'
<1>1. name[w] \in Names /\ \A v \in Writers : v # w => name[v] # name[w]
  BY TempStaysFile
<1>2. NamesDistinct'
  BY DEF IInv, TypeOK, NamesDistinct
<1>3. NoLitter'
  <2> SUFFICES ASSUME NEW m \in Names, tmp'[m] # NoFile
               PROVE \E v \in Writers : name'[v] = m /\ pc'[v] \in Owning \cup {"dead"}
    BY DEF NoLitter
  <2>1. m # name[w] /\ tmp[m] # NoFile
    BY <1>1 DEF IInv, TypeOK
  <2>2. PICK v \in Writers : name[v] = m /\ pc[v] \in Owning \cup {"dead"}
    BY <2>1 DEF IInv, NoLitter
  <2>3. QED
    BY <2>1, <2>2 DEF IInv, TypeOK
<1>4. NamesHeld'
  BY <1>1 DEF IInv, TypeOK, NamesHeld, Owning
<1>5. QED
  BY <1>2, <1>3, <1>4

\* The temporary file of a failed call is removed.
LEMMA RemoveInv == ASSUME IInv, NEW w \in Writers, Remove(w) PROVE IInv'
<1>1. /\ pc[w] = "discard" /\ pc[w] \in Owning
      /\ tmp' = [tmp EXCEPT ![name[w]] = NoFile]
      /\ name' = [name EXCEPT ![w] = NoName]
      /\ pc' = [pc EXCEPT ![w] = "idle"]
      /\ result' = [result EXCEPT ![w] = "failed"]
      /\ UNCHANGED <<dest, out, perm, existed, attempt>>
  BY DEF Remove, Goes, Answers, Owning
<1>2. name[w] \in Names /\ \A v \in Writers : v # w => name[v] # name[w]
  BY <1>1, TempStaysFile
<1>3. TypeOK' /\ Unanswered' /\ DestinationWhole'
  BY <1>1 DEF IInv, TypeOK, Unanswered, DestinationWhole, PCs
<1>4. NamesDistinct' /\ NoLitter' /\ NamesHeld'
  BY <1>1, GoneFile
<1>5. Progress'
  BY <1>1, <1>2 DEF IInv, TypeOK, NamesHeld, Progress, Owning
<1>6. ModeCarried'
  BY <1>1, <1>2 DEF IInv, TypeOK, NamesHeld, ModeCarried, Looked, Owning
<1>7. QED
  BY <1>3, <1>4, <1>5, <1>6 DEF IInv

\* What the rename installs: the whole sound rendering, under the permission
\* bits the call found if it found a destination.
LEMMA Installed ==
  ASSUME IInv, NEW w \in Writers, RenameOver(w)
  PROVE  /\ dest' \in Files
         /\ dest'.data = out[w] /\ out[w] \in Sound
         /\ existed[w] => dest'.mode = Plain(perm[w])
<1>1. pc[w] = "rename" /\ pc[w] \in Owning /\ dest' = tmp[name[w]]
  BY DEF RenameOver, Goes, Owning
<1>2. dest' \in Files
  BY <1>1, TempStaysFile
<1>3. dest'.data = out[w] /\ out[w] \in Sound
  BY <1>1 DEF IInv, Progress
<1>4. existed[w] => dest'.mode = Plain(perm[w])
  BY <1>1 DEF IInv, ModeCarried, Looked
<1>5. QED
  BY <1>2, <1>3, <1>4

\* The rename.
LEMMA RenameOverInv == ASSUME IInv, NEW w \in Writers, RenameOver(w) PROVE IInv'
<1>1. /\ pc[w] = "rename" /\ pc[w] \in Owning
      /\ tmp' = [tmp EXCEPT ![name[w]] = NoFile]
      /\ name' = [name EXCEPT ![w] = NoName]
      /\ pc' = [pc EXCEPT ![w] = "idle"]
      /\ result' = [result EXCEPT ![w] = "written"]
      /\ UNCHANGED <<out, perm, existed, attempt>>
  BY DEF RenameOver, Goes, Answers, Owning
<1>2. name[w] \in Names /\ \A v \in Writers : v # w => name[v] # name[w]
  BY <1>1, TempStaysFile
<1>3. TypeOK' /\ Unanswered' /\ DestinationWhole'
  BY <1>1, Installed DEF IInv, TypeOK, Unanswered, DestinationWhole, PCs
<1>4. NamesDistinct' /\ NoLitter' /\ NamesHeld'
  BY <1>1, GoneFile
<1>5. Progress'
  BY <1>1, <1>2 DEF IInv, TypeOK, NamesHeld, Progress, Owning
<1>6. ModeCarried'
  <2> SUFFICES ASSUME NEW v \in Writers, pc'[v] \in Looked, existed'[v]
               PROVE  /\ dest' # NoFile
                      /\ pc'[v] = "rename" => tmp'[name'[v]].mode = Plain(perm'[v])
    BY DEF ModeCarried
  <2>1. v # w /\ pc'[v] = pc[v] /\ name'[v] = name[v] /\ name[v] # name[w]
    BY <1>1, <1>2 DEF IInv, TypeOK, Looked
  <2>2. pc[v] = "rename" => tmp'[name[v]] = tmp[name[v]]
    BY <1>1, <2>1 DEF IInv, TypeOK, NamesHeld, Owning
  <2>3. dest' # NoFile
    BY Installed
  <2>4. QED
    BY <1>1, <2>1, <2>2, <2>3 DEF IInv, ModeCarried
<1>7. QED
  BY <1>3, <1>4, <1>5, <1>6 DEF IInv

\* Every step of one writer.
LEMMA NextInv == IInv /\ [Next]_vars => IInv'
<1> SUFFICES ASSUME IInv, [Next]_vars PROVE IInv'
  OBVIOUS
<1>1. CASE UNCHANGED vars
  BY <1>1 DEF IInv, TypeOK, NamesDistinct, NoLitter, NamesHeld, Progress, ModeCarried,
     Looked, Unanswered, DestinationWhole, vars
<1>2. CASE Next
  <2>1. PICK w \in Writers : Render(w) \/ Proceeds(w) \/ WriteSome(w) \/ Fails(w) \/ Die(w)
    BY <1>2 DEF Next
  <2>2. CASE Proceeds(w)
    <3>1. CASE \E n \in Names : Create(w, n) \/ NameTaken(w, n) \/ LastNameTaken(w, n)
      BY <3>1, CreateInv, NameTakenInv, FailsAtInv DEF LastNameTaken
    <3>2. QED
      BY <2>2, <3>1, VerifyInv, StatInv, WriteAllInv, SyncInv, CloseInv, ChmodInv,
         RenameOverInv, RemoveInv DEF Proceeds
  <2>3. CASE Fails(w)
    BY <2>3, FailsAtInv, DiscardsFromInv DEF Fails, StatFails, CreateFails, WriteFails,
       SyncFails, CloseFails, ChmodFails, RenameFails
  <2>4. QED
    BY <2>1, <2>2, <2>3, RenderInv, WriteSomeInv, DieInv
<1>3. QED
  BY <1>1, <1>2

\* The inductive invariant holds of every behaviour.
THEOREM Invariance == Spec => []IInv
  BY InitInv, NextInv, PTL DEF Spec

\* Types, for any number of writers.
THEOREM TypeCorrect == Spec => []TypeOK
  BY Invariance, PTL DEF IInv

\* The destination is always one whole sound rendering (writefile.go, "A
\* failure anywhere before the rename leaves the destination exactly as it
\* was").
THEOREM AlwaysWhole == Spec => []DestinationWhole
  BY Invariance, PTL DEF IInv

\* Only a writer that died leaves a temporary file behind.
THEOREM NothingLeft == Spec => []NoLitter
  BY Invariance, PTL DEF IInv

\* No two calls share a temporary file.
THEOREM Apart == Spec => []NamesDistinct
  BY Invariance, PTL DEF IInv

\* A step that changes the destination is a rename.
LEMMA OnlyRename ==
  ASSUME IInv, [Next]_vars, dest' # dest
  PROVE  \E w \in Writers : RenameOver(w)
<1>1. PICK w \in Writers : Render(w) \/ Proceeds(w) \/ WriteSome(w) \/ Fails(w) \/ Die(w)
  BY DEF Next, vars
<1>2. RenameOver(w)
  BY <1>1 DEF Render, Proceeds, WriteSome, Fails, Die, Verify, FailsAt, Stat, WriteAll,
     Sync, Close, Chmod, Remove, Create, NameTaken, LastNameTaken, StatFails, CreateFails,
     WriteFails, SyncFails, CloseFails, ChmodFails, RenameFails, DiscardsFrom
<1>3. QED
  BY <1>2

\* A call that may install a file has looked for the destination before, or
\* looks now.
LEMMA LooksOnce ==
  ASSUME IInv, [Next]_vars, NEW v \in Writers, pc'[v] \in Looked
  PROVE  \/ pc[v] \in Looked /\ existed'[v] = existed[v] /\ perm'[v] = perm[v]
         \/ Stat(v)
<1>1. CASE UNCHANGED vars
  BY <1>1 DEF vars
<1>2. CASE Next
  <2>1. PICK w \in Writers : Render(w) \/ Proceeds(w) \/ WriteSome(w) \/ Fails(w) \/ Die(w)
    BY <1>2 DEF Next
  <2>2. pc \in [Writers -> PCs] /\ existed \in [Writers -> BOOLEAN]
    BY DEF IInv, TypeOK
  <2>3. CASE Stat(w)
    <3>1. CASE v = w
      BY <2>3, <3>1
    <3>2. CASE v # w
      BY <2>2, <2>3, <3>2 DEF IInv, TypeOK, Stat, Goes
    <3>3. QED
      BY <3>1, <3>2
  <2>4. CASE ~Stat(w)
    <3>1. existed' = existed /\ perm' = perm
      BY <2>1, <2>4 DEF Render, Proceeds, WriteSome, Fails, Die, Verify, FailsAt, WriteAll,
         Sync, Close, Chmod, RenameOver, Remove, Create, NameTaken, LastNameTaken, StatFails,
         CreateFails, WriteFails, SyncFails, CloseFails, ChmodFails, RenameFails,
         DiscardsFrom, locals
    <3>2. pc'[v] = pc[v] \/ pc[v] \in Looked
      BY <2>1, <2>2, <2>4 DEF Render, Proceeds, WriteSome, Fails, Die, Verify, FailsAt,
         WriteAll, Sync, Close, Chmod, RenameOver, Remove, Create, NameTaken, LastNameTaken,
         StatFails, CreateFails, WriteFails, SyncFails, CloseFails, ChmodFails, RenameFails,
         DiscardsFrom, Goes, Looked
    <3>3. QED
      BY <3>1, <3>2
  <2>5. QED
    BY <2>3, <2>4
<1>3. QED
  BY <1>1, <1>2

\* What is settled stays so: what a call installs it found, and what a call
\* finds is settled.
LEMMA StaysSettled ==
  ASSUME IInv, [Next]_vars, NEW p \in Perms, Settled(p)
  PROVE  Settled(p)'
<1>1. dest' # NoFile /\ dest'.mode.perm = p
  <2>1. CASE dest' = dest
    BY <2>1 DEF Settled
  <2>2. CASE dest' # dest
    <3>1. PICK w \in Writers : RenameOver(w)
      BY <2>2, OnlyRename
    <3>2. existed[w] /\ perm[w] = p
      BY <3>1 DEF Settled, Looked, RenameOver, Goes
    <3>3. dest' \in Files /\ dest'.mode = Plain(p)
      BY <3>1, <3>2, Installed
    <3>4. QED
      BY <3>3 DEF Plain
  <2>3. QED
    BY <2>1, <2>2
<1>2. ASSUME NEW v \in Writers, pc'[v] \in Looked
      PROVE  existed'[v] /\ perm'[v] = p
  <2>1. CASE pc[v] \in Looked /\ existed'[v] = existed[v] /\ perm'[v] = perm[v]
    BY <2>1 DEF Settled
  <2>2. CASE Stat(v)
    BY <2>2 DEF IInv, TypeOK, Settled, Stat
  <2>3. QED
    BY <1>2, <2>1, <2>2, LooksOnce
<1>3. QED
  BY <1>1, <1>2 DEF Settled

\* A destination that every call under way found with the same permission bits
\* keeps them for ever, whatever the umasks (writefile.go, "The destination's
\* file mode is preserved when it already exists").
THEOREM KeepsMode == Spec => ModeKept
<1>1. IInv /\ [Next]_vars => [\A p \in Perms : Settled(p) => Settled(p)']_vars
  BY StaysSettled
<1>2. QED
  BY <1>1, Invariance, PTL DEF Spec, ModeKept

\* Each step calls, installs, fails or stutters.
LEMMA StepRefines ==
  IInv /\ [Next]_vars => [Atomic!Next]_<<Content, out, result>>
<1> SUFFICES ASSUME IInv, [Next]_vars, ~UNCHANGED <<Content, out, result>>
             PROVE Atomic!Next
  OBVIOUS
<1>1. PICK w \in Writers : Render(w) \/ Proceeds(w) \/ WriteSome(w) \/ Fails(w) \/ Die(w)
  BY DEF Next, vars, Content
<1>2. \/ Render(w) \/ RenameOver(w) \/ Remove(w)
      \/ \E from \in {"verify", "stat", "create"} : FailsAt(w, from)
  BY <1>1 DEF Proceeds, WriteSome, Fails, Die, Verify, Stat, WriteAll, Sync, Close,
     Chmod, Create, NameTaken, LastNameTaken, StatFails, CreateFails, WriteFails,
     SyncFails, CloseFails, ChmodFails, RenameFails, DiscardsFrom, locals, Content
<1>3. CASE Render(w)
  BY <1>3 DEF Render, Answers, Atomic!Next, Atomic!Call, Content
<1>4. CASE RenameOver(w)
  <2>1. result[w] = "none" /\ result' = [result EXCEPT ![w] = "written"] /\ out' = out
    BY <1>4 DEF IInv, Unanswered, RenameOver, Goes, Answers
  <2>2. out[w] \in Sound /\ Content' = out[w]
    BY <1>4, Installed DEF Content
  <2>3. QED
    BY <2>1, <2>2 DEF Atomic!Next, Atomic!Install
<1>5. CASE Remove(w)
  BY <1>5 DEF IInv, Unanswered, Remove, Goes, Answers, Atomic!Next, Atomic!Fail, Content
<1>6. CASE \E from \in {"verify", "stat", "create"} : FailsAt(w, from)
  BY <1>6 DEF IInv, Unanswered, FailsAt, Goes, Answers, Atomic!Next, Atomic!Fail, Content
<1>7. QED
  BY <1>2, <1>3, <1>4, <1>5, <1>6

\* WriteFile implements an atomic file.
THEOREM WriteIsAtomic == Spec => ImplementsAtomic
<1>1. Init => Atomic!Init
  BY DEF Init, Atomic!Init
<1>2. QED
  BY <1>1, StepRefines, Invariance, PTL DEF Spec, ImplementsAtomic, Atomic!Spec
=============================================================================

--------------------------- MODULE OutputFileProofs ---------------------------
(***************************************************************************)
(* Proofs about OutputFile: the five properties its run checks hold for    *)
(* any number of runs of makefemtofs, with and without --force, any files  *)
(* users put in the way, and any number of changes of the destination.     *)
(* The inductive invariant says what each program point knows of the bytes *)
(* of its run's file and of the version it made of the destination.        *)
(***************************************************************************)
EXTENDS OutputFile, TLAPS

\* what a run that has not begun left anywhere
Untouched(r) == content[r] = "none" /\ version[r] = 0

\* the file of r is complete, verified, and on the medium with its final mode
Whole(r) == content[r] = "image" /\ r \in synced

\* the bytes each program point can rely on; those of an ended run stay
BytesInv ==
  \A r \in Runs :
    /\ pc[r] = "start" => Untouched(r)
    /\ pc[r] = "sync" => content[r] = "image"
    /\ pc[r] \in {"recheck", "publish", "unlink", "parent"} => Whole(r)

\* every image the destination ever named, also before the last flush
WholeInv == \A k \in 1..Len(history) : history[k] \in Runs => Whole(history[k])

\* before the destination changed, a run has no version; from there to its end,
\* the version it made is one a power loss that stops it cannot outrun
VersionInv ==
  \A r \in Runs :
    /\ pc[r] \in {"write", "sync", "recheck", "publish"} => version[r] = 0
    /\ pc[r] \in {"unlink", "parent"} =>
         version[r] \in 1..Len(history) /\ history[version[r]] = r
    /\ outcome[r] # "none" => pc[r] = "ended"

\* only a run that made a file has a temporary name, and one that is still
\* going has none once it published
TempInv ==
  /\ \A r \in temp : content[r] # "none"
  /\ \A r \in Runs : pc[r] = "parent" => r \in published
  /\ \A r \in published : pc[r] # "ended" => r \notin temp

FileInv ==
  /\ TypeOK /\ BytesInv /\ WholeInv /\ VersionInv /\ TempInv
  /\ NeverClobbered /\ ReportedIsDurable

-----------------------------------------------------------------------------
(* The destination's versions: rename, link and the users add one, a power *)
(* loss cuts off those that were not flushed.                              *)

Files == Runs \cup DOMAIN Foreign \cup {NONE}

\* A move of the destination keeps every version before it.
LEMMA Moved ==
  ASSUME history \in Seq(Files), NEW f \in Files, Point(f)
  PROVE  /\ history' \in Seq(Files)
         /\ Len(history) \in Nat /\ Len(history) <= MaxMoves
         /\ Len(history') = Len(history) + 1
         /\ \A k \in 1..Len(history) : history'[k] = history[k]
         /\ history'[Len(history')] = f
         /\ \A k \in 1..Len(history') : k \in 1..Len(history) \/ k = Len(history')
<1>1. history' = Append(history, f) /\ Len(history) <= MaxMoves /\ Len(history) \in Nat
  BY DEF Point
<1>2. Len(history') = Len(history) + 1 /\ history' \in Seq(Files)
  BY <1>1
<1>3. \A k \in 1..Len(history) : history'[k] = history[k]
  BY <1>1
<1>4. history'[Len(history')] = f
  BY <1>1
<1> QED BY <1>1, <1>2, <1>3, <1>4

\* A power loss takes the destination back to a version since the last flush,
\* and changes none of those that remain.
LEMMA Cut ==
  ASSUME history \in Seq(Files), stable \in 1..Len(history),
         NEW k \in stable..Len(history), history' = SubSeq(history, 1, k)
  PROVE  /\ history' \in Seq(Files)
         /\ k \in Nat /\ k >= 1 /\ k <= Len(history)
         /\ Len(history') = k
         /\ \A i \in 1..k : history'[i] = history[i] /\ i \in 1..Len(history)
<1>1. Len(history) \in Nat /\ k \in Nat /\ k >= 1 /\ k <= Len(history)
  OBVIOUS
<1>2. \A i \in 1..k : history[i] \in Files
  BY <1>1
<1>3. Len(history') = k /\ \A i \in 1..k : history'[i] = history[i]
  BY <1>1
<1>4. history' \in Seq(Files)
  BY <1>1, <1>2
<1> QED BY <1>1, <1>3, <1>4

\* A move by someone who is forced, or is no run, or who found no destination,
\* clobbers nothing.
LEMMA MoveClobbersNothing ==
  ASSUME history \in Seq(Files), NeverClobbered, NEW f \in Files, Point(f),
         f \in Runs \ Forced => Out = NONE
  PROVE  NeverClobbered'
<1>1. ASSUME NEW k \in 2..Len(history'), history'[k] \in Runs \ Forced
      PROVE  history'[k - 1] = NONE
  <2>1. k \in Int /\ k - 1 \in 1..Len(history) /\ history'[k - 1] = history[k - 1]
    BY Moved
  <2>2. CASE k \in 1..Len(history)
    <3>1. k \in 2..Len(history) /\ history'[k] = history[k]
      BY <2>2, Moved
    <3> QED BY <1>1, <2>1, <3>1 DEF NeverClobbered
  <2>3. CASE k = Len(history')
    BY <1>1, <2>1, <2>3, Moved DEF Out
  <2> QED BY <2>2, <2>3, Moved
<1> QED BY <1>1 DEF NeverClobbered

-----------------------------------------------------------------------------
(* The inductive invariant, action by action.                              *)

\* Every step of a run keeps the invariant.
LEMMA RunStep ==
  ASSUME FileInv, NEW r \in Runs, Step(r)
  PROVE  FileInv'
<1> USE NoneAssumption, RunsAssumption, MovesAssumption
<1> USE DEF TypeOK, PCs, Files, names, bytes, run, Goto, End, Only
<1>1. ASSUME Refuse(r) PROVE FileInv'
  <2>1. TypeOK'
    BY <1>1 DEF FileInv, Refuse
  <2>2. BytesInv'
    BY <1>1 DEF FileInv, Refuse, BytesInv, Untouched, Whole
  <2>3. WholeInv'
    BY <1>1 DEF FileInv, Refuse, WholeInv, BytesInv, Untouched, Whole
  <2>4. VersionInv'
    BY <1>1 DEF FileInv, Refuse, VersionInv
  <2>5. TempInv'
    BY <1>1 DEF FileInv, Refuse, TempInv, BytesInv, VersionInv, Untouched
  <2>6. NeverClobbered'
    BY <1>1 DEF FileInv, Refuse, NeverClobbered
  <2>7. ReportedIsDurable'
    BY <1>1 DEF FileInv, Refuse, ReportedIsDurable, VersionInv
  <2> QED BY <2>1, <2>2, <2>3, <2>4, <2>5, <2>6, <2>7 DEF FileInv
<1>2. ASSUME MakeTemp(r) PROVE FileInv'
  <2>1. TypeOK'
    BY <1>2 DEF FileInv, MakeTemp
  <2>2. BytesInv'
    BY <1>2 DEF FileInv, MakeTemp, BytesInv, Untouched, Whole
  <2>3. WholeInv'
    BY <1>2 DEF FileInv, MakeTemp, WholeInv, BytesInv, Untouched, Whole
  <2>4. VersionInv'
    BY <1>2 DEF FileInv, MakeTemp, BytesInv, Untouched, VersionInv
  <2>5. TempInv'
    BY <1>2 DEF FileInv, MakeTemp, TempInv, BytesInv, VersionInv, Untouched
  <2>6. NeverClobbered'
    BY <1>2 DEF FileInv, MakeTemp, NeverClobbered
  <2>7. ReportedIsDurable'
    BY <1>2 DEF FileInv, MakeTemp, ReportedIsDurable, VersionInv
  <2> QED BY <2>1, <2>2, <2>3, <2>4, <2>5, <2>6, <2>7 DEF FileInv
<1>3. ASSUME WriteImage(r) PROVE FileInv'
  <2>1. TypeOK'
    BY <1>3 DEF FileInv, WriteImage
  <2>2. BytesInv'
    BY <1>3 DEF FileInv, WriteImage, BytesInv, Untouched, Whole
  <2>3. WholeInv'
    BY <1>3 DEF FileInv, WriteImage, WholeInv, BytesInv, Untouched, Whole
  <2>4. VersionInv'
    BY <1>3 DEF FileInv, WriteImage, VersionInv
  <2>5. TempInv'
    BY <1>3 DEF FileInv, WriteImage, TempInv, BytesInv, VersionInv, Untouched
  <2>6. NeverClobbered'
    BY <1>3 DEF FileInv, WriteImage, NeverClobbered
  <2>7. ReportedIsDurable'
    BY <1>3 DEF FileInv, WriteImage, ReportedIsDurable, VersionInv
  <2> QED BY <2>1, <2>2, <2>3, <2>4, <2>5, <2>6, <2>7 DEF FileInv
<1>4. ASSUME SyncFile(r) PROVE FileInv'
  <2>1. TypeOK'
    BY <1>4 DEF FileInv, SyncFile
  <2>2. BytesInv'
    BY <1>4 DEF FileInv, SyncFile, BytesInv, Untouched, Whole
  <2>3. WholeInv'
    BY <1>4 DEF FileInv, SyncFile, WholeInv, BytesInv, Untouched, Whole
  <2>4. VersionInv'
    BY <1>4 DEF FileInv, SyncFile, VersionInv
  <2>5. TempInv'
    BY <1>4 DEF FileInv, SyncFile, TempInv, BytesInv, VersionInv, Untouched
  <2>6. NeverClobbered'
    BY <1>4 DEF FileInv, SyncFile, NeverClobbered
  <2>7. ReportedIsDurable'
    BY <1>4 DEF FileInv, SyncFile, ReportedIsDurable, VersionInv
  <2> QED BY <2>1, <2>2, <2>3, <2>4, <2>5, <2>6, <2>7 DEF FileInv
<1>5. ASSUME Recheck(r) PROVE FileInv'
  <2>1. TypeOK'
    BY <1>5 DEF FileInv, Recheck
  <2>2. BytesInv'
    BY <1>5 DEF FileInv, Recheck, BytesInv, Untouched, Whole
  <2>3. WholeInv'
    BY <1>5 DEF FileInv, Recheck, WholeInv, BytesInv, Untouched, Whole
  <2>4. VersionInv'
    BY <1>5 DEF FileInv, Recheck, VersionInv
  <2>5. TempInv'
    BY <1>5 DEF FileInv, Recheck, TempInv, BytesInv, VersionInv, Untouched
  <2>6. NeverClobbered'
    BY <1>5 DEF FileInv, Recheck, NeverClobbered
  <2>7. ReportedIsDurable'
    BY <1>5 DEF FileInv, Recheck, ReportedIsDurable, VersionInv
  <2> QED BY <2>1, <2>2, <2>3, <2>4, <2>5, <2>6, <2>7 DEF FileInv
<1>6. ASSUME Rename(r) PROVE FileInv'
  <2>1. CASE pc[r] = "publish" /\ Only(r, "failed") /\ UNCHANGED names /\ UNCHANGED bytes
    <3>1. TypeOK'
      BY <2>1 DEF FileInv
    <3>2. BytesInv'
      BY <2>1 DEF FileInv, BytesInv, Untouched, Whole
    <3>3. WholeInv'
      BY <2>1 DEF FileInv, WholeInv, BytesInv, Untouched, Whole
    <3>4. VersionInv'
      BY <2>1 DEF FileInv, VersionInv
    <3>5. TempInv'
      BY <2>1 DEF FileInv, TempInv, BytesInv, VersionInv, Untouched
    <3>6. NeverClobbered'
      BY <2>1 DEF FileInv, NeverClobbered
    <3>7. ReportedIsDurable'
      BY <2>1 DEF FileInv, ReportedIsDurable, VersionInv
    <3> QED BY <3>1, <3>2, <3>3, <3>4, <3>5, <3>6, <3>7 DEF FileInv
  <2>2. CASE /\ Point(r) /\ temp' = temp \ {r}
             /\ version' = [version EXCEPT ![r] = Len(history')]
             /\ published' = published \cup {r}
             /\ Goto(r, "parent") /\ UNCHANGED <<stable, outcome, stuck, content, synced>>
    <3>0. /\ history' \in Seq(Files)
          /\ Len(history) \in Nat /\ Len(history) <= MaxMoves
          /\ Len(history') = Len(history) + 1
          /\ \A k \in 1..Len(history) : history'[k] = history[k]
          /\ history'[Len(history')] = r
          /\ \A k \in 1..Len(history') : k \in 1..Len(history) \/ k = Len(history')
      BY <2>2, Moved DEF FileInv
    <3>8. version'[r] \in 0..MaxMoves + 1 /\ version'[r] # 0 /\ stable \in 1..Len(history')
      BY <2>2, <3>0 DEF FileInv
    <3>9. \A u \in Runs : outcome'[u] = "ok" =>
            outcome[u] = "ok" /\ u # r /\ version'[u] = version[u] /\ version[u] \in 1..Len(history)
      BY <1>6, <2>2, <3>0 DEF FileInv, Rename, VersionInv, ReportedIsDurable
    <3>1. TypeOK'
      BY <2>2, <3>0, <3>8 DEF FileInv
    <3>2. BytesInv'
      BY <1>6, <2>2, <3>0 DEF FileInv, Rename, BytesInv, Untouched, Whole
    <3>3. WholeInv'
      <4>1. Whole(r)
        BY <1>6 DEF FileInv, Rename, BytesInv
      <4>2. \A k \in 1..Len(history) : history[k] \in Runs => Whole(history[k])
        BY DEF FileInv, WholeInv
      <4>3. ASSUME NEW k \in 1..Len(history'), history'[k] \in Runs
            PROVE  Whole(history'[k])
        <5>1. CASE k \in 1..Len(history)
          BY <3>0, <4>2, <4>3, <5>1
        <5>2. CASE k = Len(history')
          BY <3>0, <4>1, <5>2
        <5> QED BY <3>0, <5>1, <5>2
      <4> QED BY <2>2, <4>3 DEF WholeInv, Whole
    <3>4. VersionInv'
      BY <1>6, <2>2, <3>0 DEF FileInv, Rename, VersionInv
    <3>5. TempInv'
      BY <1>6, <2>2, <3>0 DEF FileInv, Rename, TempInv, BytesInv, VersionInv, Untouched
    <3>6. NeverClobbered'
      BY <1>6, <2>2, MoveClobbersNothing DEF FileInv, Rename
    <3>7. ReportedIsDurable'
      BY <2>2, <3>0, <3>9 DEF FileInv, ReportedIsDurable
    <3> QED BY <3>1, <3>2, <3>3, <3>4, <3>5, <3>6, <3>7 DEF FileInv
  <2> QED BY <1>6, <2>1, <2>2 DEF Rename
<1>7. ASSUME Link(r) PROVE FileInv'
  <2>1. CASE pc[r] = "publish" /\ Only(r, "failed") /\ UNCHANGED names /\ UNCHANGED bytes
    <3>1. TypeOK'
      BY <2>1 DEF FileInv
    <3>2. BytesInv'
      BY <2>1 DEF FileInv, BytesInv, Untouched, Whole
    <3>3. WholeInv'
      BY <2>1 DEF FileInv, WholeInv, BytesInv, Untouched, Whole
    <3>4. VersionInv'
      BY <2>1 DEF FileInv, VersionInv
    <3>5. TempInv'
      BY <2>1 DEF FileInv, TempInv, BytesInv, VersionInv, Untouched
    <3>6. NeverClobbered'
      BY <2>1 DEF FileInv, NeverClobbered
    <3>7. ReportedIsDurable'
      BY <2>1 DEF FileInv, ReportedIsDurable, VersionInv
    <3> QED BY <3>1, <3>2, <3>3, <3>4, <3>5, <3>6, <3>7 DEF FileInv
  <2>2. CASE /\ Point(r) /\ version' = [version EXCEPT ![r] = Len(history')]
             /\ Goto(r, "unlink")
             /\ UNCHANGED <<stable, temp, published, outcome, stuck, content, synced>>
    <3>0. /\ history' \in Seq(Files)
          /\ Len(history) \in Nat /\ Len(history) <= MaxMoves
          /\ Len(history') = Len(history) + 1
          /\ \A k \in 1..Len(history) : history'[k] = history[k]
          /\ history'[Len(history')] = r
          /\ \A k \in 1..Len(history') : k \in 1..Len(history) \/ k = Len(history')
      BY <2>2, Moved DEF FileInv
    <3>8. version'[r] \in 0..MaxMoves + 1 /\ version'[r] # 0 /\ stable \in 1..Len(history')
      BY <2>2, <3>0 DEF FileInv
    <3>9. \A u \in Runs : outcome'[u] = "ok" =>
            outcome[u] = "ok" /\ u # r /\ version'[u] = version[u] /\ version[u] \in 1..Len(history)
      BY <1>7, <2>2, <3>0 DEF FileInv, Link, VersionInv, ReportedIsDurable
    <3>1. TypeOK'
      BY <2>2, <3>0, <3>8 DEF FileInv
    <3>2. BytesInv'
      BY <1>7, <2>2, <3>0 DEF FileInv, Link, BytesInv, Untouched, Whole
    <3>3. WholeInv'
      <4>1. Whole(r)
        BY <1>7 DEF FileInv, Link, BytesInv
      <4>2. \A k \in 1..Len(history) : history[k] \in Runs => Whole(history[k])
        BY DEF FileInv, WholeInv
      <4>3. ASSUME NEW k \in 1..Len(history'), history'[k] \in Runs
            PROVE  Whole(history'[k])
        <5>1. CASE k \in 1..Len(history)
          BY <3>0, <4>2, <4>3, <5>1
        <5>2. CASE k = Len(history')
          BY <3>0, <4>1, <5>2
        <5> QED BY <3>0, <5>1, <5>2
      <4> QED BY <2>2, <4>3 DEF WholeInv, Whole
    <3>4. VersionInv'
      BY <1>7, <2>2, <3>0 DEF FileInv, Link, VersionInv
    <3>5. TempInv'
      BY <1>7, <2>2, <3>0 DEF FileInv, Link, TempInv, BytesInv, VersionInv, Untouched
    <3>6. NeverClobbered'
      BY <1>7, <2>2, MoveClobbersNothing DEF FileInv, Link
    <3>7. ReportedIsDurable'
      BY <2>2, <3>0, <3>9 DEF FileInv, ReportedIsDurable
    <3> QED BY <3>1, <3>2, <3>3, <3>4, <3>5, <3>6, <3>7 DEF FileInv
  <2> QED BY <1>7, <2>1, <2>2 DEF Link
<1>8. ASSUME UnlinkTemp(r) PROVE FileInv'
  <2>1. TypeOK'
    BY <1>8, SMTT(30) DEF FileInv, UnlinkTemp, VersionInv
  <2>2. BytesInv'
    BY <1>8 DEF FileInv, UnlinkTemp, BytesInv, Untouched, Whole
  <2>3. WholeInv'
    BY <1>8 DEF FileInv, UnlinkTemp, WholeInv, BytesInv, Untouched, Whole
  <2>4. VersionInv'
    BY <1>8 DEF FileInv, UnlinkTemp, VersionInv
  <2>5. TempInv'
    BY <1>8 DEF FileInv, UnlinkTemp, TempInv, BytesInv, VersionInv, Untouched
  <2>6. NeverClobbered'
    BY <1>8 DEF FileInv, UnlinkTemp, NeverClobbered
  <2>7. ReportedIsDurable'
    BY <1>8 DEF FileInv, UnlinkTemp, ReportedIsDurable, VersionInv
  <2> QED BY <2>1, <2>2, <2>3, <2>4, <2>5, <2>6, <2>7 DEF FileInv
<1>9. ASSUME SyncParent(r) PROVE FileInv'
  <2>1. TypeOK'
    <3>1. Len(history) \in Nat /\ stable' \in 1..Len(history)
      BY <1>9 DEF FileInv, SyncParent
    <3> QED BY <1>9, <3>1 DEF FileInv, SyncParent
  <2>2. BytesInv'
    BY <1>9 DEF FileInv, SyncParent, BytesInv, Untouched, Whole
  <2>3. WholeInv'
    BY <1>9 DEF FileInv, SyncParent, WholeInv, BytesInv, Untouched, Whole
  <2>4. VersionInv'
    BY <1>9 DEF FileInv, SyncParent, VersionInv
  <2>5. TempInv'
    BY <1>9 DEF FileInv, SyncParent, TempInv, BytesInv, VersionInv, Untouched
  <2>6. NeverClobbered'
    BY <1>9 DEF FileInv, SyncParent, NeverClobbered
  <2>7. ReportedIsDurable'
    BY <1>9 DEF FileInv, SyncParent, ReportedIsDurable, VersionInv
  <2> QED BY <2>1, <2>2, <2>3, <2>4, <2>5, <2>6, <2>7 DEF FileInv
<1>10. ASSUME CleanUp(r) PROVE FileInv'
  <2>1. TypeOK'
    BY <1>10 DEF FileInv, CleanUp
  <2>2. BytesInv'
    BY <1>10 DEF FileInv, CleanUp, BytesInv, Untouched, Whole
  <2>3. WholeInv'
    BY <1>10 DEF FileInv, CleanUp, WholeInv, BytesInv, Untouched, Whole
  <2>4. VersionInv'
    BY <1>10 DEF FileInv, CleanUp, VersionInv
  <2>5. TempInv'
    BY <1>10 DEF FileInv, CleanUp, TempInv, BytesInv, VersionInv, Untouched
  <2>6. NeverClobbered'
    BY <1>10 DEF FileInv, CleanUp, NeverClobbered
  <2>7. ReportedIsDurable'
    BY <1>10 DEF FileInv, CleanUp, ReportedIsDurable, VersionInv
  <2> QED BY <2>1, <2>2, <2>3, <2>4, <2>5, <2>6, <2>7 DEF FileInv
<1> QED BY <1>1, <1>2, <1>3, <1>4, <1>5, <1>6, <1>7, <1>8, <1>9, <1>10 DEF Step

\* A user may put a file of theirs there, or remove what is there.
LEMMA UserStep ==
  ASSUME FileInv, UserMove
  PROVE  FileInv'
<1> USE NoneAssumption, MovesAssumption
<1> USE DEF TypeOK, PCs, Files, names, bytes, run
<1>1. PICK f \in DOMAIN Foreign \cup {NONE} : Point(f)
  BY DEF UserMove
<1>2. UNCHANGED <<stable, temp, bytes, run>>
  BY DEF UserMove
<1>3. /\ history' \in Seq(Files)
      /\ Len(history) \in Nat
      /\ Len(history') = Len(history) + 1
      /\ \A k \in 1..Len(history) : history'[k] = history[k]
      /\ history'[Len(history')] \notin Runs
      /\ \A k \in 1..Len(history') : k \in 1..Len(history) \/ k = Len(history')
  BY <1>1, Moved DEF FileInv
<1>4. TypeOK'
  BY <1>2, <1>3 DEF FileInv
<1>5. BytesInv'
  BY <1>2 DEF FileInv, BytesInv, Untouched, Whole
<1>6. WholeInv'
  BY <1>2, <1>3 DEF FileInv, WholeInv, Whole
<1>7. VersionInv'
  BY <1>2, <1>3 DEF FileInv, VersionInv
<1>8. TempInv'
  BY <1>2 DEF FileInv, TempInv
<1>9. NeverClobbered'
  BY <1>1, MoveClobbersNothing DEF FileInv
<1>10. ReportedIsDurable'
  <2>1. \A r \in Runs : outcome[r] = "ok" => version[r] \in 1..Len(history)
    BY <1>3 DEF FileInv, ReportedIsDurable
  <2> QED BY <1>2, <1>3, <2>1 DEF FileInv, ReportedIsDurable
<1> QED BY <1>4, <1>5, <1>6, <1>7, <1>8, <1>9, <1>10 DEF FileInv

\* A signal stops one run wherever it is.
LEMMA KillStep ==
  ASSUME FileInv, Kill
  PROVE  FileInv'
<1> USE DEF TypeOK, PCs, names, bytes, Running
<1>1. PICK r \in Running : Stop({r}) /\ UNCHANGED <<names, bytes>>
  BY DEF Kill
<1>2. r \in Runs /\ outcome[r] = "none"
  BY <1>1 DEF FileInv, VersionInv
<1>3. TypeOK'
  BY <1>1 DEF FileInv, Stop
<1>4. BytesInv'
  BY <1>1 DEF FileInv, Stop, BytesInv, Untouched, Whole
<1>5. WholeInv'
  BY <1>1 DEF FileInv, Stop, WholeInv, Whole
<1>6. VersionInv'
  BY <1>1 DEF FileInv, Stop, VersionInv
<1>7. TempInv'
  BY <1>1 DEF FileInv, Stop, TempInv
<1>8. NeverClobbered'
  BY <1>1 DEF FileInv, Stop, NeverClobbered
<1>9. ReportedIsDurable'
  BY <1>1 DEF FileInv, Stop, ReportedIsDurable
<1> QED BY <1>3, <1>4, <1>5, <1>6, <1>7, <1>8, <1>9 DEF FileInv

\* A power loss stops every run, cuts the destination's versions, and leaves any
\* of the temporary names that were not flushed.
LEMMA PowerLossStep ==
  ASSUME FileInv, PowerLoss
  PROVE  FileInv'
<1> USE DEF TypeOK, PCs, bytes, Running
<1>1. PICK k \in stable..Len(history) : history' = SubSeq(history, 1, k) /\ stable' = k
  BY DEF PowerLoss
<1>2. /\ Stop(Running) /\ UNCHANGED <<content, synced>>
      /\ temp' \in SUBSET {r \in Runs : content[r] # "none" /\ outcome[r] # "ok"}
  BY DEF PowerLoss
<1>3. /\ history' \in Seq(Files) /\ stable \in Nat /\ stable <= k
      /\ k \in Nat /\ k >= 1 /\ k <= Len(history) /\ Len(history') = k
      /\ \A i \in 1..k : history'[i] = history[i] /\ i \in 1..Len(history)
  BY <1>1, Cut DEF FileInv, Files
<1>4. \A r \in Runs : pc'[r] \in {"start", "ended"} /\ (pc'[r] = "start" <=> pc[r] = "start")
  BY <1>2 DEF FileInv, Stop
<1>5. TypeOK'
  BY <1>1, <1>2, <1>3 DEF FileInv, Stop, Files
<1>6. BytesInv'
  BY <1>2, <1>4 DEF FileInv, Stop, BytesInv, Untouched, Whole
<1>7. WholeInv'
  BY <1>2, <1>3 DEF FileInv, WholeInv, Whole
<1>8. VersionInv'
  BY <1>2, <1>4 DEF FileInv, Stop, VersionInv
<1>9. TempInv'
  BY <1>2, <1>4 DEF FileInv, Stop, TempInv, BytesInv, Untouched
<1>10. NeverClobbered'
  <2>1. \A i \in 2..k : i \in 1..k /\ i - 1 \in 1..k /\ i \in 2..Len(history)
    BY <1>3
  <2> QED BY <1>3, <2>1 DEF FileInv, NeverClobbered
<1>11. ReportedIsDurable'
  <2>1. ASSUME NEW r \in Runs, outcome'[r] = "ok"
        PROVE  version[r] \in 1..stable /\ history[version[r]] = r
    BY <1>2, <2>1 DEF FileInv, Stop, ReportedIsDurable
  <2>2. \A r \in Runs : version[r] \in 1..stable => version[r] \in 1..k
    BY <1>3
  <2> QED BY <1>1, <1>2, <1>3, <2>1, <2>2 DEF Stop, ReportedIsDurable
<1> QED BY <1>5, <1>6, <1>7, <1>8, <1>9, <1>10, <1>11 DEF FileInv

-----------------------------------------------------------------------------
(* The theorems.                                                           *)

LEMMA FileInductive == FileInv /\ [Next]_vars => FileInv'
<1> SUFFICES ASSUME FileInv, [Next]_vars PROVE FileInv'
  OBVIOUS
<1>1. CASE Next
  BY <1>1, RunStep, UserStep, KillStep, PowerLossStep DEF Next
<1>2. CASE UNCHANGED vars
  BY <1>2 DEF vars, names, bytes, run, FileInv, TypeOK, BytesInv, WholeInv, VersionInv,
              TempInv, NeverClobbered, ReportedIsDurable, Untouched, Whole
<1> QED BY <1>1, <1>2

LEMMA FileInvariant == Spec => []FileInv
<1>1. Init => FileInv
  <2> SUFFICES ASSUME Init PROVE FileInv
    OBVIOUS
  <2>1. Len(history) = 1 /\ history[1] \notin Runs /\ history \in Seq(Files)
    <3>1. PICK f \in DOMAIN Foreign \cup {NONE} : history = <<f>>
      BY DEF Init
    <3>2. f \in Files /\ f \notin Runs
      BY NoneAssumption DEF Files
    <3> QED BY <3>1, <3>2
  <2>2. TypeOK
    BY <2>1, MovesAssumption DEF Init, TypeOK, PCs, Files
  <2>3. BytesInv /\ VersionInv /\ TempInv
    BY DEF Init, BytesInv, VersionInv, TempInv, Untouched
  <2>4. WholeInv /\ NeverClobbered /\ ReportedIsDurable
    BY <2>1 DEF Init, WholeInv, NeverClobbered, ReportedIsDurable
  <2> QED BY <2>2, <2>3, <2>4 DEF FileInv
<1> QED BY <1>1, FileInductive, PTL DEF Spec

\* Whatever version of the destination is left after a power loss, an image that
\* makefemtofs put there is complete, verified and flushed with its final mode.
THEOREM PublishedStaysWhole == Spec => []PublishedIsWhole
<1>1. FileInv => PublishedIsWhole
  <2> SUFFICES ASSUME FileInv PROVE PublishedIsWhole
    OBVIOUS
  <2>1. \A k \in stable..Len(history) : k \in 1..Len(history)
    BY DEF FileInv, TypeOK
  <2> QED BY <2>1 DEF FileInv, PublishedIsWhole, WholeInv, Whole
<1> QED BY <1>1, FileInvariant, PTL

\* Without --force no run replaces a file that exists, whoever put it there and
\* whenever: link fails where rename would not.
THEOREM PlainNeverClobbers == Spec => []NeverClobbered
<1>1. FileInv => NeverClobbered
  BY DEF FileInv
<1> QED BY <1>1, FileInvariant, PTL

\* What makefemtofs reported as published survives every power loss that follows:
\* fsyncParent ran before the exit status.
THEOREM ReportStaysDurable == Spec => []ReportedIsDurable
<1>1. FileInv => ReportedIsDurable
  BY DEF FileInv
<1> QED BY <1>1, FileInvariant, PTL

\* A run that ends with a status of its own has no temporary file left, unless it
\* could not be removed.
THEOREM TempIsRemoved == Spec => NoStrayTemp
<1> DEFINE A == \A r \in Runs : outcome[r] = "none" /\ outcome'[r] \in {"ok", "error"} =>
                  r \notin temp' \/ r \in stuck'
<1>1. FileInv /\ [Next]_vars => [A]_vars
  <2> SUFFICES ASSUME FileInv, Next, NEW r \in Runs,
                      outcome[r] = "none", outcome'[r] \in {"ok", "error"}
               PROVE  r \notin temp' \/ r \in stuck'
    OBVIOUS
  <2> USE DEF FileInv, TypeOK, names, bytes, run, Goto, End, Only
  <2>1. ASSUME NEW u \in Runs, Step(u) PROVE r \notin temp' \/ r \in stuck'
    <3>1. CASE Refuse(u) \* no file yet
      BY <3>1 DEF Refuse, TempInv, BytesInv, Untouched
    <3>2. CASE SyncParent(u) \* the rename or unlink took the name
      BY <3>2 DEF SyncParent, TempInv
    <3>3. CASE CleanUp(u)
      BY <3>3 DEF CleanUp, TempInv
    <3>4. CASE MakeTemp(u) \/ WriteImage(u) \/ SyncFile(u) \/ Recheck(u) \/ UnlinkTemp(u)
      <4>1. outcome' = outcome
        BY <3>4 DEF MakeTemp, WriteImage, SyncFile, Recheck, UnlinkTemp
      <4> QED BY <4>1
    <3>5. CASE Rename(u) \/ Link(u)
      <4>1. outcome' = outcome
        BY <3>5 DEF Rename, Link
      <4> QED BY <4>1
    <3> QED BY <2>1, <3>1, <3>2, <3>3, <3>4, <3>5 DEF Step
  <2>2. CASE UserMove
    BY <2>2 DEF UserMove
  <2>3. CASE Kill
    BY <2>3 DEF Kill, Stop
  <2>4. CASE PowerLoss
    BY <2>4 DEF PowerLoss, Stop
  <2> QED BY <2>1, <2>2, <2>3, <2>4 DEF Next
<1> QED BY <1>1, FileInvariant, PTL DEF Spec, NoStrayTemp

\* An image that a run published stays until a user, a later rename or a power loss
\* takes it away: no failure of the run itself does, and no run without --force.
THEOREM PublishedIsKept == Spec => PublishedStays
<1> DEFINE A == \A r \in Runs : Out = r /\ Out' # r =>
                  UserMove \/ PowerLoss \/ \E f \in Forced \ {r} : Rename(f)
<1>1. FileInv /\ [Next]_vars => [A]_vars
  <2> SUFFICES ASSUME FileInv, Next, NEW r \in Runs, Out = r, Out' # r
               PROVE  UserMove \/ PowerLoss \/ \E f \in Forced \ {r} : Rename(f)
    OBVIOUS
  <2>1. history' # history
    BY DEF Out
  <2>2. r # NONE /\ history \in Seq(Files)
    BY NoneAssumption DEF FileInv, TypeOK, Files
  <2>3. ASSUME NEW u \in Runs, Step(u) PROVE \E f \in Forced \ {r} : Rename(f)
    <3>1. ~Link(u) \* link finds the destination there
      BY <2>1, <2>2 DEF Link, names
    <3>2. Rename(u)
      BY <2>1, <2>3, <3>1 DEF Step, Refuse, MakeTemp, WriteImage, SyncFile, Recheck,
         UnlinkTemp, SyncParent, CleanUp, names
    <3>3. Point(u)
      BY <2>1, <3>2 DEF Rename, names
    <3>4. Out' = u
      BY <2>2, <3>3, Moved DEF Out, Files
    <3> QED BY <3>2, <3>4 DEF Rename
  <2>4. ~Kill
    BY <2>1 DEF Kill, names
  <2> QED BY <2>3, <2>4 DEF Next
<1> QED BY <1>1, FileInvariant, PTL DEF Spec, PublishedStays
=============================================================================

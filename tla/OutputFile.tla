----------------------------- MODULE OutputFile -----------------------------
(***************************************************************************)
(* makefemtofs publishing an image under a file name: several runs, with   *)
(* and without --force, write temporary files beside the same destination  *)
(* and move them there, while users change the destination, calls fail,    *)
(* runs are killed and power is lost.                                      *)
(*                                                                         *)
(* The directory is external: link and rename are atomic, and after a      *)
(* power loss the destination is one of the versions it went through since *)
(* the directory was last flushed.                                         *)
(***************************************************************************)
EXTENDS Integers, Sequences

CONSTANTS
  Runs,      \* runs of makefemtofs with this destination
  Forced,    \* those with --force
  Foreign,   \* Foreign[f] of each file users may put there: "file" or "symlink"
  MaxMoves,  \* bound: changes of the destination
  NONE       \* no such name

ASSUME RunsAssumption ==
  /\ Forced \subseteq Runs
  /\ \A f \in DOMAIN Foreign : Foreign[f] \in {"file", "symlink"}
ASSUME NoneAssumption ==
  /\ Runs \cap DOMAIN Foreign = {}
  /\ NONE \notin Runs \cup DOMAIN Foreign
ASSUME MovesAssumption == MaxMoves \in Nat

VARIABLES
  history,   \* the files the destination named so far; the last is current
  stable,    \* the version of the last flush: no power loss goes behind it
  temp,      \* runs whose temporary name exists
  content,   \* content[r]: "none", "partial" or "image": the bytes of r's file
  synced,    \* runs whose file has its final mode, flushed
  pc,        \* where each run is
  published, \* runs past their rename or unlink, as `published' says
  version,   \* version[r]: the version of the destination r made, 0 if none
  outcome,   \* outcome[r]: "none", "ok", "error" or "killed"
  stuck      \* runs that could not remove their temporary name

names == <<history, stable, temp>>
bytes == <<content, synced>>
run == <<pc, published, version, outcome, stuck>>
vars == <<names, bytes, run>>

Out == history[Len(history)]
KindOf(f) == IF f \in Runs THEN "file" ELSE Foreign[f]
Regular == Out # NONE /\ KindOf(Out) = "file"

Init ==
  /\ history \in {<<NONE>>} \cup {<<f>> : f \in DOMAIN Foreign}
  /\ stable = 1
  /\ temp = {}
  /\ content = [r \in Runs |-> "none"]
  /\ synced = {}
  /\ pc = [r \in Runs |-> "start"]
  /\ published = {}
  /\ version = [r \in Runs |-> 0]
  /\ outcome = [r \in Runs |-> "none"]
  /\ stuck = {}

-----------------------------------------------------------------------------
Goto(r, p) == pc' = [pc EXCEPT ![r] = p]
End(r, o) == Goto(r, "ended") /\ outcome' = [outcome EXCEPT ![r] = o]
Only(r, p) == Goto(r, p) /\ UNCHANGED <<published, version, outcome, stuck>>

\* the destination names f from now on; the run that did it remembers when
Point(f) == Len(history) <= MaxMoves /\ history' = Append(history, f)

\* writeRegularOutput's checks, with checkOutputAlias before them: a
\* destination that exists must be a regular file, and --force given
Refuse(r) ==
  /\ pc[r] = "start"
  /\ Out # NONE /\ (~Regular \/ r \notin Forced)
  /\ End(r, "error")
  /\ UNCHANGED <<names, bytes, published, version, stuck>>

MakeTemp(r) ==
  /\ pc[r] = "start"
  /\ Out = NONE \/ (Regular /\ r \in Forced)
  /\ temp' = temp \cup {r}
  /\ content' = [content EXCEPT ![r] = "partial"]
  /\ Only(r, "write")
  /\ UNCHANGED <<history, stable, synced>>

\* writeImage, which ends with a flush, then verifyImage through a second
\* descriptor; an error anywhere leaves a file that is no image
WriteImage(r) ==
  /\ pc[r] = "write"
  /\ \/ content' = [content EXCEPT ![r] = "image"] /\ Only(r, "sync")
     \/ Only(r, "failed") /\ UNCHANGED content
  /\ UNCHANGED <<names, synced>>

\* Fault: the new file is published without its mode having been flushed.
SkipSync(r) ==
  /\ pc[r] = "sync"
  /\ Only(r, "recheck")
  /\ UNCHANGED <<names, bytes>>

\* fchmod and fsync
SyncFile(r) ==
  /\ pc[r] = "sync"
  /\ \/ synced' = synced \cup {r} /\ Only(r, "recheck")
     \/ Only(r, "failed") /\ UNCHANGED synced
  /\ UNCHANGED <<names, content>>

\* checkOutputAlias again, and --force's check that only a regular file is
\* about to be replaced; the destination may change right after
Recheck(r) ==
  /\ pc[r] = "recheck"
  /\ Only(r, IF Out # NONE /\ ~Regular THEN "failed" ELSE "publish")
  /\ UNCHANGED <<names, bytes>>

\* rename over whatever is there, or an error that changes nothing
Rename(r) ==
  /\ pc[r] = "publish"
  /\ r \in Forced
  /\ \/ /\ Point(r)
        /\ temp' = temp \ {r}
        /\ version' = [version EXCEPT ![r] = Len(history')]
        /\ published' = published \cup {r}
        /\ Goto(r, "parent")
        /\ UNCHANGED <<stable, outcome, stuck>>
     \/ Only(r, "failed") /\ UNCHANGED names
  /\ UNCHANGED bytes

\* Fault: the destination is overwritten, as it did not exist at the start.
LinkOver(r) ==
  /\ pc[r] = "publish"
  /\ r \notin Forced
  /\ Point(r)
  /\ version' = [version EXCEPT ![r] = Len(history')]
  /\ Goto(r, "unlink")
  /\ UNCHANGED <<stable, temp, bytes, published, outcome, stuck>>

\* link: EEXIST if the destination exists by now
Link(r) ==
  /\ pc[r] = "publish"
  /\ r \notin Forced
  /\ \/ /\ Out = NONE
        /\ Point(r)
        /\ version' = [version EXCEPT ![r] = Len(history')]
        /\ Goto(r, "unlink")
        /\ UNCHANGED <<stable, temp, published, outcome, stuck>>
     \/ Only(r, "failed") /\ UNCHANGED names
  /\ UNCHANGED bytes

\* the temporary name of a linked image
UnlinkTemp(r) ==
  /\ pc[r] = "unlink"
  /\ \/ /\ temp' = temp \ {r}
        /\ published' = published \cup {r}
        /\ Goto(r, "parent")
        /\ UNCHANGED <<version, outcome, stuck>>
     \/ Only(r, "failed") /\ UNCHANGED temp
  /\ UNCHANGED <<history, stable, bytes>>

\* Fault: success is reported although the directory was not flushed.
SkipSyncParent(r) ==
  /\ pc[r] = "parent"
  /\ End(r, "ok")
  /\ UNCHANGED <<names, bytes, published, version, stuck>>

\* fsyncParent; its failure is reported, but takes nothing back
SyncParent(r) ==
  /\ pc[r] = "parent"
  /\ \/ /\ stable' = Len(history)
        /\ End(r, "ok")
        /\ UNCHANGED <<published, version, stuck>>
     \/ Only(r, "failed") /\ UNCHANGED stable
  /\ UNCHANGED <<history, temp, bytes>>

\* Fault: the error path leaves the temporary file behind.
CleanNothing(r) ==
  /\ pc[r] = "failed"
  /\ End(r, "error")
  /\ UNCHANGED <<names, bytes, published, version, stuck>>

\* Fault: the error path removes what was published, too.
CleanOutput(r) ==
  /\ pc[r] = "failed"
  /\ End(r, "error")
  /\ IF r \in published THEN Point(NONE) /\ UNCHANGED temp
     ELSE temp' = temp \ {r} /\ UNCHANGED history
  /\ UNCHANGED <<stable, bytes, published, version, stuck>>

\* the catch clause: the temporary name goes unless r has published
CleanUp(r) ==
  /\ pc[r] = "failed"
  /\ End(r, "error")
  /\ \/ r \notin published /\ temp' = temp \ {r} /\ UNCHANGED stuck
     \/ r \notin published /\ stuck' = stuck \cup {r} /\ UNCHANGED temp
     \/ r \in published /\ UNCHANGED <<temp, stuck>>
  /\ UNCHANGED <<history, stable, bytes, published, version>>

-----------------------------------------------------------------------------
(* The environment.                                                        *)

UserMove ==
  /\ \E f \in DOMAIN Foreign \cup {NONE} : f # Out /\ Point(f)
  /\ UNCHANGED <<stable, temp, bytes, run>>

Running == {r \in Runs : pc[r] \notin {"start", "ended"}}

Stop(S) ==
  /\ pc' = [r \in Runs |-> IF r \in S THEN "ended" ELSE pc[r]]
  /\ outcome' = [r \in Runs |-> IF r \in S THEN "killed" ELSE outcome[r]]
  /\ UNCHANGED <<published, version, stuck>>

Kill == \E r \in Running : Stop({r}) /\ UNCHANGED <<names, bytes>>

\* any version from the last flush on, and any of the temporary names whose
\* making or removal was not flushed
PowerLoss ==
  /\ Stop(Running)
  /\ \E k \in stable..Len(history) : history' = SubSeq(history, 1, k) /\ stable' = k
  /\ temp' \in SUBSET {r \in Runs : content[r] # "none" /\ outcome[r] # "ok"}
  /\ UNCHANGED bytes

Step(r) ==
  \/ Refuse(r) \/ MakeTemp(r) \/ WriteImage(r) \/ SyncFile(r) \/ Recheck(r)
  \/ Rename(r) \/ Link(r) \/ UnlinkTemp(r) \/ SyncParent(r) \/ CleanUp(r)

Next == (\E r \in Runs : Step(r)) \/ UserMove \/ Kill \/ PowerLoss

Spec == Init /\ [][Next]_vars

-----------------------------------------------------------------------------
(* Properties.                                                             *)

PCs == {"start", "write", "sync", "recheck", "publish", "unlink", "parent",
        "failed", "ended"}

\* Type invariant; `published' is never ahead of the destination.
TypeOK ==
  /\ history \in Seq(Runs \cup DOMAIN Foreign \cup {NONE})
  /\ stable \in 1..Len(history)
  /\ temp \subseteq Runs /\ synced \subseteq Runs
  /\ published \subseteq {r \in Runs : version[r] # 0} /\ stuck \subseteq Runs
  /\ content \in [Runs -> {"none", "partial", "image"}]
  /\ pc \in [Runs -> PCs]
  /\ version \in [Runs -> 0..MaxMoves + 1]
  /\ outcome \in [Runs -> {"none", "ok", "error", "killed"}]

\* Whatever version of the destination a power loss may leave, an image there
\* is complete, verified, and on the medium with its final mode.
PublishedIsWhole ==
  TypeOK /\ \A k \in stable..Len(history) :
    history[k] \in Runs => content[history[k]] = "image" /\ history[k] \in synced

\* Without --force no existing file is replaced, also not one that appeared
\* while the image was being made: of competing runs one publishes.
NeverClobbered ==
  \A k \in 2..Len(history) : history[k] \in Runs \ Forced => history[k - 1] = NONE

\* A run that reported success has published, and no power loss brings back
\* what was there before.
ReportedIsDurable ==
  \A r \in Runs : outcome[r] = "ok" =>
    version[r] \in 1..stable /\ history[version[r]] = r

\* A run that ends by itself removes its temporary file, on every path; only
\* if the removal itself fails does the name remain.
NoStrayTemp ==
  [][\A r \in Runs : outcome[r] = "none" /\ outcome'[r] \in {"ok", "error"} =>
       r \notin temp' \/ r \in stuck']_vars

\* What a run has published stays when a later step of it fails, and whatever
\* other runs without --force do: only users, another run's rename and a power
\* loss take an image from its name.
PublishedStays ==
  [][\A r \in Runs : Out = r /\ Out' # r =>
       UserMove \/ PowerLoss \/ \E f \in Forced \ {r} : Rename(f)]_vars
=============================================================================

---------------------------- MODULE OutputDevice ----------------------------
(***************************************************************************)
(* makefemtofs --device: an image written over a raw device in place, with *)
(* its header as the commit record.  Writes may fail half way, a flush may *)
(* fail, the process may be killed and power may be lost; runs follow one  *)
(* another on the same device.                                             *)
(*                                                                         *)
(* The device keeps unflushed writes in a cache: possible[s] is what       *)
(* sector s may hold after a power loss.  A page is two sectors here, so   *)
(* that a page write can be torn.                                          *)
(***************************************************************************)
EXTENDS Integers, FiniteSets

CONSTANTS
  Runs,    \* Runs = n: runs 1..n; image 0 is what the device held before
  Size,    \* Size[k]: the pages of image k
  Meta,    \* Meta[k]: how many of them the header and metadata reach
  Pages    \* the device has pages 0..Pages-1

ASSUME SizesAssumption ==
  /\ Runs \in Nat /\ Pages \in Nat
  /\ Size \in [0..Runs -> 1..Pages] /\ Meta \in [0..Runs -> 1..Pages]
  /\ \A k \in 0..Runs : Meta[k] <= Size[k]

VARIABLES
  disk,      \* disk[s]: what a read of sector s returns
  possible,  \* possible[s]: what sector s may hold after a power loss
  run,       \* the latest run
  pc,        \* where it is; "idle" when it has ended
  at,        \* the page its loop is at
  outcome    \* outcome[k]: how run k ended

device == <<disk, possible>>
vars == <<disk, possible, run, pc, at, outcome>>

Sectors == (0..Pages - 1) \X {0, 1}
Head == <<0, 0>>                       \* holds the 128 bytes of the header
Of(page) == {s \in Sectors : s[1] = page}
ImageSectors(k) == {s \in Sectors : s[1] < Size[k]}
MetaSectors(k) == {s \in Sectors : s[1] < Meta[k]}

Zero == <<"zero", 0>>
Final(k) == <<"image", k>>             \* the sector of image k, header included
Open(k) == <<"uncommitted", k>>        \* Head before bytes 0..15 are written
Filled(k, s) == IF s = Head THEN Open(k) ELSE Final(k)

Init ==
  /\ disk = [s \in Sectors |-> IF s \in ImageSectors(0) THEN Final(0) ELSE Zero]
  /\ possible = [s \in Sectors |-> {disk[s]}]
  /\ run = 0
  /\ pc = "idle"
  /\ at = 0
  /\ outcome = [k \in 1..Runs |-> "none"]

-----------------------------------------------------------------------------
(* The device.                                                             *)

\* S are the sectors a page write has reached, all of them if it succeeds
Reach(page, S, value) ==
  /\ disk' = [s \in Sectors |-> IF s \in S THEN value[s] ELSE disk[s]]
  /\ possible' = [s \in Sectors |->
       IF s \in Of(page) THEN possible[s] \cup {value[s]} ELSE possible[s]]

Goto(p, i) == pc' = p /\ at' = i /\ UNCHANGED <<run, outcome>>
End(o) == pc' = "idle" /\ at' = 0 /\ outcome' = [outcome EXCEPT ![run] = o] /\ UNCHANGED run

\* writePageAt: the whole page, or an error after any part of it
Write(page, value, p, i) ==
  \/ Reach(page, Of(page), value) /\ Goto(p, i)
  \/ \E S \in SUBSET Of(page) : Reach(page, S, value) /\ End("error")

\* fsync: everything written is on the medium, or nothing more is known
Flush(p, i) ==
  \/ /\ possible' = [s \in Sectors |-> {disk[s]}]
     /\ UNCHANGED disk
     /\ Goto(p, i)
  \/ End("error") /\ UNCHANGED device

ReadFails == End("error") /\ UNCHANGED device

-----------------------------------------------------------------------------
(* writeDeviceOutput.                                                      *)

\* the device is not mounted, large enough and has a fitting sector size; a
\* run that finds otherwise changes nothing
Start ==
  /\ pc = "idle"
  /\ run < Runs
  /\ run' = run + 1
  /\ pc' = "invalidate"
  /\ at' = 0
  /\ UNCHANGED <<device, outcome>>

\* zeroImage: the first page, flushed before any other page is touched
Invalidate ==
  LET zeros == [s \in Sectors |-> Zero] IN
  /\ pc = "invalidate"
  /\ Write(0, zeros, "flush_invalid", 0)

\* Fault: the zeroed header is not flushed before the data is overwritten.
SkipInvalidFlush == pc = "flush_invalid" /\ Goto("zero", 1) /\ UNCHANGED device

FlushInvalid == pc = "flush_invalid" /\ Flush("zero", 1)

ZeroPage ==
  LET zeros == [s \in Sectors |-> Zero] IN
  /\ pc = "zero"
  /\ \/ at < Size[run] /\ Write(at, zeros, "zero", at + 1)
     \/ at = Size[run] /\ Goto("fill", 0) /\ UNCHANGED device

\* the metadata, then the blobs, by read-modify-write of whole pages: the last
\* write of a page is modelled, and the header's first 16 bytes stay zero
FillPage ==
  LET data == [s \in Sectors |-> Filled(run, s)] IN
  /\ pc = "fill"
  /\ \/ at < Size[run] /\ Write(at, data, "fill", at + 1)
     \/ at = Size[run] /\ Goto("tail", 0) /\ UNCHANGED device

\* header bytes 16..31
WriteTail ==
  LET data == [s \in Sectors |-> Filled(run, s)] IN
  /\ pc = "tail"
  /\ Write(0, data, "flush_data", 0)

FlushData == pc = "flush_data" /\ Flush("hash", 0)

\* the image hash is read back from the device, then the first page
ReadBack ==
  /\ pc = "hash"
  /\ \/ Goto("commit", 0) /\ UNCHANGED device
     \/ ReadFails

Commit ==
  LET final == [s \in Sectors |-> Final(run)] IN
  /\ pc = "commit"
  /\ Write(0, final, "flush_commit", 0)

\* Fault: the run is reported as done without the last flush.
SkipCommitFlush == pc = "flush_commit" /\ Goto("verify", 0) /\ UNCHANGED device

FlushCommit == pc = "flush_commit" /\ Flush("verify", 0)

\* verifyImage compares what a read returns with the plan
Verify ==
  /\ pc = "verify"
  /\ \/ /\ \A s \in ImageSectors(run) : disk[s] = Final(run)
        /\ End("ok")
        /\ UNCHANGED device
     \/ ReadFails

-----------------------------------------------------------------------------
(* The environment.                                                        *)

Kill == pc # "idle" /\ End("killed") /\ UNCHANGED device

PowerLoss ==
  /\ LET unsettled == {s \in Sectors : possible[s] # {disk[s]}}
     IN \E lost \in [unsettled -> UNION {possible[s] : s \in unsettled}] :
          /\ \A s \in unsettled : lost[s] \in possible[s]
          /\ disk' = [s \in Sectors |-> IF s \in unsettled THEN lost[s] ELSE disk[s]]
  /\ possible' = [s \in Sectors |-> {disk'[s]}]
  /\ IF pc = "idle" THEN UNCHANGED <<run, pc, at, outcome>> ELSE End("killed")

Next ==
  \/ Start \/ Invalidate \/ FlushInvalid \/ ZeroPage \/ FillPage \/ WriteTail
  \/ FlushData \/ ReadBack \/ Commit \/ FlushCommit \/ Verify
  \/ Kill \/ PowerLoss

Spec == Init /\ [][Next]_vars

-----------------------------------------------------------------------------
(* Properties.                                                             *)

Contents == {Zero} \cup {Final(k) : k \in 0..Runs} \cup {Open(k) : k \in 1..Runs}

\* Type invariant: `at' never leaves the image that is being written, and a
\* sector never written still holds what the device held before.
TypeOK ==
  /\ disk \in [Sectors -> Contents]
  /\ possible \in [Sectors -> SUBSET Contents]
  /\ \A s \in Sectors : disk[s] \in possible[s]
  /\ run \in 0..Runs
  /\ pc \in {"idle", "invalidate", "flush_invalid", "zero", "fill", "tail",
             "flush_data", "hash", "commit", "flush_commit", "verify"}
  /\ run = 0 => at = 0
  /\ run > 0 => at \in 0..Size[run]
  /\ outcome \in [1..Runs -> {"none", "ok", "error", "killed"}]

\* Whenever power may be lost, and however a run ended: if the header and the
\* metadata of an image can be on the medium, so that its hashes match and a
\* decoder accepts it, then every content page of that image is.
NeverTorn ==
  TypeOK /\ \A k \in 0..Runs :
    (\A s \in MetaSectors(k) : Final(k) \in possible[s]) =>
      \A s \in ImageSectors(k) \ MetaSectors(k) : possible[s] = {Final(k)}

\* Success is reported only for an image that is on the medium whole, and no
\* power loss undoes it.
ReportedIsDurable ==
  run > 0 /\ outcome[run] = "ok" =>
    \A s \in ImageSectors(run) : possible[s] = {Final(run)}
=============================================================================

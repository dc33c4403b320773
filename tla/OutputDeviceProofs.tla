------------------------- MODULE OutputDeviceProofs -------------------------
(***************************************************************************)
(* Proofs about OutputDevice: whatever the sizes of the images, their      *)
(* number and the number of runs, an image whose header can be on the      *)
(* device has its content there, and success is reported only for one that *)
(* no power loss undoes.  The inductive invariant ties each program point  *)
(* of writeDeviceOutput to what is still only in the device's cache.       *)
(***************************************************************************)
EXTENDS OutputDevice, TLAPS

\* image k is on the medium for good, except perhaps for its first page
Settled(k) == \A s \in ImageSectors(k) \ Of(0) : possible[s] = {Final(k)}

\* the header is the commit record: where it can be, its image is settled
HeaderInv == \A k \in 0..Runs : Final(k) \in possible[Head] => Settled(k)

\* once the zeroed header is flushed, no header is possible until the commit
NoHeaderInv ==
  /\ pc = "flush_invalid" => disk[Head] = Zero
  /\ pc \in {"zero", "fill", "tail", "flush_data", "hash", "commit"} =>
       \A k \in 0..Runs : Final(k) \notin possible[Head]

\* what the image's sectors hold, in the cache and then on the medium
DataInv ==
  /\ pc = "fill" =>
       \A s \in ImageSectors(run) : s[1] < at => disk[s] = Filled(run, s)
  /\ pc \in {"tail", "flush_data"} =>
       \A s \in ImageSectors(run) : disk[s] = Filled(run, s)
  /\ pc \in {"hash", "commit"} =>
       \A s \in ImageSectors(run) : possible[s] = {Filled(run, s)}
  /\ pc = "flush_commit" =>
       Settled(run) /\ \A s \in ImageSectors(run) : disk[s] = Final(run)
  /\ pc = "verify" =>
       \A s \in ImageSectors(run) : possible[s] = {Final(run)}

\* a run has no outcome before it ends, and there are no runs without one
OutcomeInv ==
  /\ pc # "idle" => run > 0 /\ outcome[run] = "none"
  /\ \A k \in run + 1..Runs : outcome[k] = "none"

DeviceInv ==
  /\ TypeOK /\ HeaderInv /\ NoHeaderInv /\ DataInv /\ OutcomeInv
  /\ ReportedIsDurable

-----------------------------------------------------------------------------
(* Sectors, and what the device's helpers do to them.                      *)

\* The header is on the first page of every image, within its metadata, and
\* the contents that the proof tells apart differ.
LEMMA HeaderFirst ==
  /\ Head \in Sectors /\ Of(0) \subseteq Sectors
  /\ \A k \in 0..Runs :
       /\ Size[k] \in 1..Pages
       /\ Head \in ImageSectors(k) /\ Head \in MetaSectors(k)
       /\ ImageSectors(k) \subseteq Sectors
       /\ ImageSectors(k) \ MetaSectors(k) \subseteq ImageSectors(k) \ Of(0)
       /\ Zero # Final(k)
       /\ \A j \in 0..Runs : Open(j) # Final(k) /\ (Final(j) = Final(k) => j = k)
<1> USE SizesAssumption
<1>1. ASSUME NEW k \in 0..Runs
      PROVE  Size[k] \in 1..Pages /\ Meta[k] \in 1..Pages /\ Meta[k] <= Size[k]
  OBVIOUS
<1>2. 0 \in 0..Runs /\ Pages >= 1
  BY <1>1
<1>3. Head \in Sectors /\ Of(0) \subseteq Sectors
  BY <1>2 DEF Head, Sectors, Of
<1>4. ASSUME NEW k \in 0..Runs
      PROVE  /\ Head \in ImageSectors(k) /\ Head \in MetaSectors(k)
             /\ ImageSectors(k) \subseteq Sectors
             /\ ImageSectors(k) \ MetaSectors(k) \subseteq ImageSectors(k) \ Of(0)
  <2>1. Head \in ImageSectors(k) /\ Head \in MetaSectors(k)
    BY <1>1, <1>3 DEF Head, ImageSectors, MetaSectors
  <2>2. ASSUME NEW s \in Sectors, s \in Of(0) PROVE s[1] < Meta[k]
    BY <1>1, <2>2 DEF Of
  <2> QED BY <2>1, <2>2 DEF ImageSectors, MetaSectors
<1>5. ASSUME NEW k \in 0..Runs, NEW j \in 0..Runs
      PROVE  Zero # Final(k) /\ Open(j) # Final(k) /\ (Final(j) = Final(k) => j = k)
  BY DEF Zero, Final, Open
<1> QED BY <1>1, <1>3, <1>4, <1>5

\* A page write changes its page only, to the new value or not at all, and
\* what it may have changed it may also not have.
LEMMA Reached ==
  ASSUME TypeOK, NEW page, NEW S \in SUBSET Of(page),
         NEW value \in [Sectors -> Contents], Reach(page, S, value)
  PROVE  /\ disk' \in [Sectors -> Contents]
         /\ possible' \in [Sectors -> SUBSET Contents]
         /\ \A s \in Sectors : disk'[s] \in possible'[s]
         /\ \A s \in S : disk'[s] = value[s]
         /\ \A s \in Sectors \ S : disk'[s] = disk[s]
         /\ \A s \in Of(page) : possible'[s] = possible[s] \cup {value[s]}
         /\ \A s \in Sectors \ Of(page) : possible'[s] = possible[s]
<1>1. Of(page) \subseteq Sectors
  BY DEF Of
<1>2. /\ disk' \in [Sectors -> Contents]
      /\ \A s \in S : disk'[s] = value[s]
      /\ \A s \in Sectors \ S : disk'[s] = disk[s]
  BY <1>1 DEF TypeOK, Reach
<1>3. /\ possible' \in [Sectors -> SUBSET Contents]
      /\ \A s \in Of(page) : possible'[s] = possible[s] \cup {value[s]}
      /\ \A s \in Sectors \ Of(page) : possible'[s] = possible[s]
  BY <1>1 DEF TypeOK, Reach
<1>4. \A s \in Sectors : disk'[s] \in possible'[s]
  BY <1>1, <1>2, <1>3 DEF TypeOK
<1> QED BY <1>2, <1>3, <1>4

\* A run that ends on the way leaves a device that is good for the next one.
LEMMA Ended ==
  ASSUME DeviceInv, pc # "idle", NEW o \in {"error", "killed"}, End(o),
         disk' \in [Sectors -> Contents],
         possible' \in [Sectors -> SUBSET Contents],
         \A s \in Sectors : disk'[s] \in possible'[s], HeaderInv'
  PROVE  DeviceInv'
<1> USE SizesAssumption
<1>1. run > 0 /\ run \in 1..Runs /\ outcome \in [1..Runs -> {"none", "ok", "error", "killed"}]
  BY DEF DeviceInv, TypeOK, OutcomeInv
<1>2. /\ pc' = "idle" /\ at' = 0 /\ run' = run
      /\ outcome' \in [1..Runs -> {"none", "ok", "error", "killed"}]
      /\ outcome'[run] = o
      /\ \A k \in run + 1..Runs : outcome'[k] = outcome[k]
  BY <1>1 DEF End
<1>3. TypeOK'
  BY <1>1, <1>2, HeaderFirst DEF DeviceInv, TypeOK
<1>4. NoHeaderInv' /\ DataInv'
  BY <1>2 DEF NoHeaderInv, DataInv
<1>5. OutcomeInv' /\ ReportedIsDurable'
  BY <1>2 DEF DeviceInv, OutcomeInv, ReportedIsDurable
<1> QED BY <1>3, <1>4, <1>5 DEF DeviceInv

\* A write of anything but a header to the first page, or of anything to
\* another page while no header is possible, keeps the header the commit record.
LEMMA HeaderKept ==
  ASSUME DeviceInv, NEW page, NEW S \in SUBSET Of(page),
         NEW value \in [Sectors -> Contents], Reach(page, S, value),
         \A k \in 0..Runs : value[Head] # Final(k),
         page = 0 \/ \A k \in 0..Runs : Final(k) \notin possible[Head]
  PROVE  /\ HeaderInv'
         /\ (\A k \in 0..Runs : Final(k) \notin possible[Head]) =>
              \A k \in 0..Runs : Final(k) \notin possible'[Head]
<1>1. ASSUME NEW k \in 0..Runs, Final(k) \in possible'[Head]
      PROVE  Final(k) \in possible[Head] /\ page = 0 /\ Settled(k)'
  <2>1. Final(k) \in possible[Head] /\ page = 0
    BY <1>1, Reached, HeaderFirst DEF DeviceInv
  <2>2. Settled(k)
    BY <2>1 DEF DeviceInv, HeaderInv
  <2> QED BY <2>1, <2>2, Reached, HeaderFirst DEF DeviceInv, Settled
<1> QED BY <1>1 DEF HeaderInv

\* the device holds value in the sectors S that a write has reached
Holds(S, value) ==
  /\ disk' \in [Sectors -> Contents]
  /\ possible' \in [Sectors -> SUBSET Contents]
  /\ \A s \in Sectors : disk'[s] \in possible'[s]
  /\ \A s \in S : disk'[s] = value[s]
  /\ \A s \in Sectors \ S : disk'[s] = disk[s]

LEMMA PageReached ==
  ASSUME TypeOK, NEW page, NEW S \in SUBSET Of(page),
         NEW value \in [Sectors -> Contents], Reach(page, S, value)
  PROVE  Holds(S, value)
<1>1. disk' \in [Sectors -> Contents]
  BY Reached
<1>2. possible' \in [Sectors -> SUBSET Contents]
  BY Reached
<1>3. \A s \in Sectors : disk'[s] \in possible'[s]
  BY Reached
<1>4. \A s \in S : disk'[s] = value[s]
  BY Reached
<1>5. \A s \in Sectors \ S : disk'[s] = disk[s]
  BY Reached
<1> QED BY <1>1, <1>2, <1>3, <1>4, <1>5 DEF Holds

\* A page write either ends the run, or the page holds the new value.
LEMMA Written ==
  ASSUME DeviceInv, pc # "idle", NEW page, NEW value \in [Sectors -> Contents],
         NEW p, NEW i, Write(page, value, p, i),
         \A k \in 0..Runs : value[Head] # Final(k),
         page = 0 \/ \A k \in 0..Runs : Final(k) \notin possible[Head]
  PROVE  \/ DeviceInv'
         \/ /\ Goto(p, i) /\ HeaderInv'
            /\ disk' \in [Sectors -> Contents]
            /\ possible' \in [Sectors -> SUBSET Contents]
            /\ \A s \in Sectors : disk'[s] \in possible'[s]
            /\ \A s \in Of(page) : disk'[s] = value[s]
            /\ \A s \in Sectors \ Of(page) : disk'[s] = disk[s]
            /\ (\A k \in 0..Runs : Final(k) \notin possible[Head]) =>
                 \A k \in 0..Runs : Final(k) \notin possible'[Head]
<1>1. TypeOK
  BY DEF DeviceInv
<1>2. CASE Reach(page, Of(page), value) /\ Goto(p, i)
  <2>1. Of(page) \in SUBSET Of(page)
    OBVIOUS
  <2>2. /\ HeaderInv'
        /\ (\A k \in 0..Runs : Final(k) \notin possible[Head]) =>
             \A k \in 0..Runs : Final(k) \notin possible'[Head]
    BY <1>2, <2>1, HeaderKept
  <2>3. /\ disk' \in [Sectors -> Contents]
        /\ possible' \in [Sectors -> SUBSET Contents]
        /\ \A s \in Sectors : disk'[s] \in possible'[s]
        /\ \A s \in Of(page) : disk'[s] = value[s]
        /\ \A s \in Sectors \ Of(page) : disk'[s] = disk[s]
    <3>1. Holds(Of(page), value)
      BY <1>1, <1>2, <2>1, PageReached
    <3> QED BY <3>1 DEF Holds
  <2> QED BY <1>2, <2>2, <2>3
<1>3. ASSUME NEW S \in SUBSET Of(page), Reach(page, S, value), End("error")
      PROVE  DeviceInv'
  <2>1. HeaderInv'
    BY <1>3, HeaderKept
  <2> QED BY <1>1, <1>3, <2>1, Reached, Ended
<1> QED BY <1>2, <1>3 DEF Write

\* A flush that succeeds leaves on the medium what a read returns, one that
\* fails ends the run.
LEMMA Flushed ==
  ASSUME DeviceInv, NEW p, NEW i, Flush(p, i), pc # "idle"
  PROVE  \/ DeviceInv'
         \/ /\ Goto(p, i) /\ UNCHANGED disk
            /\ possible' \in [Sectors -> SUBSET Contents]
            /\ \A s \in Sectors : possible'[s] = {disk[s]} /\ disk'[s] \in possible'[s]
            /\ HeaderInv'
<1>1. CASE End("error") /\ UNCHANGED device
  <2>1. disk' = disk /\ possible' = possible
    BY <1>1 DEF device
  <2>2. HeaderInv'
    BY <2>1 DEF DeviceInv, HeaderInv, Settled
  <2> QED BY <1>1, <2>1, <2>2, Ended DEF DeviceInv, TypeOK
<1>2. CASE Goto(p, i) /\ UNCHANGED disk /\ possible' = [s \in Sectors |-> {disk[s]}]
  <2>1. /\ possible' \in [Sectors -> SUBSET Contents]
        /\ \A s \in Sectors : possible'[s] = {disk[s]} /\ disk'[s] \in possible'[s]
    BY <1>2 DEF DeviceInv, TypeOK
  <2>2. ASSUME NEW k \in 0..Runs, Final(k) \in possible'[Head] PROVE Settled(k)'
    <3>1. Final(k) \in possible[Head]
      BY <2>1, <2>2, HeaderFirst DEF DeviceInv, TypeOK
    <3>2. Settled(k)
      BY <3>1 DEF DeviceInv, HeaderInv
    <3> QED BY <2>1, <3>2, HeaderFirst DEF DeviceInv, TypeOK, Settled
  <2> QED BY <1>2, <2>1, <2>2 DEF HeaderInv
<1> QED BY <1>1, <1>2 DEF Flush

-----------------------------------------------------------------------------
(* The inductive invariant, action by action.                              *)

\* A new run begins, after all that ended.
LEMMA StartStep ==
  ASSUME DeviceInv, Start PROVE DeviceInv'
<1> USE SizesAssumption
<1>1. /\ run' = run + 1 /\ run' \in 1..Runs /\ pc' = "invalidate" /\ at' = 0
      /\ disk' = disk /\ possible' = possible /\ outcome' = outcome
      /\ outcome[run'] = "none" /\ Size[run'] \in 1..Pages
  BY HeaderFirst DEF DeviceInv, TypeOK, OutcomeInv, Start, device
<1>2. TypeOK'
  BY <1>1 DEF DeviceInv, TypeOK
<1>3. HeaderInv' /\ NoHeaderInv' /\ DataInv'
  BY <1>1 DEF DeviceInv, HeaderInv, Settled, NoHeaderInv, DataInv
<1>4. OutcomeInv' /\ ReportedIsDurable'
  BY <1>1 DEF DeviceInv, TypeOK, OutcomeInv, ReportedIsDurable
<1> QED BY <1>2, <1>3, <1>4 DEF DeviceInv

\* zeroImage's first page, and its flush.
LEMMA InvalidateStep ==
  ASSUME DeviceInv, Invalidate \/ FlushInvalid PROVE DeviceInv'
<1> USE SizesAssumption
<1>1. CASE Invalidate
  <2> DEFINE zeros == [s \in Sectors |-> Zero]
  <2>1. /\ zeros \in [Sectors -> Contents] /\ zeros[Head] = Zero
        /\ \A k \in 0..Runs : zeros[Head] # Final(k)
    BY HeaderFirst DEF Contents
  <2>2. pc = "invalidate" /\ Write(0, zeros, "flush_invalid", 0)
    BY <1>1 DEF Invalidate
  <2> HIDE DEF zeros
  <2>3. ASSUME Goto("flush_invalid", 0), HeaderInv',
               disk' \in [Sectors -> Contents],
               possible' \in [Sectors -> SUBSET Contents],
               \A s \in Sectors : disk'[s] \in possible'[s],
               \A s \in Of(0) : disk'[s] = zeros[s]
        PROVE  DeviceInv'
    <3>1. disk'[Head] = Zero
      BY <2>1, <2>3, HeaderFirst DEF Of, Head
    <3>2. TypeOK'
      BY <2>3, HeaderFirst DEF DeviceInv, TypeOK, Goto
    <3>3. NoHeaderInv' /\ DataInv'
      BY <2>3, <3>1 DEF NoHeaderInv, DataInv, Goto
    <3>4. OutcomeInv' /\ ReportedIsDurable'
      BY <2>2, <2>3 DEF DeviceInv, OutcomeInv, ReportedIsDurable, Goto
    <3> QED BY <2>3, <3>2, <3>3, <3>4 DEF DeviceInv
  <2> QED BY <2>1, <2>2, <2>3, Written
<1>2. CASE FlushInvalid
  <2>1. pc = "flush_invalid" /\ Flush("zero", 1)
    BY <1>2 DEF FlushInvalid
  <2>2. ASSUME Goto("zero", 1), UNCHANGED disk, HeaderInv',
               possible' \in [Sectors -> SUBSET Contents],
               \A s \in Sectors : possible'[s] = {disk[s]} /\ disk'[s] \in possible'[s]
        PROVE  DeviceInv'
    <3>1. \A k \in 0..Runs : Final(k) \notin possible'[Head]
      BY <2>1, <2>2, HeaderFirst DEF DeviceInv, NoHeaderInv
    <3>2. TypeOK'
      BY <2>1, <2>2, HeaderFirst DEF DeviceInv, TypeOK, OutcomeInv, Goto
    <3>3. NoHeaderInv' /\ DataInv'
      BY <2>2, <3>1 DEF NoHeaderInv, DataInv, Goto
    <3>4. OutcomeInv' /\ ReportedIsDurable'
      BY <2>1, <2>2 DEF DeviceInv, OutcomeInv, ReportedIsDurable, Goto
    <3> QED BY <2>2, <3>2, <3>3, <3>4 DEF DeviceInv
  <2> QED BY <2>1, <2>2, Flushed
<1> QED BY <1>1, <1>2

\* The two loops over the image's pages, and the header's tail, while no header
\* is possible.
LEMMA FillStep ==
  ASSUME DeviceInv, ZeroPage \/ FillPage \/ WriteTail PROVE DeviceInv'
<1> USE SizesAssumption
<1> DEFINE zeros == [s \in Sectors |-> Zero]
           data == [s \in Sectors |-> Filled(run, s)]
<1>1. /\ pc \in {"zero", "fill", "tail"} /\ run \in 1..Runs /\ at \in 0..Size[run]
      /\ Size[run] \in 1..Pages
      /\ disk \in [Sectors -> Contents] /\ possible \in [Sectors -> SUBSET Contents]
      /\ \A s \in Sectors : disk[s] \in possible[s]
      /\ HeaderInv /\ \A k \in 0..Runs : Final(k) \notin possible[Head]
  BY HeaderFirst DEF DeviceInv, TypeOK, OutcomeInv, NoHeaderInv,
     ZeroPage, FillPage, WriteTail
<1>2. /\ zeros \in [Sectors -> Contents]
      /\ \A k \in 0..Runs : zeros[Head] # Final(k)
  BY HeaderFirst DEF Contents
<1>3. /\ data \in [Sectors -> Contents]
      /\ \A k \in 0..Runs : data[Head] # Final(k)
      /\ \A s \in Sectors : data[s] = Filled(run, s)
  <2>1. \A s \in Sectors : data[s] = Filled(run, s) /\ data[s] \in Contents
    BY <1>1 DEF Contents, Filled
  <2>2. data[Head] = Open(run)
    BY <2>1, HeaderFirst DEF Filled
  <2> QED BY <1>1, <2>1, <2>2, HeaderFirst
<1>4. ASSUME NEW p \in {"zero", "fill", "tail", "flush_data"}, NEW i \in 0..Size[run],
             Goto(p, i), HeaderInv', \A k \in 0..Runs : Final(k) \notin possible'[Head],
             disk' \in [Sectors -> Contents],
             possible' \in [Sectors -> SUBSET Contents],
             \A s \in Sectors : disk'[s] \in possible'[s],
             \A s \in ImageSectors(run) :
               (p = "fill" /\ s[1] < i) \/ p \in {"tail", "flush_data"}
                 => disk'[s] = Filled(run, s)
      PROVE  DeviceInv'
  <2>1. pc' = p /\ at' = i /\ run' = run /\ outcome' = outcome
    BY <1>4 DEF Goto
  <2>2. TypeOK'
    BY <1>1, <1>4, <2>1 DEF DeviceInv, TypeOK
  <2>3. NoHeaderInv'
    BY <1>4, <2>1 DEF NoHeaderInv
  <2>4. DataInv'
    BY <1>4, <2>1 DEF DataInv
  <2>5. OutcomeInv' /\ ReportedIsDurable'
    BY <1>1, <1>4, <2>1 DEF DeviceInv, OutcomeInv, ReportedIsDurable
  <2> QED BY <1>4, <2>2, <2>3, <2>4, <2>5 DEF DeviceInv
<1>5. ASSUME NEW p \in {"fill", "tail"}, Goto(p, 0), UNCHANGED device,
             p = "tail" => \A s \in ImageSectors(run) : disk[s] = Filled(run, s)
      PROVE  DeviceInv'
  <2>1. disk' = disk /\ possible' = possible /\ HeaderInv'
    BY <1>1, <1>5 DEF HeaderInv, Settled, device
  <2>2. \A s \in ImageSectors(run) : ~(s[1] < 0)
    BY DEF ImageSectors, Sectors
  <2>3. /\ disk' \in [Sectors -> Contents] /\ possible' \in [Sectors -> SUBSET Contents]
        /\ \A s \in Sectors : disk'[s] \in possible'[s]
        /\ \A k \in 0..Runs : Final(k) \notin possible'[Head]
    BY <1>1, <2>1
  <2>4. \A s \in ImageSectors(run) :
          (p = "fill" /\ s[1] < 0) \/ p \in {"tail", "flush_data"} => disk'[s] = Filled(run, s)
    BY <1>5, <2>1, <2>2
  <2>5. 0 \in 0..Size[run] /\ p \in {"zero", "fill", "tail", "flush_data"}
    BY <1>1
  <2> QED BY <1>4, <1>5, <2>1, <2>3, <2>4, <2>5
<1>6. ASSUME ZeroPage PROVE DeviceInv'
  <2>1. CASE at < Size[run] /\ Write(at, zeros, "zero", at + 1)
    <3> HIDE DEF zeros
    <3>1. at + 1 \in 0..Size[run]
      BY <1>1, <2>1
    <3>2. \/ DeviceInv'
          \/ /\ Goto("zero", at + 1) /\ HeaderInv'
             /\ disk' \in [Sectors -> Contents]
             /\ possible' \in [Sectors -> SUBSET Contents]
             /\ \A s \in Sectors : disk'[s] \in possible'[s]
             /\ \A k \in 0..Runs : Final(k) \notin possible'[Head]
      BY <1>1, <1>2, <2>1, Written
    <3> QED BY <1>4, <3>1, <3>2
  <2>2. CASE at = Size[run] /\ Goto("fill", 0) /\ UNCHANGED device
    BY <1>5, <2>2
  <2> QED BY <1>6, <2>1, <2>2 DEF ZeroPage
<1>7. ASSUME FillPage PROVE DeviceInv'
  <2>1. \A s \in ImageSectors(run) : s[1] < at => disk[s] = Filled(run, s)
    BY <1>7 DEF DeviceInv, DataInv, FillPage
  <2>2. CASE at < Size[run] /\ Write(at, data, "fill", at + 1)
    <3> HIDE DEF data
    <3>1. at + 1 \in 0..Size[run]
      BY <1>1, <2>2
    <3>2. \/ DeviceInv'
          \/ /\ Goto("fill", at + 1) /\ HeaderInv'
             /\ disk' \in [Sectors -> Contents]
             /\ possible' \in [Sectors -> SUBSET Contents]
             /\ \A s \in Sectors : disk'[s] \in possible'[s]
             /\ \A s \in Of(at) : disk'[s] = data[s]
             /\ \A s \in Sectors \ Of(at) : disk'[s] = disk[s]
             /\ \A k \in 0..Runs : Final(k) \notin possible'[Head]
      BY <1>1, <1>3, <2>2, Written
    <3>3. ASSUME NEW s \in ImageSectors(run), s[1] < at + 1,
                 \A z \in Of(at) : disk'[z] = data[z],
                 \A z \in Sectors \ Of(at) : disk'[z] = disk[z]
          PROVE  disk'[s] = Filled(run, s)
      <4>1. s \in Sectors /\ s[1] \in Int
        BY DEF ImageSectors, Sectors
      <4>2. CASE s[1] = at
        BY <1>3, <3>3, <4>1, <4>2 DEF Of
      <4>3. CASE s[1] < at
        <5>1. s \notin Of(at)
          BY <1>1, <4>3 DEF Of
        <5>2. disk'[s] = disk[s]
          BY <3>3, <4>1, <5>1
        <5>3. disk[s] = Filled(run, s)
          BY <2>1, <3>3, <4>3
        <5> QED BY <5>2, <5>3
      <4>4. s[1] = at \/ s[1] < at
        BY <1>1, <3>3, <4>1
      <4> QED BY <4>2, <4>3, <4>4
    <3> QED BY <1>4, <3>1, <3>2, <3>3
  <2>3. CASE at = Size[run] /\ Goto("tail", 0) /\ UNCHANGED device
    <3>1. \A s \in ImageSectors(run) : disk[s] = Filled(run, s)
      BY <2>1, <2>3 DEF ImageSectors
    <3> QED BY <1>5, <2>3, <3>1
  <2> QED BY <1>7, <2>2, <2>3 DEF FillPage
<1>8. ASSUME WriteTail PROVE DeviceInv'
  <2>1. Write(0, data, "flush_data", 0)
    BY <1>8 DEF WriteTail
  <2>2. \A s \in ImageSectors(run) : s \in Sectors /\ disk[s] = Filled(run, s)
    BY <1>8 DEF DeviceInv, DataInv, WriteTail, ImageSectors
  <2> HIDE DEF data
  <2>3. \/ DeviceInv'
        \/ /\ Goto("flush_data", 0) /\ HeaderInv'
           /\ disk' \in [Sectors -> Contents]
           /\ possible' \in [Sectors -> SUBSET Contents]
           /\ \A s \in Sectors : disk'[s] \in possible'[s]
           /\ \A s \in Of(0) : disk'[s] = data[s]
           /\ \A s \in Sectors \ Of(0) : disk'[s] = disk[s]
           /\ \A k \in 0..Runs : Final(k) \notin possible'[Head]
    BY <1>1, <1>3, <2>1, Written
  <2>4. ASSUME \A s \in Of(0) : disk'[s] = data[s],
               \A s \in Sectors \ Of(0) : disk'[s] = disk[s]
        PROVE  \A s \in ImageSectors(run) : disk'[s] = Filled(run, s)
    BY <1>3, <2>2, <2>4
  <2>5. 0 \in 0..Size[run] /\ "flush_data" \in {"zero", "fill", "tail", "flush_data"}
    BY <1>1
  <2> QED BY <1>4, <2>3, <2>4, <2>5
<1> QED BY <1>6, <1>7, <1>8

\* The data is flushed and read back: the whole image but for its header's
\* first bytes is on the medium.
LEMMA DataStep ==
  ASSUME DeviceInv, FlushData \/ ReadBack PROVE DeviceInv'
<1> USE SizesAssumption
<1>1. /\ pc \in {"flush_data", "hash"} /\ run \in 1..Runs /\ Size[run] \in 1..Pages
      /\ \A k \in 0..Runs : Final(k) \notin possible[Head]
      /\ disk \in [Sectors -> Contents] /\ possible \in [Sectors -> SUBSET Contents]
      /\ \A s \in Sectors : disk[s] \in possible[s]
  BY HeaderFirst DEF DeviceInv, TypeOK, OutcomeInv, NoHeaderInv, FlushData, ReadBack
<1>2. ASSUME NEW p \in {"hash", "commit"}, Goto(p, 0), HeaderInv', disk' = disk,
             possible' \in [Sectors -> SUBSET Contents],
             \A s \in Sectors : disk'[s] \in possible'[s],
             \A k \in 0..Runs : Final(k) \notin possible'[Head],
             \A s \in ImageSectors(run) : possible'[s] = {Filled(run, s)}
      PROVE  DeviceInv'
  <2>1. pc' = p /\ at' = 0 /\ run' = run /\ outcome' = outcome
    BY <1>2 DEF Goto
  <2>2. TypeOK'
    BY <1>1, <1>2, <2>1 DEF DeviceInv, TypeOK
  <2>3. NoHeaderInv' /\ DataInv'
    BY <1>2, <2>1 DEF NoHeaderInv, DataInv
  <2>4. OutcomeInv' /\ ReportedIsDurable'
    BY <1>1, <1>2, <2>1 DEF DeviceInv, OutcomeInv, ReportedIsDurable
  <2> QED BY <1>2, <2>2, <2>3, <2>4 DEF DeviceInv
<1>3. CASE FlushData
  <2>1. \A s \in ImageSectors(run) : s \in Sectors /\ disk[s] = Filled(run, s)
    BY <1>3 DEF DeviceInv, DataInv, FlushData, ImageSectors
  <2>2. \/ DeviceInv'
        \/ /\ Goto("hash", 0) /\ disk' = disk /\ HeaderInv'
           /\ possible' \in [Sectors -> SUBSET Contents]
           /\ \A s \in Sectors : possible'[s] = {disk[s]} /\ disk'[s] \in possible'[s]
    BY <1>1, <1>3, Flushed DEF FlushData
  <2>3. ASSUME \A s \in Sectors : possible'[s] = {disk[s]}
        PROVE  /\ \A k \in 0..Runs : Final(k) \notin possible'[Head]
               /\ \A s \in ImageSectors(run) : possible'[s] = {Filled(run, s)}
    BY <1>1, <2>1, <2>3, HeaderFirst
  <2> QED BY <1>2, <2>2, <2>3
<1>4. CASE ReadBack
  <2>1. pc = "hash" /\ disk' = disk /\ possible' = possible /\ HeaderInv'
    BY <1>4 DEF DeviceInv, HeaderInv, Settled, ReadBack, ReadFails, device
  <2>2. \A s \in ImageSectors(run) : possible[s] = {Filled(run, s)}
    BY <2>1 DEF DeviceInv, DataInv
  <2>3. CASE Goto("commit", 0)
    BY <1>1, <1>2, <2>1, <2>2, <2>3
  <2>4. CASE End("error")
    BY <1>1, <2>1, <2>4, Ended
  <2> QED BY <1>4, <2>3, <2>4 DEF ReadBack, ReadFails
<1> QED BY <1>3, <1>4

\* The header is written over an image that is settled, so that it may be torn,
\* lost or kept; then it is flushed.
LEMMA CommitStep ==
  ASSUME DeviceInv, Commit \/ FlushCommit PROVE DeviceInv'
<1> USE SizesAssumption
<1>1. /\ pc \in {"commit", "flush_commit"} /\ run \in 1..Runs /\ Size[run] \in 1..Pages
      /\ disk \in [Sectors -> Contents] /\ possible \in [Sectors -> SUBSET Contents]
      /\ \A s \in Sectors : disk[s] \in possible[s]
  BY HeaderFirst DEF DeviceInv, TypeOK, OutcomeInv, Commit, FlushCommit
<1>2. ASSUME NEW p \in {"flush_commit", "verify"}, Goto(p, 0), HeaderInv',
             disk' \in [Sectors -> Contents],
             possible' \in [Sectors -> SUBSET Contents],
             \A s \in Sectors : disk'[s] \in possible'[s], DataInv'
      PROVE  DeviceInv'
  <2>1. pc' = p /\ at' = 0 /\ run' = run /\ outcome' = outcome
    BY <1>2 DEF Goto
  <2>2. TypeOK'
    BY <1>1, <1>2, <2>1 DEF DeviceInv, TypeOK
  <2>3. NoHeaderInv'
    BY <1>2, <2>1 DEF NoHeaderInv
  <2>4. OutcomeInv' /\ ReportedIsDurable'
    BY <1>1, <1>2, <2>1 DEF DeviceInv, OutcomeInv, ReportedIsDurable
  <2> QED BY <1>2, <2>2, <2>3, <2>4 DEF DeviceInv
<1>3. CASE Commit
  <2> DEFINE final == [s \in Sectors |-> Final(run)]
  <2>1. /\ final \in [Sectors -> Contents]
        /\ \A s \in Sectors : final[s] = Final(run)
    BY <1>1 DEF Contents
  <2>2. pc = "commit" /\ Write(0, final, "flush_commit", 0)
    BY <1>3 DEF Commit
  <2> HIDE DEF final
  <2>3. /\ \A k \in 0..Runs : Final(k) \notin possible[Head]
        /\ \A s \in ImageSectors(run) : s \in Sectors /\ possible[s] = {Filled(run, s)}
        /\ TypeOK
    BY <2>2 DEF DeviceInv, NoHeaderInv, DataInv, ImageSectors
  <2>4. \A s \in ImageSectors(run) \ Of(0) : Filled(run, s) = Final(run)
    <3>1. Head \in Of(0)
      BY HeaderFirst DEF Of, Head
    <3> QED BY <3>1 DEF Filled
  <2>5. ASSUME NEW S \in SUBSET Of(0), Reach(0, S, final)
        PROVE  /\ HeaderInv' /\ \A s \in ImageSectors(run) \ Of(0) : possible'[s] = {Final(run)}
               /\ disk' \in [Sectors -> Contents]
               /\ possible' \in [Sectors -> SUBSET Contents]
               /\ \A s \in Sectors : disk'[s] \in possible'[s]
               /\ \A s \in S : disk'[s] = Final(run)
               /\ \A s \in Sectors \ S : disk'[s] = disk[s]
    <3>1. /\ disk' \in [Sectors -> Contents]
          /\ possible' \in [Sectors -> SUBSET Contents]
          /\ \A s \in Sectors : disk'[s] \in possible'[s]
          /\ \A s \in S : disk'[s] = final[s]
          /\ \A s \in Sectors \ S : disk'[s] = disk[s]
          /\ \A s \in Of(0) : possible'[s] = possible[s] \cup {final[s]}
          /\ \A s \in Sectors \ Of(0) : possible'[s] = possible[s]
      BY <2>1, <2>3, <2>5, Reached
    <3>2. \A s \in ImageSectors(run) \ Of(0) : possible'[s] = {Final(run)}
      BY <2>3, <2>4, <3>1
    <3>3. ASSUME NEW k \in 0..Runs, Final(k) \in possible'[Head] PROVE k = run
      <4>1. Head \in Of(0) /\ Head \in Sectors
        BY HeaderFirst DEF Of, Head
      <4>2. Final(k) = Final(run)
        BY <2>1, <2>3, <3>1, <3>3, <4>1
      <4> QED BY <1>1, <4>2, HeaderFirst
    <3>4. HeaderInv'
      BY <3>2, <3>3 DEF HeaderInv, Settled
    <3> QED BY <2>1, <2>5, <3>1, <3>2, <3>4, HeaderFirst
  <2>6. ASSUME NEW S \in SUBSET Of(0), Reach(0, S, final), End("error") PROVE DeviceInv'
    BY <1>1, <2>5, <2>6, Ended
  <2>7. ASSUME Reach(0, Of(0), final), Goto("flush_commit", 0) PROVE DeviceInv'
    <3>1. Of(0) \in SUBSET Of(0)
      OBVIOUS
    <3>2. /\ HeaderInv' /\ \A s \in ImageSectors(run) \ Of(0) : possible'[s] = {Final(run)}
          /\ disk' \in [Sectors -> Contents]
          /\ possible' \in [Sectors -> SUBSET Contents]
          /\ \A s \in Sectors : disk'[s] \in possible'[s]
          /\ \A s \in Of(0) : disk'[s] = Final(run)
          /\ \A s \in Sectors \ Of(0) : disk'[s] = disk[s]
      BY <2>5, <2>7, <3>1
    <3>3. \A s \in ImageSectors(run) \ Of(0) : disk[s] = Final(run)
      BY <1>1, <2>3, <2>4
    <3>4. \A s \in ImageSectors(run) : disk'[s] = Final(run)
      BY <2>3, <3>2, <3>3
    <3>5. DataInv'
      BY <2>7, <3>2, <3>4 DEF DataInv, Settled, Goto
    <3> QED BY <1>2, <2>7, <3>2, <3>5
  <2> QED BY <2>2, <2>6, <2>7 DEF Write
<1>4. CASE FlushCommit
  <2>1. \A s \in ImageSectors(run) : s \in Sectors /\ disk[s] = Final(run)
    BY <1>4 DEF DeviceInv, DataInv, FlushCommit, ImageSectors
  <2>2. \/ DeviceInv'
        \/ /\ Goto("verify", 0) /\ disk' = disk /\ HeaderInv'
           /\ possible' \in [Sectors -> SUBSET Contents]
           /\ \A s \in Sectors : possible'[s] = {disk[s]} /\ disk'[s] \in possible'[s]
    BY <1>1, <1>4, Flushed DEF FlushCommit
  <2>3. ASSUME Goto("verify", 0), \A s \in Sectors : possible'[s] = {disk[s]}
        PROVE  DataInv'
    <3>1. pc' = "verify" /\ run' = run
      BY <2>3 DEF Goto
    <3>2. \A s \in ImageSectors(run) : possible'[s] = {Final(run)}
      BY <2>1, <2>3
    <3> QED BY <3>1, <3>2 DEF DataInv
  <2> QED BY <1>1, <1>2, <2>2, <2>3
<1> QED BY <1>3, <1>4

\* The verification's answer, a kill and a power loss.
LEMMA EndStep ==
  ASSUME DeviceInv, Verify \/ Kill PROVE DeviceInv'
<1> USE SizesAssumption
<1>1. /\ pc # "idle" /\ run \in 1..Runs /\ disk' = disk /\ possible' = possible
      /\ disk \in [Sectors -> Contents] /\ possible \in [Sectors -> SUBSET Contents]
      /\ \A s \in Sectors : disk[s] \in possible[s]
  BY DEF DeviceInv, TypeOK, OutcomeInv, Verify, Kill, ReadFails, device
<1>2. HeaderInv'
  BY <1>1 DEF DeviceInv, HeaderInv, Settled
<1>3. ASSUME End("error") \/ End("killed") PROVE DeviceInv'
  BY <1>1, <1>2, <1>3, Ended
<1>4. ASSUME pc = "verify", End("ok") PROVE DeviceInv'
  <2>1. /\ pc' = "idle" /\ at' = 0 /\ run' = run
        /\ outcome' \in [1..Runs -> {"none", "ok", "error", "killed"}]
        /\ \A k \in run + 1..Runs : outcome'[k] = outcome[k]
    BY <1>1, <1>4 DEF DeviceInv, TypeOK, End
  <2>2. TypeOK'
    BY <1>1, <2>1, HeaderFirst DEF DeviceInv, TypeOK
  <2>3. NoHeaderInv' /\ DataInv'
    BY <2>1 DEF NoHeaderInv, DataInv
  <2>4. OutcomeInv' /\ ReportedIsDurable'
    BY <1>1, <1>4, <2>1 DEF DeviceInv, DataInv, OutcomeInv, ReportedIsDurable
  <2> QED BY <1>2, <2>2, <2>3, <2>4 DEF DeviceInv
<1> QED BY <1>3, <1>4 DEF Verify, Kill, ReadFails

\* A power loss settles every sector at something it may have held.
LEMMA PowerLossStep ==
  ASSUME DeviceInv, PowerLoss PROVE DeviceInv'
<1> USE SizesAssumption
<1>1. /\ disk \in [Sectors -> Contents] /\ possible \in [Sectors -> SUBSET Contents]
      /\ \A s \in Sectors : disk[s] \in possible[s]
  BY DEF DeviceInv, TypeOK
<1>2. \A s \in Sectors : disk'[s] \in possible[s] /\ possible'[s] = {disk'[s]}
  <2> DEFINE unsettled == {s \in Sectors : possible[s] # {disk[s]}}
  <2>1. PICK lost \in [unsettled -> UNION {possible[s] : s \in unsettled}] :
          /\ \A s \in unsettled : lost[s] \in possible[s]
          /\ disk' = [s \in Sectors |-> IF s \in unsettled THEN lost[s] ELSE disk[s]]
    BY DEF PowerLoss
  <2>2. \A s \in Sectors : disk'[s] \in possible[s]
    BY <1>1, <2>1
  <2> QED BY <2>2 DEF PowerLoss
<1>3. /\ disk' \in [Sectors -> Contents]
      /\ possible' \in [Sectors -> SUBSET Contents]
      /\ \A s \in Sectors : disk'[s] \in possible'[s]
  <2>1. DOMAIN disk' = Sectors /\ disk' = [s \in Sectors |-> disk'[s]]
    BY DEF PowerLoss
  <2>2. possible' = [s \in Sectors |-> {disk'[s]}]
    BY DEF PowerLoss
  <2> QED BY <1>1, <1>2, <2>1, <2>2
<1>4. ASSUME NEW S \in SUBSET Sectors, NEW c, \A s \in S : possible[s] = {c}
      PROVE  \A s \in S : possible'[s] = {c}
  BY <1>2, <1>4
<1>5. HeaderInv'
  <2>1. ASSUME NEW k \in 0..Runs, Final(k) \in possible'[Head] PROVE Settled(k)'
    <3>1. Settled(k)
      BY <1>2, <2>1, HeaderFirst DEF DeviceInv, HeaderInv
    <3> QED BY <1>2, <3>1, HeaderFirst DEF Settled
  <2> QED BY <2>1 DEF HeaderInv
<1>6. CASE pc = "idle"
  <2>1. run' = run /\ pc' = "idle" /\ at' = at /\ outcome' = outcome
    BY <1>6 DEF PowerLoss
  <2>2. TypeOK'
    BY <1>3, <2>1 DEF DeviceInv, TypeOK
  <2>3. NoHeaderInv' /\ DataInv' /\ OutcomeInv'
    BY <2>1 DEF DeviceInv, OutcomeInv, NoHeaderInv, DataInv
  <2>4. ReportedIsDurable'
    BY <1>2, <2>1, HeaderFirst DEF DeviceInv, TypeOK, ReportedIsDurable
  <2> QED BY <1>5, <2>2, <2>3, <2>4 DEF DeviceInv
<1>7. CASE pc # "idle"
  BY <1>3, <1>5, <1>7, Ended DEF PowerLoss
<1> QED BY <1>6, <1>7

-----------------------------------------------------------------------------
(* The theorems.                                                           *)

\* The invariant holds of every reachable state.
LEMMA DeviceInvHolds == Spec => []DeviceInv
<1> USE SizesAssumption
<1>1. Init => DeviceInv
  <2> SUFFICES ASSUME Init PROVE DeviceInv
    OBVIOUS
  <2>1. /\ disk \in [Sectors -> Contents]
        /\ \A s \in ImageSectors(0) : disk[s] = Final(0)
        /\ disk[Head] = Final(0)
    BY HeaderFirst DEF Init, Contents
  <2>2. /\ possible \in [Sectors -> SUBSET Contents]
        /\ \A s \in Sectors : possible[s] = {disk[s]}
    BY <2>1 DEF Init
  <2>3. TypeOK
    BY <2>1, <2>2 DEF Init, TypeOK
  <2>4. HeaderInv
    <3>1. \A k \in 0..Runs : Final(k) \in possible[Head] => k = 0
      BY <2>1, <2>2, HeaderFirst
    <3>2. Settled(0)
      BY <2>1, <2>2, HeaderFirst DEF Settled
    <3> QED BY <3>1, <3>2 DEF HeaderInv
  <2>5. NoHeaderInv /\ DataInv /\ OutcomeInv /\ ReportedIsDurable
    BY DEF Init, NoHeaderInv, DataInv, OutcomeInv, ReportedIsDurable
  <2> QED BY <2>3, <2>4, <2>5 DEF DeviceInv
<1>2. DeviceInv /\ [Next]_vars => DeviceInv'
  <2> SUFFICES ASSUME DeviceInv, [Next]_vars PROVE DeviceInv'
    OBVIOUS
  <2>1. CASE Next
    BY <2>1, StartStep, InvalidateStep, FillStep, DataStep, CommitStep, EndStep,
       PowerLossStep DEF Next
  <2>2. CASE UNCHANGED vars
    BY <2>2 DEF vars, DeviceInv, TypeOK, HeaderInv, Settled, NoHeaderInv, DataInv,
       OutcomeInv, ReportedIsDurable
  <2> QED BY <2>1, <2>2
<1> QED BY <1>1, <1>2, PTL DEF Spec

\* An image on a device is never torn: at every instant of every run, whatever
\* write, flush, kill or power loss interrupts it, an image whose header and
\* metadata can be on the medium has its content there (writeDeviceOutput).
THEOREM NeverTornHolds == Spec => []NeverTorn
<1>1. DeviceInv => NeverTorn
  <2> SUFFICES ASSUME DeviceInv PROVE NeverTorn
    OBVIOUS
  <2>1. ASSUME NEW k \in 0..Runs, \A s \in MetaSectors(k) : Final(k) \in possible[s]
        PROVE  \A s \in ImageSectors(k) \ MetaSectors(k) : possible[s] = {Final(k)}
    <3>1. Settled(k)
      BY <2>1, HeaderFirst DEF DeviceInv, HeaderInv
    <3> QED BY <3>1, HeaderFirst DEF Settled
  <2> QED BY <2>1 DEF NeverTorn, DeviceInv
<1> QED BY <1>1, DeviceInvHolds, PTL

\* Success is reported only of an image that is on the medium whole, header
\* included, and a later power loss does not undo it (verifyImage's "ok").
THEOREM ReportStaysOnDevice == Spec => []ReportedIsDurable
<1>1. DeviceInv => ReportedIsDurable
  BY DEF DeviceInv
<1> QED BY <1>1, DeviceInvHolds, PTL
=============================================================================

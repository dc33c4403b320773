-------------------------- MODULE BankListingProofs --------------------------
(***************************************************************************)
(* Proofs about BankListing: what femtoctl prints is the bank list of one  *)
(* instant, however many threads change the list between its ioctls, and   *)
(* however long the list is.  The generation that every row carries is     *)
(* what ties the rows already received to the list as it is now.           *)
(***************************************************************************)
EXTENDS BankListing, BankStoreProofs

\* femtoctl's thread issues LIST ioctls only, and none once its loop has ended
ClientInv ==
  /\ pc[Client] \in {"idle", "enter", "leave", "return"}
  /\ pc[Client] = "enter" => outcome = "listing" /\ call[Client].cmd = "LIST"
  /\ outcome = "listing" => attempts < MaxAttempts

\* while the generation is the one of its last row, femtoctl's rows are the
\* first rows of the list as it is now
RowsInv ==
  outcome = "listing" /\ index > 0 /\ seen = generation =>
    index <= Len(list) /\ \A i \in 1..index : rows[i] = Row(list[i])

ListingInv == IInv /\ LTypeOK /\ ClientInv /\ RowsInv

-----------------------------------------------------------------------------
(* femtoctl's own steps as steps of the kernel: they touch no bank.        *)

\* The request and its answer keep the kernel's invariant, whatever row and
\* generation femtoctl asks with.
LEMMA ClientKeeps ==
  ASSUME IInv, NEW t \in Threads,
         \/ /\ phase = "live" /\ UNCHANGED calls
            /\ Issue(t, [cmd |-> "LIST", label |-> NULL], "enter")
         \/ \E i, g : ListRow(t, i, g)
  PROVE  IInv'
<1> USE NullAssumption DEF Goto, Decide, Holds, Unlock, IInv, ControlInv
<1> DEFINE Request1 == /\ phase = "live" /\ UNCHANGED calls
                       /\ Issue(t, [cmd |-> "LIST", label |-> NULL], "enter")
           Answer1 == \E i, g : ListRow(t, i, g)
<1>1. /\ UNCHANGED <<store, own, stopping, phase, linker, calls>>
      /\ \A u \in Threads \ {t} :
           pc'[u] = pc[u] /\ call'[u] = call[u] /\ result'[u] = result[u]
      /\ lock' \in {lock, NULL}
  BY DEF Issue, ListRow, Enter, ControlTypeOK, module
<1>2. CASE Request1
  <2>1. /\ pc[t] = "idle" /\ pc'[t] = "enter" /\ phase = "live" /\ lock' = lock
        /\ call' = [call EXCEPT ![t] = [cmd |-> "LIST", label |-> NULL]]
        /\ call'[t].cmd = "LIST" /\ active' = active /\ result' = result
        /\ pc' = [pc EXCEPT ![t] = "enter"]
    BY <1>2 DEF Issue, ControlTypeOK, module
  <2>2. ControlTypeOK'
    BY <1>1, <2>1 DEF ControlTypeOK, PCs, LockPoints, PlainCalls
  <2>3. PcInv' /\ LockInv'
    BY <1>1, <2>1 DEF PcInv, LockInv, Building, Holding, Closing, LinkerHeld, LockPoints
  <2>4. ActiveCounts'
    <3>1. t \notin Counted /\ t \notin Counted'
      BY <2>1 DEF Counted, InIoctl, PcInv
    <3> QED BY <1>1, <2>1, <3>1, CountStep
  <2>5. StoreTypeOK' /\ CountersTypeOK' /\ StoppingIsEmpty'
    BY <1>1, <2>1 DEF store, StoreTypeOK, CountersTypeOK, StoppingIsEmpty, Mounting
  <2>6. HeapInv'
    BY <1>1, <2>1, HeapFrame DEF Building, Holding
  <2>7. PhaseInv'
    BY <1>1, <2>1 DEF PhaseInv, Unregistering, Mounting, InIoctl
  <2> QED BY <2>2, <2>3, <2>4, <2>5, <2>6, <2>7
<1>3. CASE Answer1
  <2>1. PICK r \in {"ok", "ENOENT", "EAGAIN"} : result' = [result EXCEPT ![t] = r]
    BY <1>3 DEF ListRow, ListResult
  <2>2. /\ pc[t] = "enter" /\ pc' = [pc EXCEPT ![t] = "leave"] /\ pc'[t] = "leave"
        /\ call' = call /\ call[t].cmd = "LIST" /\ lock' = NULL
        /\ active' = active + 1 /\ ~stopping
    BY <1>3 DEF ListRow, Enter, ControlTypeOK
  <2>3. ControlTypeOK'
    BY <1>1, <2>1, <2>2 DEF ControlTypeOK, PCs, LockPoints
  <2>4. PcInv' /\ LockInv'
    BY <1>1, <2>2 DEF PcInv, LockInv, Building, Holding, Closing, LinkerHeld, LockPoints,
       ControlTypeOK
  <2>5. ActiveCounts'
    <3>1. t \notin Counted /\ t \in Counted'
      BY <2>2 DEF Counted, InIoctl
    <3> QED BY <1>1, <2>2, <3>1, CountStep
  <2>6. StoreTypeOK' /\ CountersTypeOK' /\ StoppingIsEmpty'
    BY <1>1, <2>2 DEF store, StoreTypeOK, CountersTypeOK, StoppingIsEmpty
  <2>7. HeapInv'
    BY <1>1, <2>2, HeapFrame DEF Building, Holding
  <2>8. PhaseInv'
    BY <1>1, <2>2 DEF PhaseInv, Unregistering, Mounting, InIoctl
  <2> QED BY <2>3, <2>4, <2>5, <2>6, <2>7, <2>8
<1> QED BY <1>2, <1>3

-----------------------------------------------------------------------------
(* The generation.                                                         *)

\* the list reads the same, or its generation has grown
SameOrNewer ==
  /\ generation' \in Nat /\ generation' >= generation
  /\ generation' = generation => list' = list /\ \A b \in Listed : bank'[b] = bank[b]

\* No step of the kernel changes what LIST can show without a new generation.
LEMMA ChangesShow ==
  ASSUME IInv, Boot \/ \E t \in Threads : UserStep(t) \/ Step(t)
  PROVE  SameOrNewer
<1> USE DEF IInv, ControlInv
<1>1. generation \in Nat
  BY DEF StoreTypeOK
<1>2. ASSUME UNCHANGED <<list, bank, generation>> \/ generation' = generation + 1
      PROVE  SameOrNewer
  BY <1>1, <1>2 DEF SameOrNewer
<1>3. CASE Boot
  BY <1>2, <1>3 DEF Boot, OpenControl, Adopt, store
<1>4. ASSUME NEW t \in Threads, UserStep(t) PROVE SameOrNewer
  BY <1>2, <1>4 DEF UserStep, BeginIoctl, BeginMount, BeginUnload, Begin, Issue, Unmount,
     InterruptWait, store
<1>5. ASSUME NEW t \in Threads, Step(t) PROVE SameOrNewer
  <2>1. CASE OpenSource(t) \/ ReadHeader(t) \/ ReadImage(t) \/ FailImport(t)
    BY <1>1, <2>1, ImportIsHidden DEF SameOrNewer
  <2>2. CASE PublishBank(t)
    BY <1>2, <2>2 DEF PublishBank, Publish, store
  <2>3. CASE Unlink(t)
    BY <1>2, <2>3 DEF Unlink, Refuse, RemoveBank, store
  <2>4. CASE ClaimBank(t) \/ ReleaseBank(t)
    BY <1>2, <2>4 DEF ClaimBank, ClaimRefused, ReleaseBank, SetClaim, store
  <2>5. CASE UnloadStep(t)
    BY <1>2, <2>5 DEF UnloadStep, Unregister, Uninit, DestroyDev, DestroyLock, store
  <2>6. CASE \/ Acquire(t) \/ EnterStopping(t) \/ Leave(t) \/ Return(t)
             \/ TakeLinker(t) \/ Unbusy(t)
    BY <1>2, <2>6 DEF Acquire, EnterStopping, Leave, Return, TakeLinker, Unbusy, store
  <2>7. CASE EnterAdd(t) \/ EnterDiscard(t)
               \/ \E i \in 0..Cardinality(Banks), g \in {0, generation} : ListRow(t, i, g)
    BY <1>2, <2>7 DEF EnterAdd, EnterDiscard, ListRow, Enter, store
  <2> QED BY <1>5, <2>1, <2>2, <2>3, <2>4, <2>5, <2>6, <2>7
          DEF Step, AddStep, DiscardStep, MountStep
<1> QED BY <1>3, <1>4, <1>5

\* A change of the list makes femtoctl's rows stale, and nothing else does.
LEMMA RowsKept ==
  ASSUME ListingInv, SameOrNewer, UNCHANGED client
  PROVE  LTypeOK' /\ RowsInv'
<1>1. LTypeOK'
  BY DEF ListingInv, LTypeOK, SameOrNewer, client, IInv, ControlInv, StoreTypeOK
<1>2. ASSUME outcome' = "listing", index' > 0, seen' = generation'
      PROVE  index' <= Len(list') /\ \A i \in 1..index' : rows'[i] = Row(list[i])'
  <2>1. generation' = generation /\ list' = list /\ \A b \in Listed : bank'[b] = bank[b]
    BY <1>2 DEF ListingInv, LTypeOK, SameOrNewer, client, IInv, ControlInv, StoreTypeOK
  <2>2. index <= Len(list) /\ \A i \in 1..index : rows[i] = Row(list[i])
    BY <1>2, <2>1 DEF ListingInv, RowsInv, client
  <2>3. \A i \in 1..index : list[i] \in Listed
    BY <2>2 DEF Listed, Range, ListingInv, LTypeOK, IInv, ControlInv, StoreTypeOK
  <2> QED BY <2>1, <2>2, <2>3 DEF client, Row
<1> QED BY <1>1, <1>2 DEF RowsInv

-----------------------------------------------------------------------------
(* The inductive invariant, step by step.                                  *)

\* A thread's step moves no other thread.
LEMMA OthersStay ==
  ASSUME ControlTypeOK, NEW t \in Threads, UserStep(t) \/ Step(t), NEW u \in Threads \ {t}
  PROVE  pc'[u] = pc[u] /\ call'[u] = call[u]
<1> USE DEF Goto, ControlTypeOK
<1>1. ASSUME UserStep(t) PROVE pc'[u] = pc[u] /\ call'[u] = call[u]
  BY <1>1 DEF UserStep, BeginIoctl, BeginMount, BeginUnload, Begin, Issue, Unmount,
     InterruptWait
<1>2. ASSUME AddStep(t) PROVE pc'[u] = pc[u] /\ call'[u] = call[u]
  BY <1>2 DEF AddStep, EnterAdd, Enter, OpenSource, ReadHeader, ReadImage, PublishBank,
     FailImport
<1>3. ASSUME DiscardStep(t) \/ MountStep(t) PROVE pc'[u] = pc[u] /\ call'[u] = call[u]
  BY <1>3 DEF DiscardStep, MountStep, EnterDiscard, Enter, Unlink, ClaimBank, ClaimRefused,
     ReleaseBank
<1>4. ASSUME UnloadStep(t) PROVE pc'[u] = pc[u] /\ call'[u] = call[u]
  BY <1>4 DEF UnloadStep, Unregister, Uninit, DestroyDev, DestroyLock
<1>5. ASSUME \/ Acquire(t) \/ EnterStopping(t) \/ Leave(t) \/ Return(t) \/ TakeLinker(t)
             \/ Unbusy(t) \/ \E i, g : ListRow(t, i, g)
      PROVE  pc'[u] = pc[u] /\ call'[u] = call[u]
  BY <1>5 DEF Acquire, EnterStopping, Leave, Return, TakeLinker, Unbusy, ListRow, Enter
<1> QED BY <1>1, <1>2, <1>3, <1>4, <1>5 DEF Step

\* What the other threads and the boot do between two ioctls of femtoctl.
LEMMA OthersKeep ==
  ASSUME ListingInv, UNCHANGED client,
         Boot \/ \E t \in Threads \ {Client} : UserStep(t) \/ Step(t)
  PROVE  ListingInv'
<1> USE ClientAssumption
<1>1. IInv' /\ SameOrNewer
  BY InvStep, ChangesShow DEF ListingInv, Next
<1>2. pc'[Client] = pc[Client] /\ call'[Client] = call[Client]
  <2>1. CASE Boot
    BY <2>1 DEF Boot, OpenControl, Adopt
  <2>2. CASE \E t \in Threads \ {Client} : UserStep(t) \/ Step(t)
    BY <2>2, OthersStay DEF ListingInv, IInv, ControlInv
  <2> QED BY <2>1, <2>2
<1>3. ClientInv'
  BY <1>2 DEF ListingInv, ClientInv, client
<1> QED BY <1>1, <1>3, RowsKept DEF ListingInv

\* One row, a stale generation, or the end of the list: femtoctl's rows stay a
\* part of one list, and are all of it when the end is reached.
LEMMA AnsweredKeeps ==
  ASSUME ListingInv, Answered
  PROVE  ListingInv' /\ (outcome' = "printed" => rows = View)
<1> USE ClientAssumption DEF ListingInv, LTypeOK
<1>1. ListRow(Client, index, seen)
  BY DEF Answered
<1>2. IInv'
  BY <1>1, ClientKeeps
<1>3. /\ UNCHANGED <<list, bank, generation>>
      /\ pc[Client] = "enter" /\ pc'[Client] = "leave"
      /\ result'[Client] = ListResult(index, seen)
      /\ outcome = "listing" /\ attempts < MaxAttempts
  BY <1>1 DEF ListRow, Enter, Goto, Decide, Holds, store, ClientInv, IInv, ControlInv,
     ControlTypeOK
<1>4. /\ list \in Seq(Banks) /\ bank \in [Banks -> BankRecords] /\ generation \in Nat
      /\ Len(list) \in Nat /\ rows \in Seq(BankRecords) /\ index = Len(rows)
      /\ index \in Nat
  BY DEF IInv, ControlInv, StoreTypeOK
<1>5. index = 0 \/ seen = generation
        => index <= Len(list) /\ \A i \in 1..index : rows[i] = Row(list[i])
  BY <1>3, <1>4 DEF RowsInv
<1>6. CASE /\ result'[Client] = "ok" /\ rows' = Append(rows, Row(list[index + 1]))
           /\ index' = index + 1 /\ seen' = generation /\ UNCHANGED <<attempts, outcome>>
  <2>1. index < Len(list) /\ (index = 0 \/ seen = generation)
    BY <1>3, <1>4, <1>6 DEF ListResult
  <2>2. list[index + 1] \in Banks /\ Row(list[index + 1]) \in BankRecords
    BY <1>4, <2>1 DEF Row
  <2>3. /\ rows' \in Seq(BankRecords) /\ Len(rows') = index'
        /\ rows'[index + 1] = Row(list[index + 1])
        /\ \A i \in 1..index : rows'[i] = rows[i]
    BY <1>4, <1>6, <2>2
  <2>4. LTypeOK'
    BY <1>3, <1>4, <1>6, <2>3
  <2>5. ClientInv'
    BY <1>3, <1>6 DEF ClientInv
  <2>6. RowsInv'
    <3>1. \A i \in 1..index' : i \in 1..index \/ i = index + 1
      BY <1>4, <1>6
    <3>2. \A i \in 1..index' : rows'[i] = Row(list[i])
      BY <1>5, <2>1, <2>3, <3>1
    <3> QED BY <1>3, <1>4, <1>6, <2>1, <3>2 DEF RowsInv, Row
  <2> QED BY <1>2, <1>3, <1>6, <2>4, <2>5, <2>6
<1>7. CASE result'[Client] = "EAGAIN" /\ Restart
  <2>1. LTypeOK'
    <3>1. attempts' \in 0..MaxAttempts /\ seen' \in 0..generation'
      BY <1>3, <1>7 DEF Restart
    <3>2. \/ rows' = rows /\ index' = index
          \/ rows' = <<>> /\ index' = 0
      BY <1>7 DEF Restart
    <3>3. rows' \in Seq(BankRecords) /\ index' = Len(rows')
      <4>1. CASE rows' = rows /\ index' = index
        BY <1>4, <4>1
      <4>2. CASE rows' = <<>> /\ index' = 0
        <5>1. <<>> \in Seq(BankRecords) /\ Len(<<>>) = 0
          OBVIOUS
        <5> QED BY <4>2, <5>1
      <4> QED BY <3>2, <4>1, <4>2
    <3> QED BY <1>3, <1>7, <3>1, <3>3 DEF Restart
  <2>2. ClientInv'
    BY <1>3, <1>7 DEF Restart, ClientInv
  <2>3. RowsInv'
    BY <1>3, <1>7 DEF Restart, RowsInv
  <2> QED BY <1>2, <1>3, <1>7, <2>1, <2>2, <2>3 DEF Restart
<1>8. CASE /\ result'[Client] = "ENOENT" /\ outcome' = "printed"
           /\ UNCHANGED <<rows, index, seen, attempts>>
  <2>1. index >= Len(list) /\ (index = 0 \/ seen = generation)
    BY <1>3, <1>4, <1>8 DEF ListResult
  <2>2. index = Len(list) /\ \A i \in 1..index : rows[i] = Row(list[i])
    BY <1>4, <1>5, <2>1
  <2>3. rows = View
    <3>1. DOMAIN rows = 1..Len(rows) /\ DOMAIN list = 1..Len(list)
      BY <1>4
    <3>2. rows = [i \in 1..index |-> rows[i]]
      BY <1>4, <3>1
    <3> QED BY <1>4, <2>2, <3>1, <3>2 DEF View
  <2>4. LTypeOK' /\ ClientInv' /\ RowsInv'
    BY <1>3, <1>4, <1>8 DEF ClientInv, RowsInv
  <2> QED BY <1>2, <2>3, <2>4
<1> QED BY <1>6, <1>7, <1>8 DEF Answered

\* femtoctl's other steps.
LEMMA ClientStepKeeps ==
  ASSUME ListingInv, ClientStep, ~Answered
  PROVE  ListingInv' /\ (outcome' # "printed" \/ outcome' = outcome)
<1> USE ClientAssumption
<1>1. CASE Request
  <2>1. CASE /\ phase = "live" /\ pc[Client] = "idle" /\ outcome = "listing"
             /\ Issue(Client, [cmd |-> "LIST", label |-> NULL], "enter")
             /\ UNCHANGED <<calls, client>>
    <3>1. IInv'
      BY <2>1, ClientKeeps DEF ListingInv
    <3>2. SameOrNewer
      BY <2>1 DEF Issue, store, SameOrNewer, ListingInv, IInv, ControlInv, StoreTypeOK
    <3>3. ClientInv'
      BY <2>1 DEF Issue, Goto, ListingInv, ClientInv, client, IInv, ControlInv, ControlTypeOK
    <3> QED BY <2>1, <3>1, <3>2, <3>3, RowsKept DEF ListingInv, client
  <2>2. CASE outcome' = "failed" /\ UNCHANGED <<vars, rows, index, seen, attempts>>
    <3>1. IInv'
      BY <2>2, InvStep DEF ListingInv
    <3>2. LTypeOK' /\ RowsInv'
      BY <2>2 DEF ListingInv, LTypeOK, RowsInv, vars
    <3>3. pc' = pc /\ call' = call /\ pc[Client] = "idle"
      BY <1>1, <2>2 DEF vars, Request
    <3>4. ClientInv'
      BY <2>2, <3>3 DEF ListingInv, ClientInv
    <3> QED BY <2>2, <3>1, <3>2, <3>4 DEF ListingInv
  <2> QED BY <1>1, <2>1, <2>2 DEF Request
<1>2. ASSUME Step(Client) PROVE IInv' /\ SameOrNewer
  BY <1>2, InvStep, ChangesShow DEF ListingInv, Next
<1>3. CASE Refused
  <2>1. Step(Client) /\ UNCHANGED <<list, bank, generation>> /\ pc'[Client] = "return"
    BY <1>3 DEF Refused, EnterStopping, Step, store, Goto, Holds, ListingInv, IInv,
       ControlInv, ControlTypeOK
  <2>2. LTypeOK' /\ ClientInv' /\ RowsInv'
    BY <1>3, <2>1 DEF Refused, ListingInv, LTypeOK, ClientInv, RowsInv
  <2> QED BY <1>2, <1>3, <2>1, <2>2 DEF Refused, ListingInv
<1>4. CASE (Acquire(Client) \/ Leave(Client) \/ Return(Client)) /\ UNCHANGED client
  <2>1. Step(Client)
    BY <1>4 DEF Step
  <2>2. ClientInv'
    BY <1>4 DEF Acquire, Leave, Return, Goto, Holds, ListingInv, ClientInv, client, IInv,
       ControlInv, ControlTypeOK, LockPoints
  <2> QED BY <1>2, <1>4, <2>1, <2>2, RowsKept DEF ListingInv, client
<1> QED BY <1>1, <1>3, <1>4 DEF ClientStep

\* femtoctl prints one instant's list, or fails: the rows it has gathered are
\* always the head of the list as of its generation, whatever other threads add,
\* discard, claim and release between its ioctls.
THEOREM ListingIsCoherent == LSpec => CoherentListing
<1> USE ClientAssumption
<1>1. LInit => ListingInv
  <2> SUFFICES ASSUME LInit PROVE ListingInv
    OBVIOUS
  <2>1. IInv
    BY InvInit DEF LInit
  <2>2. LTypeOK /\ ClientInv /\ RowsInv
    BY DEF LInit, Init, LTypeOK, ClientInv, RowsInv
  <2> QED BY <2>1, <2>2 DEF ListingInv
<1>2. ListingInv /\ [LNext]_lvars => ListingInv'
  <2> SUFFICES ASSUME ListingInv, [LNext]_lvars PROVE ListingInv'
    OBVIOUS
  <2>1. CASE UNCHANGED lvars
    <3>1. UNCHANGED vars /\ UNCHANGED client
      BY <2>1 DEF lvars
    <3>2. IInv' /\ SameOrNewer
      BY <3>1, InvStep DEF ListingInv, SameOrNewer, vars, IInv, ControlInv, StoreTypeOK
    <3>3. ClientInv'
      BY <3>1 DEF ListingInv, ClientInv, client, vars
    <3> QED BY <3>1, <3>2, <3>3, RowsKept DEF ListingInv
  <2> QED BY <2>1, AnsweredKeeps, ClientStepKeeps, OthersKeep DEF LNext
<1>3. ListingInv /\ [LNext]_lvars =>
        [outcome = "listing" /\ outcome' = "printed" => rows = View]_lvars
  <2> SUFFICES ASSUME ListingInv, LNext, outcome = "listing", outcome' = "printed"
               PROVE  rows = View
    BY DEF lvars, client
  <2>1. CASE Answered
    BY <2>1, AnsweredKeeps
  <2>2. CASE ClientStep /\ ~Answered
    BY <2>2, ClientStepKeeps
  <2>3. CASE UNCHANGED client
    BY <2>3 DEF client
  <2> QED BY <2>1, <2>2, <2>3 DEF LNext
<1>4. ListingInv => LTypeOK
  BY DEF ListingInv
<1> QED BY <1>1, <1>2, <1>3, <1>4, PTL DEF LSpec, CoherentListing
=============================================================================

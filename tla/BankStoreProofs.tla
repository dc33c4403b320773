--------------------------- MODULE BankStoreProofs ---------------------------
(***************************************************************************)
(* The inductive invariant of BankStore and the theorems that follow from  *)
(* it.  First what one step of a thread keeps, part by part; then Init     *)
(* establishes IInv, each step of each thread preserves its parts          *)
(* (ThreadInvStep, StoreStep, CountersStep, PhaseStep, StoppingStep), and  *)
(* the properties are conjuncts or direct consequences of it.              *)
(***************************************************************************)
EXTENDS BankStore, FiniteSetTheorems, SequenceTheorems, WellFoundedInduction, TLAPS

-----------------------------------------------------------------------------
(* Control: types, what each program point says about its call, bank_lock, *)
(* the kernel linker, and the count of control operations in progress.     *)
(* One step per action of Next.                                            *)

\* The list that publish and DISCARD maintain holds struct ff_bank addresses.
LEMMA ListedBanks ==
  ASSUME StoreTypeOK
  PROVE  Listed \subseteq Banks
BY DEF StoreTypeOK, Listed, Range

\* The control operations in progress are finitely many: `active' can be a
\* cardinality.
LEMMA CountedFinite == IsFiniteSet(Counted) /\ Cardinality(Counted) \in Nat
<1>1. Counted \subseteq Threads
  BY DEF Counted, InIoctl
<1> QED BY <1>1, ThreadsAssumption, FS_Subset, FS_CardinalityType

\* A thread that is inside bank_ioctl has been counted: active-- at the exit never
\* takes `active' below zero.
LEMMA Positive ==
  ASSUME ActiveCounts, NEW t \in Counted
  PROVE  active \in Nat /\ active >= 1
<1>1. Cardinality(Counted) # 0
  BY CountedFinite, FS_EmptySet
<1> QED BY <1>1, CountedFinite DEF ActiveCounts

\* How one thread's step changes the number of operations in progress: not at all,
\* by active++ at the entry of bank_ioctl, or by active-- at its exit.
LEMMA CountStep ==
  ASSUME ActiveCounts, NEW t \in Threads,
         \A u \in Threads \ {t} : pc'[u] = pc[u] /\ call'[u] = call[u]
  PROVE  /\ (t \in Counted <=> t \in Counted') /\ active' = active => ActiveCounts'
         /\ t \notin Counted /\ t \in Counted' /\ active' = active + 1 => ActiveCounts'
         /\ t \in Counted /\ t \notin Counted' /\ active' = active - 1 => ActiveCounts'
<1>1. \A u \in Threads \ {t} : u \in Counted <=> u \in Counted'
  BY DEF Counted, InIoctl
<1>2. Counted \subseteq Threads /\ Counted' \subseteq Threads
  BY DEF Counted, InIoctl
<1>3. (t \in Counted <=> t \in Counted') => Counted' = Counted
  BY <1>1, <1>2
<1>4. t \notin Counted /\ t \in Counted' => Counted' = Counted \cup {t}
  BY <1>1, <1>2
<1>5. t \in Counted /\ t \notin Counted' => Counted' = Counted \ {t}
  BY <1>1, <1>2
<1>6. Cardinality(Counted \cup {t}) =
        IF t \in Counted THEN Cardinality(Counted) ELSE Cardinality(Counted) + 1
  BY CountedFinite, FS_AddElement
<1>7. Cardinality(Counted \ {t}) =
        IF t \in Counted THEN Cardinality(Counted) - 1 ELSE Cardinality(Counted)
  BY CountedFinite, FS_RemoveElement
<1> QED BY <1>3, <1>4, <1>5, <1>6, <1>7 DEF ActiveCounts

\* what the threads' control state satisfies at every step
ThreadInv == ControlTypeOK /\ PcInv /\ LockInv /\ ActiveCounts

\* Every step of a thread keeps the types of the control variables, what a program
\* point says of its call, of bank_lock and of the linker, and the count `active'.
LEMMA ThreadInvStep ==
  ASSUME StoreTypeOK, ControlTypeOK, PcInv, LockInv, ActiveCounts,
         NEW t \in Threads, UserStep(t) \/ Step(t)
  PROVE  ThreadInv'
<1> USE NullAssumption DEF Goto, Decide, Unlock, Holds, store, heap, module
<1> USE DEF ControlTypeOK, PCs, LockPoints, LabelCalls, PlainCalls, NoCall, PcInv,
            LockInv, Building, Holding, Closing, LinkerHeld
<1>1. ASSUME Acquire(t) PROVE ThreadInv'
  <2>1. ControlTypeOK'
    BY <1>1 DEF Acquire
  <2>2. PcInv'
    BY <1>1 DEF Acquire
  <2>3. LockInv'
    BY <1>1 DEF Acquire
  <2>4. ActiveCounts'
    BY <1>1, CountStep DEF Acquire, Counted, InIoctl
  <2> QED BY <2>1, <2>2, <2>3, <2>4 DEF ThreadInv
<1>2. ASSUME BeginIoctl(t) PROVE ThreadInv'
  <2>1. PICK c \in LabelCalls \cup PlainCalls :
         c.cmd \in {"ADD", "LIST", "DISCARD"} /\ Begin(t, c, "enter")
    BY <1>2 DEF BeginIoctl
  <2>2. ControlTypeOK'
    BY <2>1 DEF Begin, Issue
  <2>3. PcInv'
    BY <2>1 DEF Begin, Issue
  <2>4. LockInv'
    BY <2>1 DEF Begin, Issue
  <2>5. ActiveCounts'
    BY <2>1, CountStep DEF Begin, Issue, Counted, InIoctl
  <2> QED BY <2>2, <2>3, <2>4, <2>5 DEF ThreadInv
<1>3. ASSUME BeginMount(t) PROVE ThreadInv'
  <2>1. ControlTypeOK'
    BY <1>3 DEF BeginMount, Begin, Issue
  <2>2. PcInv'
    BY <1>3 DEF BeginMount, Begin, Issue
  <2>3. LockInv'
    BY <1>3 DEF BeginMount, Begin, Issue
  <2>4. ActiveCounts'
    BY <1>3, CountStep DEF BeginMount, Begin, Issue, Counted, InIoctl
  <2> QED BY <2>1, <2>2, <2>3, <2>4 DEF ThreadInv
<1>4. ASSUME BeginUnload(t) PROVE ThreadInv'
  <2>1. ControlTypeOK'
    BY <1>4 DEF BeginUnload, Begin, Issue
  <2>2. PcInv'
    BY <1>4 DEF BeginUnload, Begin, Issue
  <2>3. LockInv'
    BY <1>4 DEF BeginUnload, Begin, Issue
  <2>4. ActiveCounts'
    BY <1>4, CountStep DEF BeginUnload, Begin, Issue, Counted, InIoctl
  <2> QED BY <2>1, <2>2, <2>3, <2>4 DEF ThreadInv
<1>5. ASSUME Unmount(t) PROVE ThreadInv'
  <2>1. ControlTypeOK'
    BY <1>5 DEF Unmount
  <2>2. PcInv'
    BY <1>5 DEF Unmount
  <2>3. LockInv'
    BY <1>5 DEF Unmount
  <2>4. ActiveCounts'
    BY <1>5, CountStep DEF Unmount, Counted, InIoctl
  <2> QED BY <2>1, <2>2, <2>3, <2>4 DEF ThreadInv
<1>6. ASSUME InterruptWait(t) PROVE ThreadInv'
  <2>1. ControlTypeOK'
    BY <1>6 DEF InterruptWait
  <2>2. PcInv'
    BY <1>6 DEF InterruptWait
  <2>3. LockInv'
    BY <1>6 DEF InterruptWait
  <2>4. ActiveCounts'
    BY <1>6, CountStep DEF InterruptWait, Counted, InIoctl
  <2> QED BY <2>1, <2>2, <2>3, <2>4 DEF ThreadInv
<1>7. ASSUME EnterStopping(t) PROVE ThreadInv'
  <2>1. ControlTypeOK'
    BY <1>7 DEF EnterStopping
  <2>2. PcInv'
    BY <1>7 DEF EnterStopping
  <2>3. LockInv'
    BY <1>7 DEF EnterStopping
  <2>4. ActiveCounts'
    BY <1>7, CountStep DEF EnterStopping, Counted, InIoctl
  <2> QED BY <2>1, <2>2, <2>3, <2>4 DEF ThreadInv
<1>8. ASSUME EnterAdd(t) PROVE ThreadInv'
  <2>1. PICK p \in {"source", "leave"} :
         /\ Enter(t, "ADD", p)
         /\ result' = result \/ result' = [result EXCEPT ![t] = "EEXIST"]
    BY <1>8 DEF EnterAdd
  <2>2. ControlTypeOK'
    BY <2>1 DEF Enter
  <2>3. PcInv'
    BY <2>1 DEF Enter
  <2>4. LockInv'
    BY <2>1 DEF Enter
  <2>5. ActiveCounts'
    BY <2>1, CountStep DEF Enter, Counted, InIoctl
  <2> QED BY <2>2, <2>3, <2>4, <2>5 DEF ThreadInv
<1>9. ASSUME EnterDiscard(t) PROVE ThreadInv'
  <2>1. ControlTypeOK'
    BY <1>9 DEF EnterDiscard, Enter
  <2>2. PcInv'
    BY <1>9 DEF EnterDiscard, Enter
  <2>3. LockInv'
    BY <1>9 DEF EnterDiscard, Enter
  <2>4. ActiveCounts'
    BY <1>9, CountStep DEF EnterDiscard, Enter, Counted, InIoctl
  <2> QED BY <2>1, <2>2, <2>3, <2>4 DEF ThreadInv
<1>10. ASSUME NEW k, NEW g, ListRow(t, k, g) PROVE ThreadInv'
  <2>1. /\ Enter(t, "LIST", "leave")
        /\ \E r \in {"EAGAIN", "ENOENT", "ok"} : Decide(t, r)
    BY <1>10 DEF ListRow, ListResult
  <2>2. ControlTypeOK'
    BY <2>1 DEF Enter
  <2>3. PcInv'
    BY <2>1 DEF Enter
  <2>4. LockInv'
    BY <2>1 DEF Enter
  <2>5. ActiveCounts'
    BY <2>1, CountStep DEF Enter, Counted, InIoctl
  <2> QED BY <2>2, <2>3, <2>4, <2>5 DEF ThreadInv
<1>11. ASSUME Leave(t) PROVE ThreadInv'
  <2>1. t \in Counted
    BY <1>11 DEF Leave, Counted, InIoctl
  <2>2. ControlTypeOK'
    BY <1>11, <2>1, Positive DEF Leave
  <2>3. PcInv'
    BY <1>11, <2>1 DEF Leave
  <2>4. LockInv'
    BY <1>11, <2>1 DEF Leave
  <2>5. ActiveCounts'
    BY <1>11, <2>1, CountStep DEF Leave, Counted, InIoctl
  <2> QED BY <2>2, <2>3, <2>4, <2>5 DEF ThreadInv
<1>12. ASSUME Return(t) PROVE ThreadInv'
  <2>1. ControlTypeOK'
    BY <1>12 DEF Return
  <2>2. PcInv'
    BY <1>12 DEF Return
  <2>3. LockInv'
    BY <1>12 DEF Return
  <2>4. ActiveCounts'
    BY <1>12, CountStep DEF Return, Counted, InIoctl
  <2> QED BY <2>1, <2>2, <2>3, <2>4 DEF ThreadInv
<1>13. ASSUME OpenSource(t) PROVE ThreadInv'
  <2>1. /\ pc[t] = "source" /\ UNCHANGED <<module, lock, linker, call, calls>>
        /\ \/ Goto(t, "leave") /\ Decide(t, "EINVAL") /\ own' = own
           \/ /\ Goto(t, "header") /\ result' = result
              /\ \E b \in Banks : own' = [own EXCEPT ![t] = b]
    BY <1>13 DEF OpenSource
  <2>2. ControlTypeOK'
    BY <2>1
  <2>3. PcInv'
    BY <2>1
  <2>4. LockInv'
    BY <2>1
  <2>5. ActiveCounts'
    BY <2>1, CountStep DEF Counted, InIoctl
  <2> QED BY <2>2, <2>3, <2>4, <2>5 DEF ThreadInv
<1>14. ASSUME ReadHeader(t) PROVE ThreadInv'
  <2>1. /\ pc[t] = "header" /\ UNCHANGED <<module, lock, linker, call, calls, own>>
        /\ \/ Goto(t, "fail") /\ Decide(t, "EINVAL")
           \/ Goto(t, "read") /\ result' = result
    BY <1>14 DEF ReadHeader
  <2>2. ControlTypeOK'
    BY <2>1
  <2>3. PcInv'
    BY <2>1
  <2>4. LockInv'
    BY <2>1
  <2>5. ActiveCounts'
    BY <2>1, CountStep DEF Counted, InIoctl
  <2> QED BY <2>2, <2>3, <2>4, <2>5 DEF ThreadInv
<1>15. ASSUME ReadImage(t) PROVE ThreadInv'
  <2>1. /\ pc[t] = "read" /\ UNCHANGED <<module, lock, linker, call, calls, own>>
        /\ \/ Goto(t, "fail") /\ Decide(t, "EINVAL")
           \/ Goto(t, "publish") /\ result' = result
    BY <1>15 DEF ReadImage
  <2>2. ControlTypeOK'
    BY <2>1
  <2>3. PcInv'
    BY <2>1
  <2>4. LockInv'
    BY <2>1
  <2>5. ActiveCounts'
    BY <2>1, CountStep DEF Counted, InIoctl
  <2> QED BY <2>2, <2>3, <2>4, <2>5 DEF ThreadInv
<1>16. ASSUME PublishBank(t) PROVE ThreadInv'
  <2>1. /\ Holds(t, "publish") /\ Unlock /\ UNCHANGED <<module, linker, call, calls>>
        /\ \/ Goto(t, "fail") /\ Decide(t, "EEXIST") /\ own' = own
           \/ Goto(t, "leave") /\ Decide(t, "ok") /\ own' = [own EXCEPT ![t] = NULL]
    BY <1>16 DEF PublishBank
  <2>2. ControlTypeOK'
    BY <2>1
  <2>3. PcInv'
    BY <2>1
  <2>4. LockInv'
    BY <2>1
  <2>5. ActiveCounts'
    BY <2>1, CountStep DEF Counted, InIoctl
  <2> QED BY <2>2, <2>3, <2>4, <2>5 DEF ThreadInv
<1>17. ASSUME FailImport(t) PROVE ThreadInv'
  <2>1. ControlTypeOK'
    BY <1>17 DEF FailImport
  <2>2. PcInv'
    BY <1>17 DEF FailImport
  <2>3. LockInv'
    BY <1>17 DEF FailImport
  <2>4. ActiveCounts'
    BY <1>17, CountStep DEF FailImport, Counted, InIoctl
  <2> QED BY <2>1, <2>2, <2>3, <2>4 DEF ThreadInv
<1>18. ASSUME TakeLinker(t) PROVE ThreadInv'
  <2>1. ControlTypeOK'
    BY <1>18 DEF TakeLinker
  <2>2. PcInv'
    BY <1>18 DEF TakeLinker
  <2>3. LockInv'
    BY <1>18 DEF TakeLinker
  <2>4. ActiveCounts'
    BY <1>18, CountStep DEF TakeLinker, Counted, InIoctl
  <2> QED BY <2>1, <2>2, <2>3, <2>4 DEF ThreadInv
<1>19. ASSUME Unlink(t) PROVE ThreadInv'
  <2>1. /\ Holds(t, "unlink") /\ Unlock /\ UNCHANGED <<module, linker, call, calls, own>>
        /\ Goto(t, "unbusy")
        /\ \E r \in {"ENOENT", "EBUSY", "ok"} : Decide(t, r)
    BY <1>19 DEF Unlink, Refuse
  <2>2. ControlTypeOK'
    BY <2>1
  <2>3. PcInv'
    BY <2>1
  <2>4. LockInv'
    BY <2>1
  <2>5. ActiveCounts'
    BY <2>1, CountStep DEF Counted, InIoctl
  <2> QED BY <2>2, <2>3, <2>4, <2>5 DEF ThreadInv
<1>20. ASSUME Unbusy(t) PROVE ThreadInv'
  <2>1. ControlTypeOK'
    BY <1>20 DEF Unbusy
  <2>2. PcInv'
    BY <1>20 DEF Unbusy
  <2>3. LockInv'
    BY <1>20 DEF Unbusy
  <2>4. ActiveCounts'
    BY <1>20, CountStep DEF Unbusy, Counted, InIoctl
  <2> QED BY <2>1, <2>2, <2>3, <2>4 DEF ThreadInv
<1>21. ASSUME ClaimBank(t) PROVE ThreadInv'
  <2>1. /\ Holds(t, "claim") /\ Unlock /\ UNCHANGED <<module, linker, call, calls>>
        /\ \/ /\ Goto(t, "return") /\ own' = own
              /\ \E r \in {"ENXIO", "ENOENT", "EBUSY"} : Decide(t, r)
           \/ /\ Goto(t, "mounted") /\ Decide(t, "ok")
              /\ \E b \in Banks : own' = [own EXCEPT ![t] = b]
    BY <1>21, ListedBanks DEF ClaimBank, ClaimRefused, WithLabel
  <2>2. ControlTypeOK'
    BY <2>1
  <2>3. PcInv'
    BY <2>1
  <2>4. LockInv'
    BY <2>1
  <2>5. ActiveCounts'
    BY <2>1, CountStep DEF Counted, InIoctl
  <2> QED BY <2>2, <2>3, <2>4, <2>5 DEF ThreadInv
<1>22. ASSUME ReleaseBank(t) PROVE ThreadInv'
  <2>1. ControlTypeOK'
    BY <1>22 DEF ReleaseBank
  <2>2. PcInv'
    BY <1>22 DEF ReleaseBank
  <2>3. LockInv'
    BY <1>22 DEF ReleaseBank
  <2>4. ActiveCounts'
    BY <1>22, CountStep DEF ReleaseBank, Counted, InIoctl
  <2> QED BY <2>1, <2>2, <2>3, <2>4 DEF ThreadInv
<1>23. ASSUME Unregister(t) PROVE ThreadInv'
  <2>1. ControlTypeOK'
    BY <1>23 DEF Unregister
  <2>2. PcInv'
    BY <1>23 DEF Unregister
  <2>3. LockInv'
    BY <1>23 DEF Unregister
  <2>4. ActiveCounts'
    BY <1>23, CountStep DEF Unregister, Counted, InIoctl
  <2> QED BY <2>1, <2>2, <2>3, <2>4 DEF ThreadInv
<1>24. ASSUME Uninit(t) PROVE ThreadInv'
  <2>1. ControlTypeOK'
    <3>1. CASE UninitBusy
      BY <1>24, <3>1 DEF Uninit
    <3>2. CASE ~UninitBusy
      BY <1>24, <3>2 DEF Uninit
    <3> QED BY <3>1, <3>2
  <2>2. PcInv'
    BY <1>24, SMTT(30) DEF Uninit
  <2>3. LockInv'
    BY <1>24 DEF Uninit
  <2>4. ActiveCounts'
    BY <1>24, CountStep DEF Uninit, Counted, InIoctl
  <2> QED BY <2>1, <2>2, <2>3, <2>4 DEF ThreadInv
<1>25. ASSUME DestroyDev(t) PROVE ThreadInv'
  <2>1. ControlTypeOK'
    BY <1>25 DEF DestroyDev
  <2>2. PcInv'
    BY <1>25 DEF DestroyDev
  <2>3. LockInv'
    BY <1>25 DEF DestroyDev
  <2>4. ActiveCounts'
    BY <1>25, CountStep DEF DestroyDev, Counted, InIoctl
  <2> QED BY <2>1, <2>2, <2>3, <2>4 DEF ThreadInv
<1>26. ASSUME DestroyLock(t) PROVE ThreadInv'
  <2>1. ControlTypeOK'
    BY <1>26 DEF DestroyLock
  <2>2. PcInv'
    BY <1>26 DEF DestroyLock
  <2>3. LockInv'
    BY <1>26 DEF DestroyLock
  <2>4. ActiveCounts'
    BY <1>26, CountStep DEF DestroyLock, Counted, InIoctl
  <2> QED BY <2>1, <2>2, <2>3, <2>4 DEF ThreadInv
<1> QED
  BY <1>1, <1>2, <1>3, <1>4, <1>5, <1>6, <1>7, <1>8, <1>9, <1>10, <1>11, <1>12,
     <1>13, <1>14, <1>15, <1>16, <1>17, <1>18, <1>19, <1>20, <1>21, <1>22, <1>23,
     <1>24, <1>25, <1>26
  DEF UserStep, Step, AddStep, DiscardStep, MountStep, UnloadStep

-----------------------------------------------------------------------------
(* Heap: who owns each struct ff_bank, what is on the list, and what has   *)
(* been allocated for it.  Each action that touches a bank has a lemma of  *)
(* its own; the others are framed by HeapFrame.                            *)

-----------------------------------------------------------------------------
(* The two operations bank.c makes on its linked list of banks -- push a   *)
(* new head (publish), unlink one element (DISCARD) -- for any sequence.   *)

\* publish links the new bank as the head: nothing on the list is lost or reordered.
LEMMA RangePush ==
  ASSUME NEW S, NEW s \in Seq(S), NEW b \in S
  PROVE  /\ <<b>> \o s \in Seq(S)
         /\ Len(<<b>> \o s) = Len(s) + 1
         /\ (<<b>> \o s)[1] = b
         /\ \A i \in 1..Len(s) : (<<b>> \o s)[i + 1] = s[i]
         /\ Range(<<b>> \o s) = {b} \cup Range(s)
<1> DEFINE p == <<b>> \o s
<1>1. /\ p \in Seq(S) /\ Len(p) = Len(s) + 1 /\ p[1] = b
      /\ \A i \in 1..Len(s) : p[i + 1] = s[i]
  OBVIOUS
<1>3. Range(p) = {b} \cup Range(s)
  <2> HIDE DEF p
  <2>0. DOMAIN p = 1..Len(s) + 1 /\ DOMAIN s = 1..Len(s) /\ Len(s) \in Nat
    BY <1>1
  <2>1. ASSUME NEW i \in DOMAIN p PROVE p[i] \in {b} \cup Range(s)
    <3>1. CASE i = 1
      BY <3>1, <1>1
    <3>2. CASE i # 1
      <4>1. i - 1 \in 1..Len(s) /\ i = (i - 1) + 1
        BY <3>2, <2>0
      <4>2. p[i] = s[i - 1]
        BY <4>1, <1>1
      <4> QED BY <4>1, <4>2, <2>0 DEF Range
    <3> QED BY <3>1, <3>2
  <2>2. b \in Range(p)
    BY <1>1, <2>0 DEF Range
  <2>3. ASSUME NEW j \in DOMAIN s PROVE s[j] \in Range(p)
    <3>1. j + 1 \in DOMAIN p /\ p[j + 1] = s[j]
      BY <2>0, <1>1
    <3> QED BY <3>1 DEF Range
  <2> QED BY <2>1, <2>2, <2>3 DEF Range
<1> QED BY <1>1, <1>3

\* The elements of a concatenation, for the two halves that LIST_REMOVE joins.
LEMMA ConcatElements ==
  ASSUME NEW S, NEW a \in Seq(S), NEW c \in Seq(S)
  PROVE  /\ a \o c \in Seq(S)
         /\ Len(a \o c) = Len(a) + Len(c)
         /\ \A i \in 1..Len(a) + Len(c) :
              (a \o c)[i] = IF i <= Len(a) THEN a[i] ELSE c[i - Len(a)]
OBVIOUS

\* DISCARD unlinks the bank at one position: the others stay, each once, in order.
LEMMA RangeUnlink ==
  ASSUME NEW S, NEW s \in Seq(S), NEW k \in 1..Len(s),
         \A i, j \in 1..Len(s) : s[i] = s[j] => i = j
  PROVE  /\ RemoveAt(s, k) \in Seq(S)
         /\ Len(RemoveAt(s, k)) = Len(s) - 1
         /\ Range(RemoveAt(s, k)) = Range(s) \ {s[k]}
         /\ \A i, j \in DOMAIN RemoveAt(s, k) :
              RemoveAt(s, k)[i] = RemoveAt(s, k)[j] => i = j
<1> DEFINE a == SubSeq(s, 1, k - 1)
           c == SubSeq(s, k + 1, Len(s))
           r == a \o c
<1>1. /\ a \in Seq(S) /\ Len(a) = k - 1
      /\ \A i \in 1..Len(a) : a[i] = s[i]
  BY SubSeqProperties
<1>2. /\ c \in Seq(S) /\ Len(c) = Len(s) - k
      /\ \A i \in 1..Len(c) : c[i] = s[i + k]
  <2>1. CASE k = Len(s)
    <3>1. c = << >>
      BY <2>1
    <3> QED BY <3>1, <2>1
  <2>2. CASE k < Len(s)
    BY <2>2, SubSeqProperties
  <2> QED BY <2>1, <2>2
<1>3. /\ r \in Seq(S)
      /\ Len(r) = Len(s) - 1
      /\ \A i \in 1..Len(r) : r[i] = IF i < k THEN s[i] ELSE s[i + 1]
  <2> HIDE DEF a, c
  <2>1. /\ r \in Seq(S) /\ Len(r) = Len(a) + Len(c)
        /\ \A i \in 1..Len(r) : r[i] = IF i <= Len(a) THEN a[i] ELSE c[i - Len(a)]
    <3>1. a \in Seq(S) /\ c \in Seq(S)
      BY <1>1, <1>2
    <3> QED BY <3>1, ConcatElements
  <2> HIDE DEF r
  <2>2. ASSUME NEW i \in 1..Len(r) PROVE r[i] = IF i < k THEN s[i] ELSE s[i + 1]
    <3>1. CASE i < k
      BY <3>1, <1>1, <2>1
    <3>2. CASE ~(i < k)
      <4>1. i - Len(a) \in 1..Len(c) /\ (i - Len(a)) + k = i + 1
        BY <3>2, <1>1, <1>2, <2>1
      <4> QED BY <4>1, <3>2, <1>1, <1>2, <2>1
    <3> QED BY <3>1, <3>2
  <2>3. Len(r) = Len(s) - 1
    BY <1>1, <1>2, <2>1
  <2> QED BY <2>1, <2>2, <2>3
<1>4. r = RemoveAt(s, k)
  BY DEF RemoveAt
<1> HIDE DEF r
<1>5. DOMAIN r = 1..Len(r) /\ DOMAIN s = 1..Len(s)
  BY <1>3
<1>6. Range(r) = Range(s) \ {s[k]}
  <2>1. ASSUME NEW i \in 1..Len(r) PROVE r[i] \in Range(s) \ {s[k]}
    <3>1. PICK j \in 1..Len(s) : j # k /\ r[i] = s[j]
      BY <1>3
    <3> QED BY <3>1, <1>5 DEF Range
  <2>2. ASSUME NEW i \in 1..Len(s), i # k
        PROVE  s[i] \in Range(r)
    <3>1. PICK j \in 1..Len(r) : r[j] = s[i]
      <4>1. CASE i < k
        <5>1. i \in 1..Len(r) /\ r[i] = s[i]
          BY <4>1, <1>3
        <5> QED BY <5>1
      <4>2. CASE i > k
        <5>1. i - 1 \in 1..Len(r) /\ ~(i - 1 < k) /\ (i - 1) + 1 = i
          BY <4>2, <1>3
        <5> QED BY <5>1, <1>3
      <4> QED BY <2>2, <4>1, <4>2
    <3> QED BY <3>1, <1>5 DEF Range
  <2> QED BY <1>5, <2>1, <2>2 DEF Range
<1>7. \A i, j \in 1..Len(r) : r[i] = r[j] => i = j
  BY <1>3
<1> QED BY <1>3, <1>4, <1>5, <1>6, <1>7

-----------------------------------------------------------------------------
(* The heap invariant, action by action.                                   *)

\* A bank that an import builds or a mount holds is allocated; only the mounts'
\* banks are on the list.
LEMMA Owned ==
  ASSUME ControlInv, HeapInv
  PROVE  /\ Listed \subseteq structs
         /\ \A u \in Threads : pc[u] \in Building \cup Holding =>
              own[u] \in Banks /\ own[u] \in structs /\ own[u] # NULL
         /\ \A u \in Threads : own[u] # NULL => pc[u] \in Building \cup Holding
         /\ \A u \in Threads : pc[u] \in Building => own[u] \notin Listed
         /\ \A u \in Threads : pc[u] \in Holding => own[u] \in Listed
<1> USE DEF ControlInv, HeapInv, Building, Holding
<1>1. Listed \subseteq structs
  BY DEF NothingLeaks
<1>2. ASSUME NEW u \in Threads, pc[u] \in Building \cup Holding
      PROVE  own[u] \in Banks /\ own[u] \in structs /\ own[u] # NULL
  BY <1>2 DEF PcInv, ControlTypeOK, NothingLeaks, MountedIsResident
<1> QED BY <1>1, <1>2 DEF PcInv, NothingLeaks, MountedIsResident

\* A step that touches no bank, or gives an import up, leaves the heap invariant
\* alone.
LEMMA HeapFrame ==
  ASSUME ControlInv, HeapInv, UNCHANGED <<store, own>>,
         \A u \in Threads :
           \/ pc'[u] = pc[u] /\ call'[u] = call[u]
           \/ pc[u] \notin Building \cup Holding /\ pc'[u] \notin Building \cup Holding
           \/ pc[u] \in Holding /\ pc'[u] \in Holding
           \/ pc[u] \in Building /\ pc'[u] = "fail" /\ call'[u] = call[u]
  PROVE  HeapInv'
<1> USE DEF HeapInv, ControlInv, store, Building, Holding
<1>1. OwnInv'
  BY DEF OwnInv
<1>2. ListInv' /\ ListedIsValidated' /\ Listed' = Listed
  BY DEF ListInv, ListedIsValidated, Listed
<1>3. NothingLeaks'
  BY <1>2 DEF NothingLeaks
<1>4. MountedIsResident' /\ ClaimsAreHeld'
  BY <1>2 DEF MountedIsResident, ClaimsAreHeld
<1> QED BY <1>1, <1>2, <1>3, <1>4

\* round_page (the extent counted for a bank) never rounds down.
LEMMA RoundPageType ==
  ASSUME NEW n \in Nat
  PROVE  RoundPage(n) \in Nat /\ RoundPage(n) >= n
<1>1. HostPage \in Nat /\ HostPage > 0
  BY ImagesAssumption
<1> DEFINE q == (n + HostPage - 1) \div HostPage
<1>2. q \in Nat /\ n <= q * HostPage
  BY <1>1, SMTT(30)
<1>3. q * HostPage \in Nat
  BY <1>1, <1>2
<1> QED BY <1>2, <1>3 DEF RoundPage


\* LIST_REMOVE in DISCARD takes exactly the one bank off the list, whichever
\* position it has.
LEMMA UnlinkList ==
  ASSUME ControlInv, HeapInv, NEW b \in Listed, RemoveBank(b)
  PROVE  Listed' = Listed \ {b} /\ list' \in Seq(Banks) /\ ListInv'
<1> USE DEF ControlInv, HeapInv
<1> DEFINE k == CHOOSE i \in DOMAIN list : list[i] = b
<1>1. k \in 1..Len(list) /\ list[k] = b
  BY DEF Listed, Range, StoreTypeOK
<1> HIDE DEF k
<1>2. list' = RemoveAt(list, k)
  BY DEF RemoveBank, k
<1>3. \A i, j \in 1..Len(list) : list[i] = list[j] => i = j
  BY DEF ListInv, StoreTypeOK
<1>4. /\ list' \in Seq(Banks) /\ Listed' = Listed \ {b}
      /\ \A i, j \in DOMAIN list' : list'[i] = list'[j] => i = j
  BY <1>1, <1>2, <1>3, RangeUnlink DEF Listed, StoreTypeOK
<1>5. \A c \in Listed \ {b} : bank'[c] = bank[c]
  BY ListedBanks DEF RemoveBank, FreeBank, StoreTypeOK
<1> QED BY <1>4, <1>5 DEF ListInv

\* import allocates its struct ff_bank at an address nobody else uses.
LEMMA OpenSourceHeap ==
  ASSUME ControlInv, HeapInv, NEW t \in Threads, OpenSource(t)
  PROVE  HeapInv'
<1> USE NullAssumption DEF Goto, Decide, Unlock, Holds, heap, store, ControlInv, HeapInv,
            Building, Holding
<1>1. \/ UNCHANGED <<store, own, call>> /\ pc[t] = "source" /\ Goto(t, "leave")
      \/ \E b \in Banks \ structs :
           /\ UNCHANGED <<list, call, backing, decoded>> /\ pc[t] = "source" /\ Goto(t, "header")
           /\ structs' = structs \cup {b}
           /\ bank' = [bank EXCEPT ![b] = [Blank EXCEPT !.label = call[t].label]]
           /\ own' = [own EXCEPT ![t] = b]
  BY DEF OpenSource
<1> DEFINE Quiet == UNCHANGED store /\ own' = own
<1>2. CASE Quiet
  BY <1>2, <1>1, HeapFrame DEF ControlTypeOK
<1>3. CASE ~Quiet
  <2>1. PICK b \in Banks \ structs :
           /\ UNCHANGED <<list, call, backing, decoded>> /\ pc[t] = "source" /\ Goto(t, "header")
           /\ structs' = structs \cup {b}
           /\ bank' = [bank EXCEPT ![b] = [Blank EXCEPT !.label = call[t].label]]
           /\ own' = [own EXCEPT ![t] = b]
    BY <1>1, <1>3
  <2>2. /\ \A u \in Threads \ {t} :
             pc'[u] = pc[u] /\ call'[u] = call[u] /\ own'[u] = own[u] /\ own[u] # b
        /\ pc[t] = "source" /\ pc'[t] = "header" /\ own'[t] = b /\ call'[t] = call[t]
    BY <2>1, Owned DEF ControlTypeOK, StoreTypeOK, PcInv
  <2>3. /\ \A c \in Banks \ {b} : bank'[c] = bank[c]
        /\ bank'[b].label = call[t].label /\ ~bank'[b].claimed
        /\ b \notin Listed /\ Listed' = Listed
    BY <2>1, Owned DEF StoreTypeOK, Blank, Listed
  <2>4. OwnInv'
    BY <2>1, <2>2, <2>3, Owned, ListedBanks DEF OwnInv, PcInv
  <2>5. ListInv'
    BY <2>1, <2>2, <2>3, Owned, ListedBanks DEF ListInv, OwnInv
  <2>6. NothingLeaks'
    BY <2>1, <2>2, <2>3, Owned, ListedBanks DEF NothingLeaks, PcInv
  <2>7. ListedIsValidated'
    BY <2>1, <2>2, <2>3, Owned, ListedBanks DEF ListedIsValidated, OwnInv
  <2>8. MountedIsResident'
    BY <2>1, <2>2, <2>3, Owned, ListedBanks DEF MountedIsResident, NothingLeaks, PcInv
  <2>9. ClaimsAreHeld'
    BY <2>1, <2>2, <2>3, Owned, ListedBanks DEF ClaimsAreHeld, OwnInv
  <2> QED BY <2>4, <2>5, <2>6, <2>7, <2>8, <2>9
<1> QED BY <1>2, <1>3

\* The buffer import allocates covers the size the header announced.
LEMMA ReadHeaderHeap ==
  ASSUME ControlInv, HeapInv, NEW t \in Threads, ReadHeader(t)
  PROVE  HeapInv'
<1> USE NullAssumption DEF Goto, Decide, Unlock, Holds, heap, store, ControlInv, HeapInv,
            Building, Holding
<1>1. \/ UNCHANGED <<store, own, call>> /\ pc[t] = "header" /\ Goto(t, "fail")
      \/ \E im \in Images :
           /\ UNCHANGED <<list, structs, decoded, call, own>> /\ pc[t] = "header" /\ Goto(t, "read")
           /\ bank' = [bank EXCEPT ![own[t]].size = im.size,
                                   ![own[t]].extent = RoundPage(im.size)]
           /\ backing' = backing \cup {own[t]}
  BY DEF ReadHeader
<1> DEFINE Quiet == UNCHANGED store /\ pc'[t] = "fail"
<1>2. CASE Quiet
  BY <1>2, <1>1, HeapFrame DEF ControlTypeOK
<1>3. CASE ~Quiet
  <2>1. PICK im \in Images :
           /\ UNCHANGED <<list, structs, decoded, call, own>> /\ pc[t] = "header" /\ Goto(t, "read")
           /\ bank' = [bank EXCEPT ![own[t]].size = im.size,
                                   ![own[t]].extent = RoundPage(im.size)]
           /\ backing' = backing \cup {own[t]}
    BY <1>1, <1>3 DEF ControlTypeOK
  <2>2. /\ \A u \in Threads \ {t} : pc'[u] = pc[u] /\ own[u] # own[t]
        /\ pc[t] = "header" /\ pc'[t] = "read"
        /\ UNCHANGED <<list, structs, decoded, call, own>>
        /\ backing' = backing \cup {own[t]}
    BY <2>1, Owned DEF ControlTypeOK, PcInv, OwnInv
  <2>3. /\ \A c \in Banks \ {own[t]} : bank'[c] = bank[c]
        /\ bank'[own[t]].label = bank[own[t]].label
        /\ bank'[own[t]].claimed = bank[own[t]].claimed
        /\ bank'[own[t]].extent >= bank'[own[t]].size
        /\ own[t] \notin Listed /\ Listed' = Listed
    BY <2>1, Owned, ImagesAssumption, RoundPageType DEF StoreTypeOK, BankRecords, Listed
  <2>4. OwnInv'
    BY <2>2, <2>3, Owned, ListedBanks DEF OwnInv, PcInv
  <2>5. ListInv'
    BY <2>2, <2>3, Owned, ListedBanks DEF ListInv, OwnInv
  <2>6. NothingLeaks'
    BY <2>2, <2>3, Owned, ListedBanks DEF NothingLeaks, PcInv
  <2>7. ListedIsValidated'
    BY <2>2, <2>3, Owned, ListedBanks DEF ListedIsValidated, OwnInv
  <2>8. MountedIsResident'
    BY <2>2, <2>3, Owned, ListedBanks DEF MountedIsResident, NothingLeaks, PcInv
  <2>9. ClaimsAreHeld'
    BY <2>2, <2>3, Owned, ListedBanks DEF ClaimsAreHeld, OwnInv
  <2> QED BY <2>4, <2>5, <2>6, <2>7, <2>8, <2>9
<1> QED BY <1>2, <1>3

\* ff_validate accepts the buffer only for the size it was allocated with.
LEMMA ReadImageHeap ==
  ASSUME ControlInv, HeapInv, NEW t \in Threads, ReadImage(t)
  PROVE  HeapInv'
<1> USE NullAssumption DEF Goto, Decide, Unlock, Holds, heap, store, ControlInv, HeapInv,
            Building, Holding
<1>1. /\ \A u \in Threads \ {t} : pc'[u] = pc[u] /\ own[u] # own[t]
      /\ pc[t] = "read" /\ pc'[t] \in {"publish", "fail"}
      /\ UNCHANGED <<list, structs, backing, call, own>>
      /\ decoded \subseteq decoded' /\ decoded' \subseteq decoded \cup {own[t]}
      /\ Listed' = Listed
  BY Owned DEF ReadImage, ControlTypeOK, PcInv, OwnInv, Listed
<1>2. /\ \A c \in Banks \ {own[t]} : bank'[c] = bank[c]
      /\ bank'[own[t]].label = bank[own[t]].label
      /\ bank'[own[t]].claimed = bank[own[t]].claimed
      /\ bank'[own[t]].size = bank[own[t]].size
      /\ bank'[own[t]].extent = bank[own[t]].extent
      /\ pc'[t] = "publish" =>
           /\ bank'[own[t]].bytes \in Images
           /\ bank'[own[t]].size = bank'[own[t]].bytes.size
           /\ own[t] \in decoded' 
  <2>0. own[t] \in Banks
    BY Owned DEF ReadImage
  <2>1. \/ UNCHANGED bank /\ pc'[t] = "fail"
        \/ \E im \in Images :
             /\ bank' = [bank EXCEPT ![own[t]].bytes = im] /\ im.size = bank[own[t]].size
             /\ decoded' = decoded \cup {own[t]}
    BY DEF ReadImage, Validates, ControlTypeOK
  <2>2. CASE UNCHANGED bank /\ pc'[t] = "fail"
    BY <2>2
  <2>3. ASSUME NEW im \in Images, bank' = [bank EXCEPT ![own[t]].bytes = im],
               im.size = bank[own[t]].size, decoded' = decoded \cup {own[t]}
        PROVE  /\ \A c \in Banks \ {own[t]} : bank'[c] = bank[c]
               /\ bank'[own[t]].label = bank[own[t]].label
               /\ bank'[own[t]].claimed = bank[own[t]].claimed
               /\ bank'[own[t]].size = bank[own[t]].size
               /\ bank'[own[t]].extent = bank[own[t]].extent
               /\ bank'[own[t]].bytes = im
               /\ own[t] \in decoded'
    BY <2>0, <2>3 DEF StoreTypeOK, BankRecords
  <2> QED BY <2>1, <2>2, <2>3
<1>3. /\ own[t] \in backing /\ own[t] \notin Listed
      /\ bank[own[t]].extent >= bank[own[t]].size
  BY <1>1, Owned DEF OwnInv
<1>4. OwnInv'
  BY <1>1, <1>2, <1>3, Owned, ListedBanks DEF OwnInv, PcInv
<1>5. ListInv'
  BY <1>1, <1>2, <1>3, Owned, ListedBanks DEF ListInv, OwnInv
<1>6. NothingLeaks'
  BY <1>1, <1>2, <1>3, Owned, ListedBanks DEF NothingLeaks, PcInv
<1>7. ListedIsValidated'
  BY <1>1, <1>2, <1>3, Owned, ListedBanks DEF ListedIsValidated, OwnInv
<1>8. MountedIsResident'
  BY <1>1, <1>2, <1>3, Owned, ListedBanks DEF MountedIsResident, NothingLeaks, PcInv
<1>9. ClaimsAreHeld'
  BY <1>1, <1>2, <1>3, Owned, ListedBanks DEF ClaimsAreHeld, OwnInv
<1> QED BY <1>4, <1>5, <1>6, <1>7, <1>8, <1>9

\* publish links a bank only while no other bank has its label.
LEMMA PublishBankHeap ==
  ASSUME ControlInv, HeapInv, NEW t \in Threads, PublishBank(t)
  PROVE  HeapInv'
<1> USE NullAssumption DEF Goto, Decide, Unlock, Holds, heap, store, ControlInv, HeapInv,
            Building, Holding
<1>1. \/ UNCHANGED <<store, own, call>> /\ pc[t] = "publish" /\ Goto(t, "fail")
      \/ /\ UNCHANGED <<bank, structs, backing, decoded, call>> /\ pc[t] = "publish"
         /\ Goto(t, "leave") /\ WithLabel(call[t].label) = {} /\ list' = <<own[t]>> \o list
         /\ own' = [own EXCEPT ![t] = NULL]
  BY DEF PublishBank, Publish
<1> DEFINE Quiet == UNCHANGED store /\ pc'[t] = "fail"
<1>2. CASE Quiet
  BY <1>2, <1>1, HeapFrame DEF ControlTypeOK
<1>3. CASE ~Quiet
  <2>1. /\ \A u \in Threads \ {t} : pc'[u] = pc[u] /\ own'[u] = own[u] /\ own[u] # own[t]
        /\ pc[t] = "publish" /\ pc'[t] = "leave" /\ own'[t] = NULL
        /\ own[t] \in Banks /\ own[t] \notin Listed
        /\ UNCHANGED <<bank, structs, backing, decoded, call>>
    BY <1>1, <1>3, Owned DEF ControlTypeOK, PcInv, OwnInv
  <2>2. /\ Listed' = {own[t]} \cup Listed /\ list' = <<own[t]>> \o list
        /\ DOMAIN list' = 1..Len(list) + 1 /\ list'[1] = own[t]
        /\ \A i \in 1..Len(list) : list'[i + 1] = list[i]
    <3>1. list' = <<own[t]>> \o list
      BY <1>1, <1>3 DEF ControlTypeOK
    <3>2. list \in Seq(Banks) /\ own[t] \in Banks
      BY <2>1 DEF StoreTypeOK
    <3>3. /\ list' \in Seq(Banks) /\ Len(list') = Len(list) + 1 /\ list'[1] = own[t]
          /\ \A i \in 1..Len(list) : list'[i + 1] = list[i]
          /\ Range(list') = {own[t]} \cup Range(list)
      BY <3>1, <3>2, RangePush
    <3> QED BY <3>1, <3>3 DEF Listed
  <2>3. \A i \in DOMAIN list' : i # 1 =>
          i - 1 \in DOMAIN list /\ list'[i] = list[i - 1] /\ list[i - 1] \in Listed
    <3>1. Len(list) \in Nat /\ DOMAIN list = 1..Len(list)
      BY DEF StoreTypeOK
    <3> SUFFICES ASSUME NEW i \in DOMAIN list', i # 1
                 PROVE  i - 1 \in DOMAIN list /\ list'[i] = list[i - 1] /\ list[i - 1] \in Listed
      OBVIOUS
    <3>2. i - 1 \in 1..Len(list) /\ (i - 1) + 1 = i
      BY <2>2, <3>1
    <3> QED BY <2>2, <3>1, <3>2 DEF Listed, Range
  <2>4. \A c \in Listed : bank[c].label # call[t].label
    BY <1>1, <1>3 DEF WithLabel, ControlTypeOK
  <2>5. OwnInv'
    BY <2>1, <2>2, <2>3, <2>4, Owned, ListedBanks DEF OwnInv, PcInv
  <2>6. ListInv'
    BY <2>1, <2>2, <2>3, <2>4, Owned, ListedBanks DEF ListInv, OwnInv
  <2>7. NothingLeaks'
    <3> DEFINE W == {u \in Threads : pc[u] \in Building}
    <3>1. W' = W \ {t} /\ t \in W
      BY <2>1
    <3>2. {own'[u] : u \in W'} \cup {own[t]} = {own[u] : u \in W}
      BY <2>1, <3>1
    <3>3. structs = Listed \cup {own[u] : u \in W}
      BY DEF NothingLeaks
    <3>4. structs' = Listed' \cup {own'[u] : u \in W'}
      BY <2>1, <2>2, <3>2, <3>3
    <3>5. \A u \in W' : own'[u] \notin Listed'
      BY <2>1, <2>2, <3>1, Owned
    <3>6. Listed' \subseteq backing' \cap decoded'
      BY <2>1, <2>2 DEF NothingLeaks, OwnInv
    <3>7. backing' \cup decoded' \subseteq structs'
      BY <2>1 DEF NothingLeaks
    <3> QED BY <3>4, <3>5, <3>6, <3>7 DEF NothingLeaks
  <2>8. ListedIsValidated'
    BY <2>1, <2>2, <2>3, <2>4, Owned, ListedBanks DEF ListedIsValidated, OwnInv
  <2>9. MountedIsResident'
    BY <2>1, <2>2, <2>3, <2>4, Owned, ListedBanks DEF MountedIsResident,
       NothingLeaks, PcInv
  <2>10. ClaimsAreHeld'
    BY <2>1, <2>2, <2>3, <2>4, Owned, ListedBanks DEF ClaimsAreHeld, OwnInv
  <2> QED BY <2>5, <2>6, <2>7, <2>8, <2>9, <2>10
<1> QED BY <1>2, <1>3

\* import's failure path frees its own bank and nothing else.
LEMMA FailImportHeap ==
  ASSUME ControlInv, HeapInv, NEW t \in Threads, FailImport(t)
  PROVE  HeapInv'
<1> USE NullAssumption DEF Goto, Decide, Unlock, Holds, heap, store, ControlInv, HeapInv,
            Building, Holding
<1>1. /\ \A u \in Threads \ {t} : pc'[u] = pc[u] /\ own'[u] = own[u] /\ own[u] # own[t]
      /\ pc[t] = "fail" /\ pc'[t] = "leave" /\ own'[t] = NULL
      /\ own[t] \in Banks /\ own[t] \notin Listed /\ Listed' = Listed
      /\ UNCHANGED <<list, call>>
  BY Owned DEF FailImport, ControlTypeOK, PcInv, OwnInv, Listed
<1>2. /\ \A c \in Banks \ {own[t]} : bank'[c] = bank[c]
      /\ ~bank'[own[t]].claimed
      /\ structs' = structs \ {own[t]} /\ backing' = backing \ {own[t]}
      /\ decoded' = decoded \ {own[t]}
  BY <1>1 DEF FailImport, FreeBank, Blank, StoreTypeOK
<1>3. OwnInv'
  BY <1>1, <1>2, Owned, ListedBanks DEF OwnInv, PcInv
<1>4. ListInv'
  BY <1>1, <1>2, Owned, ListedBanks DEF ListInv, OwnInv
<1>5. NothingLeaks'
  BY <1>1, <1>2, Owned, ListedBanks DEF NothingLeaks, PcInv
<1>6. ListedIsValidated'
  BY <1>1, <1>2, Owned, ListedBanks DEF ListedIsValidated, OwnInv
<1>7. MountedIsResident'
  BY <1>1, <1>2, Owned, ListedBanks DEF MountedIsResident, NothingLeaks, PcInv
<1>8. ClaimsAreHeld'
  BY <1>1, <1>2, Owned, ListedBanks DEF ClaimsAreHeld, OwnInv
<1> QED BY <1>3, <1>4, <1>5, <1>6, <1>7, <1>8

\* DISCARD frees a bank that is unclaimed, which no mount can hold.
LEMMA UnlinkHeap ==
  ASSUME ControlInv, HeapInv, NEW t \in Threads, Unlink(t)
  PROVE  HeapInv'
<1> USE NullAssumption DEF Goto, Decide, Unlock, Holds, heap, store, ControlInv, HeapInv,
            Building, Holding
<1>1. /\ UNCHANGED <<call, own>> /\ pc[t] = "unlink" /\ Goto(t, "unbusy")
      /\ \/ UNCHANGED store
         \/ \E b \in Listed : ~bank[b].claimed /\ RemoveBank(b)
  BY DEF Unlink, Refuse, WithLabel
<1> DEFINE Quiet == UNCHANGED store
<1>2. CASE Quiet
  BY <1>2, <1>1, HeapFrame DEF ControlTypeOK
<1>3. CASE ~Quiet
  <2>1. PICK b \in Listed : ~bank[b].claimed /\ RemoveBank(b)
    BY <1>1, <1>3
  <2>2. Listed' = Listed \ {b} /\ ListInv' 
    BY <2>1, UnlinkList
  <2>3. /\ \A u \in Threads \ {t} : pc'[u] = pc[u]
        /\ pc[t] = "unlink" /\ pc'[t] = "unbusy"
        /\ \A u \in Threads : own[u] # b
        /\ UNCHANGED <<call, own>>
    BY <1>1, <2>1, Owned, ListedBanks DEF ControlTypeOK, MountedIsResident
  <2>4. /\ \A c \in Banks \ {b} : bank'[c] = bank[c]
        /\ b \in Banks /\ ~bank'[b].claimed
        /\ structs' = structs \ {b} /\ backing' = backing \ {b}
        /\ decoded' = decoded \ {b}
    BY <2>1, ListedBanks DEF RemoveBank, FreeBank, Blank, StoreTypeOK
  <2>5. OwnInv'
    BY <2>2, <2>3, <2>4, Owned, ListedBanks DEF OwnInv, PcInv
  <2>6. ListInv'
    BY <2>2, <2>3, <2>4, Owned, ListedBanks DEF ListInv, OwnInv
  <2>7. NothingLeaks'
    BY <2>2, <2>3, <2>4, Owned, ListedBanks DEF NothingLeaks, PcInv
  <2>8. ListedIsValidated'
    BY <2>2, <2>3, <2>4, Owned, ListedBanks DEF ListedIsValidated, OwnInv
  <2>9. MountedIsResident'
    BY <2>2, <2>3, <2>4, Owned, ListedBanks DEF MountedIsResident, NothingLeaks, PcInv
  <2>10. ClaimsAreHeld'
    BY <2>2, <2>3, <2>4, Owned, ListedBanks DEF ClaimsAreHeld, OwnInv
  <2> QED BY <2>5, <2>6, <2>7, <2>8, <2>9, <2>10
<1> QED BY <1>2, <1>3

\* ff_bank_claim gives a bank to one mount only.
LEMMA ClaimBankHeap ==
  ASSUME ControlInv, HeapInv, NEW t \in Threads, ClaimBank(t)
  PROVE  HeapInv'
<1> USE NullAssumption DEF Goto, Decide, Unlock, Holds, heap, store, ControlInv, HeapInv,
            Building, Holding
<1>1. /\ UNCHANGED <<call, list, structs, backing, decoded>> /\ pc[t] = "claim"
      /\ \/ UNCHANGED <<store, own>> /\ Goto(t, "return")
         \/ \E b \in Listed :
              /\ ~bank[b].claimed
              /\ bank' = [bank EXCEPT ![b].claimed = TRUE]
              /\ own' = [own EXCEPT ![t] = b]
              /\ Goto(t, "mounted")
  BY DEF ClaimBank, ClaimRefused, WithLabel, SetClaim
<1> DEFINE Quiet == UNCHANGED <<store, own>> /\ pc'[t] = "return"
<1>2. CASE Quiet
  BY <1>2, <1>1, HeapFrame DEF ControlTypeOK
<1>3. CASE ~Quiet
  <2>1. PICK b \in Listed :
              /\ ~bank[b].claimed
              /\ bank' = [bank EXCEPT ![b].claimed = TRUE]
              /\ own' = [own EXCEPT ![t] = b]
              /\ Goto(t, "mounted")
    BY <1>1, <1>3 DEF ControlTypeOK
  <2>2. /\ \A u \in Threads \ {t} : pc'[u] = pc[u] /\ own'[u] = own[u] /\ own[u] # b
        /\ pc[t] = "claim" /\ pc'[t] = "mounted" /\ own'[t] = b
        /\ UNCHANGED <<call, list, structs, backing, decoded>>
    BY <1>1, <2>1, Owned, ListedBanks DEF ControlTypeOK, MountedIsResident
  <2>3. /\ \A c \in Banks \ {b} : bank'[c] = bank[c]
        /\ b \in Banks /\ b \in Listed /\ bank'[b].claimed
        /\ bank'[b].label = bank[b].label /\ bank'[b].size = bank[b].size
        /\ bank'[b].extent = bank[b].extent /\ bank'[b].bytes = bank[b].bytes
        /\ Listed' = Listed
    BY <1>1, <2>1, ListedBanks DEF StoreTypeOK, BankRecords, Listed
  <2>4. OwnInv'
    BY <2>2, <2>3, Owned, ListedBanks DEF OwnInv, PcInv
  <2>5. ListInv'
    BY <2>2, <2>3, Owned, ListedBanks DEF ListInv, OwnInv
  <2>6. NothingLeaks'
    BY <2>2, <2>3, Owned, ListedBanks DEF NothingLeaks, PcInv
  <2>7. ListedIsValidated'
    BY <2>2, <2>3, Owned, ListedBanks DEF ListedIsValidated, OwnInv
  <2>8. MountedIsResident'
    BY <2>2, <2>3, Owned, ListedBanks DEF MountedIsResident, NothingLeaks, PcInv
  <2>9. ClaimsAreHeld'
    BY <2>2, <2>3, Owned, ListedBanks DEF ClaimsAreHeld, OwnInv
  <2> QED BY <2>4, <2>5, <2>6, <2>7, <2>8, <2>9
<1> QED BY <1>2, <1>3

\* ff_bank_release clears the claim of its own bank and no other.
LEMMA ReleaseBankHeap ==
  ASSUME ControlInv, HeapInv, NEW t \in Threads, ReleaseBank(t)
  PROVE  HeapInv'
<1> USE NullAssumption DEF Goto, Decide, Unlock, Holds, heap, store, ControlInv, HeapInv,
            Building, Holding
<1>1. /\ \A u \in Threads \ {t} : pc'[u] = pc[u] /\ own'[u] = own[u] /\ own[u] # own[t]
      /\ pc[t] = "release" /\ pc'[t] = "return" /\ own'[t] = NULL
      /\ own[t] \in Listed /\ Listed' = Listed
      /\ UNCHANGED <<list, call, structs, backing, decoded>>
  BY Owned DEF ReleaseBank, SetClaim, ControlTypeOK, PcInv, OwnInv, Listed
<1>2. /\ \A c \in Banks \ {own[t]} : bank'[c] = bank[c]
      /\ own[t] \in Banks /\ ~bank'[own[t]].claimed
      /\ bank'[own[t]].label = bank[own[t]].label /\ bank'[own[t]].size = bank[own[t]].size
      /\ bank'[own[t]].extent = bank[own[t]].extent /\ bank'[own[t]].bytes = bank[own[t]].bytes
  BY <1>1, ListedBanks DEF ReleaseBank, SetClaim, StoreTypeOK, BankRecords
<1>3. OwnInv'
  BY <1>1, <1>2, Owned, ListedBanks DEF OwnInv, PcInv
<1>4. ListInv'
  BY <1>1, <1>2, Owned, ListedBanks DEF ListInv, OwnInv
<1>5. NothingLeaks'
  BY <1>1, <1>2, Owned, ListedBanks DEF NothingLeaks, PcInv
<1>6. ListedIsValidated'
  BY <1>1, <1>2, Owned, ListedBanks DEF ListedIsValidated, OwnInv
<1>7. MountedIsResident'
  BY <1>1, <1>2, Owned, ListedBanks DEF MountedIsResident, NothingLeaks, PcInv
<1>8. ClaimsAreHeld'
  BY <1>1, <1>2, Owned, ListedBanks DEF ClaimsAreHeld, OwnInv
<1> QED BY <1>3, <1>4, <1>5, <1>6, <1>7, <1>8

\* A fresh or freed struct ff_bank is a record of the type.
LEMMA BlankType == Blank \in BankRecords
BY DEF Blank, BankRecords

\* Every step of the import leaves the shape of the store alone.
\* The steps of import keep the types of the list, the banks and the allocations.
LEMMA StoreType ==
  ASSUME StoreTypeOK, ControlTypeOK, PcInv, NEW t \in Threads
  PROVE  /\ OpenSource(t) => StoreTypeOK'
         /\ ReadHeader(t) => StoreTypeOK'
         /\ ReadImage(t) => StoreTypeOK'
         /\ PublishBank(t) => StoreTypeOK'
         /\ FailImport(t) => StoreTypeOK'
<1> USE DEF Goto, Decide, Unlock, Holds, store, heap, module
<1>o. pc[t] \in Building \cup Holding => own[t] \in Banks
  BY DEF PcInv, ControlTypeOK
<1>1. OpenSource(t) => StoreTypeOK'
  <2> SUFFICES ASSUME OpenSource(t) PROVE StoreTypeOK'
    OBVIOUS
  <2>1. CASE UNCHANGED <<bank, structs>>
    BY <2>1 DEF OpenSource, StoreTypeOK
  <2>2. ASSUME NEW b \in Banks,
               structs' = structs \cup {b},
               bank' = [bank EXCEPT ![b] = [Blank EXCEPT !.label = call[t].label]]
        PROVE  StoreTypeOK'
    <3>1. call[t].label \in Labels \cup {NULL}
      BY DEF ControlTypeOK, NoCall, LabelCalls, PlainCalls
    <3>2. [Blank EXCEPT !.label = call[t].label] \in BankRecords
      BY <3>1 DEF Blank, BankRecords
    <3> QED BY <2>2, <3>2 DEF OpenSource, StoreTypeOK
  <2> QED BY <2>1, <2>2 DEF OpenSource
<1>2. ReadHeader(t) => StoreTypeOK'
  <2> SUFFICES ASSUME ReadHeader(t) PROVE StoreTypeOK'
    OBVIOUS
  <2>0. own[t] \in Banks
    BY <1>o DEF ReadHeader, Building
  <2>1. CASE UNCHANGED <<bank, backing>>
    BY <2>1 DEF ReadHeader, StoreTypeOK
  <2>2. ASSUME NEW im \in Images,
               bank' = [bank EXCEPT ![own[t]].size = im.size,
                                    ![own[t]].extent = RoundPage(im.size)],
               backing' = backing \cup {own[t]}
        PROVE  StoreTypeOK'
    <3>1. im.size \in Nat /\ RoundPage(im.size) \in Nat
      BY ImagesAssumption, RoundPageType
    <3>2. [bank[own[t]] EXCEPT !.size = im.size, !.extent = RoundPage(im.size)] \in BankRecords
      BY <2>0, <3>1 DEF StoreTypeOK, BankRecords
    <3>3. bank' = [bank EXCEPT ![own[t]] =
             [bank[own[t]] EXCEPT !.size = im.size, !.extent = RoundPage(im.size)]]
      BY <2>2, <2>0 DEF StoreTypeOK
    <3> QED BY <2>2, <2>0, <3>2, <3>3 DEF ReadHeader, StoreTypeOK
  <2> QED BY <2>1, <2>2 DEF ReadHeader
<1>3. ReadImage(t) => StoreTypeOK'
  <2> SUFFICES ASSUME ReadImage(t) PROVE StoreTypeOK'
    OBVIOUS
  <2>0. own[t] \in Banks
    BY <1>o DEF ReadImage, Building
  <2>1. PICK im \in Images \cup {NULL} :
          \/ bank' = [bank EXCEPT ![own[t]].bytes = im] /\ decoded' = decoded \cup {own[t]}
          \/ \E d \in {{}, {own[t]}} : decoded' = decoded \cup d /\ UNCHANGED bank
    BY DEF ReadImage
  <2>2. [bank[own[t]] EXCEPT !.bytes = im] \in BankRecords
    BY <2>0 DEF StoreTypeOK, BankRecords
  <2> QED BY <2>0, <2>1, <2>2 DEF ReadImage, StoreTypeOK
<1>4. PublishBank(t) => StoreTypeOK'
  <2> SUFFICES ASSUME PublishBank(t) PROVE StoreTypeOK'
    OBVIOUS
  <2>1. CASE UNCHANGED store
    BY <2>1 DEF StoreTypeOK
  <2>2. CASE Publish(own[t]) /\ UNCHANGED <<bank, heap>>
    <3>0. own[t] \in Banks
      BY <1>o DEF PublishBank, Building
    <3>1. list' \in Seq(Banks)
      BY <2>2, <3>0, RangePush DEF Publish, StoreTypeOK
    <3> QED BY <2>2, <3>1 DEF Publish, StoreTypeOK
  <2> QED BY <2>1, <2>2 DEF PublishBank
<1>5. FailImport(t) => StoreTypeOK'
  BY <1>o, BlankType DEF FailImport, FreeBank, StoreTypeOK, Building
<1> QED BY <1>1, <1>2, <1>3, <1>4, <1>5

\* Setting or clearing a claim keeps the types of the list and the banks.
LEMMA ClaimType ==
  ASSUME StoreTypeOK, NEW b \in Banks, NEW v \in BOOLEAN, SetClaim(b, v)
  PROVE  StoreTypeOK'
<1>1. [bank[b] EXCEPT !.claimed = v] \in BankRecords
  BY DEF StoreTypeOK, BankRecords
<1>2. bank' = [bank EXCEPT ![b] = [bank[b] EXCEPT !.claimed = v]]
  BY DEF SetClaim, StoreTypeOK
<1> QED BY <1>1, <1>2 DEF SetClaim, StoreTypeOK, heap

\* Every step of a thread keeps the types of the store and the heap invariant.
LEMMA StoreStep ==
  ASSUME ControlInv, HeapInv, NEW t \in Threads, UserStep(t) \/ Step(t)
  PROVE  StoreTypeOK' /\ HeapInv'
<1> DEFINE Goal == StoreTypeOK' /\ HeapInv'
<1> USE NullAssumption DEF Goto, Decide, Unlock, Holds, store, heap
<1>f. ASSUME UNCHANGED <<store, own>>,
             \A u \in Threads \ {t} : pc'[u] = pc[u] /\ call'[u] = call[u],
             \/ pc[t] \notin Building \cup Holding /\ pc'[t] \notin Building \cup Holding
             \/ pc[t] \in Holding /\ pc'[t] \in Holding
             \/ pc[t] = pc'[t] /\ call[t] = call'[t]
      PROVE  Goal
  <2>1. HeapInv'
    BY <1>f, HeapFrame
  <2> QED BY <1>f, <2>1 DEF StoreTypeOK, ControlInv
<1> USE DEF Building, Holding
<1>1. ASSUME Acquire(t) PROVE Goal
  BY <1>1, <1>f DEF Acquire, ControlInv, ControlTypeOK, PcInv
<1>2. ASSUME BeginIoctl(t) PROVE Goal
  BY <1>2, <1>f DEF BeginIoctl, Begin, Issue, ControlInv, ControlTypeOK, PcInv
<1>3. ASSUME BeginMount(t) PROVE Goal
  BY <1>3, <1>f DEF BeginMount, Begin, Issue, ControlInv, ControlTypeOK, PcInv
<1>4. ASSUME BeginUnload(t) PROVE Goal
  BY <1>4, <1>f DEF BeginUnload, Begin, Issue, ControlInv, ControlTypeOK, PcInv
<1>5. ASSUME Unmount(t) PROVE Goal
  BY <1>5, <1>f DEF Unmount, ControlInv, ControlTypeOK, PcInv
<1>6. ASSUME InterruptWait(t) PROVE Goal
  BY <1>6, <1>f DEF InterruptWait, ControlInv, ControlTypeOK, PcInv
<1>7. ASSUME EnterStopping(t) PROVE Goal
  BY <1>7, <1>f DEF EnterStopping, ControlInv, ControlTypeOK, PcInv
<1>8. ASSUME EnterAdd(t) PROVE Goal
  BY <1>8, <1>f DEF EnterAdd, Enter, ControlInv, ControlTypeOK, PcInv
<1>9. ASSUME EnterDiscard(t) PROVE Goal
  BY <1>9, <1>f DEF EnterDiscard, Enter, ControlInv, ControlTypeOK, PcInv
<1>10. ASSUME Leave(t) PROVE Goal
  BY <1>10, <1>f DEF Leave, ControlInv, ControlTypeOK, PcInv
<1>11. ASSUME Return(t) PROVE Goal
  BY <1>11, <1>f DEF Return, ControlInv, ControlTypeOK, PcInv
<1>12. ASSUME TakeLinker(t) PROVE Goal
  BY <1>12, <1>f DEF TakeLinker, ControlInv, ControlTypeOK, PcInv
<1>13. ASSUME Unbusy(t) PROVE Goal
  BY <1>13, <1>f DEF Unbusy, ControlInv, ControlTypeOK, PcInv
<1>14. ASSUME Unregister(t) PROVE Goal
  BY <1>14, <1>f DEF Unregister, ControlInv, ControlTypeOK, PcInv
<1>15. ASSUME Uninit(t) PROVE Goal
  BY <1>15, <1>f DEF Uninit, ControlInv, ControlTypeOK, PcInv
<1>16. ASSUME DestroyDev(t) PROVE Goal
  BY <1>16, <1>f DEF DestroyDev, ControlInv, ControlTypeOK, PcInv
<1>17. ASSUME DestroyLock(t) PROVE Goal
  BY <1>17, <1>f DEF DestroyLock, ControlInv, ControlTypeOK, PcInv
<1>18. ASSUME NEW k, NEW g, ListRow(t, k, g) PROVE Goal
  BY <1>18, <1>f DEF ListRow, Enter, ControlInv, ControlTypeOK
<1>19. ASSUME OpenSource(t) PROVE Goal
  BY <1>19, OpenSourceHeap, StoreType DEF ControlInv
<1>20. ASSUME ReadHeader(t) PROVE Goal
  BY <1>20, ReadHeaderHeap, StoreType DEF ControlInv
<1>21. ASSUME ReadImage(t) PROVE Goal
  BY <1>21, ReadImageHeap, StoreType DEF ControlInv
<1>22. ASSUME PublishBank(t) PROVE Goal
  BY <1>22, PublishBankHeap, StoreType DEF ControlInv
<1>23. ASSUME FailImport(t) PROVE Goal
  BY <1>23, FailImportHeap, StoreType DEF ControlInv
<1>24. ASSUME Unlink(t) PROVE Goal
  <2>1. UNCHANGED store \/ \E b \in Listed : RemoveBank(b)
    BY <1>24 DEF Unlink, Refuse, WithLabel
  <2>2. CASE UNCHANGED store
    BY <2>2, <1>24, UnlinkHeap DEF StoreTypeOK, ControlInv
  <2>3. ASSUME NEW b \in Listed, RemoveBank(b) PROVE StoreTypeOK'
    <3>1. list' \in Seq(Banks) /\ b \in Banks
      BY <2>3, UnlinkList, ListedBanks DEF ControlInv
    <3>2. generation' \in Nat
      BY <2>3 DEF RemoveBank, StoreTypeOK, ControlInv
    <3>3. FreeBank(b)
      BY <2>3 DEF RemoveBank
    <3> QED BY <3>1, <3>2, <3>3, BlankType DEF FreeBank, StoreTypeOK, ControlInv
  <2> QED BY <2>1, <2>2, <2>3, <1>24, UnlinkHeap
<1>25. ASSUME ClaimBank(t) PROVE Goal
  <2>1. UNCHANGED store \/ \E b \in Listed : SetClaim(b, TRUE)
    BY <1>25 DEF ClaimBank, ClaimRefused, WithLabel
  <2>2. CASE UNCHANGED store
    BY <2>2, <1>25, ClaimBankHeap DEF StoreTypeOK, ControlInv
  <2> QED BY <2>1, <2>2, <1>25, ClaimBankHeap, ClaimType, ListedBanks DEF ControlInv
<1>26. ASSUME ReleaseBank(t) PROVE Goal
  <2>1. own[t] \in Banks /\ SetClaim(own[t], FALSE)
    BY <1>26, Owned DEF ReleaseBank
  <2> QED BY <2>1, <1>26, ReleaseBankHeap, ClaimType DEF ControlInv
<1> QED
  BY <1>1, <1>2, <1>3, <1>4, <1>5, <1>6, <1>7, <1>8, <1>9, <1>10, <1>11, <1>12,
     <1>13, <1>14, <1>15, <1>16, <1>17, <1>18, <1>19, <1>20, <1>21, <1>22, <1>23,
     <1>24, <1>25, <1>26
  DEF UserStep, Step, AddStep, DiscardStep, MountStep, UnloadStep

\* The accounting of publish and DISCARD keeps the counters integers.
LEMMA AccountType ==
  ASSUME StoreTypeOK, CountersTypeOK, NEW b \in Banks, bank[b].bytes \in Images,
         NEW sign \in {1, -1}
  PROVE  Account(b, sign) \in [CounterNames -> Int]
<1>1. bank[b].extent \in Int /\ bank[b].size \in Int /\ Meta(b) \in Int
  BY ImagesAssumption DEF StoreTypeOK, BankRecords, Meta
<1> DEFINE e == sign * bank[b].extent
           s == sign * bank[b].size
           m == sign * Meta(b)
<1>2. e \in Int /\ s \in Int /\ m \in Int
  BY <1>1
<1>3. CASE bank[b].preload
  <2>1. Account(b, sign) = [[[counters EXCEPT !["loader"] = @ + e] EXCEPT !["loader_image"] = @ + s]
                              EXCEPT !["metadata"] = @ + m]
    BY <1>3 DEF Account
  <2> HIDE DEF e, s, m
  <2>2. [counters EXCEPT !["loader"] = @ + e] \in [CounterNames -> Int]
    BY <1>2 DEF CountersTypeOK, CounterNames
  <2> QED BY <1>2, <2>1, <2>2 DEF CounterNames
<1>4. CASE ~bank[b].preload
  <2>1. Account(b, sign) = [[[counters EXCEPT !["imported"] = @ + e] EXCEPT !["imported_image"] = @ + s]
                              EXCEPT !["metadata"] = @ + m]
    BY <1>4 DEF Account
  <2> HIDE DEF e, s, m
  <2>2. [counters EXCEPT !["imported"] = @ + e] \in [CounterNames -> Int]
    BY <1>2 DEF CountersTypeOK, CounterNames
  <2> QED BY <1>2, <2>1, <2>2 DEF CounterNames
<1> QED BY <1>3, <1>4

\* Every step of a thread keeps the exported counters integers.
LEMMA CountersStep ==
  ASSUME ControlInv, HeapInv, CountersTypeOK, NEW t \in Threads, UserStep(t) \/ Step(t)
  PROVE  CountersTypeOK'
<1> USE DEF Goto, Decide, Unlock, Holds, store, ControlInv, HeapInv
<1>1. ASSUME PublishBank(t) PROVE CountersTypeOK'
  <2>1. own[t] \in Banks /\ bank[own[t]].bytes \in Images
    BY <1>1, Owned DEF PublishBank, OwnInv, Building
  <2> QED BY <1>1, <2>1, AccountType DEF PublishBank, Publish, CountersTypeOK
<1>2. ASSUME Unlink(t) PROVE CountersTypeOK'
  <2>1. UNCHANGED store \/ \E b \in Listed : RemoveBank(b)
    BY <1>2 DEF Unlink, Refuse, WithLabel
  <2>2. ASSUME NEW b \in Listed, RemoveBank(b) PROVE CountersTypeOK'
    <3>1. b \in Banks /\ bank[b].bytes \in Images
      BY ListedBanks DEF ListedIsValidated
    <3>2. Account(b, -1) \in [CounterNames -> Int]
      BY <3>1, AccountType
    <3>3. HostPage \in Nat /\ HostPage > 0 /\ bank[b].extent \in Nat
      BY <3>1, ImagesAssumption DEF StoreTypeOK, BankRecords
    <3>4. bank[b].extent \div HostPage \in Int
      BY <3>3
    <3> QED BY <2>2, <3>2, <3>4 DEF RemoveBank, CountersTypeOK, CounterNames
  <2> QED BY <2>1, <2>2 DEF CountersTypeOK
<1>3. ASSUME \/ \E k, g : ListRow(t, k, g)
             \/ OpenSource(t) \/ ReadHeader(t) \/ ReadImage(t) \/ FailImport(t)
             \/ ClaimBank(t) \/ ReleaseBank(t)
      PROVE  counters' = counters
  BY <1>3 DEF ListRow, Enter, OpenSource, ReadHeader, ReadImage, FailImport, FreeBank,
       ClaimBank, ClaimRefused, ReleaseBank, SetClaim
<1>4. ASSUME UserStep(t) PROVE counters' = counters
  BY <1>4 DEF UserStep, BeginIoctl, BeginMount, BeginUnload, Begin, Issue, Unmount,
     InterruptWait
<1>5. ASSUME \/ Acquire(t) \/ EnterStopping(t) \/ Leave(t) \/ Return(t)
             \/ TakeLinker(t) \/ Unbusy(t) \/ EnterAdd(t) \/ EnterDiscard(t) \/ UnloadStep(t)
      PROVE  counters' = counters
  BY <1>5 DEF Acquire, EnterStopping, Leave, Return, TakeLinker, Unbusy, EnterAdd,
       EnterDiscard, Enter, UnloadStep, Unregister, Uninit, DestroyDev, DestroyLock
<1> QED
  BY <1>1, <1>2, <1>3, <1>4, <1>5
  DEF Step, AddStep, DiscardStep, MountStep, CountersTypeOK

-----------------------------------------------------------------------------
(* The module's phase.                                                     *)

\* Every step of a thread keeps what the module's phase says: kldunload is alone in
\* ff_banks_uninit, no mount runs meanwhile, and no ioctl runs once the device is gone.
LEMMA PhaseStep ==
  ASSUME ControlInv, PhaseInv, NEW t \in Threads, UserStep(t) \/ Step(t)
  PROVE  PhaseInv'
<1> USE NullAssumption DEF Goto, Decide, Unlock, Holds, store, module, ControlInv,
        Unregistering, Mounting, InIoctl
<1>f. ASSUME UNCHANGED <<phase, stopping>>, pc[t] # "idle", pc'[t] \notin Closing,
             pc[t] \notin {"destroy", "drain"},
             \A u \in Threads \ {t} : pc'[u] = pc[u] /\ call'[u] = call[u],
             call'[t] \in {call[t], NoCall}
      PROVE  PhaseInv'
  BY <1>f DEF PhaseInv, Closing, NoCall
<1> USE DEF ControlTypeOK
<1>1. ASSUME UserStep(t) PROVE PhaseInv'
  <2>1. ASSUME BeginIoctl(t) PROVE PhaseInv'
    <3>1. /\ phase = "live" /\ UNCHANGED <<phase, stopping>>
          /\ pc[t] = "idle" /\ pc'[t] = "enter"
          /\ call'[t].cmd \in {"ADD", "DISCARD", "LIST"}
          /\ \A u \in Threads \ {t} : pc'[u] = pc[u] /\ call'[u] = call[u]
      BY <2>1 DEF BeginIoctl, Begin, Issue
    <3> QED BY <3>1 DEF PhaseInv
  <2>2. ASSUME BeginMount(t) PROVE PhaseInv'
    <3>1. /\ phase = "live" /\ ~Unregistering /\ UNCHANGED <<phase, stopping>>
          /\ pc[t] = "idle" /\ pc'[t] = "claim" /\ call'[t].cmd = "CLAIM"
          /\ \A u \in Threads \ {t} : pc'[u] = pc[u] /\ call'[u] = call[u]
      BY <2>2 DEF BeginMount, Begin, Issue
    <3> QED BY <3>1 DEF PhaseInv
  <2>3. ASSUME BeginUnload(t) PROVE PhaseInv'
    <3>1. /\ phase # "boot" /\ UNCHANGED <<phase, stopping>>
          /\ pc[t] = "idle" /\ pc'[t] = "kldwait" /\ call'[t].cmd = "UNLOAD"
          /\ \A u \in Threads \ {t} : pc'[u] = pc[u] /\ call'[u] = call[u]
      BY <2>3 DEF BeginUnload, Begin, Issue
    <3> QED BY <3>1 DEF PhaseInv
  <2>4. ASSUME Unmount(t) \/ InterruptWait(t) PROVE PhaseInv'
    BY <2>4, <1>f DEF Unmount, InterruptWait, Closing
  <2> QED BY <1>1, <2>1, <2>2, <2>3, <2>4 DEF UserStep
<1>2. ASSUME UnloadStep(t) PROVE PhaseInv'
  <2>u. \A u \in Threads \ {t} : pc[u] \notin Closing
    BY <1>2 DEF UnloadStep, Unregister, Uninit, DestroyDev, DestroyLock, LockInv,
         LinkerHeld, Closing
  <2> USE DEF Closing
  <2>1. ASSUME Unregister(t) PROVE PhaseInv'
    <3>1. /\ pc[t] = "unregister" /\ UNCHANGED <<phase, stopping, call>>
          /\ \A u \in Threads \ {t} : pc'[u] = pc[u]
          /\ \/ pc'[t] = "unbusy"
             \/ pc'[t] = "uninit" /\ phase # "gone" /\ Mounting = {}
      BY <2>1 DEF Unregister
    <3> QED BY <2>u, <3>1 DEF PhaseInv
  <2>2. ASSUME Uninit(t) PROVE PhaseInv'
    <3>1. /\ pc[t] = "uninit" /\ UNCHANGED <<phase, call>>
          /\ \A u \in Threads \ {t} : pc'[u] = pc[u]
          /\ \/ pc'[t] = "unbusy" /\ stopping' = stopping
             \/ pc'[t] = "destroy" /\ stopping' = TRUE
      BY <2>2 DEF Uninit
    <3> QED BY <2>u, <3>1 DEF PhaseInv
  <2>3. ASSUME DestroyDev(t) PROVE PhaseInv'
    <3>1. /\ pc[t] = "destroy" /\ pc'[t] = "drain" /\ phase' = "draining"
          /\ UNCHANGED <<stopping, call>>
          /\ \A u \in Threads \ {t} : pc'[u] = pc[u]
      BY <2>3 DEF DestroyDev
    <3> QED BY <2>u, <3>1 DEF PhaseInv
  <2>4. ASSUME DestroyLock(t) PROVE PhaseInv'
    <3>1. /\ pc[t] = "drain" /\ pc'[t] = "unbusy" /\ phase' = "gone" /\ InIoctl = {}
          /\ UNCHANGED <<stopping, call>>
          /\ \A u \in Threads \ {t} : pc'[u] = pc[u]
      BY <2>4 DEF DestroyLock
    <3> QED BY <2>u, <3>1 DEF PhaseInv
  <2> QED BY <1>2, <2>1, <2>2, <2>3, <2>4 DEF UnloadStep
<1>6. ASSUME Acquire(t) PROVE PhaseInv'
  BY <1>6 DEF Acquire, PhaseInv
<1>3. ASSUME \/ EnterStopping(t) \/ Leave(t) \/ Return(t)
             \/ TakeLinker(t) \/ Unbusy(t) \/ DiscardStep(t)
             \/ \E k, g : ListRow(t, k, g)
      PROVE  PhaseInv'
  BY <1>3, <1>f DEF EnterStopping, Leave, Return, TakeLinker, Unbusy,
       DiscardStep, EnterDiscard, Enter, Unlink, ListRow, Closing
<1>4. ASSUME AddStep(t) PROVE PhaseInv'
  BY <1>4, <1>f DEF AddStep, EnterAdd, Enter, OpenSource, ReadHeader, ReadImage,
       PublishBank, FailImport, Closing
<1>5. ASSUME MountStep(t) PROVE PhaseInv'
  BY <1>5, <1>f DEF MountStep, ClaimBank, ClaimRefused, ReleaseBank, Closing
<1> QED BY <1>1, <1>2, <1>3, <1>4, <1>5, <1>6 DEF Step

\* Once ff_banks_uninit has set `stopping', no step brings a bank, an allocation or
\* an operation back.
LEMMA StoppingStep ==
  ASSUME ControlInv, HeapInv, PhaseInv, StoppingIsEmpty, PhaseInv', NEW t \in Threads,
         UserStep(t) \/ Step(t)
  PROVE  StoppingIsEmpty'
<1> USE DEF Goto, Decide, Unlock, Holds, store, module, ControlInv
<1>0. active = 0 => Counted = {}
  BY CountedFinite, FS_EmptySet DEF ActiveCounts
<1>1. active = 0 => \A u \in Threads : pc[u] \notin {"leave", "source", "unlink"} \cup Building
  BY <1>0 DEF Counted, InIoctl, PcInv, Building
<1>2. CASE Uninit(t)
  <2>1. ASSUME stopping', ~stopping
        PROVE  list' = <<>> /\ structs' = {} /\ active' = 0
    <3>1. list = <<>> /\ active = 0 /\ UNCHANGED <<list, structs, active>>
      BY <1>2, <2>1 DEF Uninit, UninitBusy
    <3>2. Listed = {}
      BY <3>1 DEF Listed, Range
    <3>3. structs = {}
      BY <1>1, <3>1, <3>2 DEF NothingLeaks, HeapInv, Building
    <3> QED BY <3>1, <3>3
  <2>2. stopping' => Mounting' = {}
    BY DEF PhaseInv
  <2> QED BY <1>2, <2>1, <2>2 DEF Uninit, StoppingIsEmpty
<1>3. CASE ~Uninit(t)
  <2> SUFFICES ASSUME stopping' PROVE StoppingIsEmpty'
    BY DEF StoppingIsEmpty
  <2>1. Mounting' = {}
    BY DEF PhaseInv
  <2>2. stopping' = stopping
    BY <1>3 DEF UserStep, Step, AddStep, DiscardStep, MountStep, UnloadStep, BeginIoctl,
       BeginMount, BeginUnload, Begin, Issue, Unmount, InterruptWait, Acquire,
       EnterStopping, Leave, Return, TakeLinker, Unbusy, EnterAdd, EnterDiscard, Enter,
       ListRow, OpenSource, ReadHeader, ReadImage, PublishBank, FailImport, Unlink,
       ClaimBank, ReleaseBank, Unregister, DestroyDev, DestroyLock
  <2>3. /\ list = <<>> /\ structs = {} /\ active = 0 /\ Mounting = {}
    BY <2>2 DEF StoppingIsEmpty
  <2>4. UNCHANGED <<list, structs, active>>
    <3>1. pc[t] \notin {"leave", "source", "unlink", "claim"} \cup Building \cup Holding
      BY <2>3, <1>1 DEF Mounting, PcInv
    <3>2. ~Leave(t) /\ ~AddStep(t) /\ ~Unlink(t) /\ ~MountStep(t) /\ ~EnterDiscard(t)
          /\ \A k, g : ~ListRow(t, k, g)
      BY <2>2, <3>1 DEF Leave, AddStep, Unlink, MountStep, EnterAdd, EnterDiscard, Enter,
           ListRow, OpenSource, ReadHeader, ReadImage, PublishBank, FailImport,
           ClaimBank, ReleaseBank, Building, Holding
    <3> QED BY <1>3, <3>2 DEF UserStep, Step, DiscardStep, UnloadStep, BeginIoctl,
       BeginMount, BeginUnload, Begin, Issue, Unmount, InterruptWait, Acquire,
       EnterStopping, Return, TakeLinker, Unbusy, Unregister, DestroyDev, DestroyLock
  <2> QED BY <2>1, <2>3, <2>4 DEF StoppingIsEmpty
<1> QED BY <1>2, <1>3

\* Adopting a loader bank at boot keeps the whole inductive invariant.
LEMMA AdoptStep ==
  ASSUME IInv, NEW b \in Banks, NEW l \in Labels, NEW im \in Images,
         NEW pad \in Padding, Adopt(b, l, im, pad)
  PROVE  IInv'
<1> USE NullAssumption DEF IInv, ControlInv
<1> DEFINE r == [label |-> l, preload |-> TRUE, claimed |-> FALSE, size |-> im.size,
                 extent |-> RoundPage(im.size) + pad, bytes |-> im]
<1>1. /\ im.size \in Nat /\ im.meta \in Nat
      /\ RoundPage(im.size) + pad \in Nat /\ RoundPage(im.size) + pad >= im.size
  BY ImagesAssumption, RoundPageType
<1>2. r \in BankRecords /\ bank' = [bank EXCEPT ![b] = r]
  BY <1>1 DEF BankRecords, Adopt
<1>3. /\ r.label = l /\ ~r.claimed /\ r.bytes = im /\ r.size = im.size
      /\ r.extent >= r.size
  BY <1>1
<1> HIDE DEF r
<1>4. /\ bank'[b] = r /\ \A c \in Banks \ {b} : bank'[c] = bank[c]
  BY <1>2 DEF StoreTypeOK
<1>5. /\ UNCHANGED <<module, lock, linker, pc, call, own, result, calls>>
      /\ structs' = structs \cup {b} /\ backing' = backing \cup {b}
      /\ decoded' = decoded \cup {b} /\ list' = <<b>> \o list
      /\ b \notin structs /\ generation' = generation + 1 /\ phase = "boot"
      /\ \A c \in Listed : bank[c].label # l
  BY DEF Adopt, WithLabel
<1>6. /\ list' \in Seq(Banks) /\ Listed' = {b} \cup Listed
      /\ Len(list) \in Nat /\ DOMAIN list' = 1..Len(list) + 1 /\ list'[1] = b
      /\ \A i \in 1..Len(list) : list'[i + 1] = list[i]
  <2>1. list \in Seq(Banks)
    BY DEF StoreTypeOK
  <2>2. /\ list' \in Seq(Banks) /\ Len(list') = Len(list) + 1 /\ list'[1] = b
        /\ \A i \in 1..Len(list) : list'[i + 1] = list[i]
        /\ Range(list') = {b} \cup Range(list)
    BY <1>5, <2>1, RangePush
  <2> QED BY <2>1, <2>2 DEF Listed
<1>7. \A u \in Threads : pc[u] = "idle" /\ own[u] = NULL
  BY <1>5 DEF PhaseInv, PcInv, Building, Holding
<1>8. ControlInv'
  <2>1. StoreTypeOK'
    BY <1>2, <1>5, <1>6 DEF StoreTypeOK
  <2>2. ControlTypeOK' /\ PcInv' /\ LockInv' /\ ActiveCounts'
    BY <1>5 DEF ControlTypeOK, PcInv, LockInv, ActiveCounts, Counted, InIoctl, module
  <2> QED BY <2>1, <2>2
<1>9. b \notin Listed /\ Listed \subseteq Banks
  BY <1>5, Owned, ListedBanks
<1>10. HeapInv'
  <2> USE DEF HeapInv
  <2>1. OwnInv' /\ MountedIsResident'
    BY <1>5, <1>7 DEF OwnInv, MountedIsResident, Building
  <2>2. ListInv'
    <3>1. \A i \in DOMAIN list' : i # 1 =>
            i - 1 \in DOMAIN list /\ list'[i] = list[i - 1] /\ list[i - 1] \in Listed
      <4>1. DOMAIN list = 1..Len(list)
        BY DEF StoreTypeOK
      <4> SUFFICES ASSUME NEW i \in DOMAIN list', i # 1
                   PROVE  i - 1 \in DOMAIN list /\ list'[i] = list[i - 1]
                            /\ list[i - 1] \in Listed
        OBVIOUS
      <4>2. i - 1 \in 1..Len(list) /\ (i - 1) + 1 = i
        BY <1>6
      <4> QED BY <1>6, <4>1, <4>2 DEF Listed, Range
    <3>2. \A i, j \in DOMAIN list' : list'[i] = list'[j] => i = j
      BY <3>1, <1>6, <1>9 DEF ListInv
    <3>3. \A c, d \in Listed' : bank'[c].label = bank'[d].label => c = d
      BY <1>3, <1>4, <1>5, <1>6, <1>9 DEF ListInv
    <3> QED BY <3>2, <3>3 DEF ListInv
  <2>3. NothingLeaks'
    BY <1>5, <1>6, <1>7 DEF NothingLeaks
  <2>4. ListedIsValidated'
    BY <1>3, <1>4, <1>6, <1>9 DEF ListedIsValidated
  <2>5. ClaimsAreHeld'
    BY <1>3, <1>4, <1>5 DEF ClaimsAreHeld
  <2> QED BY <2>1, <2>2, <2>3, <2>4, <2>5
<1>11. CountersTypeOK'
  <2> DEFINE e == RoundPage(im.size) + pad
  <2>1. counters' = [[[counters EXCEPT !["loader"] = @ + e]
                         EXCEPT !["loader_image"] = @ + im.size]
                         EXCEPT !["metadata"] = @ + im.meta]
    BY DEF Adopt
  <2> HIDE DEF e
  <2>2. e \in Int
    BY <1>1 DEF e
  <2>3. [counters EXCEPT !["loader"] = @ + e] \in [CounterNames -> Int]
    BY <2>2 DEF CountersTypeOK, CounterNames
  <2> QED BY <1>1, <2>1, <2>3 DEF CountersTypeOK, CounterNames
<1>12. PhaseInv' /\ ~stopping
  BY <1>5, <1>7 DEF PhaseInv, Unregistering, Mounting, InIoctl, module
<1> QED BY <1>5, <1>8, <1>10, <1>11, <1>12 DEF StoppingIsEmpty, module

\* The module is loaded with the inductive invariant true.
LEMMA InvInit == Init => IInv
<1> SUFFICES ASSUME Init PROVE IInv
  OBVIOUS
<1> USE NullAssumption DEF Init
<1>1. Listed = {}
  BY DEF Listed, Range
<1>2. StoreTypeOK
  BY BlankType DEF StoreTypeOK
<1>3. ControlTypeOK /\ CountersTypeOK
  <2>1. ControlTypeOK
    BY DEF ControlTypeOK, PCs
  <2>2. CountersTypeOK
    BY DEF CountersTypeOK, CounterNames
  <2> QED BY <2>1, <2>2
<1>4. PcInv /\ LockInv /\ PhaseInv /\ StoppingIsEmpty
  BY DEF PcInv, LockInv, PhaseInv, StoppingIsEmpty, NoCall, Building, Holding, Closing,
       LinkerHeld, LockPoints, Unregistering, Mounting, InIoctl
<1>5. ActiveCounts
  <2>1. Counted = {}
    BY DEF Counted, InIoctl, NoCall
  <2> QED BY <2>1, FS_EmptySet DEF ActiveCounts
<1>6. HeapInv
  BY <1>1 DEF HeapInv, OwnInv, ListInv, NothingLeaks, ListedIsValidated,
       MountedIsResident, ClaimsAreHeld, Blank, Building
<1> QED BY <1>2, <1>3, <1>4, <1>5, <1>6 DEF IInv, ControlInv

\* Every step of every thread keeps the inductive invariant.
LEMMA InvStep == IInv /\ [Next]_vars => IInv'
<1> SUFFICES ASSUME IInv, [Next]_vars PROVE IInv'
  OBVIOUS
<1>1. ASSUME NEW t \in Threads, UserStep(t) \/ Step(t) PROVE IInv'
  <2>1. StoreTypeOK' /\ HeapInv'
    BY <1>1, StoreStep DEF IInv
  <2>2. ThreadInv'
    BY <1>1, ThreadInvStep DEF IInv, ControlInv
  <2>3. CountersTypeOK'
    BY <1>1, CountersStep DEF IInv
  <2>4. PhaseInv'
    BY <1>1, PhaseStep DEF IInv
  <2>5. StoppingIsEmpty'
    BY <1>1, <2>4, StoppingStep DEF IInv
  <2> QED BY <2>1, <2>2, <2>3, <2>4, <2>5 DEF IInv, ControlInv, ThreadInv
<1>2. ASSUME NEW b \in Banks, NEW l \in Labels, NEW im \in Images,
             NEW pad \in Padding, Adopt(b, l, im, pad)
      PROVE  IInv'
  BY <1>2, AdoptStep
<1>3. CASE OpenControl
  BY <1>3 DEF OpenControl, IInv, ControlInv, HeapInv, StoreTypeOK, ControlTypeOK, PcInv,
       LockInv, ActiveCounts, Counted, InIoctl, OwnInv, ListInv, NothingLeaks, Listed,
       ListedIsValidated, MountedIsResident, ClaimsAreHeld, CountersTypeOK, PhaseInv,
       StoppingIsEmpty, Unregistering, Mounting, store
<1>4. CASE UNCHANGED vars
  BY <1>4 DEF vars, IInv, ControlInv, HeapInv, StoreTypeOK, ControlTypeOK, PcInv,
       LockInv, ActiveCounts, Counted, InIoctl, OwnInv, ListInv, NothingLeaks, Listed,
       ListedIsValidated, MountedIsResident, ClaimsAreHeld, CountersTypeOK, PhaseInv,
       StoppingIsEmpty, Unregistering, Mounting
<1> QED BY <1>1, <1>2, <1>3, <1>4 DEF Next, Boot

(***************************************************************************)
(* The theorems.  Each holds for every set of threads (finite), labels,    *)
(* banks and images, and for every value of the bounds.                    *)
(***************************************************************************)

\* The inductive invariant holds in every reachable state of the bank store.
THEOREM Invariance == Spec => []IInv
BY InvInit, InvStep, PTL DEF Spec

\* Every variable keeps its type, the byte counters included.
THEOREM TypeCorrect == Spec => []TypeOK
<1>1. IInv => TypeOK
  BY DEF IInv, ControlInv, TypeOK
<1> QED BY <1>1, Invariance, PTL

\* find_bank, done again by publish under the lock, keeps labels unique although
\* the whole import runs without bank_lock.
THEOREM LabelsUnique == Spec => []UniqueLabels
<1>1. IInv => UniqueLabels
  <2> SUFFICES ASSUME IInv, NEW i \in DOMAIN list, NEW j \in DOMAIN list,
                      bank[list[i]].label = bank[list[j]].label
               PROVE  i = j
    BY DEF UniqueLabels
  <2>1. list[i] \in Listed /\ list[j] \in Listed
    BY DEF Listed, Range
  <2> QED BY <2>1 DEF IInv, HeapInv, ListInv
<1> QED BY <1>1, Invariance, PTL

\* The claim keeps a mounted bank listed and allocated against every DISCARD,
\* and gives it to one mount only.
THEOREM MountsAreSafe == Spec => []MountedIsResident
<1>1. IInv => MountedIsResident
  BY DEF IInv, HeapInv
<1> QED BY <1>1, Invariance, PTL

\* No claim outlives the mount that took it: ff_bank_release is reached.
THEOREM NoStaleClaim == Spec => []ClaimsAreHeld
<1>1. IInv => ClaimsAreHeld
  BY DEF IInv, HeapInv
<1> QED BY <1>1, Invariance, PTL

\* Losing, failing and interrupted operations neither leak nor free twice.
THEOREM NoLeak == Spec => []NothingLeaks
<1>1. IInv => NothingLeaks
  BY DEF IInv, HeapInv
<1> QED BY <1>1, Invariance, PTL

\* What is published is what ff_validate accepted, in a buffer that holds it.
THEOREM OnlyValidated == Spec => []ListedIsValidated
<1>1. IInv => ListedIsValidated
  BY DEF IInv, HeapInv
<1> QED BY <1>1, Invariance, PTL

\* active++ and active-- balance on every path through bank_ioctl.
THEOREM ActiveIsExact == Spec => []ActiveCounts
<1>1. IInv => ActiveCounts
  BY DEF IInv, ControlInv
<1> QED BY <1>1, Invariance, PTL

\* An unload that has been committed is never overtaken by a new bank or mount.
THEOREM StoppedStaysEmpty == Spec => []StoppingIsEmpty
<1>1. IInv => StoppingIsEmpty
  BY DEF IInv
<1> QED BY <1>1, Invariance, PTL

\* No thread can reach bank_lock after sx_destroy(&bank_lock).
THEOREM LockOutlives == Spec => []LockOutlivesUsers
<1>1. IInv => LockOutlivesUsers
  <2> SUFFICES ASSUME IInv, phase = "gone"
               PROVE  lock = NULL /\ \A t \in Threads : pc[t] \notin LockPoints
    BY DEF LockOutlivesUsers
  <2>1. stopping /\ Mounting = {} /\ InIoctl = {}
    BY DEF IInv, PhaseInv, StoppingIsEmpty
  <2>2. \A t \in Threads : pc[t] # "uninit"
    BY DEF IInv, PhaseInv
  <2>3. \A t \in Threads : pc[t] \notin LockPoints
    BY <2>1, <2>2 DEF LockPoints, Mounting, InIoctl, IInv, ControlInv, PcInv,
       Building, Holding
  <2> QED BY <2>3 DEF IInv, ControlInv, LockInv, ControlTypeOK
<1> QED BY <1>1, Invariance, PTL

-----------------------------------------------------------------------------
(* The refinement.  Beyond IInv it needs what a program point knows of the *)
(* answer (AnswerInv), and that a mount's bank has its call's label        *)
(* (LabelInv), so that a release frees the entry its claim took.           *)

\* the program points before a call's answer is decided
Undecided == {"idle", "enter", "source", "header", "read", "publish", "kldwait",
              "unlink", "unregister", "uninit", "claim"}

\* what each program point knows of the answer: none until it is decided, "ok"
\* while a claim is held, something else when the claim's call returns
AnswerOf(t) ==
  /\ result[t] = "none" <=> pc[t] \in Undecided
  /\ pc[t] \in Holding => result[t] = "ok"
  /\ pc[t] = "return" /\ call[t].cmd = "CLAIM" => result[t] # "ok"
AnswerInv == \A t \in Threads : AnswerOf(t)

\* the banks callers see have labels, and a mount's bank the one it asked for
LabelInv ==
  /\ \A b \in Listed : bank[b].label \in Labels
  /\ \A t \in Threads : pc[t] \in Holding => bank[own[t]].label = call[t].label

RegistryInv == IInv /\ AnswerInv /\ LabelInv

\* what the registry shows of the banks on the list stays as it is
Shown == \A b \in Listed : bank'[b].label = bank[b].label /\ bank'[b].claimed = bank[b].claimed
Kept == Listed' = Listed /\ Shown

\* Every step decides its call's answer at most once, before the call returns.
LEMMA AnswerStep ==
  ASSUME ControlInv, AnswerInv, NEW t \in Threads, UserStep(t) \/ Step(t)
  PROVE  AnswerInv'
<1> USE DEF Goto, Decide, Holds, ControlInv
<1>f. ASSUME \A u \in Threads \ {t} :
               pc'[u] = pc[u] /\ call'[u] = call[u] /\ result'[u] = result[u],
             AnswerOf(t)'
      PROVE  AnswerInv'
  BY <1>f DEF AnswerInv, AnswerOf
<1>t. AnswerOf(t)
  BY DEF AnswerInv
<1> USE DEF ControlTypeOK, AnswerOf, Undecided, Holding
<1>1. ASSUME BeginIoctl(t) \/ BeginMount(t) \/ BeginUnload(t) PROVE AnswerInv'
  BY <1>1, <1>f, <1>t DEF BeginIoctl, BeginMount, BeginUnload, Begin, Issue
<1>2. ASSUME Unmount(t) \/ InterruptWait(t) PROVE AnswerInv'
  BY <1>2, <1>f, <1>t DEF Unmount, InterruptWait
<1>3. ASSUME Acquire(t) \/ TakeLinker(t) PROVE AnswerInv'
  BY <1>3, <1>f, <1>t DEF Acquire, TakeLinker
<1>4. ASSUME EnterStopping(t) \/ Leave(t) \/ Unbusy(t) PROVE AnswerInv'
  BY <1>4, <1>f, <1>t DEF EnterStopping, Leave, Unbusy, PcInv
<1>5. ASSUME Return(t) PROVE AnswerInv'
  BY <1>5, <1>f, <1>t DEF Return
<1>6. ASSUME EnterAdd(t) PROVE AnswerInv'
  BY <1>6, <1>f, <1>t DEF EnterAdd, Enter
<1>7. ASSUME OpenSource(t) \/ ReadHeader(t) \/ ReadImage(t) PROVE AnswerInv'
  BY <1>7, <1>f, <1>t DEF OpenSource, ReadHeader, ReadImage
<1>8. ASSUME PublishBank(t) \/ FailImport(t) PROVE AnswerInv'
  BY <1>8, <1>f, <1>t DEF PublishBank, FailImport
<1>9. ASSUME DiscardStep(t) PROVE AnswerInv'
  BY <1>9, <1>f, <1>t DEF DiscardStep, EnterDiscard, Enter, Unlink, Refuse
<1>10. ASSUME ClaimBank(t) PROVE AnswerInv'
  BY <1>10, <1>f, <1>t DEF ClaimBank, ClaimRefused
<1>11. ASSUME ReleaseBank(t) PROVE AnswerInv'
  BY <1>11, <1>f, <1>t DEF ReleaseBank
<1>12. ASSUME UnloadStep(t) PROVE AnswerInv'
  BY <1>12, <1>f, <1>t DEF UnloadStep, Unregister, Uninit, DestroyDev, DestroyLock, PcInv
<1>13. ASSUME NEW i \in 0..Cardinality(Banks), NEW g \in {0, generation}, ListRow(t, i, g)
       PROVE  AnswerInv'
  BY <1>13, <1>f, <1>t DEF ListRow, Enter, ListResult
<1> QED BY <1>1, <1>2, <1>3, <1>4, <1>5, <1>6, <1>7, <1>8, <1>9, <1>10, <1>11, <1>12,
        <1>13 DEF UserStep, Step, AddStep, MountStep

\* What an import does to the bank it builds, callers of the registry cannot see.
LEMMA ImportIsHidden ==
  ASSUME ControlInv, HeapInv, NEW t \in Threads,
         OpenSource(t) \/ ReadHeader(t) \/ ReadImage(t) \/ FailImport(t)
  PROVE  /\ Kept /\ UNCHANGED <<list, generation, call>>
         /\ \A b \in Listed : bank'[b] = bank[b]
         /\ pc[t] \notin Holding /\ pc'[t] \notin Holding
         /\ \A u \in Threads \ {t} : pc'[u] = pc[u] /\ own'[u] = own[u]
<1> USE DEF Goto, Decide, ControlInv, StoreTypeOK, ControlTypeOK, Holding
<1>1. Listed \subseteq structs /\ Listed \subseteq Banks
  BY Owned, ListedBanks
<1>2. ASSUME OpenSource(t) PROVE \A b \in Listed : bank'[b] = bank[b]
  BY <1>1, <1>2 DEF OpenSource
<1>3. ASSUME pc[t] \in Building PROVE own[t] \in Banks \ Listed
  BY <1>3, Owned
<1>4. ASSUME ReadHeader(t) PROVE \A b \in Listed : bank'[b] = bank[b]
  <2>1. own[t] \in Banks \ Listed
    BY <1>3, <1>4 DEF ReadHeader, Building
  <2>2. \A c \in Banks \ {own[t]} : bank'[c] = bank[c]
    BY <1>4 DEF ReadHeader
  <2> QED BY <1>1, <2>1, <2>2
<1>5. ASSUME ReadImage(t) PROVE \A b \in Listed : bank'[b] = bank[b]
  <2>1. own[t] \in Banks \ Listed
    BY <1>3, <1>5 DEF ReadImage, Building
  <2>2. \A c \in Banks \ {own[t]} : bank'[c] = bank[c]
    BY <1>5 DEF ReadImage
  <2> QED BY <1>1, <2>1, <2>2
<1>6. ASSUME FailImport(t) PROVE \A b \in Listed : bank'[b] = bank[b]
  BY <1>1, <1>3, <1>6 DEF FailImport, FreeBank, Building
<1>7. /\ pc[t] \notin Holding /\ pc'[t] \notin Holding
      /\ \A u \in Threads \ {t} : pc'[u] = pc[u] /\ own'[u] = own[u]
      /\ UNCHANGED <<list, generation, call>>
  BY DEF OpenSource, ReadHeader, ReadImage, FailImport
<1> QED BY <1>2, <1>4, <1>5, <1>6, <1>7 DEF Kept, Shown, Listed

\* publish shows the new bank, unclaimed, under the label of its call.
LEMMA PublishShows ==
  ASSUME ControlInv, HeapInv, NEW t \in Threads, PublishBank(t)
  PROVE  \/ Kept /\ result' = [result EXCEPT ![t] = "EEXIST"] /\ WithLabel(call[t].label) # {}
         \/ /\ Listed' = {own[t]} \cup Listed /\ bank' = bank
            /\ own[t] \in Banks \ Listed /\ WithLabel(call[t].label) = {}
            /\ bank[own[t]].label = call[t].label /\ ~bank[own[t]].claimed
            /\ result' = [result EXCEPT ![t] = "ok"]
<1> USE DEF Goto, Decide, Holds, ControlInv
<1>1. CASE WithLabel(call[t].label) # {}
  BY <1>1 DEF PublishBank, Kept, Shown, Listed, store
<1>2. CASE WithLabel(call[t].label) = {}
  <2>1. own[t] \in Banks \ Listed
    BY Owned DEF PublishBank, Building
  <2>2. bank[own[t]].label = call[t].label /\ ~bank[own[t]].claimed
    BY DEF PublishBank, HeapInv, OwnInv, Building
  <2>3. list' = <<own[t]>> \o list /\ list \in Seq(Banks)
    BY <1>2 DEF PublishBank, Publish, StoreTypeOK
  <2>4. Listed' = {own[t]} \cup Listed
    BY <2>1, <2>3, RangePush DEF Listed
  <2> QED BY <1>2, <2>1, <2>2, <2>4 DEF PublishBank, Publish
<1> QED BY <1>1, <1>2

\* DISCARD hides the one bank of its label, if it is not claimed.
LEMMA UnlinkHides ==
  ASSUME ControlInv, HeapInv, NEW t \in Threads, Unlink(t)
  PROVE  \/ Kept /\ WithLabel(call[t].label) = {} /\ result' = [result EXCEPT ![t] = "ENOENT"]
         \/ /\ Kept /\ result' = [result EXCEPT ![t] = "EBUSY"]
            /\ \E b \in WithLabel(call[t].label) : bank[b].claimed
         \/ \E b \in WithLabel(call[t].label) :
              /\ ~bank[b].claimed /\ Listed' = Listed \ {b}
              /\ \A c \in Banks \ {b} : bank'[c] = bank[c]
              /\ result' = [result EXCEPT ![t] = "ok"]
<1> USE DEF Goto, Decide, Holds, ControlInv
<1>1. \/ UNCHANGED store /\ WithLabel(call[t].label) = {}
           /\ result' = [result EXCEPT ![t] = "ENOENT"]
      \/ UNCHANGED store /\ result' = [result EXCEPT ![t] = "EBUSY"]
           /\ \E b \in WithLabel(call[t].label) : bank[b].claimed
      \/ \E b \in WithLabel(call[t].label) :
           ~bank[b].claimed /\ RemoveBank(b) /\ result' = [result EXCEPT ![t] = "ok"]
  BY DEF Unlink, Refuse
<1>2. UNCHANGED store => Kept
  BY DEF store, Kept, Shown, Listed
<1>3. ASSUME NEW b \in WithLabel(call[t].label), RemoveBank(b)
      PROVE  Listed' = Listed \ {b} /\ \A c \in Banks \ {b} : bank'[c] = bank[c]
  <2>1. b \in Listed
    BY DEF WithLabel
  <2> QED BY <1>3, <2>1, UnlinkList, ListedBanks DEF RemoveBank, FreeBank, StoreTypeOK
<1> QED BY <1>1, <1>2, <1>3

\* A claim and a release show in the mark of one bank on the list.
LEMMA ClaimShows ==
  ASSUME ControlInv, HeapInv, NEW b \in Listed, NEW v \in BOOLEAN, SetClaim(b, v)
  PROVE  /\ Listed' = Listed /\ b \in Banks
         /\ bank'[b].label = bank[b].label /\ bank'[b].claimed = v
         /\ \A c \in Banks \ {b} : bank'[c] = bank[c]
<1>1. b \in Banks /\ bank \in [Banks -> BankRecords]
  BY ListedBanks DEF ControlInv, StoreTypeOK
<1> QED BY <1>1 DEF SetClaim, Listed, BankRecords

\* The label a call names is one of the labels, not NULL.
LEMMA CallLabel ==
  ASSUME ControlTypeOK, NEW t \in Threads, call[t].cmd \in {"ADD", "DISCARD", "CLAIM"}
  PROVE  call[t].label \in Labels
BY DEF ControlTypeOK, NoCall, LabelCalls, PlainCalls

\* A bank keeps its label while it is listed, and a mount the bank it asked for.
LEMMA LabelStep ==
  ASSUME IInv, LabelInv, NEW t \in Threads, UserStep(t) \/ Step(t)
  PROVE  LabelInv'
<1> USE DEF Goto, Decide, Holds, IInv, ControlInv, Holding
<1>f. ASSUME Kept, \A u \in Threads : pc'[u] \in Holding =>
                     pc[u] \in Holding /\ own'[u] = own[u] /\ call'[u] = call[u]
      PROVE  LabelInv'
  BY <1>f, Owned DEF LabelInv, Kept, Shown
<1>q. UNCHANGED store => Kept
  BY DEF store, Kept, Shown, Listed
<1>1. ASSUME UserStep(t) PROVE LabelInv'
  BY <1>1, <1>f, <1>q DEF UserStep, BeginIoctl, BeginMount, BeginUnload, Begin, Issue,
     Unmount, InterruptWait, ControlTypeOK
<1>2. ASSUME \/ Acquire(t) \/ EnterStopping(t) \/ Leave(t) \/ Return(t) \/ TakeLinker(t)
             \/ Unbusy(t)
      PROVE  LabelInv'
  BY <1>2, <1>f, <1>q DEF Acquire, EnterStopping, Leave, Return, TakeLinker, Unbusy,
     ControlTypeOK, LockPoints
<1>3. ASSUME EnterAdd(t) \/ EnterDiscard(t)
               \/ \E i \in 0..Cardinality(Banks), g \in {0, generation} : ListRow(t, i, g)
      PROVE  LabelInv'
  BY <1>3, <1>f, <1>q DEF EnterAdd, EnterDiscard, ListRow, Enter, ControlTypeOK
<1>4. ASSUME UnloadStep(t) PROVE LabelInv'
  BY <1>4, <1>f, <1>q DEF UnloadStep, Unregister, Uninit, DestroyDev, DestroyLock,
     ControlTypeOK
<1>5. ASSUME OpenSource(t) \/ ReadHeader(t) \/ ReadImage(t) \/ FailImport(t)
      PROVE  LabelInv'
  BY <1>5, <1>f, ImportIsHidden DEF ControlTypeOK
<1>6. ASSUME PublishBank(t) PROVE LabelInv'
  <2>1. /\ \A u \in Threads : pc'[u] \in Holding =>
             u # t /\ pc[u] \in Holding /\ own'[u] = own[u] /\ call'[u] = call[u]
        /\ call[t].label \in Labels
    BY <1>6, CallLabel DEF PublishBank, ControlTypeOK, PcInv, Building
  <2>2. CASE Kept
    BY <1>f, <2>1, <2>2
  <2>3. CASE Listed' = {own[t]} \cup Listed /\ bank' = bank
    BY <1>6, <2>1, <2>3, PublishShows DEF LabelInv, Kept, Shown
  <2> QED BY <1>6, <2>2, <2>3, PublishShows
<1>7. ASSUME Unlink(t) PROVE LabelInv'
  <2>1. \A u \in Threads : pc'[u] \in Holding =>
          pc[u] \in Holding /\ own'[u] = own[u] /\ call'[u] = call[u]
    BY <1>7 DEF Unlink, ControlTypeOK
  <2>2. CASE Kept
    BY <1>f, <2>1, <2>2
  <2>3. ASSUME NEW b \in Listed, ~bank[b].claimed, Listed' = Listed \ {b},
               \A c \in Banks \ {b} : bank'[c] = bank[c]
        PROVE  LabelInv'
    <3>1. \A u \in Threads : pc[u] \in Holding => own[u] \in Banks \ {b}
      BY <2>3, Owned DEF HeapInv, MountedIsResident
    <3> QED BY <2>1, <2>3, <3>1, ListedBanks DEF LabelInv
  <2> QED BY <1>7, <2>2, <2>3, UnlinkHides DEF WithLabel
<1>8. ASSUME ClaimBank(t) PROVE LabelInv'
  <2>1. CASE UNCHANGED <<store, own, call>> /\ Goto(t, "return")
    BY <1>f, <1>q, <2>1 DEF ControlTypeOK
  <2>2. ASSUME NEW b \in WithLabel(call[t].label), SetClaim(b, TRUE),
               own' = [own EXCEPT ![t] = b], call' = call, Goto(t, "mounted")
        PROVE  LabelInv'
    <3>1. /\ b \in Listed /\ bank[b].label = call[t].label
          /\ Listed' = Listed /\ b \in Banks /\ bank'[b].label = bank[b].label
          /\ \A c \in Banks \ {b} : bank'[c] = bank[c]
      BY <2>2, ClaimShows DEF WithLabel
    <3>2. \A c \in Banks : bank'[c].label = bank[c].label
      BY <3>1
    <3> QED BY <2>2, <3>1, <3>2, Owned, ListedBanks DEF LabelInv, ControlTypeOK
  <2> QED BY <1>8, <2>1, <2>2 DEF ClaimBank, ClaimRefused, ControlTypeOK
<1>9. ASSUME ReleaseBank(t) PROVE LabelInv'
  <2>1. own[t] \in Listed /\ SetClaim(own[t], FALSE)
    BY <1>9, Owned DEF ReleaseBank
  <2>2. /\ Listed' = Listed /\ own[t] \in Banks /\ bank'[own[t]].label = bank[own[t]].label
        /\ \A c \in Banks \ {own[t]} : bank'[c] = bank[c]
    BY <2>1, ClaimShows
  <2>3. \A c \in Banks : bank'[c].label = bank[c].label
    BY <2>2
  <2>4. \A u \in Threads : pc'[u] \in Holding =>
          pc[u] \in Holding /\ own'[u] = own[u] /\ call'[u] = call[u]
    BY <1>9 DEF ReleaseBank, ControlTypeOK
  <2> QED BY <2>2, <2>3, <2>4, Owned, ListedBanks DEF LabelInv
<1> QED BY <1>1, <1>2, <1>3, <1>4, <1>5, <1>6, <1>7, <1>8, <1>9
        DEF Step, AddStep, DiscardStep, MountStep

-----------------------------------------------------------------------------
(* The registry that callers see, and how each step changes it.            *)

\* Labels are unique, so that an entry is what its one bank says.
LEMMA EntryValues ==
  ASSUME IInv, NEW l \in Labels
  PROVE  /\ WithLabel(l) = {} <=> Entry[l] = "absent"
         /\ \A b \in WithLabel(l) :
              Entry[l] = IF bank[b].claimed THEN "claimed" ELSE "available"
<1>1. \A b, c \in WithLabel(l) : b = c
  BY DEF IInv, HeapInv, ListInv, WithLabel
<1> QED BY <1>1 DEF Entry, EntryOf

\* What does not show changes no entry.
LEMMA EntryKept == ASSUME Kept PROVE Entry' = Entry
<1>1. ASSUME NEW l \in Labels PROVE EntryOf(l)' = EntryOf(l)
  <2>1. WithLabel(l)' = WithLabel(l) /\ \A b \in WithLabel(l) : bank'[b].claimed = bank[b].claimed
    BY DEF Kept, Shown, WithLabel
  <2> QED BY <2>1 DEF EntryOf
<1> QED BY <1>1 DEF Entry

\* What happens to the bank of one label changes that label's entry only.
LEMMA EntryMoved ==
  ASSUME NEW l \in Labels, NEW v, EntryOf(l)' = v,
         \A m \in Labels \ {l} :
           WithLabel(m)' = WithLabel(m)
             /\ \A b \in WithLabel(m) : bank'[b].claimed = bank[b].claimed
  PROVE  Entry' = [Entry EXCEPT ![l] = v]
<1>1. ASSUME NEW m \in Labels \ {l} PROVE EntryOf(m)' = EntryOf(m)
  BY <1>1 DEF EntryOf
<1> QED BY <1>1 DEF Entry

\* publish makes its label's entry available.
LEMMA PublishedEntry ==
  ASSUME IInv, NEW l \in Labels, NEW b \in Banks \ Listed, bank'[b].label = l,
         ~bank'[b].claimed, WithLabel(l) = {}, Listed' = {b} \cup Listed,
         \A c \in Listed : bank'[c] = bank[c]
  PROVE  Entry[l] = "absent" /\ Entry' = [Entry EXCEPT ![l] = "available"]
<1>1. Entry[l] = "absent"
  BY EntryValues
<1>2. WithLabel(l)' = {b}
  BY DEF WithLabel
<1>3. EntryOf(l)' = "available"
  BY <1>2 DEF EntryOf
<1>4. \A m \in Labels \ {l} :
        WithLabel(m)' = WithLabel(m)
          /\ \A c \in WithLabel(m) : bank'[c].claimed = bank[c].claimed
  BY DEF WithLabel
<1> QED BY <1>1, <1>3, <1>4, EntryMoved

\* DISCARD makes its label's entry absent.
LEMMA UnlinkedEntry ==
  ASSUME IInv, NEW l \in Labels, NEW b \in WithLabel(l), ~bank[b].claimed,
         Listed' = Listed \ {b}, \A c \in Banks \ {b} : bank'[c] = bank[c]
  PROVE  Entry[l] = "available" /\ Entry' = [Entry EXCEPT ![l] = "absent"]
<1>1. Entry[l] = "available"
  BY EntryValues
<1>2. \A c \in Listed \ {b} : bank'[c] = bank[c]
  BY ListedBanks DEF IInv, ControlInv
<1>3. WithLabel(l)' = {}
  BY <1>2 DEF IInv, HeapInv, ListInv, WithLabel
<1>4. EntryOf(l)' = "absent"
  BY <1>3 DEF EntryOf
<1>5. \A m \in Labels \ {l} :
        WithLabel(m)' = WithLabel(m)
          /\ \A c \in WithLabel(m) : bank'[c].claimed = bank[c].claimed
  BY <1>2 DEF WithLabel
<1> QED BY <1>1, <1>4, <1>5, EntryMoved

\* A claim and a release move their label's entry between available and claimed.
LEMMA ClaimedEntry ==
  ASSUME IInv, NEW l \in Labels, NEW b \in WithLabel(l), NEW v \in BOOLEAN, SetClaim(b, v)
  PROVE  Entry' = [Entry EXCEPT ![l] = IF v THEN "claimed" ELSE "available"]
<1>1. /\ b \in Listed /\ bank[b].label = l
      /\ Listed' = Listed /\ b \in Banks
      /\ bank'[b].label = l /\ bank'[b].claimed = v
      /\ \A c \in Banks \ {b} : bank'[c] = bank[c]
  BY ClaimShows DEF IInv, WithLabel
<1>2. \A c \in Listed \ {b} : bank'[c] = bank[c]
  BY <1>1, ListedBanks DEF IInv, ControlInv
<1>3. WithLabel(l)' = {b}
  BY <1>1, <1>2 DEF IInv, HeapInv, ListInv, WithLabel
<1>4. EntryOf(l)' = IF v THEN "claimed" ELSE "available"
  BY <1>1, <1>3 DEF EntryOf
<1>5. \A m \in Labels \ {l} :
        WithLabel(m)' = WithLabel(m)
          /\ \A c \in WithLabel(m) : bank'[c].claimed = bank[c].claimed
  BY <1>1, <1>2 DEF WithLabel
<1> QED BY <1>4, <1>5, EntryMoved

-----------------------------------------------------------------------------
(* Each step is a step of the registry, or changes nothing that it shows.  *)

\* the registry's step, or none
Simulated == [Registry!Next]_Registry!vars

\* no step of a thread but a committed unload changes the registry's phase
SamePhase == RegistryPhase' = RegistryPhase

\* A call that ends with an answer and no effect.
LEMMA AnswerShown ==
  ASSUME Kept, SamePhase, call' = call, NEW t \in Threads, NEW r,
         result' = [result EXCEPT ![t] = r]
  PROVE  Registry!Answer(t, r)
BY EntryKept DEF Registry!Answer, SamePhase

\* A step that shows nothing.
LEMMA Hidden ==
  ASSUME Kept, SamePhase, call' = call, result' = result
  PROVE  Simulated
BY EntryKept DEF Simulated, Registry!vars, SamePhase

\* Calls are issued and return one by one.
LEMMA CallSimulated ==
  ASSUME RegistryInv, NEW t \in Threads,
         BeginIoctl(t) \/ BeginMount(t) \/ BeginUnload(t) \/ Return(t)
  PROVE  Simulated
<1> USE DEF RegistryInv, IInv, ControlInv, Goto, Decide
<1>1. Kept /\ SamePhase
  BY DEF BeginIoctl, BeginMount, BeginUnload, Begin, Issue, Return, store, module,
     Kept, Shown, Listed, SamePhase, RegistryPhase
<1>2. Entry' = Entry
  BY <1>1, EntryKept
<1>3. ASSUME NEW c \in Registry!Calls, phase # "boot", pc[t] = "idle",
             call' = [call EXCEPT ![t] = c], result' = result
      PROVE  Simulated
  <2>1. call[t] = NoCall /\ NoCall = Registry!NoCall
    BY <1>3 DEF PcInv, ControlTypeOK, NoCall, LabelCalls, PlainCalls, Registry!NoCall
  <2>2. RegistryPhase # "boot"
    BY <1>3 DEF RegistryPhase
  <2>3. Registry!Invoke(t, c)
    BY <1>1, <1>2, <1>3, <2>1, <2>2 DEF Registry!Invoke, SamePhase
  <2> QED BY <2>3 DEF Simulated, Registry!Next
<1>4. CASE BeginIoctl(t)
  <2>1. PICK c \in Registry!Calls : Begin(t, c, "enter") /\ phase # "boot"
    BY <1>4 DEF BeginIoctl, Registry!Calls
  <2> QED BY <1>3, <2>1 DEF Begin, Issue
<1>5. CASE BeginMount(t)
  <2>1. PICK c \in Registry!Calls : Begin(t, c, "claim") /\ phase # "boot"
    BY <1>5 DEF BeginMount, Registry!Calls
  <2> QED BY <1>3, <2>1 DEF Begin, Issue
<1>6. CASE BeginUnload(t)
  <2>1. PICK c \in Registry!Calls : Begin(t, c, "kldwait") /\ phase # "boot"
    BY <1>6 DEF BeginUnload, Registry!Calls
  <2> QED BY <1>3, <2>1 DEF Begin, Issue
<1>7. CASE Return(t)
  <2>1. /\ result[t] # "none" /\ ~(call[t].cmd = "CLAIM" /\ result[t] = "ok")
        /\ NoCall = Registry!NoCall
    BY <1>7 DEF Return, AnswerInv, AnswerOf, Undecided, NoCall, Registry!NoCall
  <2>2. Registry!Return(t)
    BY <1>1, <1>2, <1>7, <2>1 DEF Return, Registry!Return, SamePhase
  <2> QED BY <2>2 DEF Simulated, Registry!Next
<1> QED BY <1>4, <1>5, <1>6, <1>7

\* Steps between the instants at which calls take effect.
LEMMA QuietSimulated ==
  ASSUME RegistryInv, NEW t \in Threads,
         \/ Unmount(t) \/ Acquire(t) \/ Leave(t) \/ TakeLinker(t) \/ Unbusy(t)
         \/ EnterDiscard(t) \/ DestroyDev(t) \/ DestroyLock(t) \/ FailImport(t)
  PROVE  Simulated
<1> USE DEF RegistryInv, IInv, ControlInv, Goto, Decide
<1>1. CASE Unmount(t) \/ Acquire(t) \/ Leave(t) \/ TakeLinker(t) \/ Unbusy(t) \/ EnterDiscard(t)
  <2>1. UNCHANGED <<store, stopping, phase, call, result>>
    BY <1>1 DEF Unmount, Acquire, Leave, TakeLinker, Unbusy, EnterDiscard, Enter, module
  <2> QED BY <2>1, Hidden DEF store, Kept, Shown, Listed, SamePhase, RegistryPhase
<1>2. CASE DestroyDev(t) \/ DestroyLock(t)
  <2>1. UNCHANGED <<store, stopping, call, result>> /\ stopping
    BY <1>2 DEF DestroyDev, DestroyLock, PhaseInv
  <2> QED BY <2>1, Hidden DEF store, Kept, Shown, Listed, SamePhase, RegistryPhase
<1>3. CASE FailImport(t)
  <2>1. Kept /\ SamePhase /\ call' = call /\ result' = result
    BY <1>3, ImportIsHidden DEF FailImport, module, SamePhase, RegistryPhase
  <2> QED BY <2>1, Hidden
<1> QED BY <1>1, <1>2, <1>3

\* An ADD takes effect at publish, and fails at its entry, in the import or there.
LEMMA AddSimulated ==
  ASSUME RegistryInv, NEW t \in Threads,
         \/ EnterAdd(t) \/ OpenSource(t) \/ ReadHeader(t) \/ ReadImage(t) \/ PublishBank(t)
  PROVE  Simulated
<1> USE DEF RegistryInv, IInv, ControlInv, Goto, Decide, Holds
<1>1. /\ call[t].cmd = "ADD" => call[t].label \in Labels
      /\ pc[t] \in {"enter", "source", "header", "read", "publish"} => result[t] = "none"
  BY CallLabel DEF AnswerInv, AnswerOf, Undecided
<1>2. ASSUME call[t].cmd = "ADD", result[t] = "none", Kept, SamePhase, call' = call,
             \/ result' = result
             \/ result' = [result EXCEPT ![t] = "EINVAL"]
             \/ /\ WithLabel(call[t].label) # {}
                /\ result' = [result EXCEPT ![t] = "EEXIST"]
      PROVE  Simulated
  <2>1. CASE result' = result
    BY <1>2, <2>1, Hidden
  <2>2. CASE result' = [result EXCEPT ![t] = "EINVAL"]
    <3>1. Registry!Answer(t, "EINVAL")
      BY <1>2, <2>2, AnswerShown
    <3> QED BY <1>2, <3>1 DEF Simulated, Registry!Next, Registry!Add, Registry!Pending
  <2>3. CASE /\ WithLabel(call[t].label) # {}
             /\ result' = [result EXCEPT ![t] = "EEXIST"]
    <3>1. Registry!Answer(t, "EEXIST")
      BY <1>2, <2>3, AnswerShown
    <3>2. Entry[call[t].label] # "absent"
      BY <1>1, <1>2, <2>3, EntryValues
    <3> QED BY <1>2, <3>1, <3>2
            DEF Simulated, Registry!Next, Registry!Add, Registry!Pending
  <2> QED BY <1>2, <2>1, <2>2, <2>3
<1>3. CASE EnterAdd(t)
  <2>1. Kept /\ SamePhase /\ call' = call /\ call[t].cmd = "ADD" /\ pc[t] = "enter"
    BY <1>3 DEF EnterAdd, Enter, store, Kept, Shown, Listed, SamePhase, RegistryPhase
  <2>2. \/ result' = result
        \/ /\ WithLabel(call[t].label) # {}
           /\ result' = [result EXCEPT ![t] = "EEXIST"]
    BY <1>3 DEF EnterAdd
  <2> QED BY <1>1, <1>2, <2>1, <2>2
<1>4. CASE OpenSource(t) \/ ReadHeader(t) \/ ReadImage(t)
  <2>1. Kept /\ call' = call
    BY <1>4, ImportIsHidden
  <2>2. SamePhase /\ call[t].cmd = "ADD" /\ pc[t] \in {"source", "header", "read"}
    BY <1>4 DEF OpenSource, ReadHeader, ReadImage, module, PcInv, Building, SamePhase,
       RegistryPhase
  <2>3. result' = result \/ result' = [result EXCEPT ![t] = "EINVAL"]
    BY <1>4 DEF OpenSource, ReadHeader, ReadImage
  <2> QED BY <1>1, <1>2, <2>1, <2>2, <2>3
<1>5. CASE PublishBank(t)
  <2>1. /\ SamePhase /\ call' = call /\ pc[t] = "publish" /\ call[t].cmd = "ADD"
        /\ call[t].label \in Labels /\ result[t] = "none"
    BY <1>1, <1>5 DEF PublishBank, module, PcInv, Building, SamePhase, RegistryPhase
  <2>2. CASE Kept /\ result' = [result EXCEPT ![t] = "EEXIST"] /\ WithLabel(call[t].label) # {}
    BY <1>2, <2>1, <2>2
  <2>3. CASE /\ Listed' = {own[t]} \cup Listed /\ bank' = bank
             /\ own[t] \in Banks \ Listed /\ WithLabel(call[t].label) = {}
             /\ bank[own[t]].label = call[t].label /\ ~bank[own[t]].claimed
             /\ result' = [result EXCEPT ![t] = "ok"]
    <3>1. /\ Entry[call[t].label] = "absent"
          /\ Entry' = [Entry EXCEPT ![call[t].label] = "available"]
      BY <2>1, <2>3, PublishedEntry
    <3>2. t \in Counted
      BY <2>1 DEF Counted, InIoctl
    <3>3. ~stopping
      BY <3>2, Positive DEF StoppingIsEmpty
    <3>4. RegistryPhase = "live"
      BY <2>1, <3>3 DEF RegistryPhase, PhaseInv
    <3>5. Registry!Move(t, "absent", "available", "ok")
      BY <2>1, <2>3, <3>1 DEF Registry!Move, SamePhase
    <3> QED BY <2>1, <3>4, <3>5 DEF Simulated, Registry!Next, Registry!Add, Registry!Pending
  <2> QED BY <1>5, <2>2, <2>3, PublishShows
<1> QED BY <1>3, <1>4, <1>5

\* A DISCARD takes effect when the bank is unlinked, a LIST when its row is read.
LEMMA DiscardSimulated ==
  ASSUME RegistryInv, NEW t \in Threads, Unlink(t) \/ InterruptWait(t)
  PROVE  Simulated
<1> USE DEF RegistryInv, IInv, ControlInv, Goto, Decide, Holds
<1>1. /\ SamePhase /\ call' = call /\ call[t].cmd = "DISCARD"
      /\ call[t].label \in Labels /\ result[t] = "none"
  <2>1. /\ UNCHANGED <<module, call>> /\ call[t].cmd = "DISCARD"
        /\ pc[t] \in {"unlink", "kldwait"}
    BY DEF Unlink, InterruptWait, PcInv
  <2> QED BY <2>1, CallLabel
          DEF module, SamePhase, RegistryPhase, AnswerInv, AnswerOf, Undecided
<1>2. CASE InterruptWait(t)
  <2>1. Kept /\ result' = [result EXCEPT ![t] = "EINTR"]
    BY <1>2 DEF InterruptWait, store, Kept, Shown, Listed
  <2>2. Registry!Answer(t, "EINTR")
    BY <1>1, <2>1, AnswerShown
  <2> QED BY <1>1, <2>2 DEF Simulated, Registry!Next, Registry!Discard, Registry!Pending
<1>3. CASE Kept /\ WithLabel(call[t].label) = {} /\ result' = [result EXCEPT ![t] = "ENOENT"]
  <2>1. Registry!Answer(t, "ENOENT")
    BY <1>1, <1>3, AnswerShown
  <2>2. Entry[call[t].label] = "absent"
    BY <1>1, <1>3, EntryValues
  <2> QED BY <1>1, <2>1, <2>2 DEF Simulated, Registry!Next, Registry!Discard, Registry!Pending
<1>4. CASE /\ Kept /\ result' = [result EXCEPT ![t] = "EBUSY"]
           /\ \E b \in WithLabel(call[t].label) : bank[b].claimed
  <2>1. Registry!Answer(t, "EBUSY")
    BY <1>1, <1>4, AnswerShown
  <2>2. Entry[call[t].label] = "claimed"
    BY <1>1, <1>4, EntryValues
  <2> QED BY <1>1, <2>1, <2>2 DEF Simulated, Registry!Next, Registry!Discard, Registry!Pending
<1>5. ASSUME NEW b \in WithLabel(call[t].label), ~bank[b].claimed, Listed' = Listed \ {b},
             \A c \in Banks \ {b} : bank'[c] = bank[c],
             result' = [result EXCEPT ![t] = "ok"]
      PROVE  Simulated
  <2>1. /\ Entry[call[t].label] = "available"
        /\ Entry' = [Entry EXCEPT ![call[t].label] = "absent"]
    BY <1>1, <1>5, UnlinkedEntry
  <2>2. Registry!Move(t, "available", "absent", "ok")
    BY <1>1, <1>5, <2>1 DEF Registry!Move, SamePhase
  <2> QED BY <1>1, <2>2 DEF Simulated, Registry!Next, Registry!Discard, Registry!Pending
<1> QED BY <1>2, <1>3, <1>4, <1>5, UnlinkHides

\* A listed bank is an entry that is not absent.
LEMMA ListedShows ==
  ASSUME RegistryInv, list # <<>>
  PROVE  \E l \in Labels : Entry[l] # "absent"
<1>1. list \in Seq(Banks)
  BY DEF RegistryInv, IInv, ControlInv, StoreTypeOK
<1>2. list[1] \in Listed
  BY <1>1 DEF Listed, Range
<1>3. bank[list[1]].label \in Labels /\ list[1] \in WithLabel(bank[list[1]].label)
  BY <1>2 DEF RegistryInv, LabelInv, WithLabel
<1> QED BY <1>3, EntryValues DEF RegistryInv

\* A LIST answers from one instant; every ioctl is refused once the module stops.
LEMMA ListSimulated ==
  ASSUME RegistryInv, NEW t \in Threads,
         \/ EnterStopping(t)
         \/ \E i \in 0..Cardinality(Banks), g \in {0, generation} : ListRow(t, i, g)
  PROVE  Simulated
<1> USE DEF RegistryInv, IInv, ControlInv, Goto, Decide, Holds
<1>1. /\ Kept /\ SamePhase /\ call' = call /\ pc[t] = "enter" /\ result[t] = "none"
      /\ call[t].cmd \in {"ADD", "LIST", "DISCARD"}
  <2>1. UNCHANGED <<store, stopping, phase, call>> /\ pc[t] = "enter"
    BY DEF EnterStopping, ListRow, Enter, module
  <2> QED BY <2>1 DEF PcInv, store, Kept, Shown, Listed, SamePhase, RegistryPhase,
          AnswerInv, AnswerOf, Undecided
<1>2. CASE EnterStopping(t)
  <2>1. Registry!Answer(t, "ENXIO") /\ RegistryPhase = "closed"
    BY <1>1, <1>2, AnswerShown DEF EnterStopping, RegistryPhase
  <2>2. Registry!Add(t) \/ Registry!List(t) \/ Registry!Discard(t)
    BY <1>1, <2>1 DEF Registry!Add, Registry!List, Registry!Discard, Registry!Pending
  <2> QED BY <2>2 DEF Simulated, Registry!Next
<1>3. ASSUME NEW i \in 0..Cardinality(Banks), NEW g \in {0, generation}, ListRow(t, i, g)
      PROVE  Simulated
  <2>1. PICK r \in {"ok", "ENOENT", "EAGAIN"} :
          /\ result' = [result EXCEPT ![t] = r] /\ call[t].cmd = "LIST"
          /\ r = "ok" => ~(i >= Len(list))
    BY <1>3 DEF ListRow, ListResult, Enter
  <2>2. r = "ok" => \E l \in Labels : Entry[l] # "absent"
    <3>1. ASSUME r = "ok" PROVE list # <<>>
      BY <2>1, <3>1
    <3> QED BY <3>1, ListedShows
  <2>3. Registry!Answer(t, r)
    BY <1>1, <2>1, AnswerShown
  <2>4. Registry!List(t)
    BY <1>1, <2>1, <2>2, <2>3 DEF Registry!List, Registry!Pending
  <2> QED BY <2>4 DEF Simulated, Registry!Next
<1> QED BY <1>2, <1>3

\* A claim takes effect under the lock, and so does its release.
LEMMA MountSimulated ==
  ASSUME RegistryInv, NEW t \in Threads, ClaimBank(t) \/ ReleaseBank(t)
  PROVE  Simulated
<1> USE DEF RegistryInv, IInv, ControlInv, Goto, Decide, Holds
<1>1. /\ SamePhase /\ call' = call /\ call[t].cmd = "CLAIM" /\ call[t].label \in Labels
      /\ phase # "boot"
  <2>1. /\ UNCHANGED <<module, call>> /\ call[t].cmd = "CLAIM"
        /\ pc[t] \in {"claim", "release"}
    BY DEF ClaimBank, ReleaseBank, PcInv, Holding
  <2> QED BY <2>1, CallLabel DEF module, SamePhase, RegistryPhase, PhaseInv
<1>2. CASE ClaimBank(t)
  <2>1. result[t] = "none"
    BY <1>2 DEF ClaimBank, AnswerInv, AnswerOf, Undecided
  <2>2. ASSUME NEW r, UNCHANGED store, result' = [result EXCEPT ![t] = r]
        PROVE  Registry!Answer(t, r)
    BY <1>1, <2>2, AnswerShown DEF store, Kept, Shown, Listed
  <2>3. CASE stopping /\ ClaimRefused(t, "ENXIO")
    <3>1. Registry!Answer(t, "ENXIO") /\ RegistryPhase = "closed"
      BY <2>2, <2>3 DEF ClaimRefused, RegistryPhase
    <3> QED BY <1>1, <2>1, <3>1 DEF Simulated, Registry!Next, Registry!Claim, Registry!Pending
  <2>4. CASE WithLabel(call[t].label) = {} /\ ClaimRefused(t, "ENOENT")
    <3>1. Registry!Answer(t, "ENOENT") /\ Entry[call[t].label] = "absent"
      BY <1>1, <2>2, <2>4, EntryValues DEF ClaimRefused
    <3> QED BY <1>1, <2>1, <3>1 DEF Simulated, Registry!Next, Registry!Claim, Registry!Pending
  <2>5. ASSUME NEW b \in WithLabel(call[t].label), bank[b].claimed, ClaimRefused(t, "EBUSY")
        PROVE  Simulated
    <3>1. Registry!Answer(t, "EBUSY") /\ Entry[call[t].label] = "claimed"
      BY <1>1, <2>2, <2>5, EntryValues DEF ClaimRefused
    <3> QED BY <1>1, <2>1, <3>1 DEF Simulated, Registry!Next, Registry!Claim, Registry!Pending
  <2>6. ASSUME ~stopping, NEW b \in WithLabel(call[t].label), ~bank[b].claimed,
               SetClaim(b, TRUE), result' = [result EXCEPT ![t] = "ok"]
        PROVE  Simulated
    <3>1. /\ Entry[call[t].label] = "available"
          /\ Entry' = [Entry EXCEPT ![call[t].label] = "claimed"]
      BY <1>1, <2>6, EntryValues, ClaimedEntry
    <3>2. Registry!Move(t, "available", "claimed", "ok") /\ RegistryPhase = "live"
      BY <1>1, <2>6, <3>1 DEF Registry!Move, SamePhase, RegistryPhase
    <3> QED BY <1>1, <2>1, <3>2 DEF Simulated, Registry!Next, Registry!Claim, Registry!Pending
  <2> QED BY <1>2, <2>3, <2>4, <2>5, <2>6 DEF ClaimBank
<1>3. CASE ReleaseBank(t)
  <2>1. /\ own[t] \in Listed /\ bank[own[t]].label = call[t].label
        /\ bank[own[t]].claimed /\ result[t] = "ok"
    BY <1>3 DEF ReleaseBank, HeapInv, MountedIsResident, LabelInv, AnswerInv, AnswerOf, Holding
  <2>2. own[t] \in WithLabel(call[t].label)
    BY <2>1 DEF WithLabel
  <2>3. SetClaim(own[t], FALSE) /\ result' = [result EXCEPT ![t] = "released"]
    BY <1>3 DEF ReleaseBank
  <2>4. /\ Entry[call[t].label] = "claimed"
        /\ Entry' = [Entry EXCEPT ![call[t].label] = "available"]
    BY <1>1, <2>1, <2>2, <2>3, EntryValues, ClaimedEntry
  <2>5. Registry!Move(t, "claimed", "available", "released")
    BY <1>1, <2>3, <2>4 DEF Registry!Move, SamePhase
  <2> QED BY <1>1, <2>1, <2>5 DEF Simulated, Registry!Next, Registry!Release
<1> QED BY <1>2, <1>3

\* An unload is decided when the module is found unregistered or mounted, or in
\* ff_banks_uninit, under the lock.
LEMMA UnloadSimulated ==
  ASSUME RegistryInv, NEW t \in Threads, Unregister(t) \/ Uninit(t)
  PROVE  Simulated
<1> USE DEF RegistryInv, IInv, ControlInv, Goto, Decide, Holds
<1>1. /\ Kept /\ call' = call /\ call[t].cmd = "UNLOAD" /\ result[t] = "none"
      /\ pc[t] \in {"unregister", "uninit"}
  <2>1. UNCHANGED <<store, call>> /\ pc[t] \in {"unregister", "uninit"}
    BY DEF Unregister, Uninit
  <2> QED BY <2>1 DEF PcInv, Closing, store, Kept, Shown, Listed, AnswerInv, AnswerOf,
          Undecided
<1>2. ASSUME NEW u \in Threads, call[u].cmd \in {"ADD", "LIST", "DISCARD", "CLAIM"}
      PROVE  Registry!Others(t)
  BY <1>1, <1>2 DEF Registry!Others, Registry!NoCall
<1>3. ASSUME SamePhase, result' = [result EXCEPT ![t] = "EBUSY"],
             Registry!Others(t) \/ \E l \in Labels : Entry[l] # "absent"
      PROVE  Simulated
  <2>1. Registry!Answer(t, "EBUSY")
    BY <1>1, <1>3, AnswerShown
  <2> QED BY <1>1, <1>3, <2>1 DEF Simulated, Registry!Next, Registry!Unload, Registry!Pending
<1>4. CASE Unregister(t)
  <2>1. SamePhase
    BY <1>4 DEF Unregister, module, SamePhase, RegistryPhase
  <2>2. CASE phase = "gone" /\ result' = [result EXCEPT ![t] = "ENOENT"]
    <3>1. Registry!Answer(t, "ENOENT") /\ RegistryPhase = "closed"
      BY <1>1, <2>1, <2>2, AnswerShown DEF RegistryPhase, PhaseInv
    <3> QED BY <1>1, <3>1 DEF Simulated, Registry!Next, Registry!Unload, Registry!Pending
  <2>3. CASE Mounting # {} /\ result' = [result EXCEPT ![t] = "EBUSY"]
    BY <1>2, <1>3, <2>1, <2>3 DEF Mounting
  <2>4. CASE result' = result
    BY <1>1, <2>1, <2>4, Hidden
  <2> QED BY <1>4, <2>2, <2>3, <2>4 DEF Unregister
<1>5. CASE Uninit(t) /\ UninitBusy
  <2>1. SamePhase /\ result' = [result EXCEPT ![t] = "EBUSY"]
    BY <1>5 DEF Uninit, SamePhase, RegistryPhase
  <2>2. CASE list # <<>>
    BY <1>3, <2>1, <2>2, ListedShows
  <2>3. CASE active # 0
    <3>1. Counted # {}
      BY <2>3, FS_EmptySet DEF ActiveCounts
    <3> QED BY <1>2, <1>3, <2>1, <3>1 DEF Counted, InIoctl
  <2> QED BY <1>5, <2>2, <2>3 DEF UninitBusy
<1>6. CASE Uninit(t) /\ ~UninitBusy
  <2>1. /\ stopping' = TRUE /\ result' = [result EXCEPT ![t] = "ok"] /\ pc[t] = "uninit"
        /\ list = <<>>
    BY <1>6 DEF Uninit, UninitBusy
  <2>2. phase = "live" /\ ~stopping
    <3>1. \A u \in Threads : pc[u] # "destroy"
      BY <2>1 DEF LockInv, LinkerHeld
    <3> QED BY <2>1, <3>1 DEF PhaseInv
  <2>3. RegistryPhase = "live" /\ RegistryPhase' = "closed"
    BY <2>1, <2>2 DEF RegistryPhase
  <2>4. \A l \in Labels : Entry[l] = "absent"
    BY <2>1 DEF Entry, EntryOf, WithLabel, Listed, Range
  <2>5. Entry' = Entry
    BY <1>1, EntryKept
  <2> QED BY <1>1, <2>1, <2>3, <2>4, <2>5
          DEF Simulated, Registry!Next, Registry!Unload, Registry!Pending
<1> QED BY <1>4, <1>5, <1>6

\* Loader banks appear before the control device does.
LEMMA BootSimulated ==
  ASSUME RegistryInv, Boot
  PROVE  Simulated /\ AnswerInv' /\ LabelInv'
<1> USE DEF RegistryInv, IInv
<1>1. phase = "boot" /\ ~stopping /\ \A t \in Threads : pc[t] = "idle"
  <2>1. phase = "boot"
    BY DEF Boot, OpenControl, Adopt
  <2> QED BY <2>1 DEF PhaseInv
<1>2. AnswerInv'
  <2>1. UNCHANGED <<pc, call, result>>
    BY DEF Boot, OpenControl, Adopt
  <2> QED BY <2>1 DEF AnswerInv, AnswerOf
<1>3. CASE OpenControl
  <2>1. Kept /\ call' = call /\ result' = result /\ LabelInv'
    BY <1>3 DEF OpenControl, store, Kept, Shown, Listed, LabelInv
  <2>2. RegistryPhase = "boot" /\ RegistryPhase' = "live"
    BY <1>1, <1>3 DEF OpenControl, RegistryPhase
  <2> QED BY <1>2, <2>1, <2>2, EntryKept DEF Simulated, Registry!Next, Registry!Open
<1>4. ASSUME NEW b \in Banks, NEW l \in Labels, NEW im \in Images, NEW pad \in Padding,
             Adopt(b, l, im, pad)
      PROVE  Simulated /\ LabelInv'
  <2>1. b \notin Listed /\ WithLabel(l) = {} /\ Listed \subseteq Banks
    BY <1>4, Owned, ListedBanks DEF Adopt, ControlInv
  <2>2. Listed' = {b} \cup Listed
    <3>1. list \in Seq(Banks) /\ list' = <<b>> \o list
      BY <1>4 DEF Adopt, ControlInv, StoreTypeOK
    <3> QED BY <3>1, RangePush DEF Listed
  <2>3. /\ bank'[b].label = l /\ ~bank'[b].claimed
        /\ \A c \in Listed : bank'[c] = bank[c]
    <3> DEFINE r == [label |-> l, preload |-> TRUE, claimed |-> FALSE, size |-> im.size,
                     extent |-> RoundPage(im.size) + pad, bytes |-> im]
    <3>1. r.label = l /\ ~r.claimed
      OBVIOUS
    <3>2. bank' = [bank EXCEPT ![b] = r]
      BY <1>4 DEF Adopt
    <3> HIDE DEF r
    <3> QED BY <2>1, <3>1, <3>2 DEF ControlInv, StoreTypeOK
  <2>4. Entry[l] = "absent" /\ Entry' = [Entry EXCEPT ![l] = "available"]
    BY <2>1, <2>2, <2>3, PublishedEntry
  <2>5. /\ UNCHANGED <<stopping, phase, pc, call, own, result>>
        /\ RegistryPhase = "boot" /\ RegistryPhase' = "boot"
    BY <1>1, <1>4 DEF Adopt, module, RegistryPhase
  <2>6. Registry!Adopt(l)
    BY <2>4, <2>5 DEF Registry!Adopt
  <2>7. LabelInv'
    BY <1>1, <2>2, <2>3, <2>5 DEF LabelInv, Holding
  <2> QED BY <2>6, <2>7 DEF Simulated, Registry!Next
<1> QED BY <1>2, <1>3, <1>4 DEF Boot

\* The invariant that the refinement rests on holds of every reachable state.
LEMMA RegistryInvariance ==
  /\ Init => RegistryInv
  /\ RegistryInv /\ [Next]_vars => RegistryInv'
<1>1. ASSUME Init PROVE RegistryInv
  <2>1. Listed = {}
    BY <1>1 DEF Init, Listed, Range
  <2>2. AnswerInv /\ LabelInv
    BY <1>1, <2>1 DEF Init, AnswerInv, AnswerOf, LabelInv, Undecided, Holding
  <2> QED BY <1>1, <2>2, InvInit DEF RegistryInv
<1>2. ASSUME RegistryInv, [Next]_vars PROVE RegistryInv'
  <2>1. IInv'
    BY <1>2, InvStep DEF RegistryInv
  <2>2. ASSUME NEW t \in Threads, UserStep(t) \/ Step(t) PROVE AnswerInv' /\ LabelInv'
    BY <1>2, <2>2, AnswerStep, LabelStep DEF RegistryInv, IInv
  <2>3. CASE Boot
    BY <1>2, <2>1, <2>3, BootSimulated DEF RegistryInv
  <2>4. CASE UNCHANGED vars
    BY <1>2, <2>1, <2>4 DEF vars, RegistryInv, AnswerInv, AnswerOf, LabelInv, Listed
  <2> QED BY <1>2, <2>1, <2>2, <2>3, <2>4 DEF Next, RegistryInv
<1> QED BY <1>1, <1>2

\* The lock, the list, the imports outside the lock and the count of operations
\* implement a registry on which every ADD, LIST, DISCARD, claim, release and
\* unload takes effect at one instant, with the answer that instant justifies.
THEOREM RegistryImplemented == Spec => ImplementsRegistry
<1>1. Init => Registry!Init
  <2> SUFFICES ASSUME Init PROVE Registry!Init
    OBVIOUS
  <2>1. Entry = [l \in Labels |-> "absent"]
    BY DEF Init, Entry, EntryOf, WithLabel, Listed, Range
  <2> QED BY <2>1 DEF Init, Registry!Init, RegistryPhase, NoCall, Registry!NoCall
<1>2. RegistryInv /\ [Next]_vars => [Registry!Next]_Registry!vars
  <2> SUFFICES ASSUME RegistryInv, [Next]_vars PROVE Simulated
    BY DEF Simulated
  <2>1. CASE Boot
    BY <2>1, BootSimulated
  <2>2. ASSUME NEW t \in Threads, UserStep(t) \/ Step(t) PROVE Simulated
    BY <2>2, CallSimulated, QuietSimulated, AddSimulated, DiscardSimulated, ListSimulated,
       MountSimulated, UnloadSimulated
       DEF UserStep, Step, AddStep, DiscardStep, MountStep, UnloadStep
  <2>3. CASE UNCHANGED vars
    BY <2>3, Hidden DEF vars, Kept, Shown, Listed, SamePhase, RegistryPhase
  <2> QED BY <2>1, <2>2, <2>3 DEF Next
<1> QED BY <1>1, <1>2, RegistryInvariance, PTL DEF Spec, ImplementsRegistry, Registry!Spec

-----------------------------------------------------------------------------
(* The counters are sums: what adding and removing a bank does to a sum.   *)
(* Sums over sets are defined by recursion over the members picked, and    *)
(* the statements about all finite sets go by induction over their size,   *)
(* with a set of sizes in the place of a predicate.                        *)

Below(m, n) == m < n

\* The least element of a set of naturals.
LEMMA LeastNat ==
  ASSUME NEW A \in SUBSET Nat, A # {}
  PROVE  \E n \in A : \A m \in A : n <= m
<1> DEFINE R == OpToRel(Below, Nat)
<1>1. IsWellFoundedOn(R, Nat)
  BY NatLessThanWellFounded DEF OpToRel, Below
<1>2. PICK n \in A : \A m \in A : ~ (<<m, n>> \in R)
  <2> HIDE DEF R
  <2> QED BY <1>1, WFMin
<1>3. ASSUME NEW m \in A PROVE n <= m
  <2>1. m \in Nat /\ n \in Nat OBVIOUS
  <2>2. ~(m < n) BY <1>2, <2>1 DEF OpToRel, Below
  <2> QED BY <2>1, <2>2
<1> QED BY <1>3

\* Induction over the size of finite sets: A is the set of the sizes up to which
\* a statement holds.
LEMMA Sizes ==
  ASSUME NEW A, 0 \in A, \A n \in Nat : n \in A => n + 1 \in A
  PROVE  Nat \subseteq A
<1> DEFINE B == Nat \ A
<1> SUFFICES ASSUME B # {} PROVE FALSE
  OBVIOUS
<1>1. PICK k \in B : \A j \in B : k <= j
  <2>1. B \in SUBSET Nat OBVIOUS
  <2> HIDE DEF B
  <2> QED BY <2>1, LeastNat
<1>2. k - 1 \in Nat /\ k - 1 \notin B /\ (k - 1) + 1 = k
  BY <1>1
<1> QED BY <1>2, <1>1

\* the recursion that a sum over a set is defined by, for the sets of D
Pick(s) == CHOOSE x \in s : TRUE
IsSum(g, f, D) ==
  \A s \in D : g[s] = IF s = {} THEN 0 ELSE f[Pick(s)] + g[s \ {Pick(s)}]

\* f and e have the same values at the members of S
Agree(f, e, S) == \A x \in S : f[x] = e[x]
SumOver(g, f, S) == IsSum(g, f, SUBSET S)

UpToSize(S, n) == {s \in SUBSET S : Cardinality(s) <= n}
HasSums(f, S, n) == \E g \in [UpToSize(S, n) -> Int] : IsSum(g, f, UpToSize(S, n))

LEMMA Picked ==
  ASSUME NEW s, s # {}
  PROVE  Pick(s) \in s
BY DEF Pick

\* Without one member a finite set is smaller.
LEMMA Smaller ==
  ASSUME NEW s, IsFiniteSet(s), NEW x \in s
  PROVE  /\ IsFiniteSet(s \ {x}) /\ Cardinality(s) \in Nat \ {0}
         /\ Cardinality(s \ {x}) = Cardinality(s) - 1
<1>1. Cardinality(s) \in Nat /\ Cardinality(s) # 0
  BY FS_CardinalityType, FS_EmptySet
<1> QED BY <1>1, FS_RemoveElement

LEMMA SumsExist ==
  ASSUME NEW S, IsFiniteSet(S), NEW f, \A x \in S : f[x] \in Int
  PROVE  \A n \in Nat : HasSums(f, S, n)
<1> DEFINE A == {n \in Nat : HasSums(f, S, n)}
<1>0. \A s \in SUBSET S : IsFiniteSet(s) /\ Cardinality(s) \in Nat /\ (Cardinality(s) = 0 <=> s = {})
  BY FS_Subset, FS_CardinalityType, FS_EmptySet
<1>1. 0 \in A
  <2> DEFINE g == [s \in UpToSize(S, 0) |-> 0]
  <2>1. \A s \in UpToSize(S, 0) : s = {}
    BY <1>0 DEF UpToSize
  <2>2. g \in [UpToSize(S, 0) -> Int] /\ IsSum(g, f, UpToSize(S, 0))
    BY <2>1 DEF IsSum
  <2> HIDE DEF g
  <2>3. HasSums(f, S, 0)
    BY <2>2 DEF HasSums
  <2> QED BY <2>3
<1>2. ASSUME NEW n \in Nat, n \in A PROVE n + 1 \in A
  <2>1. PICK g \in [UpToSize(S, n) -> Int] : IsSum(g, f, UpToSize(S, n))
    BY <1>2 DEF HasSums
  <2> DEFINE h == [s \in UpToSize(S, n + 1) |->
                     IF s = {} THEN 0 ELSE f[Pick(s)] + g[s \ {Pick(s)}]]
  <2>2. ASSUME NEW s \in UpToSize(S, n + 1), s # {}
        PROVE  Pick(s) \in S /\ s \ {Pick(s)} \in UpToSize(S, n)
    <3>1. s \in SUBSET S /\ Cardinality(s) <= n + 1 /\ Pick(s) \in s
      BY <2>2, Picked DEF UpToSize
    <3>2. Cardinality(s \ {Pick(s)}) = Cardinality(s) - 1 /\ Cardinality(s) \in Nat
      BY <1>0, <3>1, Smaller
    <3>3. Cardinality(s \ {Pick(s)}) <= n
      BY <3>1, <3>2
    <3> QED BY <3>1, <3>3 DEF UpToSize
  <2>3. h \in [UpToSize(S, n + 1) -> Int]
    BY <2>1, <2>2
  <2>4. \A s \in UpToSize(S, n) : s \in UpToSize(S, n + 1) /\ h[s] = g[s]
    <3> TAKE s \in UpToSize(S, n)
    <3>1. s \in UpToSize(S, n + 1)
      BY <1>0 DEF UpToSize
    <3> QED BY <2>1, <3>1 DEF IsSum
  <2>5. IsSum(h, f, UpToSize(S, n + 1))
    <3>1. \A s \in UpToSize(S, n + 1) :
            h[s] = IF s = {} THEN 0 ELSE f[Pick(s)] + g[s \ {Pick(s)}]
      OBVIOUS
    <3> HIDE DEF h
    <3> QED BY <2>2, <2>4, <3>1 DEF IsSum
  <2> HIDE DEF h
  <2>6. HasSums(f, S, n + 1)
    BY <2>3, <2>5 DEF HasSums
  <2>7. n + 1 \in Nat OBVIOUS
  <2> QED BY <2>6, <2>7
<1>3. Nat \subseteq A
  <2> HIDE DEF A
  <2> QED BY <1>1, <1>2, Sizes
<1> QED BY <1>3

\* A sum depends on the values at the members alone.
LEMMA SumsUnique ==
  ASSUME NEW S, NEW T, NEW R, R \subseteq S, R \subseteq T, IsFiniteSet(R),
         NEW f, NEW e, Agree(f, e, R),
         NEW g, SumOver(g, f, S), NEW h, SumOver(h, e, T)
  PROVE  g[R] = h[R]
<1> USE DEF Agree, SumOver
<1> DEFINE A == {n \in Nat : \A s \in SUBSET R : Cardinality(s) <= n => g[s] = h[s]}
<1>0. \A s \in SUBSET R : IsFiniteSet(s) /\ Cardinality(s) \in Nat /\ (Cardinality(s) = 0 <=> s = {})
  BY FS_Subset, FS_CardinalityType, FS_EmptySet
<1>1. 0 \in A
  <2>1. \A s \in SUBSET R : Cardinality(s) <= 0 => s = {}
    BY <1>0
  <2>2. {} \in SUBSET S /\ {} \in SUBSET T
    OBVIOUS
  <2>3. g[{}] = h[{}]
    BY <2>2 DEF IsSum
  <2> QED BY <2>1, <2>3
<1>2. ASSUME NEW n \in Nat, n \in A PROVE n + 1 \in A
  <2> SUFFICES ASSUME NEW s \in SUBSET R, Cardinality(s) <= n + 1 PROVE g[s] = h[s]
    OBVIOUS
  <2>1. s \in SUBSET S /\ s \in SUBSET T
    OBVIOUS
  <2>2. CASE s = {}
    BY <2>1, <2>2 DEF IsSum
  <2>3. CASE s # {}
    <3>1. Pick(s) \in s
      BY <2>3, Picked
    <3>2. Cardinality(s \ {Pick(s)}) = Cardinality(s) - 1 /\ Cardinality(s) \in Nat
      BY <1>0, <3>1, Smaller
    <3>3. Cardinality(s \ {Pick(s)}) <= n /\ s \ {Pick(s)} \in SUBSET R
      BY <3>2
    <3>4. g[s \ {Pick(s)}] = h[s \ {Pick(s)}]
      BY <1>2, <3>3
    <3>5. g[s] = f[Pick(s)] + g[s \ {Pick(s)}] /\ h[s] = e[Pick(s)] + h[s \ {Pick(s)}]
      BY <2>1, <2>3 DEF IsSum
    <3> QED BY <3>1, <3>4, <3>5
  <2> QED BY <2>2, <2>3
<1>3. Nat \subseteq A
  <2> HIDE DEF A
  <2> QED BY <1>1, <1>2, Sizes
<1> QED BY <1>0, <1>3

\* SumFunctionOnSet is such a sum.
LEMMA SumIs ==
  ASSUME NEW S, IsFiniteSet(S), NEW f, \A x \in S : f[x] \in Int
  PROVE  \E g \in [SUBSET S -> Int] : IsSum(g, f, SUBSET S) /\ SumFunctionOnSet(f, S) = g[S]
<1> DEFINE i == CHOOSE i : i = [s \in SUBSET S |->
                  IF s = {} THEN 0
                  ELSE f[CHOOSE x \in s : TRUE] + i[s \ {CHOOSE x \in s : TRUE}]]
           n == Cardinality(S)
<1>1. UpToSize(S, n) = SUBSET S /\ n \in Nat
  <2>1. \A s \in SUBSET S : Cardinality(s) <= n
    BY FS_Subset
  <2> QED BY <2>1, FS_CardinalityType DEF UpToSize
<1>2. PICK g \in [SUBSET S -> Int] : IsSum(g, f, SUBSET S)
  <2> HIDE DEF n
  <2>1. HasSums(f, S, n)
    BY <1>1, SumsExist
  <2> QED BY <1>1, <2>1 DEF HasSums
<1>3. g = [s \in SUBSET S |->
             IF s = {} THEN 0
             ELSE f[CHOOSE x \in s : TRUE] + g[s \ {CHOOSE x \in s : TRUE}]]
  BY <1>2 DEF IsSum, Pick
<1>4. i = [s \in SUBSET S |->
             IF s = {} THEN 0
             ELSE f[CHOOSE x \in s : TRUE] + i[s \ {CHOOSE x \in s : TRUE}]]
  BY <1>3
<1>5. SumFunctionOnSet(f, S) = i[S]
  BY DEF SumFunctionOnSet, FoldFunctionOnSet, MapThenFoldSet
<1> HIDE DEF i
<1>6. IsSum(i, f, SUBSET S)
  BY <1>4 DEF IsSum, Pick
<1>7. i[S] = g[S]
  <2>1. S \subseteq S /\ Agree(f, f, S) /\ SumOver(i, f, S) /\ SumOver(g, f, S)
    BY <1>2, <1>6 DEF Agree, SumOver
  <2> QED BY <2>1, SumsUnique
<1> QED BY <1>2, <1>5, <1>7

\* Any member may be counted first.
LEMMA SumSplits ==
  ASSUME NEW S, IsFiniteSet(S), NEW f, \A x \in S : f[x] \in Int,
         NEW g \in [SUBSET S -> Int], IsSum(g, f, SUBSET S), NEW b \in S
  PROVE  g[S] = f[b] + g[S \ {b}]
<1> DEFINE Splits(s) == \A x \in s : g[s] = f[x] + g[s \ {x}]
           A == {n \in Nat : \A s \in SUBSET S : Cardinality(s) <= n => Splits(s)}
<1>0. \A s \in SUBSET S : IsFiniteSet(s) /\ Cardinality(s) \in Nat /\ (Cardinality(s) = 0 <=> s = {})
  BY FS_Subset, FS_CardinalityType, FS_EmptySet
<1>1. 0 \in A
  <2>1. \A s \in SUBSET S : Cardinality(s) <= 0 => s = {}
    BY <1>0
  <2> QED BY <2>1
<1>2. ASSUME NEW n \in Nat, n \in A PROVE n + 1 \in A
  <2> SUFFICES ASSUME NEW s \in SUBSET S, Cardinality(s) <= n + 1, NEW x \in s
               PROVE  g[s] = f[x] + g[s \ {x}]
    OBVIOUS
  <2> DEFINE p == Pick(s)
  <2>1. p \in s /\ g[s] = f[p] + g[s \ {p}]
    BY Picked DEF IsSum
  <2> HIDE DEF p
  <2>2. CASE p = x
    BY <2>1, <2>2
  <2>3. CASE p # x
    <3>1. \A y \in s : /\ Cardinality(s \ {y}) <= n /\ s \ {y} \in SUBSET S
      <4> TAKE y \in s
      <4>1. Cardinality(s \ {y}) = Cardinality(s) - 1 /\ Cardinality(s) \in Nat
        BY <1>0, Smaller
      <4> QED BY <4>1
    <3>2. \A y \in s : Splits(s \ {y})
      <4> HIDE DEF Splits
      <4> QED BY <1>2, <3>1
    <3>3. x \in s \ {p} /\ p \in s \ {x} /\ (s \ {p}) \ {x} = (s \ {x}) \ {p}
      BY <2>1, <2>3
    <3>4. g[s \ {p}] = f[x] + g[(s \ {p}) \ {x}]
      BY <2>1, <3>2, <3>3
    <3>5. g[s \ {x}] = f[p] + g[(s \ {p}) \ {x}]
      BY <3>2, <3>3
    <3>6. f[x] \in Int /\ f[p] \in Int /\ g[(s \ {p}) \ {x}] \in Int
      BY <2>1
    <3>7. \A u, v, w \in Int : u + (v + w) = v + (u + w)
      OBVIOUS
    <3> QED BY <2>1, <3>4, <3>5, <3>6, <3>7
  <2> QED BY <2>2, <2>3
<1>3. Nat \subseteq A
  <2> HIDE DEF A
  <2> QED BY <1>1, <1>2, Sizes
<1>4. Splits(S)
  <2> HIDE DEF Splits
  <2> QED BY <1>0, <1>3
<1> QED BY <1>4

\* The sum over no banks, over the same values, and over one more bank.
LEMMA SumNone ==
  ASSUME NEW f
  PROVE  SumFunctionOnSet(f, {}) = 0
<1>1. IsFiniteSet({}) /\ {} \in SUBSET {}
  BY FS_EmptySet
<1>2. PICK g : IsSum(g, f, SUBSET {}) /\ SumFunctionOnSet(f, {}) = g[{}]
  BY <1>1, SumIs
<1> QED BY <1>1, <1>2 DEF IsSum

LEMMA SumSame ==
  ASSUME NEW S, IsFiniteSet(S), NEW f, NEW e, \A x \in S : f[x] \in Int /\ e[x] = f[x]
  PROVE  SumFunctionOnSet(f, S) = SumFunctionOnSet(e, S) /\ SumFunctionOnSet(f, S) \in Int
<1>1. PICK g \in [SUBSET S -> Int] : IsSum(g, f, SUBSET S) /\ SumFunctionOnSet(f, S) = g[S]
  BY SumIs
<1>2. PICK h \in [SUBSET S -> Int] : IsSum(h, e, SUBSET S) /\ SumFunctionOnSet(e, S) = h[S]
  BY SumIs
<1>3. S \subseteq S /\ Agree(f, e, S) /\ SumOver(g, f, S) /\ SumOver(h, e, S)
  BY <1>1, <1>2 DEF Agree, SumOver
<1>4. g[S] = h[S]
  BY <1>3, SumsUnique
<1> QED BY <1>1, <1>2, <1>4

LEMMA SumMore ==
  ASSUME NEW S, IsFiniteSet(S), NEW b, b \notin S, NEW f, NEW e,
         f[b] \in Int, \A x \in S : f[x] \in Int /\ e[x] = f[x]
  PROVE  SumFunctionOnSet(f, S \cup {b}) = SumFunctionOnSet(e, S) + f[b]
<1> DEFINE T == S \cup {b}
<1>1. IsFiniteSet(T) /\ b \in T /\ T \ {b} = S /\ S \in SUBSET T /\ \A x \in T : f[x] \in Int
  BY FS_AddElement
<1> HIDE DEF T
<1>2. PICK g \in [SUBSET T -> Int] : IsSum(g, f, SUBSET T) /\ SumFunctionOnSet(f, T) = g[T]
  BY <1>1, SumIs
<1>3. g[T] = f[b] + g[S]
  BY <1>1, <1>2, SumSplits
<1>4. PICK h \in [SUBSET S -> Int] : IsSum(h, e, SUBSET S) /\ SumFunctionOnSet(e, S) = h[S]
  BY SumIs
<1>5. g[S] = h[S]
  <2>1. S \subseteq T /\ S \subseteq S /\ Agree(f, e, S) /\ SumOver(g, f, T) /\ SumOver(h, e, S)
    BY <1>1, <1>2, <1>4 DEF Agree, SumOver
  <2> QED BY <2>1, SumsUnique
<1>6. f[b] \in Int /\ h[S] \in Int
  BY <1>1, <1>4
<1> QED BY <1>2, <1>3, <1>4, <1>5, <1>6 DEF T

-----------------------------------------------------------------------------
(* The exported counters.                                                  *)

\* what c says of the banks L, whose records are r
Matched(c, L, r) ==
  LET loaders == {b \in L : r[b].preload}
      imports == L \ loaders
      extent == [b \in L |-> r[b].extent]
      size == [b \in L |-> r[b].size]
      meta == [b \in L |-> r[b].bytes.meta]
  IN /\ c.loader = SumFunctionOnSet(extent, loaders)
     /\ c.imported = SumFunctionOnSet(extent, imports)
     /\ c.loader_image = SumFunctionOnSet(size, loaders)
     /\ c.imported_image = SumFunctionOnSet(size, imports)
     /\ c.metadata = SumFunctionOnSet(meta, L)

\* c counts what d counts and one more bank of record x
Plus(c, d, x) ==
  /\ c.loader = d.loader + IF x.preload THEN x.extent ELSE 0
  /\ c.imported = d.imported + IF x.preload THEN 0 ELSE x.extent
  /\ c.loader_image = d.loader_image + IF x.preload THEN x.size ELSE 0
  /\ c.imported_image = d.imported_image + IF x.preload THEN 0 ELSE x.size
  /\ c.metadata = d.metadata + x.bytes.meta

\* d counts what c does
Same(c, d) ==
  /\ c.loader = d.loader /\ c.imported = d.imported
  /\ c.loader_image = d.loader_image /\ c.imported_image = d.imported_image
  /\ c.metadata = d.metadata

\* the records of L in r, which the sums need not tell from those in q
Alike(L, r, q) ==
  \A b \in L : /\ r[b].preload \in BOOLEAN /\ r[b].extent \in Int /\ r[b].size \in Int
               /\ r[b].bytes.meta \in Int
               /\ q[b].preload = r[b].preload /\ q[b].extent = r[b].extent
               /\ q[b].size = r[b].size /\ q[b].bytes.meta = r[b].bytes.meta

LEMMA MatchedSame ==
  ASSUME NEW L, IsFiniteSet(L), NEW r, NEW q, Alike(L, r, q), NEW c, NEW d, Same(c, d),
         Matched(d, L, r)
  PROVE  Matched(c, L, q)
<1> DEFINE P(x) == {b \in L : x[b].preload}
           E(x) == [b \in L |-> x[b].extent]
           S(x) == [b \in L |-> x[b].size]
           M(x) == [b \in L |-> x[b].bytes.meta]
<1>1. P(q) = P(r) /\ IsFiniteSet(P(r)) /\ IsFiniteSet(L \ P(r))
  <2>1. P(q) = P(r)
    BY DEF Alike
  <2>2. P(r) \subseteq L /\ L \ P(r) \subseteq L
    OBVIOUS
  <2> HIDE DEF P
  <2> QED BY <2>1, <2>2, FS_Subset
<1>2. \A b \in L : E(r)[b] \in Int /\ E(q)[b] = E(r)[b]
  BY DEF Alike
<1>3. \A b \in L : S(r)[b] \in Int /\ S(q)[b] = S(r)[b]
  BY DEF Alike
<1>4. \A b \in L : M(r)[b] \in Int /\ M(q)[b] = M(r)[b]
  BY DEF Alike
<1>5. P(r) \subseteq L
  OBVIOUS
<1>6. /\ d.loader = SumFunctionOnSet(E(r), P(r))
      /\ d.imported = SumFunctionOnSet(E(r), L \ P(r))
      /\ d.loader_image = SumFunctionOnSet(S(r), P(r))
      /\ d.imported_image = SumFunctionOnSet(S(r), L \ P(r))
      /\ d.metadata = SumFunctionOnSet(M(r), L)
  BY DEF Matched
<1>7. Matched(c, L, q) <=>
        /\ c.loader = SumFunctionOnSet(E(q), P(q))
        /\ c.imported = SumFunctionOnSet(E(q), L \ P(q))
        /\ c.loader_image = SumFunctionOnSet(S(q), P(q))
        /\ c.imported_image = SumFunctionOnSet(S(q), L \ P(q))
        /\ c.metadata = SumFunctionOnSet(M(q), L)
  BY DEF Matched
<1> HIDE DEF P, E, S, M
<1>8. SumFunctionOnSet(E(q), P(r)) = SumFunctionOnSet(E(r), P(r))
  BY <1>1, <1>2, <1>5, SumSame
<1>9. SumFunctionOnSet(E(q), L \ P(r)) = SumFunctionOnSet(E(r), L \ P(r))
  BY <1>1, <1>2, SumSame
<1>10. SumFunctionOnSet(S(q), P(r)) = SumFunctionOnSet(S(r), P(r))
  BY <1>1, <1>3, <1>5, SumSame
<1>11. SumFunctionOnSet(S(q), L \ P(r)) = SumFunctionOnSet(S(r), L \ P(r))
  BY <1>1, <1>3, SumSame
<1>12. SumFunctionOnSet(M(q), L) = SumFunctionOnSet(M(r), L)
  BY <1>4, SumSame
<1> QED BY <1>1, <1>6, <1>7, <1>8, <1>9, <1>10, <1>11, <1>12 DEF Same

\* T is S and one more bank b, whose value v f gives, and e gives what f does on S
OneMore(T, S, b, f, e, v) ==
  /\ T = S \cup {b} /\ b \notin S /\ v \in Int /\ f[b] = v
  /\ \A x \in S : f[x] \in Int /\ e[x] = f[x]

LEMMA CountOneMore ==
  ASSUME NEW S, IsFiniteSet(S), NEW T, NEW b, NEW f, NEW e, NEW v, OneMore(T, S, b, f, e, v),
         NEW x \in Int, NEW y, y = x + v
  PROVE  y = SumFunctionOnSet(f, T) <=> x = SumFunctionOnSet(e, S)
<1>1. SumFunctionOnSet(f, T) = SumFunctionOnSet(e, S) + v
  BY SumMore DEF OneMore
<1>2. SumFunctionOnSet(e, S) \in Int /\ v \in Int
  <2>1. v \in Int /\ \A a \in S : f[a] \in Int /\ e[a] = f[a]
    BY DEF OneMore
  <2>2. SumFunctionOnSet(f, S) = SumFunctionOnSet(e, S) /\ SumFunctionOnSet(f, S) \in Int
    BY <2>1, SumSame
  <2> QED BY <2>1, <2>2
<1> DEFINE w == SumFunctionOnSet(e, S)
<1>3. w \in Int /\ SumFunctionOnSet(f, T) = w + v
  BY <1>1, <1>2
<1> HIDE DEF w
<1>4. y = w + v <=> x = w
  BY <1>2, <1>3
<1> QED BY <1>3, <1>4 DEF w

\* f and e give the members of S the same integers
SameInts(S, f, e) == \A x \in S : f[x] \in Int /\ e[x] = f[x]

LEMMA CountSame ==
  ASSUME NEW S, IsFiniteSet(S), NEW f, NEW e, SameInts(S, f, e),
         NEW x, NEW y, y = x
  PROVE  y = SumFunctionOnSet(f, S) <=> x = SumFunctionOnSet(e, S)
BY SumSame DEF SameInts

LEMMA MatchedMore ==
  ASSUME NEW L, IsFiniteSet(L), NEW b, b \notin L, NEW r, NEW q, Alike(L, r, q),
         Alike({b}, q, q), NEW c, NEW d, Plus(c, d, q[b]),
         /\ d.loader \in Int /\ d.imported \in Int /\ d.loader_image \in Int
         /\ d.imported_image \in Int /\ d.metadata \in Int
  PROVE  Matched(d, L, r) <=> Matched(c, L \cup {b}, q)
<1> DEFINE K == L \cup {b}
           P(x, B) == {a \in B : x[a].preload}
           E(x, B) == [a \in B |-> x[a].extent]
           S(x, B) == [a \in B |-> x[a].size]
           M(x, B) == [a \in B |-> x[a].bytes.meta]
<1>1. IsFiniteSet(P(r, L)) /\ IsFiniteSet(L \ P(r, L))
  <2>1. P(r, L) \subseteq L /\ L \ P(r, L) \subseteq L
    OBVIOUS
  <2> HIDE DEF P
  <2> QED BY <2>1, FS_Subset
<1>2. /\ q[b].preload \in BOOLEAN /\ q[b].extent \in Int /\ q[b].size \in Int
      /\ q[b].bytes.meta \in Int
  BY DEF Alike
<1>3. IF q[b].preload THEN P(q, K) = P(r, L) \cup {b} /\ K \ P(q, K) = L \ P(r, L)
                      ELSE P(q, K) = P(r, L) /\ K \ P(q, K) = (L \ P(r, L)) \cup {b}
  BY DEF Alike
<1>4. /\ E(q, K)[b] = q[b].extent
      /\ \A a \in L : E(q, K)[a] \in Int /\ E(r, L)[a] = E(q, K)[a]
  BY DEF Alike
<1>5. /\ S(q, K)[b] = q[b].size
      /\ \A a \in L : S(q, K)[a] \in Int /\ S(r, L)[a] = S(q, K)[a]
  BY DEF Alike
<1>6. /\ M(q, K)[b] = q[b].bytes.meta
      /\ \A a \in L : M(q, K)[a] \in Int /\ M(r, L)[a] = M(q, K)[a]
  BY DEF Alike
<1>7. Matched(d, L, r) <=>
        /\ d.loader = SumFunctionOnSet(E(r, L), P(r, L))
        /\ d.imported = SumFunctionOnSet(E(r, L), L \ P(r, L))
        /\ d.loader_image = SumFunctionOnSet(S(r, L), P(r, L))
        /\ d.imported_image = SumFunctionOnSet(S(r, L), L \ P(r, L))
        /\ d.metadata = SumFunctionOnSet(M(r, L), L)
  BY DEF Matched
<1>8. Matched(c, K, q) <=>
        /\ c.loader = SumFunctionOnSet(E(q, K), P(q, K))
        /\ c.imported = SumFunctionOnSet(E(q, K), K \ P(q, K))
        /\ c.loader_image = SumFunctionOnSet(S(q, K), P(q, K))
        /\ c.imported_image = SumFunctionOnSet(S(q, K), K \ P(q, K))
        /\ c.metadata = SumFunctionOnSet(M(q, K), K)
  BY DEF Matched
<1>9. P(r, L) \subseteq L /\ K = L \cup {b}
  OBVIOUS
<1> HIDE DEF K, P, E, S, M
<1>10. c.metadata = SumFunctionOnSet(M(q, K), K) <=> d.metadata = SumFunctionOnSet(M(r, L), L)
  <2>1. OneMore(K, L, b, M(q, K), M(r, L), q[b].bytes.meta)
    BY <1>2, <1>6, <1>9 DEF OneMore
  <2> QED BY <2>1, CountOneMore DEF Plus
<1>11. CASE q[b].preload
  <2>1. P(q, K) = P(r, L) \cup {b} /\ K \ P(q, K) = L \ P(r, L)
    BY <1>3, <1>11
  <2>2. /\ c.loader = d.loader + q[b].extent /\ c.loader_image = d.loader_image + q[b].size
        /\ c.imported = d.imported /\ c.imported_image = d.imported_image
    BY <1>11 DEF Plus
  <2>3. OneMore(P(q, K), P(r, L), b, E(q, K), E(r, L), q[b].extent)
    BY <1>2, <1>4, <1>9, <2>1 DEF OneMore
  <2>4. OneMore(P(q, K), P(r, L), b, S(q, K), S(r, L), q[b].size)
    BY <1>2, <1>5, <1>9, <2>1 DEF OneMore
  <2>5. c.loader = SumFunctionOnSet(E(q, K), P(q, K)) <=> d.loader = SumFunctionOnSet(E(r, L), P(r, L))
    BY <1>1, <2>2, <2>3, CountOneMore
  <2>6. c.loader_image = SumFunctionOnSet(S(q, K), P(q, K)) <=>
          d.loader_image = SumFunctionOnSet(S(r, L), P(r, L))
    BY <1>1, <2>2, <2>4, CountOneMore
  <2>7. \A a \in L \ P(r, L) : a \in L
    BY <1>9
  <2>8. c.imported = SumFunctionOnSet(E(q, K), L \ P(r, L)) <=> d.imported = SumFunctionOnSet(E(r, L), L \ P(r, L))
    <3>1. SameInts(L \ P(r, L), E(q, K), E(r, L))
      BY <1>4, <2>7 DEF SameInts
    <3> QED BY <1>1, <2>2, <3>1, CountSame
  <2>9. c.imported_image = SumFunctionOnSet(S(q, K), L \ P(r, L)) <=>
          d.imported_image = SumFunctionOnSet(S(r, L), L \ P(r, L))
    <3>1. SameInts(L \ P(r, L), S(q, K), S(r, L))
      BY <1>5, <2>7 DEF SameInts
    <3> QED BY <1>1, <2>2, <3>1, CountSame
  <2>10. Matched(c, K, q) <=>
           /\ c.loader = SumFunctionOnSet(E(q, K), P(q, K))
           /\ c.imported = SumFunctionOnSet(E(q, K), L \ P(r, L))
           /\ c.loader_image = SumFunctionOnSet(S(q, K), P(q, K))
           /\ c.imported_image = SumFunctionOnSet(S(q, K), L \ P(r, L))
           /\ c.metadata = SumFunctionOnSet(M(q, K), K)
    BY <1>8, <2>1
  <2> QED BY <1>7, <1>9, <1>10, <2>5, <2>6, <2>8, <2>9, <2>10 DEF K
<1>12. CASE ~q[b].preload
  <2>1. P(q, K) = P(r, L) /\ K \ P(q, K) = (L \ P(r, L)) \cup {b}
    BY <1>3, <1>12
  <2>2. /\ c.imported = d.imported + q[b].extent /\ c.imported_image = d.imported_image + q[b].size
        /\ c.loader = d.loader /\ c.loader_image = d.loader_image
    BY <1>12 DEF Plus
  <2>3. OneMore(K \ P(q, K), L \ P(r, L), b, E(q, K), E(r, L), q[b].extent)
    BY <1>2, <1>4, <1>9, <2>1 DEF OneMore
  <2>4. OneMore(K \ P(q, K), L \ P(r, L), b, S(q, K), S(r, L), q[b].size)
    BY <1>2, <1>5, <1>9, <2>1 DEF OneMore
  <2>5. c.imported = SumFunctionOnSet(E(q, K), K \ P(q, K)) <=> d.imported = SumFunctionOnSet(E(r, L), L \ P(r, L))
    BY <1>1, <2>2, <2>3, CountOneMore
  <2>6. c.imported_image = SumFunctionOnSet(S(q, K), K \ P(q, K)) <=>
          d.imported_image = SumFunctionOnSet(S(r, L), L \ P(r, L))
    BY <1>1, <2>2, <2>4, CountOneMore
  <2>7. \A a \in P(r, L) : a \in L
    BY <1>9
  <2>8. c.loader = SumFunctionOnSet(E(q, K), P(r, L)) <=> d.loader = SumFunctionOnSet(E(r, L), P(r, L))
    <3>1. SameInts(P(r, L), E(q, K), E(r, L))
      BY <1>4, <2>7 DEF SameInts
    <3> QED BY <1>1, <2>2, <3>1, CountSame
  <2>9. c.loader_image = SumFunctionOnSet(S(q, K), P(r, L)) <=>
          d.loader_image = SumFunctionOnSet(S(r, L), P(r, L))
    <3>1. SameInts(P(r, L), S(q, K), S(r, L))
      BY <1>5, <2>7 DEF SameInts
    <3> QED BY <1>1, <2>2, <3>1, CountSame
  <2>10. Matched(c, K, q) <=>
           /\ c.loader = SumFunctionOnSet(E(q, K), P(r, L))
           /\ c.imported = SumFunctionOnSet(E(q, K), K \ P(q, K))
           /\ c.loader_image = SumFunctionOnSet(S(q, K), P(r, L))
           /\ c.imported_image = SumFunctionOnSet(S(q, K), K \ P(q, K))
           /\ c.metadata = SumFunctionOnSet(M(q, K), K)
    BY <1>8, <2>1
  <2> QED BY <1>7, <1>9, <1>10, <2>5, <2>6, <2>8, <2>9, <2>10 DEF K
<1> QED BY <1>2, <1>11, <1>12

\* The banks on the list are finitely many, and what is counted of them are
\* integers.
LEMMA ListedCounts ==
  ASSUME ControlInv, HeapInv
  PROVE  /\ IsFiniteSet(Listed)
         /\ \A b \in Listed : /\ bank[b].preload \in BOOLEAN /\ bank[b].extent \in Int
                              /\ bank[b].size \in Int /\ bank[b].bytes.meta \in Int
<1>1. IsFiniteSet(Listed)
  <2>1. list \in [1..Len(list) -> Listed] /\ Len(list) \in Nat
    BY DEF ControlInv, StoreTypeOK, Listed, Range
  <2>2. list \in Surjection(1..Len(list), Listed)
    BY <2>1 DEF Surjection, Listed, Range
  <2>3. IsFiniteSet(1..Len(list))
    BY <2>1, FS_Interval
  <2> QED BY <2>2, <2>3, FS_Surjection
<1>2. ASSUME NEW b \in Listed
      PROVE  /\ bank[b].preload \in BOOLEAN /\ bank[b].extent \in Int
             /\ bank[b].size \in Int /\ bank[b].bytes.meta \in Int
  <2>1. b \in Banks /\ bank[b] \in BankRecords /\ bank[b].bytes \in Images
    BY ListedBanks DEF ControlInv, StoreTypeOK, HeapInv, ListedIsValidated
  <2> QED BY <2>1, ImagesAssumption DEF BankRecords
<1> QED BY <1>1, <1>2

LEMMA CountersMatched == CountersMatch <=> Matched(counters, Listed, bank)
BY DEF CountersMatch, Matched, Meta

\* A step that changes neither the counters nor what they count of a listed bank.
LEMMA CountersFrame ==
  ASSUME ControlInv, HeapInv, CountersMatch, Listed' = Listed, counters' = counters,
         \A b \in Listed : /\ bank'[b].preload = bank[b].preload
                           /\ bank'[b].extent = bank[b].extent
                           /\ bank'[b].size = bank[b].size
                           /\ bank'[b].bytes = bank[b].bytes
  PROVE  CountersMatch'
<1>1. Alike(Listed, bank, bank') /\ Same(counters', counters) /\ IsFiniteSet(Listed)
  BY ListedCounts DEF Alike, Same
<1>2. Matched(counters, Listed, bank)
  BY CountersMatched
<1>3. Matched(counters', Listed, bank')
  BY <1>1, <1>2, MatchedSame
<1> QED BY <1>3 DEF CountersMatch, Matched, Meta

\* publish and DISCARD count a bank alike: the fields that Account changes.
LEMMA AccountFields ==
  ASSUME CountersTypeOK, NEW b \in Banks, bank[b].preload \in BOOLEAN,
         bank[b].extent \in Int, bank[b].size \in Int, bank[b].bytes.meta \in Int
  PROVE  Plus(Account(b, 1), counters, bank[b]) /\ Plus(counters, Account(b, -1), bank[b])
<1> DEFINE x == bank[b].extent
           s == bank[b].size
           m == Meta(b)
<1>1. x \in Int /\ s \in Int /\ m \in Int /\ m = bank[b].bytes.meta
  BY DEF Meta
<1>2. ASSUME NEW sign \in {1, -1}
      PROVE  LET a == Account(b, sign) IN
             /\ a.loader = counters.loader + IF bank[b].preload THEN sign * x ELSE 0
             /\ a.imported = counters.imported + IF bank[b].preload THEN 0 ELSE sign * x
             /\ a.loader_image = counters.loader_image + IF bank[b].preload THEN sign * s ELSE 0
             /\ a.imported_image = counters.imported_image + IF bank[b].preload THEN 0 ELSE sign * s
             /\ a.metadata = counters.metadata + sign * m
  <2> DEFINE X == sign * x
             S == sign * s
             M == sign * m
  <2>1. CASE bank[b].preload
    <3>1. Account(b, sign) = [counters EXCEPT !["loader"] = @ + X, !["loader_image"] = @ + S,
                                              !["metadata"] = @ + M]
      BY <2>1 DEF Account
    <3> HIDE DEF X, S, M
    <3>2. LET a == Account(b, sign) IN
          /\ a.loader = counters.loader + X /\ a.imported = counters.imported
          /\ a.loader_image = counters.loader_image + S
          /\ a.imported_image = counters.imported_image /\ a.metadata = counters.metadata + M
      BY <3>1 DEF CountersTypeOK, CounterNames
    <3> QED BY <2>1, <3>2 DEF X, S, M, CountersTypeOK, CounterNames
  <2>2. CASE ~bank[b].preload
    <3>1. Account(b, sign) = [counters EXCEPT !["imported"] = @ + X, !["imported_image"] = @ + S,
                                              !["metadata"] = @ + M]
      BY <2>2 DEF Account
    <3> HIDE DEF X, S, M
    <3>2. LET a == Account(b, sign) IN
          /\ a.imported = counters.imported + X /\ a.loader = counters.loader
          /\ a.imported_image = counters.imported_image + S
          /\ a.loader_image = counters.loader_image /\ a.metadata = counters.metadata + M
      BY <3>1 DEF CountersTypeOK, CounterNames
    <3> QED BY <2>2, <3>2 DEF X, S, M, CountersTypeOK, CounterNames
  <2> QED BY <2>1, <2>2
<1>3. /\ counters.loader \in Int /\ counters.imported \in Int /\ counters.metadata \in Int
      /\ counters.loader_image \in Int /\ counters.imported_image \in Int
  BY DEF CountersTypeOK, CounterNames
<1>4. Plus(Account(b, 1), counters, bank[b])
  <2> HIDE DEF x, s, m
  <2>1. 1 * x = x /\ 1 * s = s /\ 1 * m = m
    BY <1>1
  <2> QED BY <1>1, <1>2, <2>1 DEF Plus, x, s
<1>5. Plus(counters, Account(b, -1), bank[b])
  <2> HIDE DEF x, s, m
  <2>1. /\ -1 * x = -x /\ -1 * s = -s /\ -1 * m = -m
        /\ \A u, v \in Int : (u + -v) + v = u
    BY <1>1
  <2> QED BY <1>1, <1>2, <1>3, <2>1 DEF Plus, x, s
<1> QED BY <1>4, <1>5

\* publish adds what it lists.
LEMMA PublishCounts ==
  ASSUME ControlInv, HeapInv, CountersTypeOK, CountersMatch, NEW t \in Threads, PublishBank(t)
  PROVE  CountersMatch'
<1> DEFINE b == own[t]
<1>1. \/ Kept /\ counters' = counters /\ bank' = bank
      \/ /\ Listed' = {b} \cup Listed /\ bank' = bank
         /\ counters' = Account(b, 1)
  BY PublishShows DEF PublishBank, Publish, Kept, Listed, store
<1>2. CASE Kept /\ counters' = counters /\ bank' = bank
  BY <1>2, CountersFrame DEF Kept
<1>3. CASE Listed' = {b} \cup Listed /\ bank' = bank /\ counters' = Account(b, 1)
  <2>1. b \in Banks \ Listed /\ bank[b] \in BankRecords /\ bank[b].bytes \in Images
    BY Owned DEF PublishBank, Holds, Building, HeapInv, OwnInv, ControlInv, StoreTypeOK
  <2>2. /\ bank[b].preload \in BOOLEAN /\ bank[b].extent \in Int
        /\ bank[b].size \in Int /\ bank[b].bytes.meta \in Int
    BY <2>1, ImagesAssumption DEF BankRecords
  <2> HIDE DEF b
  <2>3. Plus(counters', counters, bank'[b])
    BY <1>3, <2>1, <2>2, AccountFields
  <2>4. Alike(Listed, bank, bank') /\ Alike({b}, bank', bank') /\ IsFiniteSet(Listed)
    BY <1>3, <2>2, ListedCounts DEF Alike
  <2>5. /\ counters.loader \in Int /\ counters.imported \in Int /\ counters.metadata \in Int
        /\ counters.loader_image \in Int /\ counters.imported_image \in Int
    BY DEF CountersTypeOK, CounterNames
  <2>6. Matched(counters, Listed, bank) /\ b \notin Listed
    BY <2>1, CountersMatched
  <2>7. Matched(counters', Listed \cup {b}, bank')
    BY <2>3, <2>4, <2>5, <2>6, MatchedMore
  <2>8. Listed' = Listed \cup {b}
    BY <1>3
  <2> QED BY <2>7, <2>8 DEF CountersMatch, Matched, Meta
<1> QED BY <1>1, <1>2, <1>3

\* DISCARD takes back what publish added: the record it takes it from is still
\* the one that was counted.
LEMMA DiscardCounts ==
  ASSUME ControlInv, HeapInv, CountersTypeOK, CountersTypeOK', CountersMatch,
         NEW b \in Listed, RemoveBank(b)
  PROVE  CountersMatch'
<1> DEFINE K == Listed \ {b}
<1>1. Listed' = K /\ b \in Banks
  BY UnlinkList, ListedBanks DEF ControlInv
<1>2. /\ bank[b].preload \in BOOLEAN /\ bank[b].extent \in Int
      /\ bank[b].size \in Int /\ bank[b].bytes.meta \in Int
  BY ListedCounts
<1>3. Plus(counters, Account(b, -1), bank[b])
  BY <1>1, <1>2, AccountFields
<1>4. /\ counters'.loader = Account(b, -1).loader
      /\ counters'.imported = Account(b, -1).imported
      /\ counters'.loader_image = Account(b, -1).loader_image
      /\ counters'.imported_image = Account(b, -1).imported_image
      /\ counters'.metadata = Account(b, -1).metadata
  <2>1. bank[b].bytes \in Images
    BY DEF HeapInv, ListedIsValidated
  <2>2. Account(b, -1) \in [CounterNames -> Int]
    BY <1>1, <2>1, AccountType DEF ControlInv
  <2> QED BY <2>2 DEF RemoveBank, CounterNames
<1>5. Plus(counters, counters', bank[b])
  BY <1>3, <1>4 DEF Plus
<1>6. \A c \in K : bank'[c] = bank[c]
  BY ListedBanks DEF RemoveBank, FreeBank, ControlInv, StoreTypeOK
<1>7. Alike(K, bank', bank) /\ Alike({b}, bank, bank)
  BY <1>2, <1>6, ListedCounts DEF Alike
<1>8. IsFiniteSet(K) /\ b \notin K /\ K \cup {b} = Listed
  BY ListedCounts, FS_RemoveElement
<1>9. /\ counters'.loader \in Int /\ counters'.imported \in Int /\ counters'.metadata \in Int
      /\ counters'.loader_image \in Int /\ counters'.imported_image \in Int
  BY DEF CountersTypeOK, CounterNames
<1>10. Matched(counters, K \cup {b}, bank)
  BY <1>8, CountersMatched
<1> HIDE DEF K
<1>11. Matched(counters', K, bank')
  BY <1>5, <1>7, <1>8, <1>9, <1>10, MatchedMore
<1> QED BY <1>1, <1>11 DEF CountersMatch, Matched, Meta

\* ff_banks_init counts the loader bank it adopts.
LEMMA AdoptCounts ==
  ASSUME IInv, CountersMatch, NEW b \in Banks, NEW l \in Labels, NEW im \in Images,
         NEW pad \in Padding, Adopt(b, l, im, pad)
  PROVE  CountersMatch'
<1> USE DEF IInv
<1>1. /\ im.size \in Nat /\ im.meta \in Nat /\ RoundPage(im.size) + pad \in Nat
  BY ImagesAssumption, RoundPageType
<1> DEFINE e == RoundPage(im.size) + pad
<1>2. /\ bank'[b].preload = TRUE /\ bank'[b].extent = e
      /\ bank'[b].size = im.size /\ bank'[b].bytes = im
      /\ \A c \in Banks \ {b} : bank'[c] = bank[c]
  BY DEF Adopt, ControlInv, StoreTypeOK
<1>3. b \notin Listed /\ Listed' = Listed \cup {b}
  <2>1. b \notin Listed
    BY Owned DEF Adopt
  <2>2. list \in Seq(Banks) /\ list' = <<b>> \o list
    BY DEF Adopt, ControlInv, StoreTypeOK
  <2> QED BY <2>1, <2>2, RangePush DEF Listed
<1>4. counters' = [[[counters EXCEPT !["loader"] = @ + e]
                       EXCEPT !["loader_image"] = @ + im.size]
                       EXCEPT !["metadata"] = @ + im.meta]
  BY DEF Adopt
<1> HIDE DEF e
<1>5. e \in Int /\ im.size \in Int /\ im.meta \in Int
  BY <1>1 DEF e
<1>6. /\ counters'.loader = counters.loader + e /\ counters'.imported = counters.imported
      /\ counters'.loader_image = counters.loader_image + im.size
      /\ counters'.imported_image = counters.imported_image
      /\ counters'.metadata = counters.metadata + im.meta
  BY <1>4 DEF CountersTypeOK, CounterNames
<1>7. /\ counters.loader \in Int /\ counters.imported \in Int /\ counters.metadata \in Int
      /\ counters.loader_image \in Int /\ counters.imported_image \in Int
  BY DEF CountersTypeOK, CounterNames
<1>8. Plus(counters', counters, bank'[b])
  BY <1>2, <1>6, <1>7 DEF Plus
<1>9. Alike(Listed, bank, bank') /\ Alike({b}, bank', bank') /\ IsFiniteSet(Listed)
  <2>1. \A c \in Listed : bank'[c] = bank[c]
    BY <1>2, <1>3, ListedBanks DEF ControlInv
  <2> QED BY <1>2, <1>5, <2>1, ListedCounts DEF Alike
<1>10. Matched(counters, Listed, bank)
  BY CountersMatched
<1>11. Matched(counters', Listed \cup {b}, bank')
  BY <1>3, <1>7, <1>8, <1>9, <1>10, MatchedMore
<1> QED BY <1>3, <1>11 DEF CountersMatch, Matched, Meta

\* Every step keeps the counters the sums over the listed banks.
LEMMA CountsStep ==
  ASSUME IInv, IInv', CountersMatch, NEW t \in Threads, UserStep(t) \/ Step(t)
  PROVE  CountersMatch'
<1> USE DEF Goto, Decide, Unlock, Holds, IInv
<1>1. ASSUME PublishBank(t) PROVE CountersMatch'
  BY <1>1, PublishCounts
<1>2. ASSUME UNCHANGED store PROVE CountersMatch'
  BY <1>2, CountersFrame DEF store, Listed
<1>3. ASSUME Unlink(t) PROVE CountersMatch'
  <2>1. UNCHANGED store \/ \E b \in Listed : RemoveBank(b)
    BY <1>3 DEF Unlink, Refuse, WithLabel
  <2> QED BY <1>2, <2>1, DiscardCounts
<1>4. ASSUME OpenSource(t) \/ ReadHeader(t) \/ ReadImage(t) \/ FailImport(t)
      PROVE  CountersMatch'
  <2>1. Kept /\ \A b \in Listed : bank'[b] = bank[b]
    BY <1>4, ImportIsHidden
  <2>2. counters' = counters
    BY <1>4 DEF OpenSource, ReadHeader, ReadImage, FailImport
  <2> QED BY <2>1, <2>2, CountersFrame DEF Kept
<1>5. ASSUME NEW b \in Listed, NEW v \in BOOLEAN, SetClaim(b, v) PROVE CountersMatch'
  <2>1. b \in Banks /\ bank \in [Banks -> BankRecords] /\ Listed \subseteq Banks
    BY ListedBanks DEF ControlInv, StoreTypeOK
  <2>2. \A c \in Listed : /\ bank'[c].preload = bank[c].preload
                          /\ bank'[c].extent = bank[c].extent
                          /\ bank'[c].size = bank[c].size
                          /\ bank'[c].bytes = bank[c].bytes
    BY <1>5, <2>1 DEF SetClaim, BankRecords
  <2>3. Listed' = Listed /\ counters' = counters
    BY <1>5 DEF SetClaim, Listed
  <2> QED BY <2>2, <2>3, CountersFrame
<1>6. ASSUME ClaimBank(t) PROVE CountersMatch'
  <2>1. UNCHANGED store \/ \E b \in Listed : SetClaim(b, TRUE)
    BY <1>6 DEF ClaimBank, ClaimRefused, WithLabel
  <2> QED BY <1>2, <1>5, <2>1
<1>7. ASSUME ReleaseBank(t) PROVE CountersMatch'
  <2>1. own[t] \in Listed /\ SetClaim(own[t], FALSE)
    BY <1>7, Owned DEF ReleaseBank, Holding
  <2> QED BY <1>5, <2>1
<1>8. ASSUME \E k, g : ListRow(t, k, g) PROVE UNCHANGED store
  BY <1>8 DEF ListRow, Enter
<1>9. ASSUME UserStep(t) PROVE UNCHANGED store
  BY <1>9 DEF UserStep, BeginIoctl, BeginMount, BeginUnload, Begin, Issue, Unmount,
     InterruptWait
<1>10. ASSUME \/ Acquire(t) \/ EnterStopping(t) \/ Leave(t) \/ Return(t)
              \/ TakeLinker(t) \/ Unbusy(t) \/ EnterAdd(t) \/ EnterDiscard(t) \/ UnloadStep(t)
      PROVE  UNCHANGED store
  BY <1>10 DEF Acquire, EnterStopping, Leave, Return, TakeLinker, Unbusy, EnterAdd,
       EnterDiscard, Enter, UnloadStep, Unregister, Uninit, DestroyDev, DestroyLock
<1> QED
  BY <1>1, <1>2, <1>3, <1>4, <1>6, <1>7, <1>8, <1>9, <1>10
  DEF Step, AddStep, DiscardStep, MountStep

LEMMA CountsInit == Init => CountersMatch
<1> SUFFICES ASSUME Init PROVE CountersMatch
  OBVIOUS
<1>1. Listed = {}
  BY DEF Init, Listed, Range
<1>2. \A r : Matched(counters, {}, r)
  BY SumNone DEF Init, Matched
<1> QED BY <1>1, <1>2, CountersMatched

\* The counters that sysctl exports are exact in every reachable state, however
\* imports, discards and claims interleave: nothing is counted twice, forgotten,
\* or taken back in other units than it was added in (publish, ff_bank_discard).
THEOREM CountersExact == Spec => []CountersMatch
<1>1. IInv /\ CountersMatch /\ [Next]_vars => CountersMatch'
  <2> SUFFICES ASSUME IInv, CountersMatch, [Next]_vars PROVE CountersMatch'
    OBVIOUS
  <2>0. IInv'
    BY InvStep
  <2>1. ASSUME NEW t \in Threads, UserStep(t) \/ Step(t) PROVE CountersMatch'
    BY <2>0, <2>1, CountsStep
  <2>2. ASSUME NEW b \in Banks, NEW l \in Labels, NEW im \in Images,
               NEW pad \in Padding, Adopt(b, l, im, pad)
        PROVE  CountersMatch'
    BY <2>2, AdoptCounts
  <2>3. CASE UNCHANGED store
    BY <2>3, CountersFrame DEF store, Listed, IInv
  <2>4. OpenControl \/ UNCHANGED vars => UNCHANGED store
    BY DEF OpenControl, vars, store
  <2> QED BY <2>1, <2>2, <2>3, <2>4 DEF Next, Boot
<1> QED BY <1>1, CountsInit, Invariance, PTL DEF Spec
=============================================================================

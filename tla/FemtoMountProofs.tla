--------------------------- MODULE FemtoMountProofs ---------------------------
(***************************************************************************)
(* Proofs about FemtoMount: its safety properties for any number of        *)
(* mounts, processes, files and vnodes.  They form one inductive           *)
(* invariant: that a vnode in use is not reclaimed needs the balance of    *)
(* its uses, and that its pages are not freed needs the claim of its       *)
(* mount, which the registry keeps from its "ok" to its release.           *)
(***************************************************************************)
EXTENDS FemtoMount, FiniteSetTheorems, TLAPS

\* t has claimed a bank and not released it
Holds(t) == call[t].cmd = "CLAIM" /\ result[t] = "ok"

RegistryTypeOK ==
  /\ entry \in [Labels -> {"absent", "available", "claimed"}]
  /\ phase \in {"boot", "live", "closed"}
  /\ call \in [Threads -> Bank!Calls \cup {Bank!NoCall}]
  /\ result \in [Threads -> Bank!Results]

\* a bank is claimed while somebody holds it, by one thread at a time; a mount
\* holds its bank from the claim to ff_free
ClaimInv ==
  /\ RegistryTypeOK
  /\ \A t \in Threads : call[t] = Bank!NoCall => result[t] = "none"
  /\ \A t \in Threads : Holds(t) => entry[call[t].label] = "claimed"
  /\ \A t, u \in Threads : Holds(t) /\ Holds(u) /\ call[t].label = call[u].label => t = u
  /\ \A t \in Mounters : fs[t] # "none" => Holds(t)

\* what is in the hash, open, mapped or resident
VnodeInv ==
  /\ \A v \in hashed : data[v] # NULL
  /\ \A v \in Vnodes : data[v] # NULL => fs[MountOf(v)] \in {"live", "unmount"}
  /\ \A p \in Procs : files[p] \subseteq hashed /\ maps[p] \subseteq pager
  /\ pager \subseteq hashed
  /\ \A v \in Vnodes : resident[v] # {} => v \in pager

\* what a process in the middle of a call holds
JobInv ==
  \A p \in Procs :
    /\ pc[p] # "idle" => job[p].vnode \in Vnodes
    /\ pc[p] = "insert" =>
         /\ job[p].vnode \notin hashed
         /\ data[job[p].vnode] # NULL
         /\ \A q \in Procs : pc[q] = "insert" /\ job[q].vnode = job[p].vnode => q = p
         /\ \A w \in files[p] : data[w] # data[job[p].vnode]
    /\ pc[p] = "mmap" => job[p].vnode \in files[p]
    /\ pc[p] \in {"mmap", "map"} => job[p].vnode \notin maps[p]
    /\ pc[p] \in {"map", "fill", "install"} => job[p].vnode \in pager
    /\ pc[p] \in {"fill", "install"} => job[p].page \in Pages
    /\ pc[p] = "install" => job[p].source \in Sources

\* a spilled page, or one on its way into an object, came from a mount that may spill
SpillInv ==
  /\ \A v \in Vnodes : \A r \in resident[v] : r[2] = "spill" => leaking[MountOf(v)]
  /\ \A p \in Procs : pc[p] = "install" /\ job[p].source = "spill" => leaking[MountOf(job[p].vnode)]

CleanInv ==
  /\ IsFiniteSet(clean)
  /\ clean \subseteq {<<c[1], c[2], pg>> : c \in arrays, pg \in Pages}
  /\ arrays \subseteq Mounters \X {Blob[n] : n \in Nodes}
  /\ \A a \in arrays : fs[a[1]] # "none"
  /\ MappedCleanIsCached

MountInv ==
  /\ ClaimInv /\ VnodeInv /\ JobInv /\ UsesBalance
  /\ OneVnodePerFile /\ SpillInv /\ CleanInv

-----------------------------------------------------------------------------
(* The claim: BankRegistry's steps and those of ff_mount and ff_free.      *)

\* Only a call that names a bank can be about one.
LEMMA CallLabel ==
  ASSUME RegistryTypeOK, NEW t \in Threads, call[t].cmd \in {"ADD", "DISCARD", "CLAIM"}
  PROVE  call[t].label \in Labels
BY DEF RegistryTypeOK, Bank!Calls, Bank!NoCall

\* A call that has no answer yet is answered; its label may move, as long as
\* it is not claimed.
LEMMA AnswerStep ==
  ASSUME ClaimInv, NEW t \in Threads, UNCHANGED <<call, fs>>,
         call[t].cmd # "none", result[t] = "none",
         NEW r \in Bank!Results, result' = [result EXCEPT ![t] = r],
         phase' \in {"boot", "live", "closed"},
         \/ UNCHANGED entry /\ (call[t].cmd = "CLAIM" => r # "ok")
         \/ \E to \in {"absent", "available", "claimed"} :
              /\ call[t].cmd \in {"ADD", "DISCARD", "CLAIM"}
              /\ entry[call[t].label] # "claimed"
              /\ entry' = [entry EXCEPT ![call[t].label] = to]
              /\ call[t].cmd = "CLAIM" => to = "claimed"
  PROVE  ClaimInv'
<1> USE DEF ClaimInv
<1>1. RegistryTypeOK'
  BY CallLabel DEF RegistryTypeOK
<1>2. \A u \in Threads \ {t} : Holds(u)' <=> Holds(u)
  BY DEF Holds, RegistryTypeOK
<1>3. Holds(t)' => call[t].cmd = "CLAIM" /\ r = "ok"
  BY DEF Holds, RegistryTypeOK
<1>4. ~Holds(t)
  BY DEF Holds
<1>5. \A u \in Threads : Holds(u)' => entry'[call'[u].label] = "claimed"
  <2> SUFFICES ASSUME NEW u \in Threads, Holds(u)' PROVE entry'[call[u].label] = "claimed"
    OBVIOUS
  <2>1. CASE u = t
    BY <1>3, <2>1, CallLabel DEF RegistryTypeOK
  <2>2. CASE u # t
    <3>1. entry[call[u].label] = "claimed" /\ call[u].label \in Labels
      BY <1>2, <2>2, CallLabel DEF Holds
    <3> QED BY <3>1, CallLabel DEF RegistryTypeOK
  <2> QED BY <2>1, <2>2
<1>6. \A u, w \in Threads : Holds(u)' /\ Holds(w)' /\ call'[u].label = call'[w].label => u = w
  BY <1>2, <1>3
<1>7. \A u \in Mounters : fs'[u] # "none" => Holds(u)'
  BY <1>2, <1>4, NodesAssumption
<1>8. \A u \in Threads : call'[u] = Bank!NoCall => result'[u] = "none"
  BY DEF RegistryTypeOK, Bank!NoCall
<1> QED BY <1>1, <1>5, <1>6, <1>7, <1>8

\* Whatever the callers of the registry do, a held bank stays claimed, by one
\* holder, and a mount that exists holds its bank.
LEMMA ClaimStep ==
  ASSUME ClaimInv, TypeOK, Next
  PROVE  ClaimInv'
<1>1. ASSUME UNCHANGED registry, UNCHANGED fs PROVE ClaimInv'
  BY <1>1 DEF registry, ClaimInv, RegistryTypeOK, Holds
<1>2. CASE Boot
  <2>1. UNCHANGED <<call, result, fs>> /\ phase' \in {phase, "live"}
    BY <1>2 DEF Boot, mounts, Bank!Adopt, Bank!Open
  <2>2. \/ UNCHANGED entry
        \/ \E l \in Labels : entry[l] = "absent" /\ entry' = [entry EXCEPT ![l] = "available"]
    BY <1>2 DEF Boot, Bank!Adopt, Bank!Open
  <2>3. entry' \in [Labels -> {"absent", "available", "claimed"}]
    BY <2>2 DEF ClaimInv, RegistryTypeOK
  <2>4. \A l \in Labels : entry[l] = "claimed" => entry'[l] = "claimed"
    BY <2>2 DEF ClaimInv, RegistryTypeOK
  <2> QED BY <2>1, <2>3, <2>4, CallLabel DEF ClaimInv, RegistryTypeOK, Holds
<1>3. ASSUME NEW t \in Threads, Registry(t) PROVE ClaimInv'
  <2> USE DEF Bank!Move, Bank!Answer, Bank!Pending, Bank!Results
  <2>1. UNCHANGED fs
    BY <1>3 DEF Registry, mounts
  <2>2. CASE Bank!Add(t)
    <3>1. PICK r \in {"ok", "EEXIST", "ENXIO", "EINVAL"} : result' = [result EXCEPT ![t] = r]
      BY <2>2 DEF Bank!Add
    <3>2. call[t].cmd = "ADD" /\ result[t] = "none" /\ UNCHANGED <<call, phase>>
      BY <2>2 DEF Bank!Add
    <3>3. \/ UNCHANGED entry
          \/ entry[call[t].label] # "claimed"
             /\ entry' = [entry EXCEPT ![call[t].label] = "available"]
      BY <2>2 DEF Bank!Add
    <3> QED BY <2>1, <3>1, <3>2, <3>3, AnswerStep DEF ClaimInv, RegistryTypeOK
  <2>3. CASE Bank!Discard(t)
    <3>1. PICK r \in {"ok", "EBUSY", "ENOENT", "ENXIO", "EINTR"} :
            result' = [result EXCEPT ![t] = r]
      BY <2>3 DEF Bank!Discard
    <3>2. call[t].cmd = "DISCARD" /\ result[t] = "none" /\ UNCHANGED <<call, phase>>
      BY <2>3 DEF Bank!Discard
    <3>3. \/ UNCHANGED entry
          \/ entry[call[t].label] # "claimed"
             /\ entry' = [entry EXCEPT ![call[t].label] = "absent"]
      BY <2>3 DEF Bank!Discard
    <3> QED BY <2>1, <3>1, <3>2, <3>3, AnswerStep DEF ClaimInv, RegistryTypeOK
  <2>4. CASE Bank!Claim(t)
    <3>1. call[t].cmd = "CLAIM" /\ result[t] = "none" /\ UNCHANGED <<call, phase>>
      BY <2>4 DEF Bank!Claim
    <3>2. \/ /\ result' = [result EXCEPT ![t] = "ok"]
             /\ entry[call[t].label] # "claimed"
             /\ entry' = [entry EXCEPT ![call[t].label] = "claimed"]
          \/ /\ UNCHANGED entry
             /\ \E r \in {"EBUSY", "ENOENT", "ENXIO"} : result' = [result EXCEPT ![t] = r]
      BY <2>4 DEF Bank!Claim
    <3> QED BY <2>1, <3>1, <3>2, AnswerStep DEF ClaimInv, RegistryTypeOK
  <2>5. CASE Bank!Unload(t)
    <3>1. /\ call[t].cmd = "UNLOAD" /\ result[t] = "none" /\ UNCHANGED <<call, entry>>
          /\ phase' \in {phase, "closed"}
      BY <2>5 DEF Bank!Unload
    <3>2. PICK r \in {"ok", "EBUSY", "ENOENT"} : result' = [result EXCEPT ![t] = r]
      BY <2>5 DEF Bank!Unload
    <3> QED BY <2>1, <3>1, <3>2, AnswerStep DEF ClaimInv, RegistryTypeOK
  <2>6. CASE Bank!Return(t)
    <3>1. /\ ~Holds(t) /\ UNCHANGED <<entry, phase>>
          /\ call' = [call EXCEPT ![t] = Bank!NoCall]
          /\ result' = [result EXCEPT ![t] = "none"]
      BY <2>6 DEF Bank!Return, Holds
    <3>2. ~Holds(t)' /\ \A u \in Threads \ {t} : Holds(u)' <=> Holds(u)
      BY <3>1 DEF Holds, ClaimInv, RegistryTypeOK
    <3> QED BY <2>1, <3>1, <3>2, NodesAssumption DEF ClaimInv, RegistryTypeOK
  <2> QED BY <1>3, <2>2, <2>3, <2>4, <2>5, <2>6 DEF Registry
<1>4. ASSUME NEW t \in Threads, Invoke(t) PROVE ClaimInv'
  <2>1. PICK c \in Bank!Calls : Bank!Invoke(t, c)
    BY <1>4 DEF Invoke
  <2>2. /\ UNCHANGED <<entry, phase, result, fs>> /\ call[t] = Bank!NoCall
        /\ call' = [call EXCEPT ![t] = c]
    BY <1>4, <2>1 DEF Invoke, mounts, Bank!Invoke
  <2>3. RegistryTypeOK'
    BY <2>2 DEF ClaimInv, RegistryTypeOK
  <2>4. \A u \in Threads \ {t} : call'[u] = call[u] /\ (Holds(u)' <=> Holds(u))
    BY <2>2 DEF Holds, ClaimInv, RegistryTypeOK
  <2>5. ~Holds(t) /\ (Holds(t)' => result[t] = "ok")
    BY <2>2 DEF Holds, Bank!NoCall
  <2>6. result[t] = "none"
    BY <2>2 DEF ClaimInv
  <2> QED BY <2>2, <2>3, <2>4, <2>5, <2>6, NodesAssumption DEF ClaimInv
<1>5. ASSUME NEW t \in Mounters, Mount(t) \/ BeginUnmount(t) \/ Flush(t) PROVE ClaimInv'
  <2>1. UNCHANGED <<entry, phase, call, result>>
    BY <1>5 DEF Mount, BeginUnmount, Flush, registry
  <2>2. \A u \in Mounters : fs'[u] # "none" => fs[u] # "none" \/ Holds(u)
    BY <1>5 DEF Mount, BeginUnmount, Flush, ReclaimUnused, Holds, TypeOK
  <2> QED BY <2>1, <2>2 DEF ClaimInv, RegistryTypeOK, Holds
<1>6. ASSUME NEW t \in Mounters, FreeMount(t) PROVE ClaimInv'
  <2>1. /\ Holds(t) /\ entry[call[t].label] = "claimed" /\ UNCHANGED <<phase, call>>
        /\ entry' = [entry EXCEPT ![call[t].label] = "available"]
        /\ result' = [result EXCEPT ![t] = "released"]
        /\ fs' = [fs EXCEPT ![t] = "none"]
    BY <1>6 DEF FreeMount, Bank!Release, Bank!Move, Holds
  <2>2. t \in Threads /\ call[t].label \in Labels
    BY <2>1, CallLabel, NodesAssumption DEF Holds, ClaimInv
  <2>3. ~Holds(t)' /\ \A u \in Threads \ {t} : Holds(u)' <=> Holds(u)
    BY <2>1, <2>2 DEF Holds, ClaimInv, RegistryTypeOK
  <2>4. RegistryTypeOK'
    BY <2>1, <2>2 DEF ClaimInv, RegistryTypeOK, Bank!Results
  <2>5. \A u \in Threads : Holds(u)' => entry'[call'[u].label] = "claimed"
    <3> SUFFICES ASSUME NEW u \in Threads, Holds(u)' PROVE entry'[call[u].label] = "claimed"
      BY <2>1
    <3>1. u # t /\ Holds(u) /\ call[u].label \in Labels
      BY <2>3, CallLabel DEF Holds, ClaimInv
    <3>2. entry[call[u].label] = "claimed" /\ call[u].label # call[t].label
      BY <2>1, <2>2, <3>1 DEF ClaimInv
    <3> QED BY <2>1, <3>1, <3>2 DEF ClaimInv, RegistryTypeOK
  <2>6. \A u \in Mounters : fs'[u] # "none" => u # t /\ fs[u] # "none"
    BY <2>1 DEF TypeOK
  <2>7. \A u \in Threads : call'[u] = Bank!NoCall => result'[u] = "none"
    BY <2>1 DEF ClaimInv, RegistryTypeOK, Holds, Bank!NoCall
  <2> QED BY <2>1, <2>3, <2>4, <2>5, <2>6, <2>7, NodesAssumption DEF ClaimInv
<1>7. CASE \E p \in Procs : ProcCall(p) \/ ProcStep(p)
  BY <1>1, <1>7 DEF ProcCall, ProcStep, OpenCached, OpenMiss, Close, MmapGet, MmapRefused,
     Unmap, Fault, HashInsert, MmapPager, MmapInsert, Fill, Install, registry, mounts
<1>8. CASE TogglePolicy \/ \E v \in Vnodes : Recycle(v)
  BY <1>1, <1>8 DEF TogglePolicy, Recycle, registry, mounts
<1> QED BY <1>2, <1>3, <1>4, <1>5, <1>6, <1>7, <1>8 DEF Next, MountStep

-----------------------------------------------------------------------------
(* Counting uses.                                                          *)

One(b) == IF b THEN 1 ELSE 0
Opens(v) == {p \in Procs : v \in files[p]}

\* A set that gains or loses at most p.
LEMMA CountOne ==
  ASSUME NEW S, NEW T, NEW p, IsFiniteSet(S), S \ {p} = T \ {p}
  PROVE  /\ IsFiniteSet(T) /\ Cardinality(S) \in Nat /\ Cardinality(T) \in Nat
         /\ Cardinality(T) = Cardinality(S) + One(p \in T) - One(p \in S)
<1>1. Cardinality(S) \in Nat
  BY FS_CardinalityType
<1>2. CASE p \in T /\ p \notin S
  <2>1. T = S \cup {p}
    BY <1>2
  <2> QED BY <1>1, <1>2, <2>1, FS_AddElement DEF One
<1>3. CASE p \notin T /\ p \in S
  <2>1. T = S \ {p}
    BY <1>3
  <2>2. IsFiniteSet(T) /\ Cardinality(T) = Cardinality(S) - 1
    BY <1>3, <2>1, FS_RemoveElement
  <2> QED BY <1>1, <1>3, <2>2, FS_CardinalityType DEF One
<1>4. CASE p \in T <=> p \in S
  <2>1. T = S
    BY <1>4
  <2> QED BY <1>1, <1>4, <2>1 DEF One
<1> QED BY <1>2, <1>3, <1>4

\* The processes are finitely many, so that the uses of a vnode can be counted.
LEMMA UsersFinite ==
  ASSUME NEW v
  PROVE  /\ IsFiniteSet(Opens(v)) /\ IsFiniteSet(Transient(v))
         /\ Cardinality(Opens(v)) \in Nat /\ Cardinality(Transient(v)) \in Nat
<1>1. Opens(v) \subseteq Procs /\ Transient(v) \subseteq Procs
  BY DEF Opens, Transient
<1> QED BY <1>1, FiniteAssumption, FS_Subset, FS_CardinalityType

\* A vnode that is open, on its way in or paged has a use; so the ones with none,
\* which vflush and the recycler take, are neither.
LEMMA InUse ==
  ASSUME UsesBalance, NEW v \in Vnodes
  PROVE  /\ \A p \in Procs : v \in files[p] \/ p \in Transient(v) => usecount[v] >= 1
         /\ v \in pager => usecount[v] >= 1
<1>1. usecount[v] = Cardinality(Opens(v)) + Cardinality(Transient(v)) + One(v \in pager)
  BY DEF UsesBalance, Opens, One
<1>2. \A p \in Procs : v \in files[p] => Cardinality(Opens(v)) # 0
  BY UsersFinite, FS_EmptySet DEF Opens
<1>3. \A p \in Procs : p \in Transient(v) => Cardinality(Transient(v)) # 0
  BY UsersFinite, FS_EmptySet
<1> QED BY <1>1, <1>2, <1>3, UsersFinite DEF One

\* what of a vnode's uses is p's, and the pager's
UsesOf(p, v) == One(v \in files[p]) + One(p \in Transient(v)) + One(v \in pager)

\* A step of p that adds to each use count what it adds to p's uses keeps the
\* balance.
LEMMA BalanceStep ==
  ASSUME UsesBalance, TypeOK', NEW p \in Procs,
         \A q \in Procs \ {p} : files'[q] = files[q] /\ pc'[q] = pc[q] /\ job'[q] = job[q],
         \A v \in Vnodes : usecount'[v] = usecount[v] + UsesOf(p, v)' - UsesOf(p, v)
  PROVE  UsesBalance'
<1> SUFFICES ASSUME NEW v \in Vnodes
             PROVE  usecount'[v] = Cardinality(Opens(v)') + Cardinality(Transient(v)')
                                     + One(v \in pager')
  BY DEF UsesBalance, Opens, One
<1>1. usecount[v] = Cardinality(Opens(v)) + Cardinality(Transient(v)) + One(v \in pager)
  BY DEF UsesBalance, Opens, One
<1>2. Opens(v) \ {p} = Opens(v)' \ {p}
  BY DEF Opens
<1>3. Transient(v) \ {p} = Transient(v)' \ {p}
  BY DEF Transient
<1>4. /\ Cardinality(Opens(v)) \in Nat /\ Cardinality(Opens(v)') \in Nat
      /\ Cardinality(Opens(v)') =
           Cardinality(Opens(v)) + One(p \in Opens(v)') - One(p \in Opens(v))
  BY <1>2, UsersFinite, CountOne
<1>5. /\ Cardinality(Transient(v)) \in Nat /\ Cardinality(Transient(v)') \in Nat
      /\ Cardinality(Transient(v)') =
           Cardinality(Transient(v)) + One(p \in Transient(v)') - One(p \in Transient(v))
  BY <1>3, UsersFinite, CountOne
<1>6. (p \in Opens(v) <=> v \in files[p]) /\ (p \in Opens(v)' <=> v \in files'[p])
  BY DEF Opens
<1> QED BY <1>1, <1>4, <1>5, <1>6 DEF UsesOf, One
-----------------------------------------------------------------------------
(* Types.                                                                  *)

\* Taking back a use of a vnode that has one leaves a natural number.
LEMMA RefType ==
  ASSUME usecount \in [Vnodes -> Nat], NEW v \in Vnodes, NEW d \in {-1, 0, 1},
         d = -1 => usecount[v] >= 1, Ref(v, d)
  PROVE  usecount' \in [Vnodes -> Nat]
<1>1. usecount' = [usecount EXCEPT ![v] = @ + d]
  BY DEF Ref
<1>2. usecount[v] + d \in Nat
  OBVIOUS
<1> QED BY <1>1, <1>2

LEMMA DropPagerType ==
  ASSUME TypeOK, UsesBalance, NEW v \in Vnodes, v \in pager, NEW p \in Procs, DropPager(v, p)
  PROVE  /\ usecount' \in [Vnodes -> Nat] /\ pager' \subseteq Vnodes
         /\ resident' \in [Vnodes -> SUBSET (Pages \X Sources)]
<1>1. CASE PagerUsers(v) \subseteq {p}
  <2>1. usecount[v] >= 1
    BY InUse
  <2> QED BY <1>1, <2>1, RefType DEF DropPager, TypeOK
<1>2. CASE ~(PagerUsers(v) \subseteq {p})
  BY <1>2 DEF DropPager, TypeOK
<1> QED BY <1>1, <1>2

\* Where a page is taken from is known before it is classified.
LEMMA SourceType ==
  ASSUME TypeOK, NEW v \in Vnodes, data[v] # NULL, NEW pg \in Pages
  PROVE  Source(v, pg) \in {"direct", "spill", "copied"}
<1>1. NodeOf(v) \in Nodes
  BY DEF TypeOK, NodeOf
<1>2. Kind[Blob[NodeOf(v)]][pg] \in Kinds
  BY <1>1, NodesAssumption
<1> QED BY <1>2 DEF Source, Kinds

\* Every step keeps the types.  The counts stay natural because a use is taken back
\* only by who has it.
LEMMA TypeStep ==
  ASSUME MountInv, Next
  PROVE  TypeOK'
<1> USE DEF MountInv
<1>0. TypeOK
  BY DEF UsesBalance
<1>1. CASE Boot \/ TogglePolicy
  BY <1>0, <1>1 DEF Boot, TogglePolicy, TypeOK, mounts, vnode, vm, cache, proc
<1>2. ASSUME NEW t \in Threads, Registry(t) \/ Invoke(t) PROVE TypeOK'
  <2>1. ops' \in [Threads -> Nat]
    BY <1>0, <1>2 DEF Registry, Invoke, TypeOK
  <2> QED BY <1>0, <1>2, <2>1 DEF Registry, Invoke, TypeOK, mounts, vnode, vm, cache, proc
<1>3. ASSUME NEW t \in Mounters, Mount(t) \/ BeginUnmount(t) PROVE TypeOK'
  BY <1>0, <1>3 DEF Mount, BeginUnmount, TypeOK, vnode, vm, cache, proc
<1>4. ASSUME NEW t \in Mounters, Flush(t) PROVE TypeOK'
  BY <1>0, <1>4 DEF Flush, ReclaimUnused, Reclaim, TypeOK, vm, cache, proc
<1>5. ASSUME NEW t \in Mounters, FreeMount(t) PROVE TypeOK'
  <2>1. CleanOf(t) \subseteq clean /\ IsFiniteSet(clean) /\ cleanBytes = Cardinality(clean)
    BY DEF CleanOf, CleanInv, MappedCleanIsCached
  <2>2. Cardinality(CleanOf(t)) \in Nat /\ Cardinality(CleanOf(t)) <= Cardinality(clean)
        /\ Cardinality(clean) \in Nat
    BY <2>1, FS_Subset, FS_CardinalityType
  <2>3. cleanBytes' \in Nat
    BY <1>5, <2>1, <2>2 DEF FreeMount
  <2> QED BY <1>0, <1>5, <2>3 DEF FreeMount, TypeOK, vnode, vm, proc
<1>6. ASSUME NEW p \in Procs, NEW t \in Mounters, NEW n \in Nodes, OpenCached(p, t, n) PROVE TypeOK'
  <2>1. PICK v \in Cached(t, n) \ files[p] : Ref(v, 1) /\ files' = [files EXCEPT ![p] = @ \cup {v}]
    BY <1>6 DEF OpenCached
  <2>2. v \in Vnodes /\ usecount' \in [Vnodes -> Nat]
    BY <1>0, <2>1, RefType DEF Cached, TypeOK
  <2> QED BY <1>0, <1>6, <2>1, <2>2 DEF OpenCached, TypeOK, mounts, vm, cache
<1>7. ASSUME NEW p \in Procs, NEW t \in Mounters, NEW n \in Nodes, OpenMiss(p, t, n) PROVE TypeOK'
  <2>1. PICK v \in Vnodes : /\ Ref(v, 1) /\ Goto(p, "insert", On(v))
                            /\ data' = [data EXCEPT ![v] = <<t, n>>]
    BY <1>7 DEF OpenMiss
  <2>2. usecount' \in [Vnodes -> Nat]
    BY <1>0, <2>1, RefType DEF TypeOK
  <2>3. On(v) \in Jobs
    BY DEF On, Idle, Jobs
  <2> QED BY <1>0, <1>7, <2>1, <2>2, <2>3 DEF OpenMiss, Goto, PCs, TypeOK, mounts, vm, cache
<1>8. ASSUME NEW p \in Procs, HashInsert(p) PROVE TypeOK'
  <2> DEFINE v == job[p].vnode
  <2>1. pc[p] = "insert" /\ v \in Vnodes /\ v \notin hashed /\ p \in Transient(v)
    BY <1>8 DEF HashInsert, JobInv, Transient
  <2>2. usecount[v] >= 1
    BY <2>1, InUse
  <2>3. Idle \in Jobs
    BY DEF Idle, Jobs
  <2>4. CASE UNCHANGED <<data, usecount>> /\ hashed' = hashed \cup {v} /\ files' = [files EXCEPT ![p] = @ \cup {v}]
    BY <1>0, <1>8, <2>1, <2>3, <2>4
       DEF HashInsert, Done, Goto, PCs, TypeOK, mounts, vm, cache
  <2>5. ASSUME NEW w \in Cached(MountOf(v), NodeOf(v)), Reclaim({v}),
               usecount' = [usecount EXCEPT ![v] = @ - 1, ![w] = @ + 1],
               files' = [files EXCEPT ![p] = @ \cup {w}]
        PROVE  TypeOK'
    <3>1. w \in hashed /\ w \in Vnodes /\ w # v
      BY <1>0, <2>1 DEF Cached, TypeOK
    <3>2. usecount' \in [Vnodes -> Nat]
      BY <1>0, <2>1, <2>2, <2>5, <3>1 DEF TypeOK
    <3> QED BY <1>0, <1>8, <2>1, <2>3, <2>5, <3>1, <3>2
            DEF HashInsert, Reclaim, Done, Goto, PCs, TypeOK, mounts, vm, cache
  <2> QED BY <1>8, <2>4, <2>5 DEF HashInsert
<1>9. ASSUME NEW p \in Procs, Close(p) PROVE TypeOK'
  <2>1. PICK v \in files[p] : files' = [files EXCEPT ![p] = @ \ {v}] /\ Ref(v, -1)
    BY <1>9 DEF Close
  <2>2. v \in Vnodes /\ usecount[v] >= 1
    BY <1>0, InUse DEF TypeOK
  <2>3. usecount' \in [Vnodes -> Nat]
    BY <1>0, <2>1, <2>2, RefType DEF TypeOK
  <2> QED BY <1>0, <1>9, <2>1, <2>3 DEF Close, TypeOK, mounts, vm, cache
<1>10. ASSUME NEW v \in Vnodes, Recycle(v) PROVE TypeOK'
  BY <1>0, <1>10 DEF Recycle, Reclaim, TypeOK, mounts, vm, cache, proc
<1>11. ASSUME NEW p \in Procs, MmapGet(p) PROVE TypeOK'
  <2>1. PICK v \in files[p] \ maps[p] : Ref(v, 1) /\ Goto(p, "mmap", On(v))
    BY <1>11 DEF MmapGet
  <2>2. v \in Vnodes /\ usecount' \in [Vnodes -> Nat]
    BY <1>0, <2>1, RefType DEF TypeOK
  <2>3. On(v) \in Jobs
    BY <2>2 DEF On, Idle, Jobs
  <2> QED BY <1>0, <1>11, <2>1, <2>2, <2>3 DEF MmapGet, Goto, PCs, TypeOK, mounts, vm, cache
<1>12. ASSUME NEW p \in Procs, MmapRefused(p) \/ MmapPager(p) PROVE TypeOK'
  <2> DEFINE v == job[p].vnode
  <2>1. pc[p] = "mmap" /\ v \in Vnodes /\ p \in Transient(v)
    BY <1>12 DEF MmapRefused, MmapPager, JobInv, Transient
  <2>2. usecount[v] >= 1
    BY <2>1, InUse
  <2>3. usecount' \in [Vnodes -> Nat]
    BY <1>0, <1>12, <2>1, <2>2, RefType DEF MmapRefused, MmapPager, TypeOK
  <2>4. Idle \in Jobs /\ On(v) \in Jobs
    BY <2>1 DEF On, Idle, Jobs
  <2> QED BY <1>0, <1>12, <2>1, <2>3, <2>4
          DEF MmapRefused, MmapPager, Done, Goto, PCs, TypeOK, mounts, vm, cache
<1>13. ASSUME NEW p \in Procs, MmapInsert(p) PROVE TypeOK'
  <2> DEFINE v == job[p].vnode
  <2>1. v \in Vnodes /\ v \in pager
    BY <1>13 DEF MmapInsert, JobInv
  <2>2. /\ usecount' \in [Vnodes -> Nat] /\ pager' \subseteq Vnodes
        /\ resident' \in [Vnodes -> SUBSET (Pages \X Sources)]
    BY <1>0, <1>13, <2>1, DropPagerType DEF MmapInsert, TypeOK, vm
  <2>3. Idle \in Jobs
    BY DEF Idle, Jobs
  <2> QED BY <1>0, <1>13, <2>1, <2>2, <2>3 DEF MmapInsert, Done, Goto, PCs, TypeOK, mounts, cache
<1>14. ASSUME NEW p \in Procs, Unmap(p) PROVE TypeOK'
  <2>1. PICK v \in maps[p] : maps' = [maps EXCEPT ![p] = @ \ {v}] /\ DropPager(v, p)
    BY <1>14 DEF Unmap
  <2>2. v \in Vnodes /\ v \in pager
    BY <1>0 DEF VnodeInv, TypeOK
  <2>3. /\ usecount' \in [Vnodes -> Nat] /\ pager' \subseteq Vnodes
        /\ resident' \in [Vnodes -> SUBSET (Pages \X Sources)]
    BY <1>0, <2>1, <2>2, DropPagerType
  <2> QED BY <1>0, <1>14, <2>1, <2>3 DEF Unmap, TypeOK, mounts, cache
<1>15. ASSUME NEW p \in Procs, Fault(p) PROVE TypeOK'
  <2>1. PICK v \in maps[p], pg \in Pages :
          Goto(p, IF Source(v, pg) = "copied" THEN "fill" ELSE "install",
               [On(v) EXCEPT !.page = pg, !.source = Source(v, pg)])
    BY <1>15 DEF Fault
  <2>2. v \in Vnodes /\ data[v] # NULL
    BY <1>0 DEF VnodeInv, TypeOK
  <2>3. [On(v) EXCEPT !.page = pg, !.source = Source(v, pg)] \in Jobs
    BY <1>0, <2>2, SourceType DEF On, Idle, Jobs, Kinds
  <2> QED BY <1>0, <1>15, <2>1, <2>3 DEF Fault, Goto, PCs, TypeOK, mounts, vnode, vm, cache
<1>16. ASSUME NEW p \in Procs, Fill(p) PROVE TypeOK'
  <2>1. [job[p] EXCEPT !.source = "clean"] \in Jobs
    <3>1. job[p] \in Jobs
      BY <1>0 DEF TypeOK
    <3> QED BY <3>1 DEF Jobs
  <2> QED BY <1>0, <1>16, <2>1 DEF Fill, Goto, PCs, TypeOK, mounts, vnode, vm
<1>17. ASSUME NEW p \in Procs, Install(p) PROVE TypeOK'
  <2>1. job[p].vnode \in Vnodes /\ <<job[p].page, job[p].source>> \in Pages \X Sources
    BY <1>17 DEF Install, JobInv
  <2>2. Idle \in Jobs
    BY DEF Idle, Jobs
  <2> QED BY <1>0, <1>17, <2>1, <2>2 DEF Install, Done, Goto, PCs, TypeOK, mounts, vnode, cache
<1> QED BY <1>1, <1>2, <1>3, <1>4, <1>5, <1>6, <1>7, <1>8, <1>9, <1>10, <1>11, <1>12, <1>13,
           <1>14, <1>15, <1>16, <1>17 DEF Next, MountStep, ProcCall, ProcStep
-----------------------------------------------------------------------------
(* Vnodes and jobs: what is hashed, open, paged, resident and half way.    *)

\* A vnode without uses, which may be reclaimed, is nobody's.
LEMMA Unused ==
  ASSUME UsesBalance, NEW v \in Vnodes, usecount[v] = 0
  PROVE  v \notin pager /\ \A p \in Procs : v \notin files[p] /\ p \notin Transient(v)
BY InUse

\* Reclaiming vnodes that have no use disturbs none of what is in use; a mount may
\* lose its last ones and be gone.
LEMMA ReclaimStep ==
  ASSUME MountInv, NEW S \in SUBSET Vnodes, \A v \in S : usecount[v] = 0,
         Reclaim(S), UNCHANGED <<pager, resident, pc, job, files, maps>>,
         \A v \in Vnodes \ S : data[v] # NULL => fs'[MountOf(v)] \in {"live", "unmount"}
  PROVE  VnodeInv' /\ JobInv' /\ OneVnodePerFile'
<1> USE DEF MountInv
<1>1. \A v \in S : v \notin pager /\ \A p \in Procs : v \notin files[p] /\ p \notin Transient(v)
  BY Unused
<1>2. /\ \A v \in Vnodes : data'[v] = IF v \in S THEN NULL ELSE data[v]
      /\ hashed' = hashed \ S /\ hashed \subseteq Vnodes
  BY DEF Reclaim, UsesBalance, TypeOK
<1>3. VnodeInv'
  <2>1. \A v \in hashed' : data'[v] # NULL
    BY <1>2 DEF VnodeInv
  <2>2. \A v \in Vnodes : data'[v] # NULL => fs'[MountOf(v)'] \in {"live", "unmount"}
    BY <1>2 DEF MountOf
  <2>3. \A p \in Procs : files'[p] \subseteq hashed' /\ maps'[p] \subseteq pager'
    BY <1>1, <1>2 DEF VnodeInv
  <2>4. pager' \subseteq hashed'
    BY <1>1, <1>2 DEF VnodeInv
  <2> QED BY <2>1, <2>2, <2>3, <2>4 DEF VnodeInv
<1>4. JobInv'
  <2>1. \A p \in Procs : pc[p] = "insert" => job[p].vnode \notin S
    BY <1>1 DEF Transient
  <2>2. \A p \in Procs : \A w \in files[p] : w \in Vnodes /\ w \notin S
    BY <1>1 DEF UsesBalance, TypeOK
  <2> QED BY <1>2, <2>1, <2>2 DEF JobInv
<1>5. OneVnodePerFile'
  BY <1>2 DEF OneVnodePerFile
<1> QED BY <1>3, <1>4, <1>5

\* ff_pager_dtor takes an object from nobody but the caller.
LEMMA DropPagerStep ==
  ASSUME TypeOK, VnodeInv, JobInv, NEW v \in Vnodes, NEW p \in Procs, DropPager(v, p)
  PROVE  /\ pager \ {v} \subseteq pager' /\ pager' \subseteq pager
         /\ \A w \in Vnodes : resident'[w] # {} => w \in pager' /\ resident'[w] = resident[w]
         /\ \A q \in Procs \ {p} :
              /\ v \in maps[q] => v \in pager'
              /\ pc[q] \in {"map", "fill", "install"} => job[q].vnode \in pager'
<1>1. CASE PagerUsers(v) \subseteq {p}
  <2>1. \A q \in Procs \ {p} : v \notin maps[q] /\
          (pc[q] \in {"map", "fill", "install"} => job[q].vnode # v)
    BY <1>1 DEF PagerUsers
  <2>2. pager' = pager \ {v} /\ resident' = [resident EXCEPT ![v] = {}]
    BY <1>1 DEF DropPager
  <2> QED BY <2>1, <2>2 DEF TypeOK, VnodeInv, JobInv
<1>2. CASE ~(PagerUsers(v) \subseteq {p})
  <2>1. UNCHANGED <<pager, resident>>
    BY <1>2 DEF DropPager
  <2> QED BY <2>1 DEF VnodeInv, JobInv
<1> QED BY <1>1, <1>2

\* Every step keeps the vnodes in use in the hash, with their v_data and their
\* mount, and one vnode per file.
LEMMA VnodeStep ==
  ASSUME MountInv, TypeOK', Next
  PROVE  VnodeInv' /\ JobInv' /\ OneVnodePerFile'
<1> USE DEF MountInv
<1>0. TypeOK
  BY DEF UsesBalance
<1> DEFINE Goal == VnodeInv' /\ JobInv' /\ OneVnodePerFile'
<1>1. ASSUME UNCHANGED <<data, hashed, pager, resident, pc, job, files, maps>>,
             \A v \in Vnodes : data[v] # NULL => fs'[MountOf(v)] \in {"live", "unmount"}
      PROVE  Goal
  BY <1>1 DEF VnodeInv, JobInv, OneVnodePerFile, MountOf
<1>2. CASE Boot \/ TogglePolicy \/ \E t \in Threads : Registry(t) \/ Invoke(t)
  BY <1>1, <1>2 DEF Boot, TogglePolicy, Registry, Invoke, mounts, vnode, vm, proc, VnodeInv
<1>3. ASSUME NEW t \in Mounters, Mount(t) \/ BeginUnmount(t) PROVE Goal
  <2>1. \A u \in Mounters : fs[u] \in {"live", "unmount"} => fs'[u] \in {"live", "unmount"}
    BY <1>0, <1>3 DEF Mount, BeginUnmount, TypeOK
  <2>2. \A v \in Vnodes : data[v] # NULL => MountOf(v) \in Mounters
    BY <1>0 DEF TypeOK, MountOf
  <2> QED BY <1>1, <1>3, <2>1, <2>2 DEF Mount, BeginUnmount, vnode, vm, proc, VnodeInv
<1>4. ASSUME NEW t \in Mounters, Flush(t) PROVE Goal
  <2> DEFINE S == {v \in OfMount(t) : usecount[v] = 0}
  <2>1. S \in SUBSET Vnodes /\ Reclaim(S) /\ \A v \in S : usecount[v] = 0
    BY <1>4 DEF Flush, ReclaimUnused, OfMount
  <2>2. fs' = [fs EXCEPT ![t] = IF S = OfMount(t) THEN "flushed" ELSE "live"]
    BY <1>4 DEF Flush, ReclaimUnused
  <2>3. ASSUME NEW v \in Vnodes \ S, data[v] # NULL
        PROVE  fs'[MountOf(v)] \in {"live", "unmount"}
    <3>1. MountOf(v) \in Mounters /\ fs[MountOf(v)] \in {"live", "unmount"}
      BY <1>0, <2>3 DEF TypeOK, MountOf, VnodeInv
    <3>2. MountOf(v) = t => S # OfMount(t)
      BY <2>3 DEF OfMount
    <3> QED BY <1>0, <2>2, <3>1, <3>2 DEF TypeOK
  <2>4. UNCHANGED <<pager, resident, pc, job, files, maps>>
    BY <1>4 DEF Flush, vm, proc
  <2> HIDE DEF S
  <2> QED BY <2>1, <2>3, <2>4, ReclaimStep
<1>5. ASSUME NEW t \in Mounters, FreeMount(t) PROVE Goal
  <2>1. \A v \in Vnodes : data[v] # NULL => MountOf(v) \in Mounters /\ MountOf(v) # t
    BY <1>0, <1>5 DEF TypeOK, MountOf, VnodeInv, FreeMount
  <2> QED BY <1>0, <1>1, <1>5, <2>1 DEF FreeMount, vnode, vm, proc, VnodeInv, TypeOK
<1>6. ASSUME NEW v \in Vnodes, Recycle(v) PROVE Goal
  <2>1. UNCHANGED <<fs, pager, resident, pc, job, files, maps>> /\ Reclaim({v}) /\ usecount[v] = 0
    BY <1>6 DEF Recycle, mounts, vm, proc
  <2> QED BY <2>1, ReclaimStep DEF VnodeInv
<1>7. ASSUME NEW p \in Procs, NEW t \in Mounters, NEW n \in Nodes, OpenCached(p, t, n) PROVE Goal
  <2>1. PICK v \in Cached(t, n) \ files[p] : files' = [files EXCEPT ![p] = @ \cup {v}]
    BY <1>7 DEF OpenCached
  <2>2. v \in hashed /\ pc[p] = "idle" /\ UNCHANGED <<fs, data, hashed, pager, resident, pc, job, maps>>
    BY <1>7 DEF OpenCached, mounts, vm, Cached
  <2>3. VnodeInv'
    BY <1>0, <2>1, <2>2 DEF VnodeInv, TypeOK, MountOf
  <2>4. JobInv'
    BY <1>0, <2>1, <2>2 DEF JobInv, TypeOK
  <2> QED BY <2>2, <2>3, <2>4 DEF OneVnodePerFile
<1>8. ASSUME NEW p \in Procs, NEW t \in Mounters, NEW n \in Nodes, OpenMiss(p, t, n) PROVE Goal
  <2>1. PICK v \in Vnodes : /\ data[v] = NULL /\ data' = [data EXCEPT ![v] = <<t, n>>]
                            /\ Goto(p, "insert", On(v))
    BY <1>8 DEF OpenMiss
  <2>2. /\ pc[p] = "idle" /\ Cached(t, n) = {} /\ fs[t] \in {"live", "unmount"}
        /\ UNCHANGED <<fs, hashed, pager, resident, files, maps>>
    BY <1>8 DEF OpenMiss, MayLookup, mounts, vm
  <2>3. <<t, n>> # NULL /\ v \notin hashed /\ On(v).vnode = v
    BY <2>1, FreshAssumption DEF VnodeInv, On, Idle
  <2>4. VnodeInv'
    BY <1>0, <2>1, <2>2, <2>3 DEF VnodeInv, TypeOK, MountOf
  <2>5. JobInv'
    <3>1. \A w \in files[p] : data[w] # <<t, n>> /\ w # v /\ w \in Vnodes
      BY <1>0, <2>2, <2>3 DEF VnodeInv, Cached, TypeOK
    <3>2. \A q \in Procs \ {p} : pc'[q] = pc[q] /\ job'[q] = job[q] /\
             (pc[q] = "insert" => job[q].vnode # v)
      BY <1>0, <2>1 DEF Goto, JobInv, TypeOK
    <3>3. pc'[p] = "insert" /\ job'[p].vnode = v
      BY <1>0, <2>1, <2>3 DEF Goto, TypeOK
    <3>4. \A w \in Vnodes \ {v} : data'[w] = data[w]
      BY <1>0, <2>1 DEF TypeOK
    <3>5. data'[v] = <<t, n>>
      BY <1>0, <2>1 DEF TypeOK
    <3>6. \A q \in Procs : \A w \in files[q] : w # v /\ w \in Vnodes
      BY <1>0, <2>3 DEF VnodeInv, TypeOK
    <3>7. \A q \in Procs : pc[q] = "insert" => job[q].vnode \in Vnodes
      BY DEF JobInv
    <3>8. \A q \in Procs : pc'[q] = "insert" =>
            /\ job'[q].vnode \in Vnodes /\ job'[q].vnode \notin hashed'
            /\ data'[job'[q].vnode] # NULL
            /\ \A r \in Procs : pc'[r] = "insert" /\ job'[r].vnode = job'[q].vnode => r = q
      <4> SUFFICES ASSUME NEW q \in Procs, pc'[q] = "insert"
                   PROVE  /\ job'[q].vnode \in Vnodes /\ job'[q].vnode \notin hashed
                          /\ data'[job'[q].vnode] # NULL
                          /\ \A r \in Procs : pc'[r] = "insert" /\ job'[r].vnode = job'[q].vnode => r = q
        BY <2>2
      <4>1. CASE q = p
        BY <2>3, <3>2, <3>3, <3>5, <4>1
      <4>2. CASE q # p
        <5>1. /\ pc[q] = "insert" /\ job'[q] = job[q] /\ job[q].vnode # v
              /\ job[q].vnode \in Vnodes
          BY <3>2, <3>7, <4>2
        <5>2. job[q].vnode \notin hashed /\ data[job[q].vnode] # NULL
          BY <5>1 DEF JobInv
        <5>3. \A r \in Procs : pc'[r] = "insert" /\ job'[r].vnode = job[q].vnode => r = q
          BY <3>2, <3>3, <5>1 DEF JobInv
        <5> QED BY <3>4, <5>1, <5>2, <5>3
      <4> QED BY <4>1, <4>2
    <3>9. \A q \in Procs : pc'[q] = "insert" => \A w \in files'[q] : data'[w] # data'[job'[q].vnode]
      BY <2>2, <3>1, <3>2, <3>3, <3>4, <3>5, <3>6, <3>7 DEF JobInv
    <3> QED BY <2>1, <2>2, <3>2, <3>3, <3>8, <3>9 DEF JobInv
  <2>6. OneVnodePerFile'
    BY <1>0, <2>1, <2>2, <2>3 DEF OneVnodePerFile, TypeOK
  <2> QED BY <2>4, <2>5, <2>6
<1>9. ASSUME NEW p \in Procs, HashInsert(p) PROVE Goal
  <2> DEFINE v == job[p].vnode
  <2>1. /\ pc[p] = "insert" /\ v \in Vnodes /\ v \notin hashed /\ data[v] # NULL
        /\ data[v] = <<MountOf(v), NodeOf(v)>>
    BY <1>0, <1>9 DEF HashInsert, JobInv, TypeOK, MountOf, NodeOf
  <2>2. /\ pc' = [pc EXCEPT ![p] = "idle"] /\ job' = [job EXCEPT ![p] = Idle]
        /\ UNCHANGED <<fs, pager, resident, maps>>
    BY <1>9 DEF HashInsert, Done, Goto, mounts, vm
  <2>3. \A q \in Procs \ {p} : pc'[q] = pc[q] /\ job'[q] = job[q] /\
           (pc[q] = "insert" => job[q].vnode # v)
    BY <1>0, <2>1, <2>2 DEF JobInv, TypeOK
  <2>4. pc'[p] = "idle"
    BY <1>0, <2>2 DEF TypeOK
  <2>5. CASE /\ Cached(MountOf(v), NodeOf(v)) = {} /\ hashed' = hashed \cup {v}
             /\ files' = [files EXCEPT ![p] = @ \cup {v}] /\ UNCHANGED <<data, usecount>>
    <3>1. VnodeInv'
      BY <1>0, <2>1, <2>2, <2>5 DEF VnodeInv, TypeOK, MountOf
    <3>2. JobInv'
      <4>1. \A q \in Procs \ {p} : files'[q] = files[q]
        BY <1>0, <2>5 DEF TypeOK
      <4> QED BY <2>2, <2>3, <2>4, <2>5, <4>1 DEF JobInv
    <3>3. OneVnodePerFile'
      BY <2>1, <2>5 DEF OneVnodePerFile, Cached
    <3> QED BY <3>1, <3>2, <3>3
  <2>6. ASSUME NEW w \in Cached(MountOf(v), NodeOf(v)), Reclaim({v}),
               files' = [files EXCEPT ![p] = @ \cup {w}]
        PROVE  Goal
    <3>1. w \in hashed /\ w \in Vnodes /\ w # v
      BY <1>0, <2>1 DEF Cached, TypeOK
    <3>2. /\ data'[v] = NULL /\ \A u \in Vnodes \ {v} : data'[u] = data[u]
          /\ hashed' = hashed
      BY <2>1, <2>6 DEF Reclaim
    <3>3. VnodeInv'
      BY <1>0, <2>1, <2>2, <2>6, <3>1, <3>2 DEF VnodeInv, TypeOK, MountOf
    <3>4. JobInv'
      <4>1. \A q \in Procs \ {p} : files'[q] = files[q]
        BY <1>0, <2>6 DEF TypeOK
      <4>2. \A q \in Procs : \A u \in files[q] : u # v /\ u \in Vnodes
        BY <1>0, <2>1 DEF VnodeInv, TypeOK
      <4> QED BY <2>2, <2>3, <2>4, <3>2, <4>1, <4>2 DEF JobInv
    <3>5. OneVnodePerFile'
      BY <1>0, <2>1, <3>2 DEF OneVnodePerFile, TypeOK
    <3> QED BY <3>3, <3>4, <3>5
  <2> QED BY <1>9, <2>5, <2>6 DEF HashInsert
<1>10. ASSUME NEW p \in Procs, Close(p) PROVE Goal
  <2>1. PICK v \in files[p] : files' = [files EXCEPT ![p] = @ \ {v}]
    BY <1>10 DEF Close
  <2>2. pc[p] = "idle" /\ UNCHANGED <<fs, data, hashed, pager, resident, pc, job, maps>>
    BY <1>10 DEF Close, mounts, vm
  <2>3. VnodeInv'
    BY <1>0, <2>1, <2>2 DEF VnodeInv, TypeOK, MountOf
  <2>4. JobInv'
    BY <1>0, <2>1, <2>2 DEF JobInv, TypeOK
  <2> QED BY <2>2, <2>3, <2>4 DEF OneVnodePerFile
<1>11. ASSUME NEW p \in Procs, MmapGet(p) PROVE Goal
  <2>1. PICK v \in files[p] \ maps[p] : Goto(p, "mmap", On(v))
    BY <1>11 DEF MmapGet
  <2>2. v \in Vnodes /\ On(v).vnode = v /\ UNCHANGED <<fs, data, hashed, pager, resident, files, maps>>
    BY <1>0, <1>11 DEF MmapGet, mounts, vm, TypeOK, On, Idle
  <2>3. VnodeInv'
    BY <2>2 DEF VnodeInv, MountOf
  <2>4. JobInv'
    BY <1>0, <2>1, <2>2 DEF JobInv, Goto, TypeOK
  <2> QED BY <2>2, <2>3, <2>4 DEF OneVnodePerFile
<1>12. ASSUME NEW p \in Procs, MmapRefused(p) PROVE Goal
  <2>1. Done(p) /\ UNCHANGED <<fs, data, hashed, pager, resident, files, maps>>
    BY <1>12 DEF MmapRefused, mounts, vm
  <2>2. VnodeInv'
    BY <2>1 DEF VnodeInv, MountOf
  <2>3. JobInv'
    BY <1>0, <2>1 DEF JobInv, Done, Goto, TypeOK
  <2> QED BY <2>1, <2>2, <2>3 DEF OneVnodePerFile
<1>13. ASSUME NEW p \in Procs, MmapPager(p) PROVE Goal
  <2> DEFINE v == job[p].vnode
  <2>1. /\ pc[p] = "mmap" /\ v \in files[p] /\ v \notin maps[p] /\ v \in Vnodes
        /\ On(v).vnode = v
    BY <1>13 DEF MmapPager, JobInv, On, Idle
  <2>2. /\ pager' = pager \cup {v} /\ Goto(p, "map", On(v))
        /\ UNCHANGED <<fs, data, hashed, resident, files, maps>>
    BY <1>13 DEF MmapPager, mounts
  <2>3. VnodeInv'
    BY <2>1, <2>2 DEF VnodeInv, MountOf
  <2>4. JobInv'
    BY <1>0, <2>1, <2>2 DEF JobInv, Goto, TypeOK
  <2> QED BY <2>2, <2>3, <2>4 DEF OneVnodePerFile
<1>14. ASSUME NEW p \in Procs, MmapInsert(p) PROVE Goal
  <2> DEFINE v == job[p].vnode
  <2>1. pc[p] = "map" /\ v \in Vnodes /\ v \in pager /\ v \notin maps[p]
    BY <1>14 DEF MmapInsert, JobInv
  <2>2. Done(p) /\ UNCHANGED <<fs, data, hashed, files>>
    BY <1>14 DEF MmapInsert, mounts
  <2>3. CASE maps' = [maps EXCEPT ![p] = @ \cup {v}] /\ UNCHANGED <<pager, resident>>
    <3>1. VnodeInv'
      BY <1>0, <2>1, <2>2, <2>3 DEF VnodeInv, TypeOK, MountOf
    <3>2. JobInv'
      BY <1>0, <2>1, <2>2, <2>3 DEF JobInv, Done, Goto, TypeOK
    <3> QED BY <2>2, <3>1, <3>2 DEF OneVnodePerFile
  <2>4. CASE DropPager(v, p) /\ UNCHANGED maps
    <3>1. /\ pager \ {v} \subseteq pager' /\ pager' \subseteq pager
          /\ \A w \in Vnodes : resident'[w] # {} => w \in pager' /\ resident'[w] = resident[w]
          /\ \A q \in Procs \ {p} :
              /\ v \in maps[q] => v \in pager'
              /\ pc[q] \in {"map", "fill", "install"} => job[q].vnode \in pager'
      BY <1>0, <2>1, <2>4, DropPagerStep
    <3>2. VnodeInv'
      BY <2>1, <2>2, <2>4, <3>1 DEF VnodeInv, MountOf
    <3>3. JobInv'
      BY <1>0, <2>1, <2>2, <2>4, <3>1 DEF JobInv, Done, Goto, TypeOK
    <3> QED BY <2>2, <3>2, <3>3 DEF OneVnodePerFile
  <2> QED BY <1>14, <2>3, <2>4 DEF MmapInsert, vm
<1>15. ASSUME NEW p \in Procs, Unmap(p) PROVE Goal
  <2>1. PICK v \in maps[p] : maps' = [maps EXCEPT ![p] = @ \ {v}] /\ DropPager(v, p)
    BY <1>15 DEF Unmap
  <2>2. v \in Vnodes /\ pc[p] = "idle" /\ UNCHANGED <<fs, data, hashed, pc, job, files>>
    BY <1>0, <1>15 DEF Unmap, mounts, TypeOK
  <2>3. /\ pager \ {v} \subseteq pager' /\ pager' \subseteq pager
        /\ \A w \in Vnodes : resident'[w] # {} => w \in pager' /\ resident'[w] = resident[w]
        /\ \A q \in Procs \ {p} :
            /\ v \in maps[q] => v \in pager'
            /\ pc[q] \in {"map", "fill", "install"} => job[q].vnode \in pager'
    BY <1>0, <2>1, <2>2, DropPagerStep
  <2>4. VnodeInv'
    BY <1>0, <2>1, <2>2, <2>3 DEF VnodeInv, MountOf, TypeOK
  <2>5. JobInv'
    BY <1>0, <2>1, <2>2, <2>3 DEF JobInv, TypeOK
  <2> QED BY <2>2, <2>4, <2>5 DEF OneVnodePerFile
<1>16. ASSUME NEW p \in Procs, Fault(p) PROVE Goal
  <2>1. PICK v \in maps[p], pg \in Pages :
          Goto(p, IF Source(v, pg) = "copied" THEN "fill" ELSE "install",
               [On(v) EXCEPT !.page = pg, !.source = Source(v, pg)])
    BY <1>16 DEF Fault
  <2>2. UNCHANGED <<fs, data, hashed, pager, resident, files, maps>>
    BY <1>16 DEF Fault, mounts, vnode, vm
  <2>3. v \in Vnodes /\ v \in pager /\ data[v] # NULL
    BY <1>0 DEF VnodeInv, TypeOK
  <2>4. Source(v, pg) \in {"direct", "spill", "copied"}
    BY <1>0, <2>3, SourceType
  <2> DEFINE j == [On(v) EXCEPT !.page = pg, !.source = Source(v, pg)]
  <2>5. j.vnode = v /\ j.page = pg /\ j.source = Source(v, pg)
    BY DEF On, Idle
  <2>6. /\ pc'[p] = (IF Source(v, pg) = "copied" THEN "fill" ELSE "install") /\ job'[p] = j
        /\ \A q \in Procs \ {p} : pc'[q] = pc[q] /\ job'[q] = job[q]
    BY <1>0, <2>1 DEF Goto, TypeOK
  <2> HIDE DEF j
  <2>7. VnodeInv'
    BY <2>2 DEF VnodeInv, MountOf
  <2>8. JobInv'
    BY <2>2, <2>3, <2>4, <2>5, <2>6 DEF JobInv, Sources
  <2> QED BY <2>2, <2>7, <2>8 DEF OneVnodePerFile
<1>17. ASSUME NEW p \in Procs, Fill(p) PROVE Goal
  <2>1. pc[p] = "fill" /\ UNCHANGED <<fs, data, hashed, pager, resident, files, maps>>
    BY <1>17 DEF Fill, mounts, vnode, vm
  <2>2. job[p] \in Jobs
    BY <1>0 DEF TypeOK
  <2> DEFINE j == [job[p] EXCEPT !.source = "clean"]
  <2>3. j.vnode = job[p].vnode /\ j.page = job[p].page /\ j.source = "clean"
    BY <2>2 DEF Jobs
  <2>4. /\ pc'[p] = "install" /\ job'[p] = j
        /\ \A q \in Procs \ {p} : pc'[q] = pc[q] /\ job'[q] = job[q]
    BY <1>0, <1>17 DEF Fill, Goto, TypeOK
  <2> HIDE DEF j
  <2>5. VnodeInv'
    BY <2>1 DEF VnodeInv, MountOf
  <2>6. JobInv'
    BY <2>1, <2>3, <2>4 DEF JobInv, Sources
  <2> QED BY <2>1, <2>5, <2>6 DEF OneVnodePerFile
<1>18. ASSUME NEW p \in Procs, Install(p) PROVE Goal
  <2> DEFINE v == job[p].vnode
  <2>1. pc[p] = "install" /\ v \in Vnodes /\ v \in pager
    BY <1>18 DEF Install, JobInv
  <2>2. Done(p) /\ UNCHANGED <<fs, data, hashed, pager, files, maps>>
    BY <1>18 DEF Install, mounts, vnode
  <2>3. \A w \in Vnodes : resident'[w] # {} => w \in pager
    BY <1>0, <1>18, <2>1 DEF Install, VnodeInv, TypeOK
  <2>4. VnodeInv'
    BY <2>2, <2>3 DEF VnodeInv, MountOf
  <2>5. JobInv'
    BY <1>0, <2>2 DEF JobInv, Done, Goto, TypeOK
  <2> QED BY <2>2, <2>4, <2>5 DEF OneVnodePerFile
<1> QED BY <1>2, <1>3, <1>4, <1>5, <1>6, <1>7, <1>8, <1>9, <1>10, <1>11, <1>12, <1>13,
           <1>14, <1>15, <1>16, <1>17, <1>18 DEF Next, MountStep, ProcCall, ProcStep
-----------------------------------------------------------------------------
(* The balance of uses, action by action.                                  *)

\* Letting the object go, or keeping it for others, is balanced either way.
LEMMA DropPagerUses ==
  ASSUME TypeOK, TypeOK', NEW v \in Vnodes, v \in pager, NEW p \in Procs, DropPager(v, p)
  PROVE  \A w \in Vnodes : usecount'[w] = usecount[w] + One(w \in pager') - One(w \in pager)
BY DEF DropPager, Ref, TypeOK, One

\* Every step changes the use counts by what it changes of the uses.
LEMMA UsesStep ==
  ASSUME MountInv, TypeOK', Next
  PROVE  UsesBalance'
<1> USE DEF MountInv
<1>0. TypeOK
  BY DEF UsesBalance
<1>1. ASSUME UNCHANGED <<usecount, pager, pc, job, files>> PROVE UsesBalance'
  BY <1>1 DEF UsesBalance, Transient
<1>2. CASE Boot \/ TogglePolicy \/ \E t \in Threads : Registry(t) \/ Invoke(t)
  BY <1>1, <1>2 DEF Boot, TogglePolicy, Registry, Invoke, vnode, vm, proc
<1>3. CASE \E t \in Mounters : Mount(t) \/ BeginUnmount(t) \/ Flush(t) \/ FreeMount(t)
  BY <1>1, <1>3 DEF Mount, BeginUnmount, Flush, FreeMount, vnode, vm, proc
<1>4. CASE \E v \in Vnodes : Recycle(v)
  BY <1>1, <1>4 DEF Recycle, vm, proc
<1>5. ASSUME NEW p \in Procs, ProcCall(p) \/ ProcStep(p) PROVE UsesBalance'
  <2> USE DEF TypeOK, Transient, UsesOf, One, Goto, Done
  <2>1. ASSUME NEW t \in Mounters, NEW n \in Nodes, OpenCached(p, t, n) PROVE UsesBalance'
    <3>1. PICK v \in Cached(t, n) \ files[p] : Ref(v, 1) /\ files' = [files EXCEPT ![p] = @ \cup {v}]
      BY <2>1 DEF OpenCached
    <3>2. UNCHANGED <<pc, job, pager>>
      BY <2>1 DEF OpenCached, vm
    <3>3. \A w \in Vnodes : usecount'[w] = usecount[w] + UsesOf(p, w)' - UsesOf(p, w)
      BY <1>0, <3>1, <3>2 DEF Ref, Cached
    <3> QED BY <1>0, <3>1, <3>2, <3>3, BalanceStep
  <2>2. ASSUME NEW t \in Mounters, NEW n \in Nodes, OpenMiss(p, t, n) PROVE UsesBalance'
    <3>1. PICK v \in Vnodes : Ref(v, 1) /\ Goto(p, "insert", On(v))
      BY <2>2 DEF OpenMiss
    <3>2. pc[p] = "idle" /\ UNCHANGED <<files, pager>> /\ On(v).vnode = v
      BY <2>2 DEF OpenMiss, vm, On, Idle
    <3>3. \A w \in Vnodes : usecount'[w] = usecount[w] + UsesOf(p, w)' - UsesOf(p, w)
      BY <1>0, <3>1, <3>2 DEF Ref
    <3> QED BY <1>0, <3>1, <3>2, <3>3, BalanceStep
  <2>3. CASE HashInsert(p)
    <3> DEFINE v == job[p].vnode
    <3>1. /\ pc[p] = "insert" /\ v \in Vnodes /\ v \notin hashed /\ v \notin files[p]
          /\ \A w \in files[p] : data[w] # data[v]
          /\ data[v] = <<MountOf(v), NodeOf(v)>>
      BY <1>0, <2>3 DEF HashInsert, JobInv, VnodeInv, MountOf, NodeOf
    <3>2. pc' = [pc EXCEPT ![p] = "idle"] /\ job' = [job EXCEPT ![p] = Idle] /\ UNCHANGED pager
      BY <2>3 DEF HashInsert, vm
    <3>3. CASE files' = [files EXCEPT ![p] = @ \cup {v}] /\ UNCHANGED usecount
      <4>1. \A w \in Vnodes : usecount'[w] = usecount[w] + UsesOf(p, w)' - UsesOf(p, w)
        BY <1>0, <3>1, <3>2, <3>3
      <4> QED BY <1>0, <3>2, <3>3, <4>1, BalanceStep
    <3>4. ASSUME NEW x \in Cached(MountOf(v), NodeOf(v)),
                 usecount' = [usecount EXCEPT ![v] = @ - 1, ![x] = @ + 1],
                 files' = [files EXCEPT ![p] = @ \cup {x}]
          PROVE  UsesBalance'
      <4>1. x \in Vnodes /\ x # v /\ x \notin files[p]
        BY <1>0, <3>1 DEF Cached
      <4>2. \A w \in Vnodes : usecount'[w] = usecount[w] + UsesOf(p, w)' - UsesOf(p, w)
        BY <1>0, <3>1, <3>2, <3>4, <4>1
      <4> QED BY <1>0, <3>2, <3>4, <4>2, BalanceStep
    <3> QED BY <2>3, <3>3, <3>4 DEF HashInsert
  <2>4. CASE Close(p)
    <3>1. PICK v \in files[p] : files' = [files EXCEPT ![p] = @ \ {v}] /\ Ref(v, -1)
      BY <2>4 DEF Close
    <3>2. UNCHANGED <<pc, job, pager>>
      BY <2>4 DEF Close, vm
    <3>3. \A w \in Vnodes : usecount'[w] = usecount[w] + UsesOf(p, w)' - UsesOf(p, w)
      BY <1>0, <3>1, <3>2 DEF Ref
    <3> QED BY <1>0, <3>1, <3>2, <3>3, BalanceStep
  <2>5. CASE MmapGet(p)
    <3>1. PICK v \in files[p] \ maps[p] : Ref(v, 1) /\ Goto(p, "mmap", On(v))
      BY <2>5 DEF MmapGet
    <3>2. pc[p] = "idle" /\ UNCHANGED <<files, pager>> /\ On(v).vnode = v
      BY <2>5 DEF MmapGet, vm, On, Idle
    <3>3. \A w \in Vnodes : usecount'[w] = usecount[w] + UsesOf(p, w)' - UsesOf(p, w)
      BY <1>0, <3>1, <3>2 DEF Ref
    <3> QED BY <1>0, <3>1, <3>2, <3>3, BalanceStep
  <2>6. CASE MmapRefused(p)
    <3>1. /\ pc[p] = "mmap" /\ job[p].vnode \in Vnodes /\ Ref(job[p].vnode, -1) /\ Done(p)
          /\ UNCHANGED <<files, pager>>
      BY <2>6 DEF MmapRefused, JobInv, vm
    <3>2. \A w \in Vnodes : usecount'[w] = usecount[w] + UsesOf(p, w)' - UsesOf(p, w)
      BY <1>0, <3>1 DEF Ref
    <3> QED BY <1>0, <3>1, <3>2, BalanceStep
  <2>7. CASE MmapPager(p)
    <3> DEFINE v == job[p].vnode
    <3>1. /\ pc[p] = "mmap" /\ v \in Vnodes /\ Ref(v, IF v \in pager THEN -1 ELSE 0)
          /\ pager' = pager \cup {v} /\ Goto(p, "map", On(v)) /\ UNCHANGED files
      BY <2>7 DEF MmapPager, JobInv
    <3>2. \A w \in Vnodes : usecount'[w] = usecount[w] + UsesOf(p, w)' - UsesOf(p, w)
      BY <1>0, <3>1 DEF Ref
    <3> QED BY <1>0, <3>1, <3>2, BalanceStep
  <2>8. CASE MmapInsert(p)
    <3> DEFINE v == job[p].vnode
    <3>1. /\ pc[p] = "map" /\ v \in Vnodes /\ v \in pager
          /\ Done(p) /\ UNCHANGED files
      BY <2>8 DEF MmapInsert, JobInv
    <3>2. \A w \in Vnodes : usecount'[w] = usecount[w] + One(w \in pager') - One(w \in pager)
      BY <1>0, <2>8, <3>1, DropPagerUses DEF MmapInsert, vm
    <3>3. \A w \in Vnodes : usecount'[w] = usecount[w] + UsesOf(p, w)' - UsesOf(p, w)
      BY <1>0, <3>1, <3>2
    <3> QED BY <1>0, <3>1, <3>3, BalanceStep
  <2>9. CASE Unmap(p)
    <3>1. PICK v \in maps[p] : DropPager(v, p)
      BY <2>9 DEF Unmap
    <3>2. v \in Vnodes /\ v \in pager /\ UNCHANGED <<pc, job, files>>
      BY <1>0, <2>9 DEF Unmap, VnodeInv
    <3>3. \A w \in Vnodes : usecount'[w] = usecount[w] + One(w \in pager') - One(w \in pager)
      BY <1>0, <3>1, <3>2, DropPagerUses
    <3>4. \A w \in Vnodes : usecount'[w] = usecount[w] + UsesOf(p, w)' - UsesOf(p, w)
      BY <1>0, <3>2, <3>3
    <3> QED BY <3>2, <3>4, BalanceStep
  <2>10. CASE Fault(p) \/ Fill(p) \/ Install(p)
    <3>1. /\ pc[p] \notin {"insert", "mmap"} /\ pc'[p] \notin {"insert", "mmap"}
          /\ UNCHANGED <<files, pager, usecount>>
          /\ \A q \in Procs \ {p} : pc'[q] = pc[q] /\ job'[q] = job[q]
      BY <1>0, <2>10 DEF Fault, Fill, Install, vnode, vm
    <3>2. \A w \in Vnodes : usecount'[w] = usecount[w] + UsesOf(p, w)' - UsesOf(p, w)
      BY <1>0, <3>1
    <3> QED BY <3>1, <3>2, BalanceStep
  <2> QED BY <1>5, <2>1, <2>2, <2>3, <2>4, <2>5, <2>6, <2>7, <2>8, <2>9, <2>10
          DEF ProcCall, ProcStep
<1> QED BY <1>2, <1>3, <1>4, <1>5 DEF Next, MountStep
-----------------------------------------------------------------------------
(* Pages: where those that are resident, or about to be, came from.        *)

\* A vnode that has a pager is not reclaimed, its mount is not freed, and neither
\* are the mount's clean pages.
LEMMA PagedStays ==
  ASSUME MountInv, Next, NEW v \in pager
  PROVE  /\ v \in Vnodes /\ data[v] \in Mounters \X Nodes /\ data'[v] = data[v]
         /\ leaking'[MountOf(v)] = leaking[MountOf(v)]
         /\ \A b, pg : <<MountOf(v), b, pg>> \in clean => <<MountOf(v), b, pg>> \in clean'
<1> USE DEF MountInv
<1>0. TypeOK
  BY DEF UsesBalance
<1>1. /\ v \in Vnodes /\ data[v] # NULL /\ data[v] \in Mounters \X Nodes /\ v \in hashed
      /\ MountOf(v) \in Mounters /\ fs[MountOf(v)] \in {"live", "unmount"}
  BY <1>0 DEF VnodeInv, TypeOK, MountOf
<1>2. usecount[v] # 0
  BY <1>1, InUse
<1>3. data'[v] = data[v]
  <2>1. CASE UNCHANGED data
    BY <2>1
  <2>2. ASSUME NEW t \in Mounters, Flush(t) PROVE data'[v] = data[v]
    BY <1>1, <1>2, <2>2 DEF Flush, ReclaimUnused, Reclaim
  <2>3. ASSUME NEW w \in Vnodes, Recycle(w) PROVE data'[v] = data[v]
    BY <1>1, <1>2, <2>3 DEF Recycle, Reclaim
  <2>4. ASSUME NEW p \in Procs, NEW t \in Mounters, NEW n \in Nodes, OpenMiss(p, t, n)
        PROVE  data'[v] = data[v]
    BY <1>0, <1>1, <2>4 DEF OpenMiss, TypeOK
  <2>5. ASSUME NEW p \in Procs, HashInsert(p) PROVE data'[v] = data[v]
    <3>1. job[p].vnode # v
      BY <1>1, <2>5 DEF HashInsert, JobInv
    <3> QED BY <1>1, <2>5, <3>1 DEF HashInsert, Reclaim
  <2> QED BY <2>1, <2>2, <2>3, <2>4, <2>5 DEF Next, MountStep, ProcCall, ProcStep, Boot,
          TogglePolicy, Registry, Invoke, Mount, BeginUnmount, FreeMount, OpenCached, Close,
          MmapGet, MmapRefused, MmapPager, MmapInsert, Unmap, Fault, Fill, Install, vnode
<1>4. leaking'[MountOf(v)] = leaking[MountOf(v)]
  <2>1. CASE UNCHANGED leaking
    BY <2>1
  <2>2. ASSUME NEW t \in Mounters, Mount(t) \/ FreeMount(t)
        PROVE  leaking'[MountOf(v)] = leaking[MountOf(v)]
    <3>1. MountOf(v) # t
      BY <1>1, <2>2 DEF Mount, FreeMount
    <3> QED BY <1>0, <1>1, <2>2, <3>1 DEF Mount, FreeMount, TypeOK
  <2> QED BY <2>1, <2>2 DEF Next, MountStep, ProcCall, ProcStep, Boot, TogglePolicy,
          Registry, Invoke, BeginUnmount, Flush, Recycle, OpenCached, OpenMiss, HashInsert,
          Close, MmapGet, MmapRefused, MmapPager, MmapInsert, Unmap, Fault, Fill, Install, mounts
<1>5. ASSUME NEW b, NEW pg, <<MountOf(v), b, pg>> \in clean PROVE <<MountOf(v), b, pg>> \in clean'
  <2>1. CASE clean \subseteq clean'
    BY <1>5, <2>1
  <2>2. ASSUME NEW t \in Mounters, FreeMount(t) PROVE <<MountOf(v), b, pg>> \in clean'
    BY <1>1, <1>5, <2>2 DEF FreeMount, CleanOf
  <2> QED BY <2>1, <2>2 DEF Next, MountStep, ProcCall, ProcStep, Boot, TogglePolicy,
          Registry, Invoke, Mount, BeginUnmount, Flush, Recycle, OpenCached, OpenMiss, HashInsert,
          Close, MmapGet, MmapRefused, MmapPager, MmapInsert, Unmap, Fault, Fill, Install, cache
<1> QED BY <1>1, <1>3, <1>4, <1>5

\* A page that is on its way into an object has just been classified, or filled,
\* or was already.
LEMMA Installing ==
  ASSUME TypeOK, Next, NEW p \in Procs, pc'[p] = "install"
  PROVE  (pc[p] = "install" /\ job'[p] = job[p]) \/ Fault(p) \/ Fill(p)
<1>1. CASE UNCHANGED <<pc, job>>
  BY <1>1
<1>2. ASSUME NEW q \in Procs, ProcCall(q) \/ ProcStep(q), q # p
      PROVE  pc[p] = "install" /\ job'[p] = job[p]
  BY <1>2 DEF ProcCall, ProcStep, OpenCached, OpenMiss, Close, MmapGet, MmapRefused, Unmap,
     Fault, HashInsert, MmapPager, MmapInsert, Fill, Install, Done, Goto, TypeOK
<1>3. ASSUME ProcCall(p) \/ ProcStep(p), ~Fault(p), ~Fill(p)
      PROVE  UNCHANGED <<pc, job>>
  BY <1>3 DEF ProcCall, ProcStep, OpenCached, OpenMiss, Close, MmapGet, MmapRefused, Unmap,
     HashInsert, MmapPager, MmapInsert, Install, Done, Goto, TypeOK
<1> QED BY <1>1, <1>2, <1>3 DEF Next, MountStep, Boot, TogglePolicy, Registry, Invoke, Mount,
        BeginUnmount, Flush, FreeMount, Recycle, proc

\* A page that is resident was, or has been installed by the fault that had it.
LEMMA Resident ==
  ASSUME TypeOK, VnodeInv, JobInv, Next, NEW v \in Vnodes, NEW r \in resident'[v]
  PROVE  /\ v \in pager
         /\ r \in resident[v] \/
            \E p \in Procs : /\ pc[p] = "install" /\ job[p].vnode = v
                             /\ r = <<job[p].page, job[p].source>>
<1>1. CASE UNCHANGED resident
  BY <1>1 DEF VnodeInv
<1>2. ASSUME NEW p \in Procs, Install(p)
      PROVE  /\ v \in pager
             /\ \/ r \in resident[v]
                \/ /\ pc[p] = "install" /\ job[p].vnode = v
                   /\ r = <<job[p].page, job[p].source>>
  <2>0. PICK w : w = job[p].vnode
    OBVIOUS
  <2>1. pc[p] = "install" /\ w \in Vnodes /\ w \in pager
    BY <1>2, <2>0 DEF Install, JobInv
  <2>2. resident' = [resident EXCEPT ![w] = @ \cup {<<job[p].page, job[p].source>>}]
    BY <1>2, <2>0 DEF Install
  <2>3. resident'[v] = IF v = w THEN resident[v] \cup {<<job[p].page, job[p].source>>}
                                ELSE resident[v]
    BY <2>2 DEF TypeOK
  <2>4. resident[v] # {} => v \in pager
    BY DEF VnodeInv
  <2> QED BY <2>0, <2>1, <2>3, <2>4
<1>3. ASSUME NEW p \in Procs, NEW w \in Vnodes, DropPager(w, p) PROVE v \in pager /\ r \in resident[v]
  BY <1>3 DEF DropPager, TypeOK, VnodeInv
<1>4. ASSUME NEW p \in Procs, MmapInsert(p) \/ Unmap(p) PROVE v \in pager /\ r \in resident[v]
  <2>1. UNCHANGED resident \/ \E w \in Vnodes : DropPager(w, p)
    BY <1>4 DEF MmapInsert, Unmap, JobInv, TypeOK, vm
  <2> QED BY <1>1, <1>3, <2>1 DEF VnodeInv
<1> QED BY <1>1, <1>2, <1>4 DEF Next, MountStep, ProcCall, ProcStep, Boot, TogglePolicy,
        Registry, Invoke, Mount, BeginUnmount, Flush, FreeMount, Recycle, OpenCached, OpenMiss,
        HashInsert, Close, MmapGet, MmapRefused, MmapPager, Fault, Fill, vm

\* A spilled page stays behind a mount that was made leaking: ff_page asks the
\* mount when the page is faulted, and the mount does not change afterwards.
LEMMA SpillStep ==
  ASSUME MountInv, Next
  PROVE  SpillInv'
<1>0. TypeOK /\ VnodeInv /\ JobInv /\ SpillInv
  BY DEF MountInv, UsesBalance
<1>1. ASSUME NEW v \in Vnodes, NEW r \in resident'[v], r[2] = "spill" PROVE leaking'[MountOf(v)']
  <2>1. v \in pager /\ leaking[MountOf(v)]
    <3>1. v \in pager /\ (r \in resident[v] \/
            \E p \in Procs : /\ pc[p] = "install" /\ job[p].vnode = v
                             /\ r = <<job[p].page, job[p].source>>)
      BY <1>0, Resident
    <3> QED BY <1>0, <1>1, <3>1 DEF SpillInv
  <2> QED BY <2>1, PagedStays DEF MountOf
<1>2. ASSUME NEW p \in Procs, pc'[p] = "install", job'[p].source = "spill"
      PROVE  leaking'[MountOf(job[p].vnode)']
  <2>1. CASE pc[p] = "install" /\ job'[p] = job[p]
    <3>1. job[p].vnode \in pager /\ leaking[MountOf(job[p].vnode)]
      BY <1>0, <1>2, <2>1 DEF SpillInv, JobInv
    <3> QED BY <2>1, <3>1, PagedStays DEF MountOf
  <2>2. CASE Fault(p)
    <3>1. PICK v \in maps[p], pg \in Pages :
            Goto(p, IF Source(v, pg) = "copied" THEN "fill" ELSE "install",
                 [On(v) EXCEPT !.page = pg, !.source = Source(v, pg)])
      BY <2>2 DEF Fault
    <3>2. v \in pager
      BY <1>0 DEF VnodeInv
    <3>3. job'[p] = [On(v) EXCEPT !.page = pg, !.source = Source(v, pg)]
      BY <1>0, <3>1 DEF Goto, TypeOK
    <3>4. job'[p].vnode = v /\ job'[p].source = Source(v, pg)
      BY <3>3 DEF On, Idle
    <3>5. leaking[MountOf(v)]
      BY <1>2, <3>4 DEF Source
    <3> QED BY <3>2, <3>4, <3>5, PagedStays DEF MountOf
  <2>3. CASE Fill(p)
    <3>1. job[p] \in Jobs /\ job'[p] = [job[p] EXCEPT !.source = "clean"]
      BY <1>0, <2>3 DEF Fill, Goto, TypeOK
    <3> QED BY <1>2, <3>1 DEF Jobs
  <2> QED BY <1>0, <1>2, <2>1, <2>2, <2>3, Installing
<1> QED BY <1>1, <1>2 DEF SpillInv

\* While a policy is loaded ff_fault takes no page for one that may spill: such
\* pages are there already, or were found by a fault that began before.
LEMMA VetoStep ==
  ASSUME MountInv, Next, policy
  PROVE  Spilling' \subseteq Spilling
<1>0. TypeOK /\ VnodeInv /\ JobInv
  BY DEF MountInv, UsesBalance
<1> SUFFICES ASSUME NEW v \in Vnodes, NEW pg \in Pages, <<v, pg>> \in Spilling'
             PROVE  <<v, pg>> \in Spilling
  BY DEF Spilling
<1>1. CASE <<pg, "spill">> \in resident'[v]
  BY <1>0, <1>1, Resident DEF Spilling
<1>2. ASSUME NEW p \in Procs, pc'[p] = "install", job'[p].source = "spill",
             <<job'[p].vnode, job'[p].page>> = <<v, pg>>
      PROVE  <<v, pg>> \in Spilling
  <2>1. CASE pc[p] = "install" /\ job'[p] = job[p]
    BY <1>2, <2>1 DEF Spilling
  <2>2. CASE Fault(p)
    <3>1. PICK w \in maps[p], i \in Pages :
            Goto(p, IF Source(w, i) = "copied" THEN "fill" ELSE "install",
                 [On(w) EXCEPT !.page = i, !.source = Source(w, i)])
      BY <2>2 DEF Fault
    <3>2. job'[p].source = Source(w, i)
      BY <1>0, <3>1 DEF Goto, TypeOK, On, Idle
    <3>3. Source(w, i) # "spill"
      BY DEF Source
    <3> QED BY <1>2, <3>2, <3>3
  <2>3. CASE Fill(p)
    <3>1. job[p] \in Jobs /\ job'[p] = [job[p] EXCEPT !.source = "clean"]
      BY <1>0, <2>3 DEF Fill, Goto, TypeOK
    <3> QED BY <1>2, <3>1 DEF Jobs
  <2> QED BY <1>0, <1>2, <2>1, <2>2, <2>3, Installing
<1> QED BY <1>1, <1>2 DEF Spilling
-----------------------------------------------------------------------------
(* The clean pages and their count.                                        *)

\* what fs->clean holds, apart from what is mapped
CacheInv ==
  /\ IsFiniteSet(clean) /\ cleanBytes = Cardinality(clean)
  /\ clean \subseteq {<<c[1], c[2], pg>> : c \in arrays, pg \in Pages}
  /\ arrays \subseteq Mounters \X {Blob[n] : n \in Nodes}
  /\ \A a \in arrays : fs[a[1]] # "none"

\* Freeing a mount takes its arrays and pages from the cache and from clean_bytes;
\* a fault that copies adds one page at most.
LEMMA CacheStep ==
  ASSUME MountInv, Next
  PROVE  CacheInv'
<1> USE DEF CacheInv
<1>0. TypeOK /\ VnodeInv /\ JobInv /\ CacheInv
  BY DEF MountInv, UsesBalance, CleanInv, MappedCleanIsCached
<1>1. ASSUME UNCHANGED cache, \A t \in Mounters : fs[t] # "none" => fs'[t] # "none" PROVE CacheInv'
  BY <1>0, <1>1 DEF cache
<1>2. CASE UNCHANGED cache /\ UNCHANGED fs
  BY <1>1, <1>2
<1>3. ASSUME NEW t \in Mounters, Mount(t) \/ BeginUnmount(t) \/ Flush(t) PROVE CacheInv'
  <2>1. \A u \in Mounters : fs[u] # "none" => fs'[u] # "none"
    BY <1>0, <1>3 DEF Mount, BeginUnmount, Flush, ReclaimUnused, TypeOK
  <2> QED BY <1>1, <1>3, <2>1 DEF Mount, BeginUnmount, Flush
<1>4. ASSUME NEW t \in Mounters, FreeMount(t) PROVE CacheInv'
  <2> DEFINE C == CleanOf(t)
  <2>1. /\ arrays' = {a \in arrays : a[1] # t} /\ clean' = clean \ C
        /\ cleanBytes' = cleanBytes - Cardinality(C)
        /\ fs' = [fs EXCEPT ![t] = "none"]
    BY <1>4 DEF FreeMount
  <2>2. C = {c \in clean : c[1] = t}
    BY DEF CleanOf
  <2> HIDE DEF C
  <2>3. IsFiniteSet(clean') /\ cleanBytes' = Cardinality(clean')
    <3>1. clean \cap C = C
      BY <2>2
    <3>2. IsFiniteSet(clean) /\ cleanBytes = Cardinality(clean)
      BY <1>0
    <3>3. IsFiniteSet(clean \ C)
          /\ Cardinality(clean \ C) = Cardinality(clean) - Cardinality(clean \cap C)
      BY <3>2, FS_Difference
    <3> QED BY <2>1, <3>1, <3>2, <3>3
  <2>4. clean' \subseteq {<<c[1], c[2], pg>> : c \in arrays', pg \in Pages}
    <3> SUFFICES ASSUME NEW x \in clean' PROVE \E c \in arrays', pg \in Pages : x = <<c[1], c[2], pg>>
      OBVIOUS
    <3>1. x \in clean /\ x[1] # t
      BY <2>1, <2>2
    <3>2. PICK c \in arrays, pg \in Pages : x = <<c[1], c[2], pg>>
      BY <1>0, <3>1
    <3>3. c \in arrays'
      BY <2>1, <3>1, <3>2
    <3> QED BY <3>2, <3>3
  <2>5. \A a \in arrays' : a \in arrays /\ a[1] \in Mounters /\ fs'[a[1]] # "none"
    BY <1>0, <2>1 DEF TypeOK
  <2> QED BY <1>0, <2>3, <2>4, <2>5
<1>5. ASSUME NEW p \in Procs, Fill(p) PROVE CacheInv'
  <2> DEFINE v == job[p].vnode
             slot == CleanSlot(v, job[p].page)
  <2>1. v \in Vnodes /\ v \in pager /\ job[p].page \in Pages /\ data[v] # NULL
    BY <1>0, <1>5 DEF Fill, JobInv, VnodeInv
  <2>2. /\ MountOf(v) \in Mounters /\ NodeOf(v) \in Nodes /\ fs[MountOf(v)] # "none"
    BY <1>0, <2>1 DEF TypeOK, MountOf, NodeOf, VnodeInv
  <2>3. /\ slot = <<MountOf(v), Blob[NodeOf(v)], job[p].page>>
        /\ slot[1] = MountOf(v) /\ slot[2] = Blob[NodeOf(v)]
    BY DEF CleanSlot
  <2>4. /\ arrays' = arrays \cup {<<MountOf(v), Blob[NodeOf(v)]>>}
        /\ clean' = clean \cup {slot} /\ UNCHANGED fs
        /\ cleanBytes' = cleanBytes + IF slot \in clean THEN 0 ELSE 1
    BY <1>5, <2>3 DEF Fill, mounts
  <2>5. IsFiniteSet(clean') /\ cleanBytes' = Cardinality(clean')
    <3>1. Cardinality(clean) \in Nat
      BY <1>0, FS_CardinalityType
    <3> QED BY <1>0, <2>4, <3>1, FS_AddElement
  <2> DEFINE new == <<MountOf(v), Blob[NodeOf(v)]>>
  <2>6. new \in arrays' /\ slot = <<new[1], new[2], job[p].page>>
    BY <2>3, <2>4
  <2>7. clean' \subseteq {<<c[1], c[2], pg>> : c \in arrays', pg \in Pages}
    <3> HIDE DEF new, slot
    <3> SUFFICES ASSUME NEW x \in clean' PROVE \E c \in arrays', pg \in Pages : x = <<c[1], c[2], pg>>
      OBVIOUS
    <3>1. CASE x = slot
      BY <2>1, <2>6, <3>1
    <3>2. CASE x \in clean
      <4>1. PICK c \in arrays, pg \in Pages : x = <<c[1], c[2], pg>>
        BY <1>0, <3>2
      <4> QED BY <2>4, <4>1
    <3> QED BY <2>4, <3>1, <3>2
  <2>8. new \in Mounters \X {Blob[n] : n \in Nodes} /\ fs[new[1]] # "none"
    BY <2>2
  <2>9. \A a \in arrays' : fs'[a[1]] # "none"
    BY <1>0, <2>4, <2>8
  <2>10. arrays' \subseteq Mounters \X {Blob[n] : n \in Nodes}
    BY <1>0, <2>4, <2>8
  <2> QED BY <2>5, <2>7, <2>9, <2>10
<1> HIDE DEF CacheInv
<1>6. CASE Boot \/ TogglePolicy \/ \E t \in Threads : Registry(t) \/ Invoke(t)
  BY <1>2, <1>6 DEF Boot, TogglePolicy, Registry, Invoke, mounts
<1>7. CASE \E v \in Vnodes : Recycle(v)
  BY <1>2, <1>7 DEF Recycle, mounts
<1>8. ASSUME NEW p \in Procs, ProcCall(p) \/ ProcStep(p), ~Fill(p) PROVE CacheInv'
  <2>1. UNCHANGED cache /\ UNCHANGED mounts
    BY <1>8 DEF ProcCall, ProcStep, OpenCached, OpenMiss, HashInsert, Close, MmapGet,
       MmapRefused, MmapPager, MmapInsert, Unmap, Fault, Install
  <2> QED BY <1>2, <2>1 DEF mounts
<1> QED BY <1>3, <1>4, <1>5, <1>6, <1>7, <1>8 DEF Next, MountStep

\* A clean page that is mapped, or on its way, is in the cache, until its mount is
\* freed: and then nothing of that mount is mapped.
LEMMA CleanStep ==
  ASSUME MountInv, Next
  PROVE  CleanInv'
<1>0. TypeOK /\ VnodeInv /\ JobInv /\ CleanInv /\ MappedCleanIsCached
  BY DEF MountInv, UsesBalance, CleanInv
<1>1. \A v \in pager : \A pg : CleanSlot(v, pg) \in clean => CleanSlot(v, pg)' \in clean'
  BY PagedStays DEF CleanSlot, MountOf, NodeOf
<1>2. ASSUME NEW v \in Vnodes, NEW r \in resident'[v], r[2] = "clean"
      PROVE  CleanSlot(v, r[1])' \in clean'
  <2>1. v \in pager /\ (r \in resident[v] \/
          \E p \in Procs : /\ pc[p] = "install" /\ job[p].vnode = v
                           /\ r = <<job[p].page, job[p].source>>)
    BY <1>0, Resident
  <2>2. CleanSlot(v, r[1]) \in clean
    BY <1>0, <1>2, <2>1 DEF MappedCleanIsCached
  <2> QED BY <1>1, <2>1, <2>2 DEF CleanSlot, MountOf, NodeOf
<1>3. ASSUME NEW p \in Procs, pc'[p] = "install", job'[p].source = "clean"
      PROVE  CleanSlot(job[p].vnode, job[p].page)' \in clean'
  <2>1. CASE pc[p] = "install" /\ job'[p] = job[p]
    <3>1. job[p].vnode \in pager /\ job[p].vnode \in Vnodes
      BY <1>0, <2>1 DEF JobInv
    <3>2. CleanSlot(job[p].vnode, job[p].page) \in clean
      BY <1>0, <1>3, <2>1, <3>1 DEF MappedCleanIsCached
    <3> QED BY <1>1, <2>1, <3>1, <3>2 DEF CleanSlot, MountOf, NodeOf
  <2>2. CASE Fault(p)
    <3>1. PICK v \in maps[p], pg \in Pages :
            Goto(p, IF Source(v, pg) = "copied" THEN "fill" ELSE "install",
                 [On(v) EXCEPT !.page = pg, !.source = Source(v, pg)])
      BY <2>2 DEF Fault
    <3>2. v \in Vnodes /\ data[v] # NULL
      BY <1>0 DEF VnodeInv, TypeOK
    <3>3. job'[p] = [On(v) EXCEPT !.page = pg, !.source = Source(v, pg)]
      BY <1>0, <3>1 DEF Goto, TypeOK
    <3>4. job'[p].source = Source(v, pg)
      BY <3>3 DEF On, Idle
    <3> QED BY <1>0, <1>3, <3>2, <3>4, SourceType
  <2>3. CASE Fill(p)
    <3>1. job[p] \in Jobs /\ job'[p] = [job[p] EXCEPT !.source = "clean"]
      BY <1>0, <2>3 DEF Fill, Goto, TypeOK
    <3>2. job'[p].vnode = job[p].vnode /\ job'[p].page = job[p].page
      BY <3>1 DEF Jobs
    <3>3. UNCHANGED data /\ CleanSlot(job[p].vnode, job[p].page) \in clean'
      BY <2>3 DEF Fill, vnode
    <3> QED BY <3>2, <3>3 DEF CleanSlot, MountOf, NodeOf
  <2> QED BY <1>0, <1>3, <2>1, <2>2, <2>3, Installing
<1>4. CacheInv'
  BY CacheStep
<1>5. ASSUME NEW c \in clean' PROVE fs'[c[1]] # "none" /\ <<c[1], c[2]>> \in arrays'
  <2>1. PICK a \in arrays', pg \in Pages : c = <<a[1], a[2], pg>>
    BY <1>4 DEF CacheInv
  <2>2. a = <<a[1], a[2]>> /\ fs'[a[1]] # "none"
    BY <1>4 DEF CacheInv
  <2> QED BY <2>1, <2>2
<1>6. MappedCleanIsCached'
  BY <1>2, <1>3, <1>4, <1>5 DEF MappedCleanIsCached, CacheInv
<1> QED BY <1>4, <1>6 DEF CleanInv, CacheInv

-----------------------------------------------------------------------------
(* The theorems.                                                           *)

LEMMA MountInductive == MountInv /\ [Next]_vars => MountInv'
<1> SUFFICES ASSUME MountInv, [Next]_vars PROVE MountInv'
  OBVIOUS
<1>1. CASE Next
  <2>1. TypeOK' /\ ClaimInv'
    BY <1>1, TypeStep, ClaimStep DEF MountInv, UsesBalance
  <2> QED BY <1>1, <2>1, VnodeStep, UsesStep, SpillStep, CleanStep DEF MountInv
<1>2. CASE UNCHANGED vars
  <2>1. ClaimInv' /\ VnodeInv' /\ JobInv'
    BY <1>2 DEF vars, registry, mounts, vnode, vm, proc, MountInv, ClaimInv, RegistryTypeOK, Holds,
       VnodeInv, JobInv, MountOf
  <2>2. UsesBalance' /\ OneVnodePerFile'
    BY <1>2 DEF vars, mounts, vnode, vm, proc, cache, MountInv, UsesBalance, TypeOK, Transient,
       OneVnodePerFile
  <2>3. SpillInv' /\ CleanInv'
    BY <1>2 DEF vars, mounts, vnode, vm, proc, cache, MountInv, SpillInv,
       CleanInv, MappedCleanIsCached, CleanSlot, MountOf, NodeOf
  <2> QED BY <2>1, <2>2, <2>3 DEF MountInv
<1> QED BY <1>1, <1>2

LEMMA MountInvariant == Spec => []MountInv
<1>1. Init => MountInv
  <2> SUFFICES ASSUME Init PROVE MountInv
    OBVIOUS
  <2>1. ClaimInv
    BY DEF Init, Bank!Init, ClaimInv, RegistryTypeOK, Holds, Bank!NoCall, Bank!Results
  <2>2. TypeOK
    <3>1. Idle \in Jobs
      BY DEF Idle, Jobs
    <3> QED BY <3>1 DEF Init, TypeOK, PCs
  <2>3. VnodeInv /\ JobInv /\ OneVnodePerFile /\ SpillInv
    BY DEF Init, VnodeInv, JobInv, OneVnodePerFile, SpillInv
  <2>4. UsesBalance
    <3>1. \A v \in Vnodes : Transient(v) = {} /\ Opens(v) = {} /\ v \notin pager /\ usecount[v] = 0
      BY DEF Init, Transient, Opens
    <3>2. \A v \in Vnodes : Cardinality(Transient(v)) = 0 /\ Cardinality(Opens(v)) = 0
      BY <3>1, FS_EmptySet
    <3> QED BY <2>2, <3>1, <3>2 DEF UsesBalance, Opens
  <2>5. CleanInv
    BY FS_EmptySet DEF Init, CleanInv, MappedCleanIsCached
  <2> QED BY <2>1, <2>3, <2>4, <2>5 DEF MountInv
<1> QED BY <1>1, MountInductive, PTL DEF Spec

\* v_usecount is the number of open files, calls in progress and pager objects of
\* the vnode, whatever the interleaving of lookups, mmaps, faults and closes.
THEOREM UsesStayBalanced == Spec => []UsesBalance
<1>1. MountInv => UsesBalance
  BY DEF MountInv
<1> QED BY <1>1, MountInvariant, PTL

\* Whatever reaches a page of a bank -- a mapping, a fault half way, a pager -- the
\* vnode has its v_data, its mount exists and the bank is claimed.
THEOREM MappedStaysBacked == Spec => []MappedIsBacked
<1>1. MountInv => MappedIsBacked
  <2> SUFFICES ASSUME MountInv, NEW v \in Vnodes, v \in pager \/ PagerUsers(v) # {}
               PROVE  /\ data[v] # NULL
                      /\ fs[MountOf(v)] \in {"live", "unmount"}
                      /\ result[MountOf(v)] = "ok"
                      /\ entry[call[MountOf(v)].label] = "claimed"
    BY DEF MappedIsBacked
  <2> USE DEF MountInv
  <2>1. v \in pager
    BY DEF PagerUsers, VnodeInv, JobInv
  <2>2. data[v] # NULL /\ fs[MountOf(v)] \in {"live", "unmount"}
    BY <2>1 DEF VnodeInv
  <2>3. MountOf(v) \in Mounters
    BY <2>2 DEF UsesBalance, TypeOK, MountOf
  <2>4. Holds(MountOf(v)) /\ MountOf(v) \in Threads
    BY <2>2, <2>3, NodesAssumption DEF ClaimInv
  <2> QED BY <2>2, <2>4 DEF ClaimInv, Holds
<1> QED BY <1>1, MountInvariant, PTL

\* Of two lookups of a file that both miss, vfs_hash_insert lets one vnode win.
THEOREM OneVnodeWins == Spec => []OneVnodePerFile
<1>1. MountInv => OneVnodePerFile
  BY DEF MountInv
<1> QED BY <1>1, MountInvariant, PTL

\* clean_bytes is the number of clean pages allocated, and a clean page that is
\* mapped has not been freed.
THEOREM CleanPagesStay == Spec => []MappedCleanIsCached
<1>1. MountInv => MappedCleanIsCached
  BY DEF MountInv, CleanInv
<1> QED BY <1>1, MountInvariant, PTL

\* Bytes of other files are mapped only through a mount that was made leaking, and
\* while a policy is loaded only by faults that looked before it was.
THEOREM SpillStaysLeaking == Spec => SpillNeedsLeaking
<1> DEFINE A == /\ (\A s \in Spilling : leaking[MountOf(s[1])])'
                /\ policy => Spilling' \subseteq Spilling
<1>1. MountInv /\ [Next]_vars => [A]_vars
  <2> SUFFICES ASSUME MountInv, Next PROVE A
    OBVIOUS
  <2>1. SpillInv'
    BY MountInductive DEF MountInv
  <2>2. (\A s \in Spilling : leaking[MountOf(s[1])])'
    BY <2>1 DEF SpillInv, Spilling
  <2> QED BY <2>2, VetoStep
<1> QED BY <1>1, MountInvariant, PTL DEF Spec, SpillNeedsLeaking
=============================================================================

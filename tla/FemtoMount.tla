----------------------------- MODULE FemtoMount -----------------------------
(***************************************************************************)
(* ko/femtofs.c: the lifetime of a femtoFS mount above the bank registry.  *)
(* Vnodes, open files, device pagers and page faults of several processes  *)
(* run against unmount, vnode recycling, DISCARD, unload and MAC policies  *)
(* that come and go.                                                       *)
(*                                                                         *)
(* The bank layer is BankRegistry, which BankStore implements.  The VFS    *)
(* and VM rules that the code relies on (vfs_hash, vflush, vnode           *)
(* recycling, cdev_pager_allocate) are external: they are modelled from    *)
(* how femtofs.c uses them.                                                *)
(***************************************************************************)
EXTENDS Integers, FiniteSets

CONSTANTS
  Threads,    \* callers of the bank registry
  Mounters,   \* those that mount: each stands for one struct ff_mount
  Labels,     \* bank labels
  Procs,      \* processes that open and map files
  Nodes,      \* file nodes of the image
  Blob,       \* Blob[n]: the stored blob of n; hard-deduplicated nodes share it
  Vnodes,     \* struct vnode addresses getnewvnode can return
  Pages,      \* page indexes of a file
  Kind,       \* Kind[blob][page]: how ff_page classifies it
  MaxOps,     \* bound: MaxOps[t] registry calls by thread t
  NULL

\* "direct": the whole page is the file's; "spill": a leaking mount may alias
\* it although it holds bytes of other files; "copied": it must be copied.
Kinds == {"direct", "spill", "copied"}

ASSUME NodesAssumption ==
  /\ Mounters \subseteq Threads
  /\ \A n \in Nodes, pg \in Pages : Kind[Blob[n]][pg] \in Kinds
ASSUME FreshAssumption ==
  /\ NULL \notin Threads \cup Labels \cup Vnodes \cup Nodes
  /\ NULL \notin Pages /\ NULL \notin Mounters \X Nodes
ASSUME FiniteAssumption == IsFiniteSet(Procs) /\ MaxOps \in [Threads -> Nat]

VARIABLES
  entry, phase, call, result,   \* the bank registry
  fs,        \* fs[t]: "none", "live", "unmount" (MNTK_UNMOUNT), "flushed"
  leaking,   \* leaking[t]: fs->leaking
  policy,    \* a MAC policy hooks vnode checks
  data,      \* data[v]: v_data, <<mount, node>>, or NULL
  hashed,    \* vnodes in the vnode hash
  usecount,  \* usecount[v]: v_usecount
  pager,     \* vnodes whose pager object exists (its handle is their v_data)
  resident,  \* resident[v]: <<page, source>> pairs installed in v's object
  arrays,    \* <<mount, blob>> whose array fs->clean[blob] is allocated
  clean,     \* <<mount, blob, page>> allocated in fs->clean
  cleanBytes,\* the sysctl clean_bytes, in pages
  pc, job,   \* where each process is, and on what
  files,     \* files[p]: vnodes p has open
  maps,      \* maps[p]: vnodes p has mapped
  ops        \* ops[t]: registry calls made so far

registry == <<entry, phase, call, result>>
vnode == <<data, hashed, usecount>>
vm == <<pager, resident>>
cache == <<arrays, clean, cleanBytes>>
proc == <<pc, job, files, maps>>
mounts == <<fs, leaking>>
vars == <<registry, mounts, policy, vnode, vm, cache, proc, ops>>

Bank == INSTANCE BankRegistry

Idle == [vnode |-> NULL, page |-> NULL, source |-> NULL, mount |-> NULL, node |-> NULL]
Jobs == [vnode : Vnodes \cup {NULL}, page : Pages \cup {NULL},
         source : Kinds \cup {"clean", NULL}, mount : Mounters \cup {NULL},
         node : Nodes \cup {NULL}]

MountOf(v) == data[v][1]
NodeOf(v) == data[v][2]
Cached(t, n) == {v \in hashed : data[v] = <<t, n>>}
\* those that keep v's pager object alive: mappings, and faults or an mmap
\* call in progress
PagerUsers(v) ==
  {p \in Procs : v \in maps[p] \/ (pc[p] \in {"map", "fill", "install"} /\ job[p].vnode = v)}

Init ==
  /\ Bank!Init
  /\ fs = [t \in Mounters |-> "none"]
  /\ leaking = [t \in Mounters |-> FALSE]
  /\ policy = FALSE
  /\ data = [v \in Vnodes |-> NULL]
  /\ hashed = {}
  /\ usecount = [v \in Vnodes |-> 0]
  /\ pager = {}
  /\ resident = [v \in Vnodes |-> {}]
  /\ arrays = {} /\ clean = {} /\ cleanBytes = 0
  /\ pc = [p \in Procs |-> "idle"]
  /\ job = [p \in Procs |-> Idle]
  /\ files = [p \in Procs |-> {}]
  /\ maps = [p \in Procs |-> {}]
  /\ ops = [t \in Threads |-> 0]

-----------------------------------------------------------------------------
(* Reference counts and the pager.                                         *)

Ref(v, d) == usecount' = [usecount EXCEPT ![v] = @ + d]
Goto(p, where, j) == pc' = [pc EXCEPT ![p] = where] /\ job' = [job EXCEPT ![p] = j]
Done(p) == Goto(p, "idle", Idle)
On(v) == [Idle EXCEPT !.vnode = v]

\* ff_reclaim: the vnode leaves the hash and its v_data is freed
Reclaim(S) ==
  /\ data' = [v \in Vnodes |-> IF v \in S THEN NULL ELSE data[v]]
  /\ hashed' = hashed \ S

\* ff_pager_dtor runs when the last user of the object lets it go
DropPager(v, p) ==
  IF PagerUsers(v) \subseteq {p}
  THEN /\ pager' = pager \ {v}
       /\ resident' = [resident EXCEPT ![v] = {}]
       /\ Ref(v, -1)
  ELSE UNCHANGED <<pager, resident, usecount>>

-----------------------------------------------------------------------------
(* ff_mount and ff_unmount.                                                *)

\* the registry's own steps (a LIST touches nothing here and is not issued); a
\* claim is given back only by FreeMount
Registry(t) ==
  /\ \/ Bank!Add(t) \/ Bank!Discard(t) \/ Bank!Claim(t) \/ Bank!Unload(t)
     \/ Bank!Return(t)
  /\ UNCHANGED <<mounts, policy, vnode, vm, cache, proc, ops>>

Boot ==
  /\ (\E l \in Labels : Bank!Adopt(l)) \/ Bank!Open
  /\ UNCHANGED <<mounts, policy, vnode, vm, cache, proc, ops>>

Invoke(t) ==
  /\ ops[t] < MaxOps[t]
  /\ ops' = [ops EXCEPT ![t] = @ + 1]
  /\ \E c \in Bank!Calls :
       c.cmd # "LIST" /\ (c.cmd = "CLAIM" <=> t \in Mounters) /\ Bank!Invoke(t, c)
  /\ UNCHANGED <<mounts, policy, vnode, vm, cache, proc>>

\* the rest of ff_mount, once ff_bank_claim has returned the bank
Mount(t) ==
  /\ call[t].cmd = "CLAIM" /\ result[t] = "ok"
  /\ fs[t] = "none"
  /\ fs' = [fs EXCEPT ![t] = "live"]
  /\ \E wanted \in BOOLEAN : leaking' = [leaking EXCEPT ![t] = wanted /\ ~policy]
  /\ UNCHANGED <<registry, policy, vnode, vm, cache, proc, ops>>

\* dounmount has set MNTK_UNMOUNT: no lookup enters the mount from outside.
\* A forced unmount is refused by ff_unmount and never gets this far.
BeginUnmount(t) ==
  /\ fs[t] = "live"
  /\ fs' = [fs EXCEPT ![t] = "unmount"]
  /\ UNCHANGED <<registry, leaking, policy, vnode, vm, cache, proc, ops>>

OfMount(t) == {v \in Vnodes : data[v] # NULL /\ MountOf(v) = t}

CleanOf(t) == {c \in clean : c[1] = t}

\* Fault: every vnode is reclaimed, in use or not, as MNT_FORCE asks.
FlushForced(t) ==
  /\ fs[t] = "unmount"
  /\ Reclaim(OfMount(t))
  /\ fs' = [fs EXCEPT ![t] = "flushed"]
  /\ UNCHANGED <<registry, leaking, policy, usecount, vm, cache, proc, ops>>

\* vflush(mp, 0, 0): reclaims the vnodes nobody uses; EBUSY if that leaves any
ReclaimUnused(t) ==
  LET unused == {v \in OfMount(t) : usecount[v] = 0}
  IN /\ Reclaim(unused)
     /\ fs' = [fs EXCEPT ![t] = IF unused = OfMount(t) THEN "flushed" ELSE "live"]

\* Fault: the clean pages are freed before vflush has found the mount idle.
FlushFreesFirst(t) ==
  /\ fs[t] = "unmount"
  /\ ReclaimUnused(t)
  /\ clean' = clean \ CleanOf(t)
  /\ cleanBytes' = cleanBytes - Cardinality(CleanOf(t))
  /\ UNCHANGED <<registry, leaking, policy, usecount, vm, arrays, proc, ops>>

\* the vflush of ff_unmount; its error is the error of the unmount
Flush(t) ==
  /\ fs[t] = "unmount"
  /\ ReclaimUnused(t)
  /\ UNCHANGED <<registry, leaking, policy, usecount, vm, cache, proc, ops>>

\* ff_free: the clean pages, then the claim, then the mount itself
FreeMount(t) ==
  /\ fs[t] = "flushed"
  /\ Bank!Release(t)
  /\ arrays' = {a \in arrays : a[1] # t}
  /\ clean' = clean \ CleanOf(t)
  /\ cleanBytes' = cleanBytes - Cardinality(CleanOf(t))
  /\ fs' = [fs EXCEPT ![t] = "none"]
  /\ leaking' = [leaking EXCEPT ![t] = FALSE]
  /\ UNCHANGED <<policy, vnode, vm, proc, ops>>

\* a MAC policy is loaded or unloaded
TogglePolicy ==
  /\ policy' = ~policy
  /\ UNCHANGED <<registry, mounts, vnode, vm, cache, proc, ops>>

-----------------------------------------------------------------------------
(* ff_vget, open and close.                                                *)

\* A lookup runs inside the mount: from outside while it is not being
\* unmounted, or from a file of the mount that p holds.
MayLookup(p, t) ==
  \/ fs[t] = "live"
  \/ fs[t] = "unmount" /\ \E v \in files[p] : MountOf(v) = t

\* vfs_hash_get finds the vnode: one more use, for the file that p opens
OpenCached(p, t, n) ==
  /\ pc[p] = "idle"
  /\ MayLookup(p, t)
  /\ \E v \in Cached(t, n) \ files[p] :
       /\ Ref(v, 1)
       /\ files' = [files EXCEPT ![p] = @ \cup {v}]
  /\ UNCHANGED <<registry, mounts, policy, data, hashed, vm, cache, pc, job, maps, ops>>

\* it does not: getnewvnode, v_data and insmntque
OpenMiss(p, t, n) ==
  /\ pc[p] = "idle"
  /\ MayLookup(p, t)
  /\ Cached(t, n) = {}
  /\ \E v \in Vnodes :
       /\ data[v] = NULL
       /\ usecount[v] = 0
       /\ data' = [data EXCEPT ![v] = <<t, n>>]
       /\ Ref(v, 1)
       /\ Goto(p, "insert", On(v))
  /\ UNCHANGED <<registry, mounts, policy, hashed, vm, cache, files, maps, ops>>

\* Fault: the new vnode goes into the hash without looking again.
HashInsertBlind(p) ==
  LET v == job[p].vnode IN
  /\ pc[p] = "insert"
  /\ hashed' = hashed \cup {v}
  /\ files' = [files EXCEPT ![p] = @ \cup {v}]
  /\ Done(p)
  /\ UNCHANGED <<registry, mounts, policy, data, usecount, vm, cache, maps, ops>>

\* vfs_hash_insert: the first of two competing lookups wins; the other one's
\* vnode is put and reclaimed, and it uses the winner's
HashInsert(p) ==
  LET v == job[p].vnode
      t == MountOf(v)
      n == NodeOf(v)
  IN
  /\ pc[p] = "insert"
  /\ IF Cached(t, n) = {}
     THEN /\ hashed' = hashed \cup {v}
          /\ files' = [files EXCEPT ![p] = @ \cup {v}]
          /\ UNCHANGED <<data, usecount>>
     ELSE \E w \in Cached(t, n) :
          /\ Reclaim({v})
          /\ usecount' = [usecount EXCEPT ![v] = @ - 1, ![w] = @ + 1]
          /\ files' = [files EXCEPT ![p] = @ \cup {w}]
  /\ Done(p)
  /\ UNCHANGED <<registry, mounts, policy, vm, cache, maps, ops>>

Close(p) ==
  /\ pc[p] = "idle"
  /\ \E v \in files[p] :
       /\ files' = [files EXCEPT ![p] = @ \ {v}]
       /\ Ref(v, -1)
  /\ UNCHANGED <<registry, mounts, policy, data, hashed, vm, cache, pc, job, maps, ops>>

\* the kernel recycles a cached vnode nobody uses
Recycle(v) ==
  /\ v \in hashed
  /\ usecount[v] = 0
  /\ Reclaim({v})
  /\ UNCHANGED <<registry, mounts, policy, usecount, vm, cache, proc, ops>>

-----------------------------------------------------------------------------
(* ff_mmap, ff_fault and munmap.                                           *)

\* vget: one use of the vnode for the length of the call
MmapGet(p) ==
  /\ pc[p] = "idle"
  /\ \E v \in files[p] \ maps[p] :
       /\ Ref(v, 1)
       /\ Goto(p, "mmap", On(v))
  /\ UNCHANGED <<registry, mounts, policy, data, hashed, vm, cache, files, maps, ops>>

\* Fault: the refused call keeps its use of the vnode.
MmapRefusedKept(p) ==
  /\ pc[p] = "mmap"
  /\ Done(p)
  /\ UNCHANGED <<registry, mounts, policy, vnode, vm, cache, files, maps, ops>>

\* protections and the MAC check: the call may fail with EACCES
MmapRefused(p) ==
  /\ pc[p] = "mmap"
  /\ Ref(job[p].vnode, -1)
  /\ Done(p)
  /\ UNCHANGED <<registry, mounts, policy, data, hashed, vm, cache, files, maps, ops>>

\* cdev_pager_allocate, which calls ff_pager_ctor (vref) for a new object
\* only, then vput
MmapPager(p) ==
  LET v == job[p].vnode IN
  /\ pc[p] = "mmap"
  /\ pager' = pager \cup {v}
  /\ Ref(v, IF v \in pager THEN -1 ELSE 0)
  /\ Goto(p, "map", On(v))
  /\ UNCHANGED <<registry, mounts, policy, data, hashed, resident, cache, files, maps, ops>>

\* vm_mmap_object enters the mapping, or fails and the object is let go
MmapInsert(p) ==
  LET v == job[p].vnode IN
  /\ pc[p] = "map"
  /\ Done(p)
  /\ \/ maps' = [maps EXCEPT ![p] = @ \cup {v}] /\ UNCHANGED <<vm, usecount>>
     \/ DropPager(v, p) /\ UNCHANGED maps
  /\ UNCHANGED <<registry, mounts, policy, data, hashed, cache, files, ops>>

Unmap(p) ==
  /\ pc[p] = "idle"
  /\ \E v \in maps[p] :
       /\ maps' = [maps EXCEPT ![p] = @ \ {v}]
       /\ DropPager(v, p)
  /\ UNCHANGED <<registry, mounts, policy, data, hashed, cache, pc, job, files, ops>>

\* Fault: any mount may spill while no policy is loaded.
SourceForAll(v, pg) ==
  LET k == Kind[Blob[NodeOf(v)]][pg]
  IN IF k = "spill" /\ policy THEN "copied" ELSE k

\* Fault: what was decided at the mount holds for every fault.
SourceAsMounted(v, pg) ==
  LET k == Kind[Blob[NodeOf(v)]][pg]
  IN IF k = "spill" /\ ~leaking[MountOf(v)] THEN "copied" ELSE k

\* ff_page: alias the bank's page, or copy the file's bytes to a clean one
Source(v, pg) ==
  LET k == Kind[Blob[NodeOf(v)]][pg]
  IN IF k = "spill" /\ ~(leaking[MountOf(v)] /\ ~policy) THEN "copied" ELSE k

\* ff_fault up to VM_OBJECT_WUNLOCK; the page's placeholder stays busy, so
\* no other fault on the same page of the object runs meanwhile
Fault(p) ==
  /\ pc[p] = "idle"
  /\ \E v \in maps[p], pg \in Pages :
       /\ \A r \in resident[v] : r[1] # pg
       /\ \A q \in Procs : pc[q] \in {"fill", "install"} =>
            ~(job[q].vnode = v /\ job[q].page = pg)
       /\ LET s == Source(v, pg)
          IN Goto(p, IF s = "copied" THEN "fill" ELSE "install",
                  [On(v) EXCEPT !.page = pg, !.source = s])
  /\ UNCHANGED <<registry, mounts, policy, vnode, vm, cache, files, maps, ops>>

CleanSlot(v, pg) == <<MountOf(v), Blob[NodeOf(v)], pg>>

\* under cache_lock: the array of the blob and the page, each made once
Fill(p) ==
  LET v == job[p].vnode
      slot == CleanSlot(v, job[p].page)
  IN
  /\ pc[p] = "fill"
  /\ arrays' = arrays \cup {<<slot[1], slot[2]>>}
  /\ clean' = clean \cup {slot}
  /\ cleanBytes' = cleanBytes + IF slot \in clean THEN 0 ELSE 1
  /\ Goto(p, "install", [job[p] EXCEPT !.source = "clean"])
  /\ UNCHANGED <<registry, mounts, policy, vnode, vm, files, maps, ops>>

\* vm_page_replace under the object lock
Install(p) ==
  LET v == job[p].vnode IN
  /\ pc[p] = "install"
  /\ resident' = [resident EXCEPT ![v] = @ \cup {<<job[p].page, job[p].source>>}]
  /\ Done(p)
  /\ UNCHANGED <<registry, mounts, policy, vnode, pager, cache, files, maps, ops>>

-----------------------------------------------------------------------------
MountStep(t) == Mount(t) \/ Flush(t) \/ FreeMount(t)
ProcStep(p) == HashInsert(p) \/ MmapPager(p) \/ MmapInsert(p) \/ Fill(p) \/ Install(p)
ProcCall(p) ==
  \/ \E t \in Mounters, n \in Nodes : OpenCached(p, t, n) \/ OpenMiss(p, t, n)
  \/ Close(p) \/ MmapGet(p) \/ MmapRefused(p) \/ Unmap(p) \/ Fault(p)

Next ==
  \/ Boot \/ TogglePolicy
  \/ \E t \in Threads : Registry(t) \/ Invoke(t)
  \/ \E t \in Mounters : BeginUnmount(t) \/ MountStep(t)
  \/ \E p \in Procs : ProcCall(p) \/ ProcStep(p)
  \/ \E v \in Vnodes : Recycle(v)

Spec == Init /\ [][Next]_vars

-----------------------------------------------------------------------------
(* Properties.                                                             *)

PCs == {"idle", "insert", "mmap", "map", "fill", "install"}
Sources == {"direct", "spill", "clean"}

\* Type invariant of the variables above.
TypeOK ==
  /\ fs \in [Mounters -> {"none", "live", "unmount", "flushed"}]
  /\ leaking \in [Mounters -> BOOLEAN]
  /\ policy \in BOOLEAN
  /\ data \in [Vnodes -> {NULL} \cup (Mounters \X Nodes)]
  /\ hashed \subseteq Vnodes /\ pager \subseteq Vnodes
  /\ usecount \in [Vnodes -> Nat]
  /\ resident \in [Vnodes -> SUBSET (Pages \X Sources)]
  /\ cleanBytes \in Nat
  /\ pc \in [Procs -> PCs]
  /\ job \in [Procs -> Jobs]
  /\ files \in [Procs -> SUBSET Vnodes]
  /\ maps \in [Procs -> SUBSET Vnodes]
  /\ ops \in [Threads -> Nat]

Transient(v) == {p \in Procs : pc[p] \in {"insert", "mmap"} /\ job[p].vnode = v}

\* Every use of a vnode is one open file, one call in progress or its pager:
\* no path, the refused and the failed ones included, leaks or drops a use,
\* so an unmount is busy exactly as long as something uses the mount.
UsesBalance ==
  /\ TypeOK
  /\ \A v \in Vnodes :
    usecount[v] = Cardinality({p \in Procs : v \in files[p]}) + Cardinality(Transient(v))
                    + IF v \in pager THEN 1 ELSE 0

\* As long as anything can reach a page of the bank -- a mapping, a fault
\* half way, a pager -- the vnode behind it has its v_data, its mount exists
\* and the bank is claimed, so that DISCARD cannot free the page.
MappedIsBacked ==
  \A v \in Vnodes : v \in pager \/ PagerUsers(v) # {} =>
    /\ data[v] # NULL
    /\ fs[MountOf(v)] \in {"live", "unmount"}
    /\ result[MountOf(v)] = "ok"
    /\ entry[call[MountOf(v)].label] = "claimed"

\* Of two racing lookups of a file one vnode remains.
OneVnodePerFile ==
  \A v, w \in hashed : data[v] = data[w] => v = w

\* clean_bytes is the number of pages allocated, each made once and for a mount
\* that exists; and a clean page that is mapped, or about to be, is one of them,
\* so that it has not been freed.
MappedCleanIsCached ==
  /\ cleanBytes = Cardinality(clean)
  /\ \A c \in clean : fs[c[1]] # "none" /\ <<c[1], c[2]>> \in arrays
  /\ \A v \in Vnodes :
    /\ \A r \in resident[v] : r[2] = "clean" => CleanSlot(v, r[1]) \in clean
    /\ \A p \in Procs : pc[p] = "install" /\ job[p].vnode = v /\ job[p].source = "clean" =>
         CleanSlot(v, job[p].page) \in clean

\* pages that show bytes of other files, or will when a fault in progress ends
Spilling ==
  {s \in Vnodes \X Pages :
     \/ <<s[2], "spill">> \in resident[s[1]]
     \/ \E p \in Procs : /\ pc[p] = "install" /\ job[p].source = "spill"
                        /\ <<job[p].vnode, job[p].page>> = s}

\* Bytes of other files are aliased only through a mount that was made
\* leaking while no policy could veto it, whatever happened to it since; and
\* while a policy is loaded no further page of them is, except by a fault that
\* looked before the policy came.
SpillNeedsLeaking ==
  [][/\ (\A s \in Spilling : leaking[MountOf(s[1])])'
     /\ policy => Spilling' \subseteq Spilling]_vars
=============================================================================

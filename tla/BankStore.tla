----------------------------- MODULE BankStore -----------------------------
(***************************************************************************)
(* ko/bank.c: the resident banks of the femtoFS kernel module, the control *)
(* device's ADD, LIST and DISCARD ioctls, the claims that mounts take on   *)
(* banks, and module unload, run by concurrent kernel threads.             *)
(*                                                                         *)
(* bank_lock is explicit: a thread at a lock point first acquires it, then *)
(* runs the critical section and drops it, so what another thread may do   *)
(* between two critical sections of one call is what TLC explores.  The    *)
(* kernel linker (linker_kldload_busy), the VFS configuration lock and     *)
(* destroy_dev are external: they are modelled from how bank.c relies on   *)
(* them.                                                                   *)
(***************************************************************************)
EXTENDS Integers, FiniteSets, SequencesExt

CONSTANTS
  Threads,    \* kernel threads that issue calls
  Labels,     \* the valid bank labels in use
  Banks,      \* addresses malloc can return for a struct ff_bank
  Images,     \* image contents, [size, meta]: bytes, decoded node/blob bytes
  HostPage,   \* PAGE_SIZE, in the unit of sizes
  Padding,    \* bytes a preload's extent may have past its image's last page
  MaxBoot,    \* bound: loader banks adopted at module load
  MaxCalls,   \* bound: MaxCalls[t] calls by thread t
  NULL

ASSUME ImagesAssumption ==
  /\ Images \subseteq [size : Nat \ {0}, meta : Nat]
  /\ HostPage \in Nat \ {0}
  /\ Padding \subseteq Nat
ASSUME NullAssumption ==
  NULL \notin Threads \cup Labels \cup Banks \cup Images
ASSUME BoundsAssumption == MaxBoot \in Nat /\ MaxCalls \in [Threads -> Nat]
ASSUME ThreadsAssumption == IsFiniteSet(Threads)

VARIABLES
  list,       \* the linked list `banks', newest first
  bank,       \* the struct ff_bank at each address
  structs,    \* addresses malloc'd and not freed
  backing,    \* banks whose image bytes are allocated (kmem or preload)
  decoded,    \* banks whose nodes and blobs ff_validate allocated
  counters,   \* the byte counters exported through sysctl
  generation, \* bumped by every change LIST can show
  active,     \* control operations in progress
  stopping,   \* ff_banks_uninit has begun
  phase,      \* "boot", "live", "draining" (destroy_dev), "gone"
  lock,       \* holder of bank_lock
  linker,     \* holder of the kernel linker's busy state
  pc,         \* where each thread is in its call
  call,       \* the call it is in
  own,        \* the bank it is building, or holds the claim of
  result,     \* what the call will return, once decided
  calls       \* calls it has made so far

heap == <<structs, backing, decoded>>
store == <<list, bank, structs, backing, decoded, counters, generation>>
module == <<active, stopping, phase>>
vars == <<list, bank, structs, backing, decoded, counters, generation, active,
          stopping, phase, lock, linker, pc, call, own, result, calls>>

NoCall == [cmd |-> "none", label |-> NULL]
LabelCalls == [cmd : {"ADD", "DISCARD", "CLAIM"}, label : Labels]
PlainCalls == [cmd : {"LIST", "UNLOAD"}, label : {NULL}]

Blank == [label |-> NULL, preload |-> FALSE, claimed |-> FALSE,
          size |-> 0, extent |-> 0, bytes |-> NULL]

\* pc values at which a thread waits for bank_lock or is inside it
LockPoints == {"enter", "publish", "unlink", "leave", "claim", "release", "uninit"}
PCs == LockPoints \cup {"idle", "source", "header", "read", "fail", "kldwait",
         "unregister", "destroy", "drain", "unbusy", "mounted", "return"}

Listed == Range(list)
WithLabel(l) == {b \in Listed : bank[b].label = l}
RoundPage(n) == ((n + HostPage - 1) \div HostPage) * HostPage

\* threads inside bank_ioctl, and mounts that hold a vfsconf reference
InIoctl == {t \in Threads : call[t].cmd \in {"ADD", "LIST", "DISCARD"}}
Mounting == {t \in Threads : call[t].cmd = "CLAIM"}
\* vfs_unregister runs the module's uninit under the vfsconf lock
Unregistering == \E t \in Threads : pc[t] \in {"uninit", "destroy", "drain"}

Init ==
  /\ list = <<>>
  /\ bank = [b \in Banks |-> Blank]
  /\ structs = {} /\ backing = {} /\ decoded = {}
  /\ counters = [loader |-> 0, imported |-> 0, loader_image |-> 0,
                 imported_image |-> 0, metadata |-> 0, released |-> 0]
  /\ generation = 0
  /\ active = 0
  /\ stopping = FALSE
  /\ phase = "boot"
  /\ lock = NULL
  /\ linker = NULL
  /\ pc = [t \in Threads |-> "idle"]
  /\ call = [t \in Threads |-> NoCall]
  /\ own = [t \in Threads |-> NULL]
  /\ result = [t \in Threads |-> "none"]
  /\ calls = [t \in Threads |-> 0]

-----------------------------------------------------------------------------
(* Thread control.                                                         *)

Goto(t, p) == pc' = [pc EXCEPT ![t] = p]
Decide(t, r) == result' = [result EXCEPT ![t] = r]
Holds(t, p) == pc[t] = p /\ lock = t
Unlock == lock' = NULL

\* sx_xlock(&bank_lock)
Acquire(t) ==
  /\ pc[t] \in LockPoints
  /\ lock = NULL
  /\ lock' = t
  /\ UNCHANGED <<store, module, linker, pc, call, own, result, calls>>

\* The call is issued; arguments that fail the checks made before the lock is
\* taken (privilege, version, label syntax) change nothing and are not issued.
Issue(t, c, p) ==
  /\ pc[t] = "idle"
  /\ call' = [call EXCEPT ![t] = c]
  /\ Goto(t, p)
  /\ UNCHANGED <<store, module, lock, linker, own, result>>

Begin(t, c, p) ==
  /\ calls[t] < MaxCalls[t]
  /\ calls' = [calls EXCEPT ![t] = @ + 1]
  /\ Issue(t, c, p)

BeginIoctl(t) ==
  /\ phase = "live"
  /\ \/ \E cmd \in {"ADD", "DISCARD"}, l \in Labels :
          Begin(t, [cmd |-> cmd, label |-> l], "enter")
     \/ Begin(t, [cmd |-> "LIST", label |-> NULL], "enter")

\* vfs_domount: the module cannot be unregistered once the mount holds a
\* vfsconf reference, and the mount waits while it is being unregistered.
BeginMount(t) ==
  /\ phase = "live"
  /\ ~Unregistering
  /\ \E l \in Labels : Begin(t, [cmd |-> "CLAIM", label |-> l], "claim")

BeginUnload(t) ==
  /\ phase # "boot"
  /\ Begin(t, [cmd |-> "UNLOAD", label |-> NULL], "kldwait")

Return(t) ==
  /\ pc[t] = "return"
  /\ Goto(t, "idle")
  /\ call' = [call EXCEPT ![t] = NoCall]
  /\ Decide(t, "none")
  /\ UNCHANGED <<store, module, lock, linker, own, calls>>

-----------------------------------------------------------------------------
(* The bank list.                                                          *)

Meta(b) == bank[b].bytes.meta

\* Fault: what ADD counts in whole pages, DISCARD takes back in image bytes.
AccountMixed(b, sign) ==
  [counters EXCEPT !.imported = @ + IF sign = 1 THEN bank[b].extent ELSE -bank[b].size]

\* the counters after adding (sign = 1) or removing (sign = -1) bank b
Account(b, sign) ==
  LET k == IF bank[b].preload THEN "loader" ELSE "imported"
      i == IF bank[b].preload THEN "loader_image" ELSE "imported_image"
  IN [counters EXCEPT ![k] = @ + sign * bank[b].extent,
                      ![i] = @ + sign * bank[b].size,
                      !.metadata = @ + sign * Meta(b)]

\* the successful branch of publish(b)
Publish(b) ==
  /\ list' = <<b>> \o list
  /\ generation' = generation + 1
  /\ counters' = Account(b, 1)

\* Fault: a claim or a release is not visible as a new generation.
SetClaimSilently(b, v) ==
  /\ bank' = [bank EXCEPT ![b].claimed = v]
  /\ UNCHANGED <<list, heap, counters, generation>>

SetClaim(b, v) ==
  /\ bank' = [bank EXCEPT ![b].claimed = v]
  /\ generation' = generation + 1
  /\ UNCHANGED <<list, heap, counters>>

\* ff_banks_init adopts one loader bank whose preload passed adopt's checks and
\* may be pad bytes longer than the pages of its image; a label already
\* registered is refused (EEXIST) and changes nothing.
Adopt(b, l, im, pad) ==
  /\ phase = "boot"
  /\ Len(list) < MaxBoot
  /\ b \notin structs
  /\ WithLabel(l) = {}
  /\ bank' = [bank EXCEPT ![b] =
       [label |-> l, preload |-> TRUE, claimed |-> FALSE, size |-> im.size,
        extent |-> RoundPage(im.size) + pad, bytes |-> im]]
  /\ structs' = structs \cup {b}
  /\ backing' = backing \cup {b}
  /\ decoded' = decoded \cup {b}
  /\ list' = <<b>> \o list
  /\ generation' = generation + 1
  /\ counters' = [counters EXCEPT !.loader = @ + (RoundPage(im.size) + pad),
                                  !.loader_image = @ + im.size,
                                  !.metadata = @ + im.meta]
  /\ UNCHANGED <<module, lock, linker, pc, call, own, result, calls>>

\* make_dev: the control device exists and the filesystem is registered
OpenControl ==
  /\ phase = "boot"
  /\ phase' = "live"
  /\ UNCHANGED <<store, active, stopping, lock, linker, pc, call, own, result, calls>>

-----------------------------------------------------------------------------
(* bank_ioctl: entry and exit.                                             *)

\* Fault: the ENXIO path leaves through the exit that decrements `active'.
EnterStoppingCounted(t) ==
  /\ Holds(t, "enter")
  /\ stopping
  /\ Unlock
  /\ Decide(t, "ENXIO")
  /\ Goto(t, "leave")
  /\ UNCHANGED <<store, module, linker, call, own, calls>>

EnterStopping(t) ==
  /\ Holds(t, "enter")
  /\ stopping
  /\ Unlock
  /\ Decide(t, "ENXIO")
  /\ Goto(t, "return")
  /\ UNCHANGED <<store, module, linker, call, own, calls>>

\* active++ and the first part of the operation, under one hold of the lock
Enter(t, cmd, p) ==
  /\ Holds(t, "enter")
  /\ call[t].cmd = cmd
  /\ ~stopping
  /\ active' = active + 1
  /\ Unlock
  /\ Goto(t, p)
  /\ UNCHANGED <<store, stopping, phase, linker, call, own, calls>>

EnterAdd(t) ==
  IF WithLabel(call[t].label) # {}
  THEN Enter(t, "ADD", "leave") /\ Decide(t, "EEXIST")
  ELSE Enter(t, "ADD", "source") /\ UNCHANGED result

\* Fault: bank_lock is kept while waiting for the linker.
EnterDiscardLocked(t) ==
  /\ Holds(t, "enter")
  /\ call[t].cmd = "DISCARD"
  /\ ~stopping
  /\ active' = active + 1
  /\ Goto(t, "kldwait")
  /\ UNCHANGED <<store, stopping, phase, lock, linker, call, own, result, calls>>

\* the lock is dropped before waiting for the linker
EnterDiscard(t) == Enter(t, "DISCARD", "kldwait") /\ UNCHANGED result

ListResult(index, gen) ==
  IF index # 0 /\ gen # generation THEN "EAGAIN"
  ELSE IF index >= Len(list) THEN "ENOENT" ELSE "ok"

ListRow(t, index, gen) ==
  Enter(t, "LIST", "leave") /\ Decide(t, ListResult(index, gen))

\* active-- under the lock, then return through devfs
Leave(t) ==
  /\ Holds(t, "leave")
  /\ active' = active - 1
  /\ Unlock
  /\ Goto(t, "return")
  /\ UNCHANGED <<store, stopping, phase, linker, call, own, result, calls>>

-----------------------------------------------------------------------------
(* import: runs without bank_lock; the source may change between reads.    *)

\* The descriptor and the file behind it are checked, then the bank is made.
OpenSource(t) ==
  /\ pc[t] = "source"
  /\ \/ /\ Decide(t, "EINVAL")
        /\ Goto(t, "leave")
        /\ UNCHANGED <<bank, structs, own>>
     \/ \E b \in Banks \ structs :
          /\ structs' = structs \cup {b}
          /\ bank' = [bank EXCEPT ![b] = [Blank EXCEPT !.label = call[t].label]]
          /\ own' = [own EXCEPT ![t] = b]
          /\ Goto(t, "header")
          /\ UNCHANGED result
  /\ UNCHANGED <<list, backing, decoded, counters, generation, module, lock,
                 linker, call, calls>>

\* The first page gives the size; the buffer for the whole image follows.
ReadHeader(t) ==
  /\ pc[t] = "header"
  /\ \/ /\ Decide(t, "EINVAL")
        /\ Goto(t, "fail")
        /\ UNCHANGED <<bank, backing>>
     \/ \E im \in Images :
          /\ bank' = [bank EXCEPT ![own[t]].size = im.size,
                                  ![own[t]].extent = RoundPage(im.size)]
          /\ backing' = backing \cup {own[t]}
          /\ Goto(t, "read")
          /\ UNCHANGED result
  /\ UNCHANGED <<list, structs, decoded, counters, generation, module, lock,
                 linker, call, own, calls>>

\* Fault: the header of the second read is trusted to match the first.
ValidatesAny(b, im) == im # NULL

\* ff_validate re-reads the header of what the buffer now holds: im is the
\* image it describes, NULL if it describes none.
Validates(b, im) == im # NULL /\ im.size = bank[b].size

ReadImage(t) ==
  LET b == own[t] IN
  /\ pc[t] = "read"
  /\ \E im \in Images \cup {NULL} :
       IF Validates(b, im)
       THEN /\ bank' = [bank EXCEPT ![b].bytes = im]
            /\ decoded' = decoded \cup {b}
            /\ Goto(t, "publish")
            /\ UNCHANGED result
       ELSE /\ \E d \in {{}, {b}} : decoded' = decoded \cup d
            /\ Decide(t, "EINVAL")
            /\ Goto(t, "fail")
            /\ UNCHANGED bank
  /\ UNCHANGED <<list, structs, backing, counters, generation, module, lock,
                 linker, call, own, calls>>

\* Fault: publish trusts the find_bank of the ioctl's entry.
PublishBankUnchecked(t) ==
  /\ Holds(t, "publish")
  /\ Unlock
  /\ Publish(own[t])
  /\ own' = [own EXCEPT ![t] = NULL]
  /\ Decide(t, "ok")
  /\ Goto(t, "leave")
  /\ UNCHANGED <<bank, heap, module, linker, call, calls>>

\* A competing ADD of the label may have published since find_bank looked.
PublishBank(t) ==
  /\ Holds(t, "publish")
  /\ Unlock
  /\ IF WithLabel(call[t].label) # {}
     THEN /\ Decide(t, "EEXIST")
          /\ Goto(t, "fail")
          /\ UNCHANGED <<store, own>>
     ELSE /\ Publish(own[t])
          /\ own' = [own EXCEPT ![t] = NULL]
          /\ Decide(t, "ok")
          /\ Goto(t, "leave")
          /\ UNCHANGED <<bank, heap>>
  /\ UNCHANGED <<module, linker, call, calls>>

\* Fault: the image buffer is not freed with its bank.
FreeBankKeepsBytes(b) ==
  /\ structs' = structs \ {b}
  /\ decoded' = decoded \ {b}
  /\ bank' = [bank EXCEPT ![b] = Blank]
  /\ UNCHANGED backing

\* ff_destroy, kmem_free and free of everything import allocated for bank b
FreeBank(b) ==
  /\ structs' = structs \ {b}
  /\ backing' = backing \ {b}
  /\ decoded' = decoded \ {b}
  /\ bank' = [bank EXCEPT ![b] = Blank]

FailImport(t) ==
  /\ pc[t] = "fail"
  /\ FreeBank(own[t])
  /\ own' = [own EXCEPT ![t] = NULL]
  /\ Goto(t, "leave")
  /\ UNCHANGED <<list, counters, generation, module, lock, linker, call,
                 result, calls>>

-----------------------------------------------------------------------------
(* DISCARD, with the linker held so that preload records can be deleted.   *)

TakeLinker(t) ==
  /\ pc[t] = "kldwait"
  /\ linker = NULL
  /\ linker' = t
  /\ Goto(t, IF call[t].cmd = "UNLOAD" THEN "unregister" ELSE "unlink")
  /\ UNCHANGED <<store, module, lock, call, own, result, calls>>

\* Fault: the interrupted wait returns without undoing active++.
InterruptWaitUncounted(t) ==
  /\ pc[t] = "kldwait"
  /\ call[t].cmd = "DISCARD"
  /\ Decide(t, "EINTR")
  /\ Goto(t, "return")
  /\ UNCHANGED <<store, module, lock, linker, call, own, calls>>

\* LINKER_UB_PCATCH: a signal ends the wait of a DISCARD
InterruptWait(t) ==
  /\ pc[t] = "kldwait"
  /\ call[t].cmd = "DISCARD"
  /\ Decide(t, "EINTR")
  /\ Goto(t, "leave")
  /\ UNCHANGED <<store, module, lock, linker, call, own, calls>>

RemoveBank(b) ==
  /\ list' = RemoveAt(list, CHOOSE i \in DOMAIN list : list[i] = b)
  /\ generation' = generation + 1
  /\ counters' = [Account(b, -1) EXCEPT !.released =
       @ + IF bank[b].preload THEN bank[b].extent \div HostPage ELSE 0]
  /\ FreeBank(b)

Refuse(t, r) == Decide(t, r) /\ UNCHANGED store

\* Fault: DISCARD does not look at the claim.
UnlinkClaimed(t) ==
  LET found == WithLabel(call[t].label) IN
  /\ Holds(t, "unlink")
  /\ Unlock
  /\ Goto(t, "unbusy")
  /\ \/ found = {} /\ Refuse(t, "ENOENT")
     \/ \E b \in found : RemoveBank(b) /\ Decide(t, "ok")
  /\ UNCHANGED <<module, linker, call, own, calls>>

Unlink(t) ==
  LET found == WithLabel(call[t].label) IN
  /\ Holds(t, "unlink")
  /\ Unlock
  /\ Goto(t, "unbusy")
  /\ \/ found = {} /\ Refuse(t, "ENOENT")
     \/ \E b \in found :
          IF bank[b].claimed THEN Refuse(t, "EBUSY")
          ELSE RemoveBank(b) /\ Decide(t, "ok")
  /\ UNCHANGED <<module, linker, call, own, calls>>

Unbusy(t) ==
  /\ pc[t] = "unbusy"
  /\ linker' = NULL
  /\ Goto(t, IF call[t].cmd = "UNLOAD" THEN "return" ELSE "leave")
  /\ UNCHANGED <<store, module, lock, call, own, result, calls>>

-----------------------------------------------------------------------------
(* Claims: a mount holds its bank from ff_bank_claim to ff_bank_release.   *)

ClaimRefused(t, r) ==
  /\ Decide(t, r)
  /\ Goto(t, "return")
  /\ UNCHANGED <<store, own>>

\* Fault: a bank can be claimed by a second mount.
ClaimBankShared(t) ==
  /\ Holds(t, "claim")
  /\ Unlock
  /\ ~stopping
  /\ \E b \in WithLabel(call[t].label) : SetClaim(b, TRUE) /\ own' = [own EXCEPT ![t] = b]
  /\ Decide(t, "ok")
  /\ Goto(t, "mounted")
  /\ UNCHANGED <<module, linker, call, calls>>

ClaimBank(t) ==
  LET found == WithLabel(call[t].label) IN
  /\ Holds(t, "claim")
  /\ Unlock
  /\ \/ stopping /\ ClaimRefused(t, "ENXIO")
     \/ ~stopping /\ found = {} /\ ClaimRefused(t, "ENOENT")
     \/ /\ ~stopping
        /\ \E b \in found :
             IF bank[b].claimed THEN ClaimRefused(t, "EBUSY")
             ELSE /\ SetClaim(b, TRUE)
                  /\ own' = [own EXCEPT ![t] = b]
                  /\ Decide(t, "ok")
                  /\ Goto(t, "mounted")
  /\ UNCHANGED <<module, linker, call, calls>>

Unmount(t) ==
  /\ pc[t] = "mounted"
  /\ Goto(t, "release")
  /\ UNCHANGED <<store, module, lock, linker, call, own, result, calls>>

\* Fault: an unmount forgets to give its claim back.
ReleaseBankKept(t) ==
  /\ Holds(t, "release")
  /\ own' = [own EXCEPT ![t] = NULL]
  /\ Decide(t, "released")
  /\ Goto(t, "return")
  /\ Unlock
  /\ UNCHANGED <<store, module, linker, call, calls>>

ReleaseBank(t) ==
  /\ Holds(t, "release")
  /\ SetClaim(own[t], FALSE)
  /\ own' = [own EXCEPT ![t] = NULL]
  /\ Decide(t, "released")
  /\ Goto(t, "return")
  /\ Unlock
  /\ UNCHANGED <<module, linker, call, calls>>

-----------------------------------------------------------------------------
(* kldunload: vfs_unregister, ff_banks_uninit, destroy_dev, sx_destroy.    *)

Unregister(t) ==
  /\ pc[t] = "unregister"
  /\ IF phase = "gone" THEN Decide(t, "ENOENT") /\ Goto(t, "unbusy")
     ELSE IF Mounting # {} THEN Decide(t, "EBUSY") /\ Goto(t, "unbusy")
     ELSE Goto(t, "uninit") /\ UNCHANGED result
  /\ UNCHANGED <<store, module, lock, linker, call, own, calls>>

\* Fault: unload looks at the list only, not at operations in progress.
UninitBusyByList == list # <<>>

UninitBusy == list # <<>> \/ active # 0

Uninit(t) ==
  /\ Holds(t, "uninit")
  /\ Unlock
  /\ IF UninitBusy
     THEN Decide(t, "EBUSY") /\ Goto(t, "unbusy") /\ UNCHANGED stopping
     ELSE Decide(t, "ok") /\ Goto(t, "destroy") /\ stopping' = TRUE
  /\ UNCHANGED <<store, active, phase, linker, call, own, calls>>

\* no ioctl starts once destroy_dev has begun
DestroyDev(t) ==
  /\ pc[t] = "destroy"
  /\ phase' = "draining"
  /\ Goto(t, "drain")
  /\ UNCHANGED <<store, active, stopping, lock, linker, call, own, result, calls>>

\* Fault: the lock is destroyed without waiting for threads in the device.
DestroyLockEarly(t) ==
  /\ pc[t] = "drain"
  /\ phase' = "gone"
  /\ Goto(t, "unbusy")
  /\ UNCHANGED <<store, active, stopping, lock, linker, call, own, result, calls>>

\* destroy_dev returns when no thread is in d_ioctl; the lock is destroyed
DestroyLock(t) ==
  /\ pc[t] = "drain"
  /\ InIoctl = {}
  /\ phase' = "gone"
  /\ Goto(t, "unbusy")
  /\ UNCHANGED <<store, active, stopping, lock, linker, call, own, result, calls>>

-----------------------------------------------------------------------------
AddStep(t) ==
  EnterAdd(t) \/ OpenSource(t) \/ ReadHeader(t) \/ ReadImage(t)
    \/ PublishBank(t) \/ FailImport(t)
DiscardStep(t) == EnterDiscard(t) \/ Unlink(t)
MountStep(t) == ClaimBank(t) \/ ReleaseBank(t)
UnloadStep(t) == Unregister(t) \/ Uninit(t) \/ DestroyDev(t) \/ DestroyLock(t)

\* steps of t's call that the kernel takes without being asked to; a LIST
\* may pass any index, with the current or a stale generation
Step(t) ==
  \/ Acquire(t) \/ EnterStopping(t) \/ Leave(t) \/ Return(t)
  \/ TakeLinker(t) \/ Unbusy(t)
  \/ AddStep(t) \/ DiscardStep(t) \/ MountStep(t) \/ UnloadStep(t)
  \/ \E i \in 0..Cardinality(Banks), g \in {0, generation} : ListRow(t, i, g)

\* what users and signals do
UserStep(t) ==
  BeginIoctl(t) \/ BeginMount(t) \/ BeginUnload(t) \/ Unmount(t) \/ InterruptWait(t)

Boot ==
  \/ OpenControl
  \/ \E b \in Banks, l \in Labels, im \in Images, pad \in Padding : Adopt(b, l, im, pad)

Next == Boot \/ \E t \in Threads : UserStep(t) \/ Step(t)

Spec == Init /\ [][Next]_vars

\* Every kernel thread inside a call keeps running; nothing obliges a caller
\* to issue a call, to unmount, or to be interrupted.
Fairness == \A t \in Threads : WF_vars(Step(t))
FairSpec == Spec /\ Fairness

-----------------------------------------------------------------------------
(* Properties.                                                             *)

BankRecords ==
  [label : Labels \cup {NULL}, preload : BOOLEAN, claimed : BOOLEAN,
   size : Nat, extent : Nat, bytes : Images \cup {NULL}]

CounterNames ==
  {"loader", "imported", "loader_image", "imported_image", "metadata", "released"}

StoreTypeOK ==
  /\ list \in Seq(Banks)
  /\ bank \in [Banks -> BankRecords]
  /\ structs \subseteq Banks /\ backing \subseteq Banks /\ decoded \subseteq Banks
  /\ generation \in Nat

CountersTypeOK == counters \in [CounterNames -> Int]

ControlTypeOK ==
  /\ active \in Nat
  /\ stopping \in BOOLEAN
  /\ phase \in {"boot", "live", "draining", "gone"}
  /\ lock \in Threads \cup {NULL}
  /\ linker \in Threads \cup {NULL}
  /\ pc \in [Threads -> PCs]
  /\ call \in [Threads -> {NoCall} \cup LabelCalls \cup PlainCalls]
  /\ own \in [Threads -> Banks \cup {NULL}]
  /\ result \in [Threads -> {"none", "ok", "released", "EEXIST", "ENOENT", "EBUSY",
                             "ENXIO", "EAGAIN", "EINTR", "EINVAL"}]
  /\ calls \in [Threads -> Nat]

\* Type invariant of the variables above.
TypeOK == StoreTypeOK /\ ControlTypeOK /\ CountersTypeOK

\* No label is registered twice, although ADD looks for it, drops the lock for
\* the whole import and only then publishes.
UniqueLabels ==
  \A i, j \in DOMAIN list : bank[list[i]].label = bank[list[j]].label => i = j

\* A mounted filesystem's bank is listed, claimed by it alone, and all three
\* of its allocations exist: no discard can free bytes a mount reads.
MountedIsResident ==
  \A t \in Threads : pc[t] \in {"mounted", "release"} =>
    /\ own[t] \in Listed \cap structs \cap backing \cap decoded
    /\ bank[own[t]].claimed
    /\ \A u \in Threads \ {t} : own[u] # own[t]

\* A bank marked claimed is held by a mount: no claim survives its mount, so
\* every bank can eventually be discarded.
ClaimsAreHeld ==
  \A b \in Banks : bank[b].claimed =>
    \E t \in Threads : own[t] = b /\ pc[t] \in {"mounted", "release"}

\* Every allocation belongs to a listed bank or to one import in progress,
\* and every listed bank has all of its allocations: a losing or failing ADD
\* leaks nothing and a DISCARD frees everything, once.
NothingLeaks ==
  LET building == {t \in Threads : pc[t] \in {"header", "read", "publish", "fail"}}
  IN /\ structs = Listed \cup {own[t] : t \in building}
     /\ \A t \in building : own[t] \notin Listed
     /\ Listed \subseteq backing \cap decoded
     /\ backing \cup decoded \subseteq structs

\* What a bank serves is the image that was validated, of the size that its
\* buffer was allocated for, though the source may change while it is read.
ListedIsValidated ==
  \A b \in Listed :
    /\ bank[b].bytes \in Images
    /\ bank[b].size = bank[b].bytes.size
    /\ bank[b].extent >= bank[b].size

\* The exported counters are the sums over the banks that are registered.
CountersMatch ==
  LET loaders == {b \in Listed : bank[b].preload}
      imports == Listed \ loaders
      extent == [b \in Listed |-> bank[b].extent]
      size == [b \in Listed |-> bank[b].size]
      meta == [b \in Listed |-> Meta(b)]
  IN /\ counters.loader = SumFunctionOnSet(extent, loaders)
     /\ counters.imported = SumFunctionOnSet(extent, imports)
     /\ counters.loader_image = SumFunctionOnSet(size, loaders)
     /\ counters.imported_image = SumFunctionOnSet(size, imports)
     /\ counters.metadata = SumFunctionOnSet(meta, Listed)

Counted == {t \in InIoctl : pc[t] \notin {"enter", "return"}}

\* `active' counts the control operations past their entry, however they end.
ActiveCounts == active = Cardinality(Counted)

\* Once unload is committed nothing is registered, allocated or in progress,
\* and nothing can be registered behind its back.
StoppingIsEmpty ==
  stopping => list = <<>> /\ structs = {} /\ active = 0 /\ Mounting = {}

\* bank_lock is never used after sx_destroy.
LockOutlivesUsers ==
  phase = "gone" => lock = NULL /\ \A t \in Threads : pc[t] \notin LockPoints

\* Every call ends, whatever the other threads do, except a mount that is up.
CallsReturn ==
  \A t \in Threads : pc[t] \notin {"idle", "mounted"} ~> pc[t] \in {"idle", "mounted"}

-----------------------------------------------------------------------------
(* The inductive invariant behind the properties: what each program point  *)
(* says about the call, the locks, the module and the heap.                *)

Building == {"header", "read", "publish", "fail"}   \* import has made a bank
Holding == {"mounted", "release"}                   \* a claim is held
LinkerHeld == {"unlink", "unregister", "uninit", "destroy", "drain", "unbusy"}
Closing == {"uninit", "destroy", "drain"}           \* inside vfs_unregister

PcInv ==
  \A t \in Threads :
    /\ pc[t] = "idle" <=> call[t].cmd = "none"
    /\ pc[t] \in {"enter", "leave"} => call[t].cmd \in {"ADD", "LIST", "DISCARD"}
    /\ pc[t] \in {"source"} \cup Building => call[t].cmd = "ADD"
    /\ pc[t] = "unlink" => call[t].cmd = "DISCARD"
    /\ pc[t] \in {"kldwait", "unbusy"} => call[t].cmd \in {"DISCARD", "UNLOAD"}
    /\ pc[t] \in {"claim"} \cup Holding => call[t].cmd = "CLAIM"
    /\ pc[t] \in {"unregister"} \cup Closing => call[t].cmd = "UNLOAD"
    /\ own[t] # NULL <=> pc[t] \in Building \cup Holding

LockInv ==
  \A t \in Threads :
    /\ lock = t => pc[t] \in LockPoints
    /\ linker = t <=> pc[t] \in LinkerHeld

PhaseInv ==
  /\ phase = "boot" => \A t \in Threads : pc[t] = "idle"
  /\ stopping <=> phase \in {"draining", "gone"} \/ \E t \in Threads : pc[t] = "destroy"
  /\ \A t \in Threads : pc[t] \in {"uninit", "destroy"} => phase = "live"
  /\ phase = "draining" <=> \E t \in Threads : pc[t] = "drain"
  /\ stopping \/ Unregistering => Mounting = {}
  /\ phase = "gone" => InIoctl = {}

ListInv ==
  /\ \A i, j \in DOMAIN list : list[i] = list[j] => i = j
  /\ \A b, c \in Listed : bank[b].label = bank[c].label => b = c

OwnInv ==
  /\ \A t, u \in Threads : own[t] = own[u] /\ own[t] # NULL => t = u
  /\ \A t \in Threads : pc[t] \in Building =>
       /\ bank[own[t]].label = call[t].label
       /\ ~bank[own[t]].claimed
  /\ \A t \in Threads : pc[t] \in {"read", "publish"} =>
       own[t] \in backing /\ bank[own[t]].extent >= bank[own[t]].size
  /\ \A t \in Threads : pc[t] = "publish" =>
       /\ own[t] \in decoded
       /\ bank[own[t]].bytes \in Images
       /\ bank[own[t]].size = bank[own[t]].bytes.size

ControlInv == StoreTypeOK /\ ControlTypeOK /\ PcInv /\ LockInv /\ ActiveCounts
HeapInv ==
  /\ OwnInv /\ ListInv /\ NothingLeaks /\ ListedIsValidated
  /\ MountedIsResident /\ ClaimsAreHeld
IInv == ControlInv /\ HeapInv /\ CountersTypeOK /\ PhaseInv /\ StoppingIsEmpty

-----------------------------------------------------------------------------
(* Refinement: the registry that callers see.                              *)

EntryOf(l) ==
  IF WithLabel(l) = {} THEN "absent"
  ELSE IF \E b \in WithLabel(l) : bank[b].claimed THEN "claimed" ELSE "available"

Entry == [l \in Labels |-> EntryOf(l)]
RegistryPhase ==
  IF stopping THEN "closed" ELSE IF phase = "boot" THEN "boot" ELSE "live"

Registry == INSTANCE BankRegistry WITH entry <- Entry, phase <- RegistryPhase

\* The lists, locks and imports above implement the atomic registry.
ImplementsRegistry == Registry!Spec
=============================================================================

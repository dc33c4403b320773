# A TLA+ model of femtoFS

femtoFS is a read-only filesystem: `makefemtofs` builds an image, a FreeBSD
kernel module keeps images in memory ("banks") and mounts them, `femtoctl`
manages the banks. This directory holds a model of the parts of it that are
hard to test, the TLC instances that check the model, and theorems that
TLAPS has checked for every number of threads, banks, mounts, runs and pages.

## Inventory

| part | source | state | operations | modelled |
|---|---|---|---|---|
| resident banks, control device | `ko/bank.c` | list of banks, claims, byte counters, generation, `active`, `stopping`, `bank_lock` | ADD, LIST, DISCARD, claim, release, boot adoption, unload | `BankStore`, `BankRegistry`, `BootAdoption` |
| `femtoctl` | `ko/femtoctl.c` | rows, index, generation, attempts | list (add and discard are one ioctl) | `BankListing` |
| mount, vnodes, pager | `ko/femtofs.c` | `ff_mount`, vnodes and their uses, pager objects, clean pages | mount, unmount, vget, reclaim, mmap, fault; readdir | `FemtoMount`, `ImageCells` (partly) |
| image decoder | `ko/image.c` | none (pure) | `ff_header`, `ff_validate`, `ff_lookup`, `ff_page` | `ImageCells`, `HashSlice`, `ContentPacking`, `BlobVisibility` (partly) |
| `makefemtofs`, file output | `programs/makefemtofs.cpp` | destination name, temporary file | write, verify, publish | `OutputFile` |
| `makefemtofs`, device output | same | the device and its cache | invalidate, fill, commit, verify | `OutputDevice` |
| `makefemtofs`, tree and blobs | same | input tree, blob classes | normalise, classify, deduplicate | `BlobVisibility`, `CellPlan` (partly) |
| `makefemtofs`, hash planning | same, `hash_plan.h`, `format.h` | directory and attribute plans, cell counters | choose, mix, fit, place | `HashPlan`, `CellPlan`, `BucketPlan` |
| `makefemtofs`, packing | same | content offsets | pack | `ContentPacking` |
| encoding, plan validation | same | the finished plan | encode, validate, read back | `CellPlan`, `ContentPacking`, `HashSlice` (partly) |
| options, archive input, spool | same | temporary files | parsing and copying | no |
| `femtofsSim` | `programs/femtofsSim.cpp` | a listing | predict tables, placement, packing; tune tables | `HashPlan`, `CellPlan`, `BucketPlan`, `ContentPacking`, `BlobVisibility` (partly) |
| `fsck_femtofs` | `fsck/` | what the walk has met | a second checker of the format | `ImageCells`, `HashSlice`, `ContentPacking`, `BlobVisibility` (partly) |
| `isPrime` | `include/isPrime.h` | none | primality | `HashPlan` (the prefilter) |
| `mount_femtofs` | `ko/mount_femtofs.c` | none | one system call | no |

How the parts interact: `femtoctl` calls the control device; the ioctls, mounts
and `kldunload` share the bank list under `bank_lock`, which is dropped around
every long operation; a mount claims one bank and holds it until its last
vnode, mapping and clean page is gone; a device pager refers to a vnode by its
`v_data`; `makefemtofs` shares only the output name or device with other
processes, and with its own earlier runs; what it decides about buckets, offsets
and parts, `ff_validate` decides again from the image; `fsck_femtofs` and the builder's
own `validatePlan` decide it a third and a fourth time, and `femtofsSim` predicts it
from a listing of the tree.

What makes it hard is in `PROJECT.json` under `hazards`, each at its line. In
short: publication decided before a lock is dropped and carried out after; the
order of `bank_lock`, the kernel linker and `destroy_dev`; error exits that must
undo just what was done; a listing made of many calls; forced and failing
unmounts against pagers; a page fault that drops its lock half way; power
loss at any point of writing an image; and several independent statements of the
image format that must agree at every edge.

What correctness means for each part:

- banks: labels are unique, a claimed bank stays, nothing leaks, the counters
  add up, unload is final, every call returns, and all of it looks atomic;
- listing: a snapshot or an explicit failure, and an end;
- mounts: uses balance, whatever can be reached is backed by a claimed bank,
  one vnode per file, one clean page per blob page, no foreign bytes unless
  asked for and no policy could object;
- file output: only whole images get the name, nothing is clobbered without
  `--force`, success is durable, no stray temporary file, and no failure takes back
  what was published;
- device output: no image is acceptable in part, success is durable;
- boot: what a preload's bank frees when it is discarded belongs to nobody else;
- image format: builder, kernel, fsck and simulator are implementations of one
  format, and meet only in the bytes. They must give one verdict. A slice the
  kernel accepts is one on which lookups end and find what is there; what the builder places, packs and
  classifies is what the kernel accepts; pages shared with the bank show no
  foreign bytes; the number of cells is counted right while tables shrink;
- reading a directory: any sequence of buffers gives every entry once.

## Modules

- `BankRegistry` is the abstract specification of the bank layer: labels that are
  absent, available or claimed, and calls that take effect at one instant.
- `BankStore` is `ko/bank.c`. Each thread has a `pc`; `LockPoints` are the places
  where it waits for or is inside `bank_lock`. `Acquire` is `sx_xlock`, and the
  action that follows is one critical section together with its unlock, so that
  all interleavings between critical sections of one call are explored. `list`
  is the linked list, `bank` the structs, `structs`, `backing` and `decoded` the
  three allocations of a bank. `import` is `OpenSource`, `ReadHeader`,
  `ReadImage`, `PublishBank` and `FailImport`; the header read first and the
  image read later are independent choices, as the source may change between
  them. An action whose comment says "Fault" is a plausible wrong version of the
  one that follows it; no specification uses it, it serves to test that the
  properties are not vacuous.
- `BankListing` extends it with `femtoctl list` as one of the threads.
- `FemtoMount` composes `BankRegistry` (in place of `BankStore`, which implements
  it) with mounts, vnodes, pagers and the clean page cache of `ko/femtofs.c`. A
  mounter thread stands for its `struct ff_mount`.
- `OutputDevice` is `writeDeviceOutput` and `writeImage`. The device keeps for each
  sector what a read returns and the set of values a power loss may leave. A
  page is two sectors, so that a page write can be torn; a flush settles all
  sectors or fails and settles none.
- `OutputFile` is `writeRegularOutput`. The destination's history is kept from the
  last directory flush on; a power loss goes back to any version of it.
- `BootAdoption` spells out what `BankStore` takes as an input: which preloads
  `adopt` takes. Preloads have names and addresses, aligned or not, overlapping or
  past the top of memory; DISCARD deletes a preload by its name, which frees the
  whole pages of its memory (`preload_delete_name`).
- `HashSlice` is one directory's hash slice as `ko/image.c` sees it: the three
  loops of `chains` step by step over an arbitrary slice, the interval test,
  and `ff_lookup` as `Search`; with the walks of the other two checkers, fsck's
  `walk_anchor_chain` and the one in `validatePlan`.
- `BucketPlan` extends it with `constructBuckets`: the slice is built, and then
  runs through the same `chains` (`PlanInit`), or comes from elsewhere
  (`GivenInit`). `Replay` is the simulator's own placement.
- `HashPlan` is `hash_plan.h` as operators: scores, `ChooseSingle`, `ChooseDual`,
  and the simulator's choice for a fixed table. Names are sequences of bytes and
  are really hashed.
- `ImageCells` is the table of an image, as a header and a function of cells, and
  its readers: `KernelAccepts` is `ff_validate`, `FsckAccepts` is fsck's two phases,
  `Readdir` is `ff_readdir`. Chains are taken as a whole there; how each reader walks
  them is in `HashSlice`.
- `CellPlan` extends it with `buildPlan` as a state machine: `MakePlans`, `Fit` and
  `Shrink` (`fitDirectoryPlans`), `ConstructBuckets`, `PlaceAttribute` per attribute,
  `Encode`. `Edit` then damages a field or a cell of the table. `Sim*` and `Tune` are
  the simulator's cell count, fallback and budgeted tuning.
- `ContentPacking` is `packContent` and `packPart`, then as operators on the result the
  kernel's `blob` and `ff_page`, fsck's `check_blob_layout`, `validatePlan`'s check, and
  the simulator's estimate and mmap profile. `Limit` stands for 2^32.
- `BlobVisibility` is `normalizeTree`'s hard link groups and `classifyBlobs`, with
  `ff_validate`'s `search`, `names`, `public_file` and `public_ref`, the simulator's
  classification, and the kernel's and fsck's rules for shared intervals as
  operators on the same tree.
- `BankStoreProofs`, `BankListingProofs`, `BootAdoptionProofs`, `BucketPlanProofs` (which
  is about `HashSlice` too), `ContentPackingProofs`, `FemtoMountProofs`,
  `OutputDeviceProofs` and `OutputFileProofs` hold the proofs about the modules they are
  named for;
  `MC*` modules and the `.cfg` files hold the instances (a module whose constants are plain
  values needs no `MC` module).

External, and modelled from what the code relies on: the kernel linker's busy
state (`linker_kldload_busy`, interruptible for DISCARD), the VFS
configuration lock (no unregistering while a mount holds a `vfsconf`
reference, mounts wait meanwhile), `destroy_dev` (waits for threads in the
device), `vfs_hash`, `vflush`, vnode recycling, the device pager's object, the
device's write cache and the directory. In `OutputDevice` and `OutputFile` a read
returns what was last written even after a failed flush; what survives a power
loss is then open.

Abstractions: an image is its size and metadata size; the content of a file page
is one of `ff_page`'s three outcomes; calls whose arguments fail the checks made
before a lock is taken change nothing and are not issued; logging and the
verbose physical-address sample are left out. `ff_bank_claim`'s `find_bank`
precedes its `stopping` test in the code and has no effect, so the order of the
two is not kept. A page of an image on a device is written by
several read-modify-write cycles; the model has the last of them, as no reader
accepts anything before the commit. In `HashSlice` and `BucketPlan` a hash is any bucket, and names
are numbers in byte order, so that sorting a chain's members changes nothing;
`HashPlan` computes `hashName` with bases and names small enough that no 32-bit sum
wraps. An image that any check refuses is refused: the order of a checker's checks
is left out. Blobs
are numbers in the order of their digests; a blob's bytes are a value, so that
equality of content is equality of values. The late comparison of the output with the
input is left out of `OutputFile`, its symlink check is kept.

## Runs

All configurations say `CHECK_DEADLOCK FALSE`: the number of calls is bounded, so
every behaviour of an instance ends with callers that make no further call
(and a program run that has ended).

A module has one type invariant at most; where it is not a property of its own
it is the first conjunct of the invariant that reads the same variables
(`UsesBalance`, `NeverTorn`, `PublishedIsWhole`, `CoherentListing`).

| run | instance | what it shows |
|---|---|---|
| `bank_safety` | 3 threads, one with 2 calls and two with 1, 1 label, 3 banks, 2 images, 1 loader bank | the ten invariants of the bank store |
| `bank_calls` | 2 threads, 2 calls each, 1 label, 3 banks, 1 image, fair | every call returns, the store implements `BankRegistry` |
| `bank_listing` | `femtoctl` against a thread with 2 calls, 2 banks, 2 labels, up to 2 loader banks, 2 attempts | a printed list is a snapshot; the listing ends |
| `boot_adoption` | 2 preloads of 2 names anywhere in 7 units of memory, 2 entries, one reload | discarding frees nobody else's pages |
| `mount_lifetime` | 1 mount, 1 administrator, 2 processes, 2 files that share a blob | lifetimes of vnodes, pagers and clean pages; spilled pages against policies |
| `device_output` | 2 runs over an old image, 3 pages of 2 sectors | no torn image, durable success |
| `file_output` | 2 plain runs and 1 with `--force`, 2 changes of the name | publication |
| `bucket_plan` | every slice of 4 buckets, every next index, out-of-range ones included; every directory of up to 4 names in 4 buckets with one hash each and of up to 3 with two, any hashes | `chains` decides right and ends; kernel, fsck and `validatePlan` find the same; placement succeeds, the kernel finds every name, the simulator replays it |
| `cell_plan` | 62 trees of up to three directories and 12 objects, 18 limits of cells, 2 second bases; edits of three tables; 10 buffer sizes; 3 tuning budgets | `CellsCounted`, `BuiltAccepted`, `CheckersAgree`, `ReaddirComplete` |
| `content_packing` | every set of up to 4 blobs of 9 sizes; page 8, word 2, limit 64; metadata ends at 9, 32 and 60; host pages 4, 8, 16 | offsets that kernel, fsck and builder accept, no foreign byte in a shared page, the simulator's estimate |
| `blob_visibility` | every tree of up to 3 objects, 3 names, 2 contents, one of them also a name | builder, validator and simulator agree on the parts |
| `fsck_symlinks` | every tree of up to 2 objects, one content | a violation: fsck reports what the builder merged |

Bounds. Three threads are two competing calls and the unload or mount that
disturbs them; one label makes every two calls conflict, and a second label
only matters for the order of rows, which `bank_listing` has. Three banks are a
listed one and two imports in progress. Image sizes 2 and 3 with a page of 2
give sizes that are and are not page multiples, and `Padding` makes a loader
bank's extent larger than its pages, so that mixing up the counters shows. Two
attempts of `femtoctl` reach the limit that is 8 in the code; the two calls of
the other thread can end one attempt each, which exhausts it. `bank_calls` has one size, as
its properties are about the order of calls. In `mount_lifetime` the two files
share a blob so that two pagers want one clean page; all pages are of the kind
that may spill, the only one whose treatment depends on the mount and the
policies. The second image of `device_output` has metadata on two pages and the
first is shorter than its predecessor. The proofs remove the bounds of
`bank_safety`, `mount_lifetime`, `device_output`, `file_output` and
`boot_adoption`. Four buckets hold a cycle next to a chain, and a tree of chains
with two branches; four names in four buckets are a full
table (three of two hashes each leave one bucket to choose), and four names on one anchor are the longest overflow. The names of `cell_plan` are
chosen for their hashes: some collide under every small base (so that a second base is
tried), some only in small tables (so that tables grow, and shrink under a limit), and
one directory has a best table by squares that is not the best by chains. Limits go
from below the minimal table to above the widest; objects are limited to 12 in
place of 2^15, so that five trees are too large. Two tables, one of them with two
hashes, get every single edit and a smaller one every pair of edits, which is what it takes to damage a hard link and the
entry it leads to. The memory of `boot_adoption` ends in the middle of a page, so that
sizes and addresses that are and are not page multiples, and extents that wrap, occur. In `content_packing`
blob sizes surround the word and the page, one is two whole pages, two more are about half and nearly
all of the limit, a hole is used up or left in part, the metadata may end so close to
the limit that little or no room is left, and host pages are half, equal to and twice the
format's. Three objects are a directory, a file in it and a link or a second
file elsewhere, which is what it takes to have two uses of one blob of different
visibility.

Fairness. `FairSpec` asserts weak fairness of each thread's `Step`: the kernel runs
a thread that can run. `sx` locks are not fair in general, but with a bounded
number of calls contention for them is finite, so weak fairness is enough, and
`CallsReturn` claims nothing about a thread under endless contention. Issuing
calls, unmounting and signals are never fair. `LSpec` adds weak fairness of
`femtoctl`'s own steps. The walk of
`HashSlice` is a sequential loop, which `PSpec` lets run on (weak fairness of `PNext`);
`ChainsEnds` is then about the loop alone. The other runs have safety properties only.

## Proofs

Every theorem is stated for all values of the constants that satisfy the named
assumptions of the module it is about. They are: images have a positive size and the page
size is positive; `NULL` and the like are none of the values they stand beside; the bounds
are natural numbers; the sets of threads and of processes are finite, as their members are
counted; addresses and sizes of preloads are at most `UINTPTR_MAX`
(`MemoriesAssumption`, the width of the code's types); the metadata of an image is
not empty and not longer than the image; pages are whole words and the limit of
offsets whole pages; the pages of a machine, where they are not longer than the format's, divide
them, as both are powers of two (`PowersAssumption`, which femtofsSim enforces on its options); runs and files put in the way by users are
different things. Nothing bounds how many of them there are, except that they are
constants of a behaviour.

| module | theorems | what they say |
|---|---|---|
| `BankStoreProofs` | `TypeCorrect`, `LabelsUnique`, `MountsAreSafe`, `NoStaleClaim`, `NoLeak`, `OnlyValidated`, `CountersExact`, `ActiveIsExact`, `StoppedStaysEmpty`, `LockOutlives` | the ten invariants of `bank_safety` |
| | `RegistryImplemented` | `BankStore` implements `BankRegistry` |
| `BankListingProofs` | `ListingIsCoherent` | a printed list is a snapshot |
| `FemtoMountProofs` | `UsesStayBalanced`, `MappedStaysBacked`, `OneVnodeWins`, `CleanPagesStay`, `SpillStaysLeaking` | the five properties of `mount_lifetime` |
| `OutputDeviceProofs` | `NeverTornHolds`, `ReportStaysOnDevice` | both invariants of `device_output` |
| `OutputFileProofs` | `PublishedStaysWhole`, `PlainNeverClobbers`, `ReportStaysDurable`, `TempIsRemoved`, `PublishedIsKept` | the five properties of `file_output` |
| `ContentPackingProofs` | `PackedIsAccepted`, `SharedIsOwn`, `EstimateIsExact` | the three invariants of `content_packing`: the kernel's, fsck's and the simulator's view of the builder's image |
| `BucketPlanProofs` | `KernelDecides`, `ReadersAlwaysAgree`, `PlacedIsFound` | of the invariants of `bucket_plan` those about `chains`, the readers and the builder |
| `BootAdoptionProofs` | `DiscardFreesItsOwn` | the invariant of `boot_adoption` |

TLC has checked each of the inductive invariants below on an instance of its module before
it was proved.

### The bank store

`BankStoreProofs` proves `Spec => []IInv` (`Invariance`) and from it the ten
invariants of `bank_safety`.
None of the properties is inductive by itself: that DISCARD spares a mounted
bank depends on which program points own which bank, that the lock outlives its
users depends on which phases exclude which calls. `IInv` adds to them:

- `PcInv` and `LockInv`: which call a program point belongs to, when a thread owns
  a bank, where `bank_lock` and the linker can be held;
- `OwnInv`: owned banks are distinct, and what is known of an import's bank at
  each of its steps (at `publish` it is decoded and fits its buffer);
- `ListInv`: no bank twice, no label twice;
- `PhaseInv`: boot, live, draining and gone against the threads that can be in a
  call, and that one thread at most is unregistering.

The argument is split by what a step can disturb. The first part proves that
each thread step keeps types, program points, locks and `active`. The second has three
facts on sequences (prepend, concatenation, removal of one element) and one
lemma per action for the part about banks. The third adds phases and the
`stopping` argument: when unload commits, the list is empty and `active` is zero,
so no import is in progress, and no mount can start.

The refinement maps `entry` to what the list shows of each label (`Entry`) and `phase` to
`RegistryPhase`; calls and answers are the same variables. `RegistryInv` adds what it
needs: an answer is there exactly from the program point on that decides it
(`AnswerInv`), and a mount's bank has the label its call asked for (`LabelInv`), without which a
release could free another entry than its claim took. Then each action is either
one of the registry's (publication, unlinking, claim, release, commitment to
unload, and each refusal) or leaves all four mapped variables alone: an import in progress,
the linker wait and everything under `bank_lock` before the decisive
critical section are invisible. `*Simulated` are these lemmas, one per group of actions.

`CountersMatch` speaks of sums over sets of banks. The community modules define such a sum
by recursion over the elements, in an order that `CHOOSE` picks, and the library's induction
theorems cannot be used on it, as they have an operator for a parameter. What takes their place
is `LeastNat`: a set of naturals has a least element. A statement about all finite sets is turned into the set of
sizes up to which it holds (`Sizes`). So the sum exists and is unique whatever the order
(`SumsExist`, `SumsUnique`), and adding an element adds its value (`SumMore`).
`CountsStep` then goes through the steps that list a bank, remove one or adopt several at boot; on the others
neither the list nor what a listed bank holds changes, which `IInv` gives.

### The listing

`BankListingProofs` builds on `IInv`. Its invariant ties the client to the kernel by the
generation: while the kernel's generation is the one of the client's last row, the
client's rows are the first rows of the list as it is now (`RowsInv`). A step of the
kernel either leaves list, banks and generation alone or raises the generation
(`ChangesShow`), which is the fact about `ko/bank.c` the argument rests on.

### Mounts

The properties of `FemtoMount` are proved together, in one invariant `MountInv`, as they need each other:
that a page is not freed under a mapping needs that its vnode is not reclaimed, which
needs that its pager's use is counted (`UsesBalance`), which needs that nobody inserts
a vnode that is already in the hash. `ClaimInv` says that a thread has the claim of its
bank from the registry's "ok" to its release and that no two threads have one
claim; it speaks of `BankRegistry`'s variables only, which `RegistryImplemented` shows
the bank store to implement. `VnodeInv` orders the vnode's states (resident in a pager, in the
hash, with `v_data`, in a live mount); `JobInv` is what a process in the middle of a call
relies on after it has dropped a lock; `CleanInv` and `SpillInv` carry a page's source from
the choice in `ff_fault` to its installation. `SpillNeedsLeaking` is an action property: its first half
is `SpillInv` after the step, its second (`VetoStep`) that under a loaded policy only faults that
have looked before install such pages, since `ff_fault` asks for policies each time and the mount
only once.

### Output

`DeviceInv` says of each program point of `writeDeviceOutput` what is
in the device's cache and what is on the medium. `HeaderInv` is the heart: where the header of an image is
possible after a power loss, the rest of that image is settled, also of an image
of an earlier run whose invalidation has not been flushed yet. `NoHeaderInv` is why the
content may then be overwritten: after the flush of the zeroed header no header is possible until the commit.

`FileInv` says which program points have a complete, synced file
(`BytesInv`), that any image the destination ever named is one (`WholeInv`, stronger than
`PublishedIsWhole`, which starts at the last flush), and that a run which has moved the
destination but not flushed the directory knows its version (`VersionInv`). `TempIsRemoved` is an
action property and needs `TempInv`: who published has no temporary name. `PublishedIsKept` is
one, too: of the steps of runs only a rename or a link moves the destination, and a link
finds it in the way.

`MemoryInv` of `BootAdoption` keeps what `adopt` once tested: a bank's
preload is the only one of its name and overlaps no other that is present; pages already freed
touch none that is present.

### Packing

`PackInv` says where blobs and holes lie while a part is packed: a placed blob is aligned or
inside a page, in its part, before the tail and apart from every other (`PlacedInv`);
a hole is on a word, shorter than a page, inside one, and apart from all blobs and
the other holes (`HolesInv`). Holes must be in it, since a blob put into one is apart
from the others only because the hole was, and inside a page only because the hole was.
Offsets and the tail stay below the limit at every step, which is why no sum
wraps, `MustAlign`'s unsigned one included (`AppendedFits`). The arithmetic of pages and words rests on a
few lemmas, from the uniqueness of quotient and remainder (`Quotient`) on.
`SamePage` is why the kernel's and fsck's rules, one with `%` and one with `/`, are the same.

`SimInv` is for the simulator, which packs all sizes of a part at once, where the builder
takes a step per blob. It says that the simulator's fold over the blobs placed so far (`SimNow`)
has the builder's tail and as many holes of every size (`SameSizes`). Their places
may differ: of equal holes the builder takes the first and the simulator any. `Run` is the
fold as a function on sets of blobs, `RunIs` that there is such a function, `LastIs` and `LastOnly`
that the order has exactly one last blob, so that what the builder places next is what the fold
adds (`NextRun`). The fold's holes are below its tail and apart (`RunKeeps`), and the tail
never goes back (`RunGrows`), so that where the builder fails near the
limit, the simulator's image is too large at its end (`Refused`). `ProfileHolds` is the mmap profile.
For TLC, `SimInv` was checked with the community modules' fold in place of `Run`.

### Hash slices

`SliceInv` is the invariant of the three loops of `chains`, over any slice of any size. After the first
loop the lists of children are in descending order and hold each bucket once
(`LinkInv`, `HeadInv`). During the walk the numbers given out are different, and a bucket's
is greater than that of the next one of its chain (`NumberInv`); a bucket is left after its
children (`LeaveInv`), those entered and not left are the way to the root (`WalkInv`), and a bucket numbered
inside another's interval has its next one there too (`NestInv`). Where the walk
accepts, numbers thus fall along every chain, which is why a lookup ends
(`SearchAccepted`) and why the interval test is the same as being on the way (`SearchCovers`).
Where it rejects, either a next index is out of range or leads to an empty bucket, or there is a set of buckets
that only lead to each other (`RejectInv`): the buckets never entered, as each of them whose chain
ended would have been reached from its root. From such a set no walk ends, neither fsck's
nor the builder's (`StuckWalk`, `FsckRejected`).

The walks of the readers are recursive functions. `WalkExists` proves that such a
function is there, by the least step at which it would not be, and every walk is then
treated as a path of given length (`WalkEnds`, `WalkMeets`).

`PlanInv` adds the builder. `InOrderLists` says that the overflow buckets are listed each once and from the lowest
to the highest; it rests on counting those below a bucket. `PlaceInv` says where each placed name is:
first of its anchor in the anchor itself, else in the overflow bucket of its rank among all
such names in the order of placement (`Position`), and that the next index written ahead
is the bucket its follower will get (`Follower`). There are as many overflow buckets as names that need one or more
(`OthersFit`), so placement cannot fail. Positions follow each other along a chain, from which
`SliceInv` cannot have rejected (`PlacedAccepted`), and the buckets of a chain are counted by its load (`InvFinds`).

### Only model-checked

Liveness under fairness is out of the prover's reach: `CallsReturn`, `ListingEnds`,
`ChainsEnds`. Of the safety properties, `ReplayAgrees`, `PartsAgree` and the four
of `cell_plan` are model-checked only. The first compares a fold over a sorted
sequence with the steps of the builder; `PartsAgree` compares fixed points over links in
a tree; those of `cell_plan` rest on hashes of names and on several folds
over one table. Each would need the same kind of induction by
a least counterexample as sums, walks and the simulator's packing do here, along data of its own.

## What the documents say

The tests say that competing publications have one winner and leak nothing, that
of a claim and a discard one happens, and that a listing is a snapshot or an
explicit retry error (`ko/test-boot-guest.py`): `UniqueLabels`, `NothingLeaks`,
`ImplementsRegistry` and `CoherentListing` hold. `ko/design.md` says that a mount's
pager references retain its claim and that forced unmount is refused:
`MappedIsBacked`. `makefemtofs-design.md` section 8 says that an error before
publication removes only the temporary file and leaves the destination untouched, that a
failure after it does not remove the image, and that a failure before the
commit leaves an invalid header if the device honoured the flush: `NoStrayTemp`,
`NeverClobbered`, `PublishedStays` and `NeverTorn`. `ko/design.md` permits the leaking mode
only while no MAC vnode hook is active: `SpillNeedsLeaking`, which leaves pages and faults that
a policy finds as they are, as the code does.

One disagreement was met. `specification.md` line 1116 lets references share an
interval if their deduplication domain and bytes are the same, and
`makefemtofs-design.md` line 322 says so of identical symlink targets; the builder merges
them and the kernel accepts them. `fsck_femtofs` reports every interval a symlink
target shares, with another symlink target too (`fsck/fsck_femtofs.c`, from line 338): the run
`fsck_symlinks` shows the tree. `PartsAgree` says that this is the only
sharing on which the two differ.

Other differences that the models show or leave aside:

- fsck takes a hard link to a FILE that no directory has (`visit_object` takes the target
  along), the kernel refuses it, and so does `specification.md` line 1328 ("targeted by
  exactly one occupied bucket"); `CheckersAgree` holds with exactly this exception.
  `makefemtofs` never makes such an image.
- For a shared interval fsck compares stored lengths, the kernel announced sizes; and
  fsck requires `ext_off` of an attribute cell to be zero in every minor
  version, the kernel in minor version 0 as `specification.md` line 1343 has it. The models have one size per blob and minor
  version 0.
- Near the limit of cells the builder shrinks tables one by one, the simulator takes all
  of them at their minimum: their verdicts agree (`CellsCounted`), the tables need not.
- The simulator's tuner goes from one single improvement to the next: where two directories
  share the longest chain no single upgrade shortens it, and only squares guide it on.
- `ff_readdir` with a buffer too small for the next entry returns none, and no mark
  of the end; `ReaddirComplete` asks for progress only when an entry fits.

Two behaviours the models show and the documents allow: a kill or a power loss
leaves the temporary file; and a run may report an error although its image is
published, if removing the temporary name after `link`, or the flush of the
directory, fails.

## Not modelled

Options, archive and directory input and the spool of `makefemtofs`, and
`mount_femtofs`, are sequential parsing, copying and single system calls. Of the kernel
module, `lookup`, `read`, `readlink`, `getattr`, `access` and `statfs` change no shared state;
what they decode is `ff_lookup` (`HashSlice`) and `ff_page` (`ContentPacking`). Of the format, the
header's own fields, checksums, terminators, forbidden bytes in names, and the scan for
zero fill are checks of single values, which no interleaving or history bears on. Of
`isPrime`, Miller-Rabin is number theory. Of the simulator, parsing, averages and printing,
and the experiment with fixed fallback sizes. `samplePrimes` is a given set of bases; that it
does not return when asked for more primes than its range holds is noted as a hazard.

## Plan

What is left, in this order:

1. of `BucketPlan`, `ReplayAgrees`: the replay's cursor is at the overflow bucket that the
   builder takes next;
2. of `CellPlan`, `CellsCounted`: the incremental count of cells is the recomputed one;
3. of `FemtoMount`, the end of a mount: that `ff_free` finds nothing of it left;
4. of `BankRegistry`, that a label changes hands by its own calls only, from which the
   bank store's callers get it by `RegistryImplemented`.

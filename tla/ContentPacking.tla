--------------------------- MODULE ContentPacking ---------------------------
(***************************************************************************)
(* Where makefemtofs puts the blobs of an image (packContent, packPart),   *)
(* and what the kernel makes of it: the rules of ff_validate's blob() and  *)
(* the pages that ff_page lets a mapping share with the bank.  fsck's      *)
(* check_blob_layout and the builder's validatePlan read the same rules,   *)
(* and femtofsSim estimates the same offsets (packContents).               *)
(*                                                                         *)
(* Offsets are integers of Limit values, so that the checks against        *)
(* wrapping bite at small sizes; a page, a word and the limit are scaled   *)
(* down from 4096, 4 and 2^32.                                             *)
(***************************************************************************)
EXTENDS Integers, FiniteSets, SequencesExt

CONSTANTS
  Page,       \* kPageSize and FF_PAGE
  Word,       \* stored blobs are padded to words, with one zero byte at least
  Limit,      \* offsets are 0..Limit - 1
  Sizes,      \* bytes of a blob
  MaxBlobs,   \* bound: blobs of an image
  MetaEnds,   \* bytes the header and the cells may take
  HostPages   \* PAGE_SIZE of the machines that map the image

ASSUME PagesAssumption ==
  /\ Word \in Nat \ {0} /\ Page \in Nat \ {0} /\ Page % Word = 0
  /\ Limit \in Nat \ {0} /\ Limit % Page = 0
  /\ HostPages \subseteq Nat \ {0}
ASSUME PowersAssumption ==   \* pages of either kind are powers of two
  \A page \in HostPages : page <= Page => Page % page = 0
ASSUME BlobsAssumption ==
  /\ Sizes \subseteq Nat /\ MetaEnds \subseteq Nat /\ MaxBlobs \in Nat

VARIABLES
  size,       \* size[b]: the bytes of blob b
  public,     \* the blobs of the public part
  metaEnd,    \* end of the cells
  part,       \* "public", then "private"
  todo,       \* blobs of the part that have no place yet
  holes,      \* gaps left before aligned blobs, relative to the part
  tail,       \* end of the part so far, relative to its start
  off,        \* off[b]: blob.imageOff
  publicOff, privateOff, imageSize,
  pc

input == <<size, public, metaEnd>>
bounds == <<publicOff, privateOff, imageSize>>
vars == <<input, part, todo, holes, tail, off, bounds, pc>>

Blobs == DOMAIN size
Wrap(n) == n % Limit
AlignUp(n) == ((n + Page - 1) \div Page) * Page
Encoded(s) == ((s + Word) \div Word) * Word
Stored(b) == Encoded(size[b])

\* the next one: larger ones first; equal ones in the order of their content,
\* which 1, 2, ... is
Foremost(b) ==
  \A c \in todo \ {b} : Stored(b) > Stored(c) \/ (Stored(b) = Stored(c) /\ b < c)

\* The sizes and parts of an image's blobs, and packContent up to packPart; a
\* blob whose stored size is no offset has been refused by internBlob.
Init ==
  /\ \E n \in 0..MaxBlobs : size \in [1..n -> Sizes]
  /\ public \in SUBSET Blobs
  /\ metaEnd \in MetaEnds
  /\ part = "public"
  /\ todo = public
  /\ holes = {} /\ tail = 0
  /\ off = [b \in Blobs |-> 0]
  /\ publicOff = AlignUp(metaEnd)
  /\ privateOff = 0 /\ imageSize = 0
  /\ pc = IF publicOff >= Limit \/ \E b \in Blobs : Stored(b) >= Limit
          THEN "error" ELSE "pack"

Fail == pc' = "error" /\ UNCHANGED <<input, part, todo, holes, tail, off, bounds>>

-----------------------------------------------------------------------------
(* packPart: one blob.                                                     *)

Start == IF part = "public" THEN publicOff ELSE privateOff

Put(b, relative) ==
  /\ off' = [off EXCEPT ![b] = Wrap(Start + relative)]
  /\ todo' = todo \ {b}
  /\ UNCHANGED <<input, part, bounds, pc>>

Fitting(b) == {h \in holes : h.size >= Stored(b)}

\* the smallest hole it fits, the first of those
FillHole ==
  /\ pc = "pack"
  /\ \E b \in todo : Foremost(b) /\ \E h \in Fitting(b) :
       /\ \A g \in Fitting(b) : h.size < g.size \/ (h.size = g.size /\ h.offset <= g.offset)
       /\ IF Start + h.offset >= Limit THEN Fail
          ELSE /\ Put(b, h.offset)
               /\ holes' = (holes \ {h}) \cup
                    (IF h.size = Stored(b) THEN {}
                     ELSE {[offset |-> h.offset + Stored(b), size |-> h.size - Stored(b)]})
               /\ UNCHANGED tail

\* Fault: small blobs may lie across a page boundary.
MustAlignLarge(b) == Stored(b) >= Page

\* a blob of a page or more starts a page, a smaller one stays inside one; the
\* sum is an unsigned one
MustAlign(b) ==
  \/ Stored(b) >= Page
  \/ tail \div Page # Wrap(tail + Stored(b) - 1) \div Page

AppendBlob ==
  /\ pc = "pack"
  /\ \E b \in todo :
       LET at == IF MustAlign(b) THEN AlignUp(tail) ELSE tail IN
       /\ Foremost(b)
       /\ Fitting(b) = {}
       /\ IF \/ at >= Limit
             \/ at + Stored(b) >= Limit
             \/ Start + at >= Limit
          THEN Fail
          ELSE /\ Put(b, at)
               /\ holes' = holes \cup
                    (IF at > tail THEN {[offset |-> tail, size |-> at - tail]} ELSE {})
               /\ tail' = Wrap(at + Stored(b))

\* packContent between and after the parts
EndPublic ==
  LET start == publicOff + tail IN
  /\ pc = "pack" /\ part = "public"
  /\ todo = {}
  /\ IF start >= Limit \/ AlignUp(start) >= Limit THEN Fail
     ELSE /\ privateOff' = AlignUp(start)
          /\ part' = "private"
          /\ todo' = Blobs \ public
          /\ holes' = {} /\ tail' = 0
          /\ UNCHANGED <<input, off, publicOff, imageSize, pc>>

EndPrivate ==
  LET end == privateOff + tail IN
  /\ pc = "pack" /\ part = "private"
  /\ todo = {}
  /\ IF end >= Limit \/ AlignUp(end) >= Limit THEN Fail
     ELSE /\ imageSize' = AlignUp(end)
          /\ pc' = "packed"
          /\ UNCHANGED <<input, part, todo, holes, tail, off, publicOff, privateOff>>

Next == FillHole \/ AppendBlob \/ EndPublic \/ EndPrivate

Spec == Init /\ [][Next]_vars

-----------------------------------------------------------------------------
(* The kernel.                                                             *)

\* blob(): where a blob that takes n stored bytes may lie
BlobAccepted(at, n) ==
  LET end == IF at < privateOff THEN privateOff ELSE imageSize IN
  /\ at % Word = 0
  /\ at >= publicOff /\ at < imageSize
  /\ at + n <= end
  /\ IF n >= Page THEN at % Page = 0 ELSE (at % Page) + n <= Page

\* Fault: the last page of a file is shared however short it is.
SharedLoosely(b, offset, page, leaking) ==
  (off[b] + offset) % page = 0

\* ff_page: the page of b's file at offset may be mapped from the bank as it is
Shared(b, offset, page, leaking) ==
  LET source == off[b] + offset IN
  /\ source % page = 0
  /\ \/ size[b] - offset >= page
     \/ /\ leaking
        /\ page <= Page /\ size[b] >= page
        /\ off[b] < privateOff /\ source + page <= privateOff

-----------------------------------------------------------------------------
(* The other readers of the rules.                                         *)

\* fsck's check_blob_layout
FsckBlobAccepted(at, n) ==
  LET partEnd == IF at < privateOff THEN privateOff ELSE imageSize IN
  /\ at % Word = 0
  /\ publicOff <= at /\ at < imageSize
  /\ at + n <= partEnd
  /\ n < Page => at \div Page = (at + n - 1) \div Page
  /\ n >= Page => at % Page = 0

\* validatePlan, which knows the part a blob is meant for
PlanBlobAccepted(b) ==
  LET end == off[b] + Stored(b) IN
  /\ end <= imageSize /\ off[b] >= publicOff
  /\ b \in public <=> off[b] < privateOff
  /\ Stored(b) < Page => off[b] \div Page = (end - 1) \div Page
  /\ Stored(b) >= Page => off[b] % Page = 0

\* what validatePlan finds sorted by offset, each with its neighbour only
Neighbours(a, b) ==
  a # b /\ off[a] <= off[b] /\ ~\E c \in Blobs : off[a] < off[c] /\ off[c] < off[b]
PlanDisjoint == \A a, b \in Blobs : Neighbours(a, b) => off[a] + Stored(a) <= off[b]

-----------------------------------------------------------------------------
(* femtofsSim.                                                             *)

\* encodedBlobBytes: sizes it cannot encode are counted and left out
SimCounted(s) == s <= Limit - 1 - Word
SimOverflow == {b \in Blobs : ~SimCounted(size[b])}

\* one round of packContents: its holes are sizes with places, its tail has no limit
SimPut(r, n) ==
  LET fit == {h \in r.holes : h.size >= n}
      hole == CHOOSE h \in fit : \A g \in fit : h.size <= g.size
      used == r.tail % Page
      gap == IF (n >= Page /\ used # 0) \/ (n < Page /\ used + n > Page) THEN Page - used ELSE 0
      Gaps(at, s) == IF s = 0 THEN {} ELSE {[at |-> at, size |-> s]}
  IN IF fit # {}
     THEN [r EXCEPT !.holes = (@ \ {hole}) \cup Gaps(hole.at + n, hole.size - n)]
     ELSE [holes |-> r.holes \cup Gaps(r.tail, gap), tail |-> r.tail + gap + n]

\* packContents: the padded bytes of blobs of these sizes, taken from the
\* largest on
SimPacked(sizes) ==
  LET last(S) == CHOOSE b \in S : \A c \in S \ {b} :
                   sizes[c] > sizes[b] \/ (sizes[c] = sizes[b] /\ c < b)
  IN MapThenFoldSet(LAMBDA b, r : SimPut(r, sizes[b]), [holes |-> {}, tail |-> 0],
                    LAMBDA b : b, last, DOMAIN sizes).tail

\* packClassifiedContents: what is packed for the part of the blobs S
SimContents(S) == [b \in S \ SimOverflow |-> Stored(b)]

SimPublicOff == AlignUp(metaEnd)
SimPrivateOff == AlignUp(SimPublicOff + SimPacked(SimContents(public)))
SimImageSize == AlignUp(SimPrivateOff + SimPacked(SimContents(Blobs \ public)))

\* Fault: an image that ends exactly at the limit counts as representable.
SimRefusesAbove == SimImageSize > Limit \/ SimOverflow # {}

\* the limit-status lines that concern content
SimRefuses == SimImageSize >= Limit \/ SimOverflow # {}

\* the mmap profile on machines with pages of `page' bytes: files that copy one
\* page at most on a clean mount, and those of them that copy none
SimAligned(b, page) == size[b] > page /\ page <= Page /\ Stored(b) >= Page
SimAtMostOne(b, page) == size[b] # 0 /\ (size[b] <= page \/ SimAligned(b, page))
SimNoCopy(b, page) == SimAligned(b, page) /\ size[b] % page = 0

\* public files that lie on a page boundary of such a machine for sure
SimMappable(b, page) == b \in public /\ size[b] # 0 /\ page <= Page /\ Stored(b) >= Page

-----------------------------------------------------------------------------
(* Properties.                                                             *)

\* What is packed is what the kernel accepts: every blob is inside its part,
\* aligned or inside a page, and no two overlap, also when the offsets are near
\* the limit, where packing fails before any of them wraps.  The builder's own
\* check agrees, and so does fsck, for blobs that lie elsewhere as well.
KernelAccepts ==
  pc = "packed" =>
    /\ metaEnd <= publicOff /\ publicOff <= privateOff /\ privateOff <= imageSize
    /\ \A b \in Blobs : /\ BlobAccepted(off[b], Stored(b)) /\ (off[b] < privateOff <=> b \in public)
                        /\ PlanBlobAccepted(b)
    /\ \A a, b \in Blobs : a # b =>
         off[a] + Stored(a) <= off[b] \/ off[b] + Stored(b) <= off[a]
    /\ PlanDisjoint
    /\ \A b \in Blobs : \A at \in {off[b], off[b] + 1, off[b] + Word, privateOff, imageSize} :
         BlobAccepted(at, Stored(b)) <=> FsckBlobAccepted(at, Stored(b))

\* A page mapped from the bank shows a file's own bytes only; a leaking mount
\* may add others of the public part, never one of the private part, of the
\* metadata or beyond the image, whatever the page size of the machine.
NothingForeignShared ==
  pc = "packed" =>
    \A b \in Blobs, page \in HostPages, leaking \in BOOLEAN :
      \A offset \in {o \in 0..size[b] - 1 : o % page = 0} :
        Shared(b, offset, page, leaking) =>
          LET first == off[b] + offset
              last == first + page - 1
          IN \/ last < off[b] + size[b]
             \/ leaking /\ b \in public /\ first >= publicOff /\ last < privateOff

\* pages of b that a mount copies
Copies(b, page, leaking) ==
  {o \in 0..size[b] - 1 : o % page = 0 /\ ~Shared(b, o, page, leaking)}

\* The simulator's estimate is the builder's image: the same bounds of the parts
\* and the same size, refused in the same cases; and its mmap profile is kept by
\* the kernel: what it counts as copied at most once, or not at all, is.
SimPredicts ==
  /\ pc = "packed" =>
       /\ <<publicOff, privateOff, imageSize>> = <<SimPublicOff, SimPrivateOff, SimImageSize>>
       /\ ~SimRefuses
       /\ \A b \in Blobs, page \in HostPages :
            /\ SimAtMostOne(b, page) => Cardinality(Copies(b, page, FALSE)) <= 1
            /\ SimNoCopy(b, page) => Copies(b, page, FALSE) = {}
            /\ SimMappable(b, page) =>
                 off[b] % page = 0 /\ (size[b] >= page => Copies(b, page, TRUE) = {})
  /\ pc = "error" => SimRefuses
=============================================================================

------------------------------ MODULE HashSlice ------------------------------
(***************************************************************************)
(* One directory of an image as ko/image.c sees it: a slice of hash        *)
(* buckets, each empty or holding an entry and the index of the next       *)
(* bucket of its chain.  The index is whatever the image says.  chains()   *)
(* decides whether the slice is accepted: it reverses the chains into a    *)
(* forest, walks it without a stack, and numbers the buckets so that       *)
(* whether a chain leads from one to another is an interval test.          *)
(* ff_lookup follows the chains of an accepted slice.                      *)
(***************************************************************************)
EXTENDS Integers, FiniteSets

CONSTANT Size    \* d->size: the buckets of the slice, and the end of a chain

ASSUME SizeAssumption == Size \in Nat

VARIABLES
  occupied,      \* the buckets that hold an entry
  next,          \* next[b]: the chain index stored in b
  head, sibling, \* w[b].head, w[b].sibling: a bucket's number plus one, or 0
  enter, leave,  \* w[b].enter, w[b].leave
  clock, seen,   \* numbers given, buckets numbered
  root, at,      \* the loops' positions
  pc

slice == <<occupied, next>>
links == <<head, sibling>>
visits == <<enter, leave, clock, seen>>
vars == <<slice, links, visits, root, at, pc>>

Buckets == 0..Size - 1
Zeros == [b \in Buckets |-> 0]

\* what chains() starts from, for the slice given
Fresh ==
  /\ head = Zeros /\ sibling = Zeros
  /\ enter = Zeros /\ leave = Zeros
  /\ clock = 0 /\ seen = 0
  /\ root = 0 /\ at = 0

\* any slice: ff_validate has checked that an empty bucket says Size
Init ==
  /\ occupied \in SUBSET Buckets
  /\ next \in [Buckets -> 0..Size + 1]
  /\ \A b \in Buckets \ occupied : next[b] = Size
  /\ Fresh
  /\ pc = "link"

-----------------------------------------------------------------------------
(* chains.                                                                 *)

\* the first loop: `at' becomes a child of the bucket its chain goes on with
Link ==
  LET n == next[at] IN
  /\ pc = "link"
  /\ at < Size
  /\ \/ /\ at \notin occupied \/ n = Size
        /\ at' = at + 1
        /\ UNCHANGED <<links, pc>>
     \/ /\ at \in occupied /\ n \in occupied
        /\ sibling' = [sibling EXCEPT ![at] = head[n]]
        /\ head' = [head EXCEPT ![n] = at + 1]
        /\ at' = at + 1
        /\ UNCHANGED pc
     \/ /\ at \in occupied /\ n \notin occupied \cup {Size}
        /\ pc' = "rejected"
        /\ UNCHANGED <<links, at>>
  /\ UNCHANGED <<slice, visits, root>>

Linked ==
  /\ pc = "link"
  /\ at = Size
  /\ pc' = "roots"
  /\ UNCHANGED <<slice, links, visits, root, at>>

\* the second loop: a tree is walked from each bucket that ends a chain
FindRoot ==
  /\ pc = "roots"
  /\ root < Size
  /\ IF root \in occupied /\ next[root] = Size
     THEN at' = root /\ pc' = "visit" /\ UNCHANGED root
     ELSE root' = root + 1 /\ UNCHANGED <<at, pc>>
  /\ UNCHANGED <<slice, links, visits>>

Visit ==
  /\ pc = "visit"
  /\ IF enter[at] = 0
     THEN /\ clock' = clock + 1
          /\ enter' = [enter EXCEPT ![at] = clock + 1]
          /\ seen' = seen + 1
     ELSE UNCHANGED <<clock, enter, seen>>
  /\ pc' = "move"
  /\ UNCHANGED <<slice, links, leave, root, at>>

\* Fault: the child is not taken off the list, and is visited for ever.
DescendAgain ==
  /\ pc = "move"
  /\ head[at] # 0
  /\ at' = head[at] - 1
  /\ pc' = "visit"
  /\ UNCHANGED <<slice, links, visits, root>>

\* to the first child, which leaves the list of children
Descend ==
  /\ pc = "move"
  /\ head[at] # 0
  /\ head' = [head EXCEPT ![at] = sibling[head[at] - 1]]
  /\ at' = head[at] - 1
  /\ pc' = "visit"
  /\ UNCHANGED <<slice, sibling, visits, root>>

Ascend ==
  /\ pc = "move"
  /\ head[at] = 0
  /\ leave' = [leave EXCEPT ![at] = clock]
  /\ IF at = root
     THEN root' = root + 1 /\ pc' = "roots" /\ UNCHANGED at
     ELSE at' = next[at] /\ pc' = "visit" /\ UNCHANGED root
  /\ UNCHANGED <<slice, links, enter, clock, seen>>

\* Fault: buckets on a cycle, which no root leads to, go unnoticed.
DecideUncounted ==
  /\ pc = "roots"
  /\ root = Size
  /\ pc' = "accepted"
  /\ UNCHANGED <<slice, links, visits, root, at>>

\* cycles have no sentinel root
Decide ==
  /\ pc = "roots"
  /\ root = Size
  /\ pc' = IF seen = Cardinality(occupied) THEN "accepted" ELSE "rejected"
  /\ UNCHANGED <<slice, links, visits, root, at>>

Next == Link \/ Linked \/ FindRoot \/ Visit \/ Descend \/ Ascend \/ Decide

\* the interval test: b is on the chain that starts at a
LeadsTo(a, b) == a \in occupied /\ enter[b] <= enter[a] /\ enter[a] <= leave[b]

\* the third loop requires this of every entry b and the anchors of its name
Anchored(b, anchors) == \E a \in anchors : LeadsTo(a, b)

-----------------------------------------------------------------------------
(* ff_lookup.                                                              *)

\* The bucket where the search for the name in bucket b ends, from anchor a;
\* names of a directory differ, so that only b has it.  After Size steps a
\* search that goes on has been everywhere it will ever be.
Search(a, b) ==
  LET i[n \in 0..Size] ==
        IF n = 0 THEN a
        ELSE IF i[n - 1] \in occupied \ {b} THEN next[i[n - 1]] ELSE i[n - 1]
  IN i[Size]

Found(b, anchors) == b \in occupied /\ \E a \in anchors : Search(a, b) = b
Endless(b, anchors) == \E a \in anchors : Search(a, b) \in occupied \ {b}

-----------------------------------------------------------------------------
(* The two checkers that are not the kernel: fsck's walk_anchor_chain, and *)
(* the walk of the builder's validatePlan.                                 *)

\* Fault: fsck stops as soon as it has met the bucket it looks for.
FsckStepShort(w, b) ==
  IF w.at = Size \/ b \in w.met THEN w
  ELSE IF w.at \in w.met \/ w.at \notin occupied THEN [w EXCEPT !.bad = TRUE]
  ELSE [w EXCEPT !.met = @ \cup {w.at}, !.at = next[w.at]]

\* one round: through the end even after bucket b has been found
FsckStep(w, b) ==
  IF w.at = Size THEN w
  ELSE IF w.at \in w.met \/ w.at \notin occupied THEN [w EXCEPT !.bad = TRUE]
  ELSE [w EXCEPT !.met = @ \cup {w.at}, !.at = next[w.at]]

\* an anchor that holds no entry contributes nothing
FsckWalk(a, b) ==
  LET start == [at |-> a, met |-> {}, bad |-> FALSE]
      w[n \in 0..Size + 1] == IF n = 0 THEN start ELSE FsckStep(w[n - 1], b)
  IN IF a \in occupied THEN w[Size + 1] ELSE start

FsckFinds(b, anchors) ==
  /\ next[b] <= Size
  /\ \A a \in anchors : ~FsckWalk(a, b).bad
  /\ \E a \in anchors : b \in FsckWalk(a, b).met

\* positions of the builder's walk, at most Size of them
PlanWalk(a) ==
  LET i[n \in 0..Size] ==
        IF n = 0 THEN a ELSE IF i[n - 1] \in occupied THEN next[i[n - 1]] ELSE i[n - 1]
  IN i

PlanFinds(b, anchors) ==
  /\ \A a \in anchors \cap occupied : PlanWalk(a)[Size] = Size
  /\ \E a \in anchors \cap occupied : \E n \in 0..Size - 1 : PlanWalk(a)[n] = b

-----------------------------------------------------------------------------
(* Properties.                                                             *)

Nowhere == Size + 2            \* the "bucket" of a name that is not there

\* Every chain of the slice stays in occupied buckets and ends.
WellFormed ==
  \A b \in occupied : next[b] \in occupied \cup {Size} /\ Search(b, Nowhere) = Size

\* chains accepts the slice if and only if it is a set of chains that end:
\* out-of-range indexes, chains into empty buckets and cycles are rejected,
\* joined chains are not.
ChainsDecides == pc \in {"accepted", "rejected"} => (pc = "accepted" <=> WellFormed)

AnchorSets == {a \in SUBSET Buckets : Cardinality(a) \in {1, 2}}

\* On an accepted slice ff_lookup ends for every name and every hash, and the
\* four readers of the format agree about every entry and its one or two
\* anchors: the validator's interval test, a lookup, fsck's walk and the
\* builder's own check.  In a slice the kernel rejects, fsck and the builder
\* find an entry to complain about, whatever the hashes.
ReadersAgree ==
  /\ pc = "accepted" =>
       /\ \A b \in occupied \cup {Nowhere} : \A a \in AnchorSets : ~Endless(b, a)
       /\ \A b \in occupied : \A a \in AnchorSets :
            /\ Anchored(b, a) <=> Found(b, a)
            /\ Anchored(b, a) <=> FsckFinds(b, a)
            /\ Anchored(b, a) <=> PlanFinds(b, a)
  /\ pc = "rejected" =>
       \E b \in occupied : \A a \in AnchorSets : ~FsckFinds(b, a) /\ ~PlanFinds(b, a)

\* The walk ends on every slice, also one with cycles.
ChainsEnds == <>(pc \in {"accepted", "rejected"})
=============================================================================

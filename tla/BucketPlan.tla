----------------------------- MODULE BucketPlan -----------------------------
(***************************************************************************)
(* makefemtofs placing the entries of a directory in its hash slice        *)
(* (constructBuckets), and the kernel's chains() then deciding about the   *)
(* result, or about a slice from elsewhere.  femtofsSim predicts the same  *)
(* placement (replayLookups).  Names are 1..n in byte order, which is the  *)
(* order of a plan's children; a name's hashes are any buckets.            *)
(***************************************************************************)
EXTENDS HashSlice, SequencesExt

CONSTANTS
  MaxNames,   \* bound: entries of the directory
  MaxDual     \* bound: entries of one that uses both hashes

ASSUME NamesAssumption == MaxNames \in 0..Size /\ MaxDual \in 0..MaxNames

VARIABLES
  h1, h2,      \* h1[k], h2[k]: the hashes of name k
  dual,        \* the directory uses both
  loads,       \* loads[b]: names whose chain starts at b
  anchor,      \* anchor[k] of the names assigned so far
  placed,      \* names placed so far
  used,        \* overflow buckets used so far
  holder       \* holder[b]: the name put in bucket b, 0 if none

hashes == <<h1, h2, dual>>
plan == <<loads, anchor, placed, used, holder>>
pvars == <<vars, hashes, plan>>
kernel == <<links, visits, root, at>>

Names == DOMAIN h1
Anchors(k) == IF dual THEN {h1[k], h2[k]} ELSE {h1[k]}

\* a directory to be planned
PlanInit ==
  /\ \E n \in 0..MaxNames : h1 \in [1..n -> Buckets] /\ h2 \in [1..n -> Buckets]
  /\ dual \in BOOLEAN
  /\ IF dual THEN Len(h1) <= MaxDual ELSE h2 = h1
  /\ loads = Zeros
  /\ anchor = <<>>
  /\ placed = {}
  /\ used = 0
  /\ holder = Zeros
  /\ occupied = {}
  /\ next = [b \in Buckets |-> Size]
  /\ Fresh
  /\ pc = "assign"

\* an image made by any other program
GivenInit ==
  /\ Init
  /\ h1 = <<>> /\ h2 = <<>> /\ dual = FALSE
  /\ loads = Zeros /\ anchor = <<>>
  /\ placed = {} /\ used = 0 /\ holder = Zeros

PInit == PlanInit \/ GivenInit

\* the less loaded of the two hashes, the lower bucket if they are equal
Assign ==
  LET k == Len(anchor) + 1
      better == dual /\ (\/ loads[h2[k]] < loads[h1[k]]
                         \/ loads[h2[k]] = loads[h1[k]] /\ h2[k] < h1[k])
      a == IF better THEN h2[k] ELSE h1[k]
  IN
  /\ pc = "assign"
  /\ k \in Names
  /\ loads' = [loads EXCEPT ![a] = @ + 1]
  /\ anchor' = Append(anchor, a)
  /\ UNCHANGED <<slice, kernel, pc, hashes, placed, used, holder>>

Assigned ==
  /\ pc = "assign"
  /\ Len(anchor) = Len(h1)
  /\ pc' = "place"
  /\ UNCHANGED <<slice, kernel, hashes, plan>>

Group(a) == {k \in Names : anchor[k] = a}

\* the buckets of S from the lowest to the highest
InOrder(S) ==
  [i \in 1..Cardinality(S) |-> CHOOSE b \in S : Cardinality({c \in S : c < b}) = i - 1]

\* Fault: buckets where a chain starts are taken for overflow as well.
OverflowAnywhere == InOrder(Buckets)

\* the buckets where no chain starts, in order
Overflow == InOrder(Buckets \ Range(anchor))

\* chains are placed by anchor, the names of one in their order
Turn(k) ==
  /\ k \in Names \ placed
  /\ \A j \in Names \ placed : anchor[k] < anchor[j] \/ (anchor[k] = anchor[j] /\ k <= j)

NeedsNext(k) == \E j \in Group(anchor[k]) : k < j

Place ==
  /\ pc = "place"
  /\ \E k \in Names :
       LET first == \A j \in Group(anchor[k]) : k <= j
           taken == IF first THEN used ELSE used + 1
           position == IF first THEN anchor[k] ELSE Overflow[taken]
           follower == IF NeedsNext(k) THEN Overflow[taken + 1] ELSE Size
       IN
       /\ Turn(k)
       /\ IF \/ taken > Len(Overflow)
             \/ NeedsNext(k) /\ taken = Len(Overflow)
          THEN pc' = "error" /\ UNCHANGED <<slice, placed, used, holder>>
          ELSE /\ occupied' = occupied \cup {position}
               /\ next' = [next EXCEPT ![position] = follower]
               /\ holder' = [holder EXCEPT ![position] = k]
               /\ placed' = placed \cup {k}
               /\ used' = taken
               /\ UNCHANGED pc
  /\ UNCHANGED <<kernel, hashes, loads, anchor>>

\* the image is written, and the kernel validates it
Written ==
  /\ pc = "place"
  /\ placed = Names
  /\ pc' = "link"
  /\ UNCHANGED <<slice, kernel, hashes, plan>>

Build == Assign \/ Assigned \/ Place \/ Written

PNext == Build \/ (Next /\ UNCHANGED <<hashes, plan>>)

PSpec == PInit /\ [][PNext]_pvars /\ WF_pvars(PNext)

-----------------------------------------------------------------------------
(* femtofsSim's replayLookups.                                             *)

\* its order: anchor by anchor, the names of one in theirs
SimOrder ==
  SetToSortSeq(Names, LAMBDA j, k : anchor[j] < anchor[k] \/ (anchor[j] = anchor[k] /\ j < k))

\* Fault: the cursor goes back to the start for every anchor.
SimPutRewound(r, k) ==
  LET first == \A j \in Group(anchor[k]) : k <= j
      free == {b \in Buckets : r.objectAt[b] = 0}
      position == IF first THEN anchor[k] ELSE CHOOSE b \in free : \A c \in free : b <= c
  IN [objectAt |-> [r.objectAt EXCEPT ![position] = k],
      next |-> IF first THEN r.next ELSE [r.next EXCEPT ![r.previous] = position],
      overflow |-> r.overflow,
      previous |-> position]

\* the first name of an anchor goes there, the others where the cursor finds
\* the next bucket that no chain starts in
SimPut(r, k) ==
  LET first == \A j \in Group(anchor[k]) : k <= j
      free == {b \in Buckets : b >= r.overflow /\ Group(b) = {}}
      position == IF first THEN anchor[k] ELSE CHOOSE b \in free : \A c \in free : b <= c
  IN [objectAt |-> [r.objectAt EXCEPT ![position] = k],
      next |-> IF first THEN r.next ELSE [r.next EXCEPT ![r.previous] = position],
      overflow |-> IF first THEN r.overflow ELSE position + 1,
      previous |-> position]

Replay ==
  FoldLeft(SimPut, [objectAt |-> Zeros, next |-> [b \in Buckets |-> Size],
                    overflow |-> 0, previous |-> Size], SimOrder)

\* buckets a replayed lookup of name k compares, from one anchor, up to its own
SimProbe(r, a, k) ==
  LET i[n \in 0..Size] ==
        IF n = 0 THEN a
        ELSE IF i[n - 1] # Size /\ r.objectAt[i[n - 1]] \notin {0, k}
             THEN r.next[i[n - 1]] ELSE i[n - 1]
  IN [met |-> Range(i) \cap {b \in Buckets : r.objectAt[b] # 0},
      found |-> i[Size] # Size /\ r.objectAt[i[Size]] = k]

\* h1 first; h2 if that found nothing
SimComparisons(r, k) ==
  LET one == SimProbe(r, h1[k], k)
      two == SimProbe(r, h2[k], k)
  IN Cardinality(one.met) + IF one.found \/ h1[k] = h2[k] THEN 0 ELSE Cardinality(two.met)

SimFinds(r, k) == \E a \in Anchors(k) : SimProbe(r, a, k).found

-----------------------------------------------------------------------------
(* Properties.                                                             *)

\* Placement finds a bucket for every name of a directory that has no more
\* names than buckets, whatever the hashes: neither internal error is reached.
PlacementFits == pc # "error"

\* What is placed is what the kernel accepts and looks up: its chains are
\* accepted, every name is in one bucket, which a lookup that tries the first
\* hash and, in a dual directory, the second one finds, and no chain is longer
\* than the load that the hashes were chosen for.
KernelFinds ==
  /\ PlacementFits
  /\ placed # {} => pc # "rejected"
  /\ pc = "accepted" =>
       \A k \in Names : \E b \in occupied :
         /\ \A c \in Buckets : holder[c] = k <=> c = b
         /\ Anchored(b, Anchors(k)) /\ Found(b, Anchors(k))
         /\ Cardinality({c \in occupied : LeadsTo(anchor[k], c)}) = loads[anchor[k]]

\* The simulator predicts the builder's image: its replay puts every name in
\* the builder's bucket with the builder's chains and finds it, with no more
\* comparisons than the longest chain allows; and the loads alone give the
\* comparisons of the failing lookups, added up over their first buckets.
ReplayAgrees ==
  pc = "link" /\ at = 0 /\ placed # {} =>
    LET r == Replay
        longest == CHOOSE l \in Range(loads) : \A m \in Range(loads) : m <= l
    IN
    /\ r.objectAt = holder /\ r.next = next
    /\ \A k \in Names :
         SimFinds(r, k) /\ SimComparisons(r, k) <= Cardinality(Anchors(k)) * longest
    /\ 2 * SumFunction([b \in occupied |-> Cardinality(FsckWalk(b, b).met)])
         = SumFunction([b \in Buckets |-> loads[b] * loads[b]]) + Len(h1)
=============================================================================

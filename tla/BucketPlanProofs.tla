-------------------------- MODULE BucketPlanProofs --------------------------
(***************************************************************************)
(* Proofs about HashSlice and BucketPlan: whatever the number of buckets   *)
(* and whatever a slice says, chains() accepts it if and only if its       *)
(* chains end, and on a slice it accepts the kernel's interval test, its   *)
(* lookups and the walks of the other two checkers agree.                  *)
(***************************************************************************)
EXTENDS BucketPlan, FiniteSetTheorems, WellFoundedInduction, TLAPS

-----------------------------------------------------------------------------
(* Induction.  Statements about sets, which take the place of induction    *)
(* over a predicate: WFMin says that a well-founded order has minima.      *)

Below(m, n) == m < n

\* The least element of a set of naturals.
LEMMA LeastNat ==
  ASSUME NEW A \in SUBSET Nat, A # {}
  PROVE  \E n \in A : \A m \in A : n <= m
<1> DEFINE R == OpToRel(Below, Nat)
<1>1. IsWellFoundedOn(R, Nat)
  BY NatLessThanWellFounded DEF OpToRel, Below
<1>2. PICK n \in A : \A m \in A : ~ (<<m, n>> \in R)
  <2> HIDE DEF R
  <2> QED BY <1>1, WFMin
<1>3. ASSUME NEW m \in A PROVE n <= m
  <2>1. m \in Nat /\ n \in Nat OBVIOUS
  <2>2. ~(m < n) BY <1>2, <2>1 DEF OpToRel, Below
  <2> QED BY <2>1, <2>2
<1> QED BY <1>3

\* Induction up to a bound: the set of the numbers for which a statement holds.
LEMMA Upward ==
  ASSUME NEW m \in Nat, NEW A, 0 \in A, \A n \in 0..m - 1 : n \in A => n + 1 \in A
  PROVE  0..m \subseteq A
<1> DEFINE B == {n \in 0..m : n \notin A}
<1> SUFFICES ASSUME B # {} PROVE FALSE
  OBVIOUS
<1>1. PICK k \in B : \A j \in B : k <= j
  <2>1. B \in SUBSET Nat OBVIOUS
  <2> HIDE DEF B
  <2> QED BY <2>1, LeastNat
<1>2. k - 1 \in 0..m - 1 /\ k - 1 \notin B
  BY <1>1
<1> QED BY <1>2, <1>1

\* The greatest element of a set of naturals below a bound.
LEMMA GreatestNat ==
  ASSUME NEW m \in Nat, NEW A \in SUBSET (0..m), A # {}
  PROVE  \E n \in A : \A k \in A : k <= n
<1> DEFINE B == {j \in 0..m : m - j \in A}
<1>1. B \in SUBSET Nat /\ B # {}
  <2>1. PICK n \in A : TRUE OBVIOUS
  <2>2. n \in 0..m /\ m - n \in 0..m /\ m - (m - n) = n BY <2>1
  <2>3. m - n \in B BY <2>1, <2>2
  <2>4. B \subseteq 0..m OBVIOUS
  <2> HIDE DEF B
  <2> QED BY <2>3, <2>4
<1>2. PICK b \in B : \A j \in B : b <= j
  <2> HIDE DEF B
  <2> QED BY <1>1, LeastNat
<1>3. m - b \in A
  OBVIOUS
<1>4. ASSUME NEW k \in A PROVE k <= m - b
  <2>1. k \in 0..m /\ m - k \in 0..m /\ m - (m - k) = k OBVIOUS
  <2>2. m - k \in B BY <2>1
  <2>3. b <= m - k /\ b \in 0..m BY <1>2, <2>2
  <2> QED BY <2>1, <2>3
<1> QED BY <1>3, <1>4

\* m steps of s from a can be taken, within S
HasWalk(S, s, a, m) ==
  \E w \in [0..m -> S] : w[0] = a /\ \A n \in 0..m - 1 : w[n + 1] = s[w[n]]

\* The functions that HashSlice defines by recursion over steps exist.
LEMMA Walks ==
  ASSUME NEW S, NEW s \in [S -> S], NEW a \in S, NEW m \in Nat
  PROVE  HasWalk(S, s, a, m)
<1> DEFINE A == {k \in Nat : HasWalk(S, s, a, k)}
<1>1. 0 \in A
  <2>1. [n \in 0..0 |-> a] \in [0..0 -> S] /\ [n \in 0..0 |-> a][0] = a /\ 0..0 - 1 = {}
    OBVIOUS
  <2> QED BY <2>1 DEF HasWalk
<1>2. ASSUME NEW k \in Nat, k \in A PROVE k + 1 \in A
  <2>1. PICK w \in [0..k -> S] : w[0] = a /\ \A n \in 0..k - 1 : w[n + 1] = s[w[n]]
    BY <1>2 DEF HasWalk
  <2> DEFINE x == [n \in 0..k + 1 |-> IF n = k + 1 THEN s[w[k]] ELSE w[n]]
  <2>2. x \in [0..k + 1 -> S] /\ x[0] = a
    BY <2>1
  <2>3. ASSUME NEW n \in 0..(k + 1) - 1 PROVE x[n + 1] = s[x[n]]
    <3>1. CASE n = k BY <2>1, <3>1
    <3>2. CASE n # k
      <4>1. n \in 0..k - 1 BY <3>2
      <4> QED BY <2>1, <4>1
    <3> QED BY <3>1, <3>2
  <2> HIDE DEF x
  <2>4. HasWalk(S, s, a, k + 1) BY <2>2, <2>3 DEF HasWalk
  <2>5. k + 1 \in Nat OBVIOUS
  <2> QED BY <2>4, <2>5
<1>3. 0..m \subseteq A
  <2> HIDE DEF A
  <2> QED BY <1>1, <1>2, Upward
<1> QED BY <1>3

-----------------------------------------------------------------------------
(* The invariant of chains().                                              *)

Kids(n) == {c \in occupied : next[c] = n}
Entered == {b \in Buckets : enter[b] # 0}
Open(b) == b \in Entered /\ leave[b] = 0
Walking == pc \in {"visit", "move"}

\* x is, plus one, the last child of n below k, or 0 if there is none
IsLast(x, n, k) ==
  /\ x = 0 => \A c \in Kids(n) : k <= c
  /\ x # 0 => x - 1 \in Kids(n) /\ x <= k /\ \A c \in Kids(n) : c < k => c < x

SliceTypes ==
  /\ occupied \subseteq Buckets
  /\ next \in [Buckets -> 0..Size + 1]
  /\ head \in [Buckets -> 0..Size] /\ sibling \in [Buckets -> 0..Size]
  /\ enter \in [Buckets -> Nat] /\ leave \in [Buckets -> Nat]
  /\ clock \in Nat /\ seen \in Nat
  /\ root \in 0..Size /\ at \in 0..Size

\* the lists of children so far are in descending order
LinkInv ==
  /\ enter = Zeros /\ leave = Zeros /\ clock = 0 /\ seen = 0 /\ root = 0
  /\ \A c \in occupied : c < at => next[c] \in occupied \cup {Size}
  /\ \A n \in occupied : IsLast(head[n], n, at)
  /\ \A c \in occupied : c < at /\ next[c] # Size => IsLast(sibling[c], next[c], c)

ChainedInv == \A c \in occupied : next[c] \in occupied \cup {Size}

\* the children taken off a list are those that were, or are being, entered
HeadInv ==
  /\ \A c \in occupied : next[c] # Size => IsLast(sibling[c], next[c], c)
  /\ \A n \in occupied : head[n] # 0 => head[n] - 1 \in Kids(n)
  /\ \A c \in occupied :
       next[c] # Size =>
         (head[next[c]] <= c <=> c \in Entered \/ (pc = "visit" /\ c = at))

\* numbers are given out once, to a bucket after the next one of its chain
NumberInv ==
  /\ clock = seen /\ seen = Cardinality(Entered) /\ Entered \subseteq occupied
  /\ \A b \in Entered :
       /\ enter[b] <= clock
       /\ next[b] # Size => next[b] \in Entered /\ enter[next[b]] < enter[b]
  /\ \A b, c \in Entered : enter[b] = enter[c] => b = c

\* a bucket that was left has been left by its children before
LeaveInv ==
  \A b \in Buckets :
    leave[b] # 0 =>
      /\ b \in Entered /\ head[b] = 0
      /\ enter[b] <= leave[b] /\ leave[b] <= clock
      /\ \A c \in Kids(b) : leave[c] # 0 /\ leave[c] <= leave[b]

\* intervals are nested: whoever is entered inside b's has a parent in it
NestInv ==
  \A a, b \in Entered :
    enter[b] < enter[a] /\ (leave[b] = 0 \/ enter[a] <= leave[b]) =>
      next[a] # Size /\ enter[b] <= enter[next[a]]

\* trees are walked in the order of their roots
RootInv ==
  \A r \in occupied :
    next[r] = Size =>
      /\ r # root => (r \in Entered <=> r < root)
      /\ r = root /\ pc = "roots" => r \notin Entered

\* the buckets entered and not left are the way from `at' to the root
WalkInv ==
  /\ pc = "roots" => \A b \in Buckets : ~Open(b)
  /\ Walking =>
       /\ root \in occupied /\ next[root] = Size /\ at \in occupied
       /\ \A b \in Buckets : Open(b) => b = root \/ Open(next[b])
       /\ at \in Entered =>
            Open(at) /\ \A b \in Buckets : Open(b) => enter[b] <= enter[at]
       /\ at \notin Entered /\ next[at] = Size =>
            at = root /\ \A b \in Buckets : ~Open(b)
       /\ at \notin Entered /\ next[at] # Size =>
            Open(next[at]) /\ \A b \in Buckets : Open(b) => enter[b] <= enter[next[at]]
  /\ pc = "move" => at \in Entered

ForestInv == ChainedInv /\ HeadInv /\ NumberInv /\ LeaveInv /\ NestInv /\ RootInv /\ WalkInv

AcceptInv == ChainedInv /\ NumberInv /\ LeaveInv /\ NestInv /\ Entered = occupied /\ \A b \in Buckets : ~Open(b)

\* a chain leaves the occupied buckets, or some buckets lead only to each other
RejectInv ==
  \/ \E b \in occupied : next[b] \notin occupied \cup {Size}
  \/ \E S \in SUBSET occupied : S # {} /\ \A b \in S : next[b] \in S

SliceInv ==
  /\ SliceTypes
  /\ pc \in {"assign", "place", "error"} => Fresh
  /\ pc = "link" => LinkInv
  /\ pc \in {"roots", "visit", "move"} => ForestInv
  /\ pc = "accepted" => AcceptInv
  /\ pc = "rejected" => RejectInv
LEMMA LinkKeeps ==
  ASSUME SliceInv, Link
  PROVE  SliceInv'
<1> USE SizeAssumption DEF Buckets
<1>0. pc = "link" /\ at < Size
  BY DEF Link
<1>1. SliceTypes /\ LinkInv /\ at \in Buckets
  <2>1. SliceTypes /\ LinkInv BY <1>0 DEF SliceInv
  <2>2. at \in 0..Size BY <2>1 DEF SliceTypes
  <2>3. at \in Buckets BY <1>0, <2>2
  <2> QED BY <2>1, <2>3
<1>2. next[at] \in 0..Size + 1 /\ Size \notin occupied
  BY <1>1 DEF SliceTypes
<1>3. UNCHANGED <<slice, visits, root>>
  BY DEF Link
<1>4. CASE /\ at \notin occupied \/ next[at] = Size
           /\ at' = at + 1
           /\ UNCHANGED <<links, pc>>
  <2>0. at' \in 0..Size
    BY <1>0, <1>1, <1>4 DEF SliceTypes
  <2>1. SliceTypes'
    BY <1>1, <1>3, <1>4, <2>0 DEF SliceTypes, slice, visits, links
  <2>2. \A n \in occupied : \A c \in Kids(n) : c # at
    BY <1>2, <1>4 DEF Kids
  <2>3. \A n \in occupied : IsLast(head[n], n, at + 1)
    <3> TAKE n \in occupied
    <3>1. IsLast(head[n], n, at) /\ head[n] \in 0..Size /\ Kids(n) \subseteq Buckets
      BY <1>1 DEF LinkInv, Kids, SliceTypes
    <3>2. \A c \in Kids(n) : c # at
      BY <2>2
    <3> QED BY <1>1, <3>1, <3>2 DEF IsLast
  <2>4. \A c \in occupied : c < at + 1 => c < at \/ c = at
    BY <1>1 DEF SliceTypes
  <2>5. LinkInv'
    BY <1>1, <1>2, <1>3, <1>4, <2>3, <2>4 DEF LinkInv, IsLast, Kids, slice, visits, links
  <2> QED BY <1>0, <1>4, <2>1, <2>5 DEF SliceInv
<1>5. CASE /\ at \in occupied /\ next[at] \in occupied
           /\ sibling' = [sibling EXCEPT ![at] = head[next[at]]]
           /\ head' = [head EXCEPT ![next[at]] = at + 1]
           /\ at' = at + 1
           /\ UNCHANGED pc
  <2> DEFINE p == next[at]
  <2>1. SliceTypes'
    <3>1. at + 1 \in 0..Size /\ p \in Buckets /\ head[p] \in 0..Size
      BY <1>1, <1>5 DEF SliceTypes
    <3>2. head' \in [Buckets -> 0..Size] /\ sibling' \in [Buckets -> 0..Size]
      BY <1>1, <1>5, <3>1 DEF SliceTypes
    <3> QED BY <1>1, <1>3, <1>5, <3>1, <3>2 DEF SliceTypes, slice, visits
  <2>2. at \in Kids(p) /\ \A n \in occupied : Kids(n)' = Kids(n) /\ Kids(n) \subseteq Buckets
    BY <1>1, <1>3, <1>5 DEF Kids, slice, SliceTypes
  <2>3. \A n \in occupied : IsLast(head'[n], n, at + 1)
    <3> TAKE n \in occupied
    <3>1. IsLast(head[n], n, at) /\ head[n] \in 0..Size /\ Kids(n) \subseteq Buckets
      BY <1>1, <2>2 DEF LinkInv, SliceTypes
    <3>2. CASE n = p
      <4>1. head'[n] = at + 1
        BY <1>1, <1>5, <3>2 DEF SliceTypes
      <4> QED BY <1>1, <2>2, <3>1, <3>2, <4>1 DEF IsLast
    <3>3. CASE n # p
      <4>1. head'[n] = head[n] /\ at \notin Kids(n)
        BY <1>1, <1>5, <3>3 DEF SliceTypes, Kids
      <4> QED BY <1>1, <3>1, <4>1 DEF IsLast
    <3> QED BY <3>2, <3>3
  <2>4. \A c \in occupied : c < at + 1 /\ next[c] # Size => IsLast(sibling'[c], next[c], c)
    <3> TAKE c \in occupied
    <3>1. CASE c = at
      BY <1>1, <1>5, <3>1 DEF LinkInv, SliceTypes
    <3>2. CASE c # at
      BY <1>1, <1>5, <3>2 DEF LinkInv, SliceTypes
    <3> QED BY <3>1, <3>2
  <2>5. \A c \in occupied : c < at + 1 => next[c] \in occupied \cup {Size}
    BY <1>1, <1>5 DEF LinkInv, SliceTypes
  <2>6. LinkInv'
    <3>1. UNCHANGED <<occupied, next, enter, leave, clock, seen, root>> /\ at' = at + 1
      BY <1>3, <1>5 DEF slice, visits
    <3>2. (\A n \in occupied : IsLast(head[n], n, at))'
      BY <2>3, <3>1 DEF IsLast, Kids
    <3>3. (\A c \in occupied : c < at /\ next[c] # Size => IsLast(sibling[c], next[c], c))'
      BY <2>4, <3>1 DEF IsLast, Kids
    <3> HIDE DEF IsLast
    <3> QED BY <1>1, <2>5, <3>1, <3>2, <3>3 DEF LinkInv
  <2> QED BY <1>0, <1>5, <2>1, <2>6 DEF SliceInv
<1>6. CASE /\ at \in occupied /\ next[at] \notin occupied \cup {Size}
           /\ pc' = "rejected"
           /\ UNCHANGED <<links, at>>
  <2>1. SliceTypes'
    BY <1>1, <1>3, <1>6 DEF SliceTypes, slice, visits, links
  <2>2. RejectInv'
    BY <1>3, <1>6 DEF RejectInv, slice
  <2> QED BY <1>6, <2>1, <2>2 DEF SliceInv
<1> QED BY <1>4, <1>5, <1>6 DEF Link

LEMMA LinkedKeeps ==
  ASSUME SliceInv, Linked
  PROVE  SliceInv'
<1> USE SizeAssumption DEF Buckets
<1>1. pc = "link" /\ SliceTypes /\ LinkInv /\ at = Size /\ pc' = "roots"
  BY DEF SliceInv, Linked
<1>2. UNCHANGED <<slice, links, visits, root, at>>
  BY DEF Linked
<1>3. SliceTypes'
  BY <1>1, <1>2 DEF SliceTypes, slice, visits, links
<1>4. Entered = {} /\ Entered' = {} /\ \A n : Kids(n)' = Kids(n)
  BY <1>1, <1>2 DEF Entered, LinkInv, Zeros, slice, visits, Kids
<1>5. \A c \in occupied : c < Size /\ c \in Buckets
  BY <1>1 DEF SliceTypes
<1>6. ChainedInv'
  BY <1>1, <1>2, <1>5 DEF ChainedInv, LinkInv, slice
<1>7. HeadInv'
  <2>1. \A n \in occupied : head[n] # 0 => head[n] - 1 \in Kids(n)
    BY <1>1 DEF LinkInv, IsLast
  <2>2. \A c \in occupied : next[c] # Size => ~(head[next[c]] <= c)
    <3> SUFFICES ASSUME NEW c \in occupied, next[c] # Size PROVE ~(head[next[c]] <= c)
      OBVIOUS
    <3>1. next[c] \in occupied /\ c \in Kids(next[c]) /\ c < Size
      BY <1>1, <1>5 DEF LinkInv, Kids
    <3>2. IsLast(head[next[c]], next[c], Size) /\ head[next[c]] \in 0..Size /\ c \in Buckets
      BY <1>1, <1>5, <3>1 DEF LinkInv, SliceTypes
    <3> QED BY <3>1, <3>2 DEF IsLast
  <2>3. \A c \in occupied : next[c] # Size => IsLast(sibling[c], next[c], c)
    BY <1>1, <1>5 DEF LinkInv
  <2> QED BY <1>1, <1>2, <1>4, <2>1, <2>2, <2>3 DEF HeadInv, IsLast, slice, links
<1>8. NumberInv'
  BY <1>1, <1>2, <1>4, FS_EmptySet DEF NumberInv, LinkInv, visits
<1>9. LeaveInv' /\ NestInv' /\ RootInv' /\ WalkInv'
  BY <1>1, <1>2, <1>4, <1>5 DEF LeaveInv, NestInv, RootInv, WalkInv, LinkInv, visits, slice, Zeros, Open, Walking
<1> QED BY <1>1, <1>3, <1>6, <1>7, <1>8, <1>9 DEF SliceInv, ForestInv

LEMMA FindRootKeeps ==
  ASSUME SliceInv, FindRoot
  PROVE  SliceInv'
<1> USE SizeAssumption DEF Buckets
<1>1. pc = "roots" /\ SliceTypes /\ ForestInv /\ root < Size
  BY DEF SliceInv, FindRoot
<1>2. UNCHANGED <<slice, links, visits>>
  BY DEF FindRoot
<1>3. Entered' = Entered /\ \A n : Kids(n)' = Kids(n) /\ Open(n)' = Open(n)
  BY <1>2 DEF Entered, slice, visits, Kids, Open
<1>4. SliceTypes'
  <2>1. root + 1 \in 0..Size /\ root \in 0..Size
    BY <1>1 DEF SliceTypes
  <2>2. root' \in 0..Size /\ at' \in 0..Size
    BY <1>1, <2>1 DEF FindRoot, SliceTypes
  <2> QED BY <1>1, <1>2, <2>2 DEF SliceTypes, slice, visits, links
<1>5. ChainedInv' /\ NumberInv' /\ LeaveInv' /\ NestInv'
  BY <1>1, <1>2, <1>3 DEF ForestInv, ChainedInv, NumberInv, LeaveInv, NestInv, slice, visits, links
<1>6. CASE root \in occupied /\ next[root] = Size
  <2>1. at' = root /\ pc' = "visit" /\ root' = root
    BY <1>6 DEF FindRoot
  <2>2. HeadInv'
    BY <1>1, <1>2, <1>3, <1>6, <2>1 DEF ForestInv, HeadInv, IsLast, slice, links
  <2>3. RootInv' /\ root \notin Entered
    BY <1>1, <1>2, <1>3, <1>6, <2>1 DEF ForestInv, RootInv, slice
  <2>4. WalkInv'
    BY <1>1, <1>2, <1>3, <1>6, <2>1, <2>3 DEF ForestInv, WalkInv, Walking, slice
  <2> QED BY <1>4, <1>5, <2>1, <2>2, <2>3, <2>4 DEF SliceInv, ForestInv
<1>7. CASE ~(root \in occupied /\ next[root] = Size)
  <2>1. root' = root + 1 /\ pc' = "roots" /\ at' = at
    BY <1>1, <1>7 DEF FindRoot
  <2>2. HeadInv'
    BY <1>1, <1>2, <1>3, <2>1 DEF ForestInv, HeadInv, IsLast, slice, links
  <2>3. RootInv'
    <3>1. \A r \in occupied : r \in 0..Size - 1 /\ (r < root + 1 <=> r < root \/ r = root)
      BY <1>1 DEF SliceTypes
    <3>2. RootInv
      BY <1>1 DEF ForestInv
    <3> QED BY <1>1, <1>2, <1>3, <1>7, <2>1, <3>1, <3>2 DEF RootInv, slice
  <2>4. WalkInv'
    BY <1>1, <1>2, <1>3, <2>1 DEF ForestInv, WalkInv, Walking, slice
  <2> QED BY <1>4, <1>5, <2>1, <2>2, <2>3, <2>4 DEF SliceInv, ForestInv
<1> QED BY <1>6, <1>7
LEMMA FiniteSlice ==
  ASSUME SliceTypes
  PROVE  IsFiniteSet(Buckets) /\ IsFiniteSet(occupied) /\ IsFiniteSet(Entered)
<1>1. IsFiniteSet(Buckets)
  BY SizeAssumption, FS_Interval DEF Buckets
<1>2. occupied \in SUBSET Buckets /\ Entered \in SUBSET Buckets
  BY DEF SliceTypes, Entered
<1> QED BY <1>1, <1>2, FS_Subset

LEMMA VisitKeeps ==
  ASSUME SliceInv, Visit
  PROVE  SliceInv'
<1> USE SizeAssumption DEF Buckets
<1>1. pc = "visit" /\ pc' = "move" /\ UNCHANGED <<slice, links, leave, root, at>>
  BY DEF Visit
<1>2. SliceTypes /\ ForestInv
  BY <1>1 DEF SliceInv
<1>3. WalkInv /\ at \in occupied /\ at \in Buckets /\ Walking
  BY <1>1, <1>2 DEF ForestInv, WalkInv, Walking, SliceTypes
<1>4. \A n : Kids(n)' = Kids(n)
  BY <1>1 DEF slice, Kids
<1>5. CASE enter[at] # 0
  <2>1. UNCHANGED <<clock, enter, seen>> /\ at \in Entered
    BY <1>3, <1>5 DEF Visit, Entered
  <2>2. Entered' = Entered /\ \A n : Open(n)' = Open(n)
    BY <1>1, <2>1 DEF Entered, Open
  <2>3. SliceTypes' /\ ChainedInv' /\ NumberInv' /\ LeaveInv' /\ NestInv' /\ RootInv'
    BY <1>1, <1>2, <1>4, <2>1, <2>2
    DEF SliceTypes, ForestInv, ChainedInv, NumberInv, LeaveInv, NestInv, RootInv, slice, links
  <2>4. HeadInv'
    BY <1>1, <1>2, <1>4, <2>1, <2>2 DEF ForestInv, HeadInv, IsLast, slice, links
  <2>5. WalkInv'
    BY <1>1, <1>3, <2>1, <2>2 DEF WalkInv, Walking, slice
  <2> QED BY <1>1, <2>3, <2>4, <2>5 DEF SliceInv, ForestInv
<1>6. CASE enter[at] = 0
  <2>1. /\ clock' = clock + 1 /\ seen' = seen + 1
        /\ enter' = [enter EXCEPT ![at] = clock + 1]
        /\ at \notin Entered
    BY <1>3, <1>6 DEF Visit, Entered
  <2>2. clock \in Nat /\ seen \in Nat /\ enter \in [Buckets -> Nat] /\ leave \in [Buckets -> Nat]
    BY <1>2 DEF SliceTypes
  <2>3. /\ enter'[at] = clock + 1 /\ \A b \in Buckets : b # at => enter'[b] = enter[b]
        /\ Entered' = Entered \cup {at}
    BY <1>3, <2>1, <2>2 DEF Entered
  <2>4. SliceTypes'
    <3>1. enter' \in [Buckets -> Nat] BY <1>3, <2>1, <2>2
    <3>2. clock' \in Nat /\ seen' \in Nat BY <2>1, <2>2
    <3> QED BY <1>1, <1>2, <3>1, <3>2 DEF SliceTypes, slice, links
  <2>5. LeaveInv /\ NumberInv /\ NestInv /\ RootInv /\ HeadInv /\ ChainedInv
    BY <1>2 DEF ForestInv
  <2>6. leave[at] = 0 /\ \A b \in Buckets : leave[b] # 0 => leave[b] <= clock
    BY <1>3, <2>1, <2>5 DEF LeaveInv
  <2>7. /\ \A b \in Buckets : Open(b) => b \in Entered /\ b # at
        /\ Open(at)'
        /\ \A b \in Buckets : b # at => (Open(b)' <=> Open(b))
    BY <1>1, <1>3, <2>1, <2>3, <2>6 DEF Open
  <2>8. next[at] # Size => Open(next[at]) /\ next[at] # at /\ next[at] \in Buckets
                           /\ enter[next[at]] <= clock
    BY <1>3, <2>1, <2>5 DEF WalkInv, Open, Entered, NumberInv
  <2>9. HeadInv'
    BY <1>1, <1>4, <2>3, <2>5 DEF HeadInv, IsLast, slice, links
  <2>10. NumberInv'
    <3>1. Cardinality(Entered') = Cardinality(Entered) + 1
      BY <1>2, <2>1, <2>3, FiniteSlice, FS_AddElement
    <3>2. clock' = seen' /\ seen' = Cardinality(Entered') /\ Entered' \subseteq occupied'
      BY <1>1, <1>3, <2>1, <2>3, <2>5, <3>1 DEF NumberInv, slice
    <3>3. ASSUME NEW b \in Entered'
          PROVE  /\ enter'[b] <= clock'
                 /\ next[b] # Size => next[b] \in Entered' /\ enter'[next[b]] < enter'[b]
      <4>1. CASE b = at
        BY <2>1, <2>2, <2>3, <2>8, <4>1 DEF Open
      <4>2. CASE b # at
        <5>1. b \in Entered /\ enter'[b] = enter[b] /\ b \in Buckets
          BY <2>3, <4>2 DEF Entered
        <5>2. /\ enter[b] <= clock
              /\ next[b] # Size => next[b] \in Entered /\ next[b] \in Buckets /\ next[b] # at
                                   /\ enter[next[b]] < enter[b]
          BY <2>1, <2>5, <5>1 DEF NumberInv, Entered
        <5> QED BY <2>1, <2>2, <2>3, <5>1, <5>2
      <4> QED BY <4>1, <4>2
    <3>4. \A b, c \in Entered' : enter'[b] = enter'[c] => b = c
      <4>1. \A b \in Entered : b \in Buckets /\ enter[b] <= clock /\ enter[b] \in Nat
        BY <2>2, <2>5 DEF NumberInv, Entered
      <4> QED BY <2>1, <2>2, <2>3, <2>5, <4>1 DEF NumberInv
    <3> QED BY <1>1, <3>2, <3>3, <3>4 DEF NumberInv, slice
  <2>11. LeaveInv'
    <3> SUFFICES ASSUME NEW b \in Buckets, leave[b] # 0
                 PROVE  /\ b \in Entered' /\ head[b] = 0
                        /\ enter'[b] <= leave[b] /\ leave[b] <= clock'
                        /\ \A c \in Kids(b) : leave[c] # 0 /\ leave[c] <= leave[b]
      BY <1>1, <1>4 DEF LeaveInv, links
    <3> QED BY <2>1, <2>2, <2>3, <2>5, <2>6 DEF LeaveInv
  <2>12. NestInv'
    <3> SUFFICES ASSUME NEW a \in Entered', NEW b \in Entered',
                        enter'[b] < enter'[a], leave[b] = 0 \/ enter'[a] <= leave[b]
                 PROVE  next[a] # Size /\ enter'[b] <= enter'[next[a]]
      BY <1>1 DEF NestInv, slice
    <3>1. a \in Buckets /\ b \in Buckets /\ enter[a] \in Nat /\ enter[b] \in Nat /\ leave[b] \in Nat
      BY <2>2, <2>3, <1>3 DEF Entered
    <3>2. b # at
      <4>1. b = at => a # at /\ a \in Entered
        BY <2>1, <2>2, <2>3, <3>1
      <4>2. a \in Entered => enter[a] <= clock
        BY <2>5 DEF NumberInv
      <4> QED BY <2>2, <2>3, <3>1, <4>1, <4>2
    <3>3. b \in Entered /\ enter'[b] = enter[b]
      BY <2>3, <3>1, <3>2
    <3>4. CASE a = at
      <4>1. Open(b)
        BY <2>2, <2>3, <2>6, <3>1, <3>3, <3>4 DEF Open
      <4>2. next[at] # Size /\ enter[b] <= enter[next[at]]
        BY <1>3, <2>1, <3>1, <4>1 DEF WalkInv
      <4> QED BY <2>3, <2>8, <3>3, <3>4, <4>2
    <3>5. CASE a # at
      <4>1. a \in Entered /\ enter'[a] = enter[a]
        BY <2>3, <3>1, <3>5
      <4>2. next[a] # Size /\ enter[b] <= enter[next[a]]
        BY <2>5, <3>3, <4>1 DEF NestInv
      <4>3. next[a] \in Entered /\ next[a] \in Buckets /\ next[a] # at
        BY <2>1, <2>5, <4>1, <4>2 DEF NumberInv, Entered
      <4> QED BY <2>3, <3>3, <4>2, <4>3
    <3> QED BY <3>4, <3>5
  <2>13. RootInv'
    BY <1>1, <1>3, <2>1, <2>3, <2>5 DEF RootInv, WalkInv, slice
  <2>14. WalkInv'
    <3>1. \A b \in Buckets : Open(b)' => b = root \/ Open(next[b])'
      <4> TAKE b \in Buckets
      <4>1. CASE b = at
        <5>1. at = root \/ Open(next[at])
          BY <1>3, <2>1 DEF WalkInv
        <5>2. Open(next[at]) => next[at] \in Buckets /\ next[at] # at
          BY <2>1 DEF Open, Entered
        <5>3. Open(next[at]) => Open(next[at])'
          BY <1>1, <2>7, <5>2 DEF slice
        <5> QED BY <1>1, <4>1, <5>1, <5>3
      <4>2. CASE b # at
        <5>1. Open(b) => b = root \/ Open(next[b])
          BY <1>3 DEF WalkInv
        <5>2. Open(next[b]) => next[b] \in Buckets
          BY DEF Open, Entered
        <5>3. Open(next[b]) => Open(next[b])'
          BY <1>1, <2>7, <5>2 DEF slice
        <5> QED BY <2>7, <4>2, <5>1, <5>3
      <4> QED BY <4>1, <4>2
    <3>2. \A b \in Buckets : Open(b)' => enter'[b] <= enter'[at]
      <4>1. \A b \in Buckets : Open(b) => enter[b] <= clock /\ enter[b] \in Nat
        BY <2>2, <2>5 DEF NumberInv, Open
      <4> QED BY <2>2, <2>3, <2>7, <4>1
    <3> QED BY <1>1, <1>3, <2>3, <2>7, <3>1, <3>2 DEF WalkInv, Walking, slice
  <2>15. ChainedInv'
    BY <1>1, <2>5 DEF ChainedInv, slice
  <2> QED BY <1>1, <2>4, <2>9, <2>10, <2>11, <2>12, <2>13, <2>14, <2>15 DEF SliceInv, ForestInv
<1> QED BY <1>3, <1>5, <1>6
LEMMA DescendKeeps ==
  ASSUME SliceInv, Descend
  PROVE  SliceInv'
<1> USE SizeAssumption DEF Buckets
<1> DEFINE h == head[at] - 1
<1>1. /\ pc = "move" /\ pc' = "visit" /\ head[at] # 0 /\ at' = h
      /\ head' = [head EXCEPT ![at] = sibling[h]]
      /\ UNCHANGED <<slice, sibling, visits, root>>
  BY DEF Descend
<1>2. SliceTypes /\ ForestInv
  BY <1>1 DEF SliceInv
<1>3. WalkInv /\ at \in occupied /\ at \in Buckets /\ at \in Entered /\ Walking
  BY <1>1, <1>2 DEF ForestInv, WalkInv, Walking, SliceTypes
<1>4. /\ \A n : Kids(n)' = Kids(n) /\ Open(n)' = Open(n)
      /\ Entered' = Entered
  BY <1>1 DEF slice, visits, Kids, Open, Entered
<1>5. HeadInv /\ LeaveInv /\ NumberInv
  BY <1>2 DEF ForestInv
<1>6. h \in Kids(at) /\ h \in occupied /\ h \in Buckets /\ next[h] = at /\ at # Size
  BY <1>1, <1>2, <1>3, <1>5 DEF HeadInv, Kids, SliceTypes
<1>7. h \notin Entered
  <2>1. head[at] \in 0..Size BY <1>2, <1>3 DEF SliceTypes
  <2>2. ~(head[at] <= h) BY <2>1
  <2> QED BY <1>1, <1>5, <1>6, <2>2 DEF HeadInv
<1>8. IsLast(sibling[h], at, h) /\ sibling[h] \in 0..Size /\ head \in [Buckets -> 0..Size]
  BY <1>2, <1>5, <1>6 DEF HeadInv, SliceTypes
<1>9. SliceTypes'
  <2>1. head' \in [Buckets -> 0..Size]
    BY <1>1, <1>3, <1>8
  <2>2. at' \in 0..Size
    BY <1>1, <1>6
  <2> QED BY <1>1, <1>2, <2>1, <2>2 DEF SliceTypes, slice, visits
<1>10. ChainedInv' /\ NumberInv' /\ NestInv' /\ RootInv'
  BY <1>1, <1>2, <1>4 DEF ForestInv, ChainedInv, NumberInv, NestInv, RootInv, slice, visits
<1>11. LeaveInv'
  <2>1. \A b \in Buckets : leave[b] # 0 => b # at
    BY <1>3 DEF WalkInv, Open
  <2>2. \A b \in Buckets : b # at => head'[b] = head[b]
    BY <1>1, <1>8
  <2> QED BY <1>1, <1>4, <1>5, <2>1, <2>2 DEF LeaveInv, visits
<1>12. HeadInv'
  <2>1. \A n \in occupied : head'[n] # 0 => head'[n] - 1 \in Kids(n)
    BY <1>1, <1>2, <1>5, <1>8 DEF HeadInv, IsLast, SliceTypes
  <2>2. ASSUME NEW c \in occupied, next[c] # Size
        PROVE  head'[next[c]] <= c <=> c \in Entered \/ c = h
    <3>1. head[next[c]] <= c <=> c \in Entered
      BY <1>1, <1>5, <2>2 DEF HeadInv
    <3>2. next[c] \in Buckets /\ c \in Buckets
      BY <1>2, <2>2 DEF ForestInv, ChainedInv, SliceTypes
    <3>3. CASE next[c] # at
      BY <1>1, <1>6, <1>8, <3>1, <3>2, <3>3
    <3>4. CASE next[c] = at
      <4>1. c \in Kids(at) /\ head'[at] = sibling[h] /\ head[at] \in 0..Size
        BY <1>1, <1>3, <1>8, <2>2, <3>4 DEF Kids
      <4>2. CASE c < h
        BY <1>6, <1>8, <3>1, <3>2, <3>4, <4>1, <4>2 DEF IsLast
      <4>3. CASE c = h
        BY <1>6, <1>8, <3>2, <3>4, <4>1, <4>3 DEF IsLast
      <4>4. CASE h < c
        BY <1>6, <1>8, <3>1, <3>2, <3>4, <4>1, <4>4 DEF IsLast
      <4> QED BY <1>6, <3>2, <4>2, <4>3, <4>4
    <3> QED BY <3>3, <3>4
  <2>3. \A c \in occupied : next[c] # Size => IsLast(sibling[c], next[c], c)
    BY <1>5 DEF HeadInv
  <2> HIDE DEF h
  <2> QED BY <1>1, <1>4, <2>1, <2>2, <2>3 DEF HeadInv, IsLast, slice
<1>13. WalkInv'
  <2> HIDE DEF h
  <2> QED BY <1>1, <1>3, <1>4, <1>6, <1>7 DEF WalkInv, Walking, slice, visits
<1> QED BY <1>1, <1>9, <1>10, <1>11, <1>12, <1>13 DEF SliceInv, ForestInv

LEMMA AscendKeeps ==
  ASSUME SliceInv, Ascend
  PROVE  SliceInv'
<1> USE SizeAssumption DEF Buckets
<1>1. /\ pc = "move" /\ head[at] = 0
      /\ leave' = [leave EXCEPT ![at] = clock]
      /\ UNCHANGED <<slice, links, enter, clock, seen>>
  BY DEF Ascend
<1>2. SliceTypes /\ ForestInv
  BY <1>1 DEF SliceInv
<1>3. WalkInv /\ at \in occupied /\ at \in Buckets /\ at \in Entered /\ Open(at) /\ Walking
  BY <1>1, <1>2 DEF ForestInv, WalkInv, Walking, SliceTypes
<1>4. Entered' = Entered /\ \A n : Kids(n)' = Kids(n)
  BY <1>1 DEF slice, Kids, Entered
<1>5. HeadInv /\ LeaveInv /\ NumberInv /\ NestInv /\ RootInv /\ ChainedInv
  BY <1>2 DEF ForestInv
<1>6. /\ clock \in Nat /\ leave \in [Buckets -> Nat] /\ enter \in [Buckets -> Nat]
      /\ root \in 0..Size /\ next \in [Buckets -> 0..Size + 1] /\ occupied \subseteq Buckets
      /\ head \in [Buckets -> 0..Size]
  BY <1>2 DEF SliceTypes
<1>7. enter[at] # 0 /\ enter[at] <= clock /\ clock # 0
  BY <1>3, <1>5, <1>6 DEF Entered, NumberInv
<1>8. leave'[at] = clock /\ \A b \in Buckets : b # at => leave'[b] = leave[b]
  BY <1>1, <1>3, <1>6
<1>9. \A b \in Buckets : Open(b)' <=> Open(b) /\ b # at
  <2>1. leave'[at] # 0 BY <1>7, <1>8
  <2>2. ASSUME NEW b \in Buckets, b # at PROVE Open(b)' <=> Open(b)
    BY <1>4, <1>8, <2>2 DEF Open
  <2>3. ASSUME NEW b \in Buckets, b = at PROVE ~Open(b)'
    BY <2>1, <2>3 DEF Open
  <2> QED BY <2>2, <2>3
<1>10. \A c \in Kids(at) : c \in Entered /\ c \in Buckets /\ leave[c] # 0 /\ leave[c] <= clock
  <2> SUFFICES ASSUME NEW c \in Kids(at) PROVE c \in Entered /\ c \in Buckets /\ leave[c] # 0 /\ leave[c] <= clock
    OBVIOUS
  <2>1. c \in occupied /\ c \in Buckets /\ next[c] = at /\ at # Size
    BY <1>3, <1>6 DEF Kids
  <2>2. c \in Entered
    BY <1>1, <1>5, <2>1 DEF HeadInv
  <2>3. enter[at] < enter[c]
    BY <1>5, <2>1, <2>2 DEF NumberInv
  <2>4. ~Open(c)
    BY <1>3, <1>6, <2>1, <2>3 DEF WalkInv
  <2> QED BY <1>5, <2>1, <2>2, <2>4 DEF Open, LeaveInv
<1>11. ChainedInv' /\ NumberInv'
  BY <1>1, <1>4, <1>5 DEF ChainedInv, NumberInv, slice
<1>12. LeaveInv'
  <2> SUFFICES ASSUME NEW b \in Buckets, leave'[b] # 0
               PROVE  /\ b \in Entered /\ head[b] = 0
                      /\ enter[b] <= leave'[b] /\ leave'[b] <= clock
                      /\ \A c \in Kids(b) : leave'[c] # 0 /\ leave'[c] <= leave'[b]
    BY <1>1, <1>4 DEF LeaveInv, links
  <2>1. \A c \in Kids(b) : c \in Buckets
    BY <1>6 DEF Kids
  <2>2. CASE b = at
    <3>1. \A c \in Kids(at) : c # at
      BY <1>3, <1>10 DEF Open
    <3>2. \A c \in Kids(at) : leave'[c] = leave[c]
      BY <1>8, <1>10, <3>1
    <3>3. \A c \in Kids(at) : leave'[c] # 0 /\ leave'[c] <= clock
      BY <1>10, <3>2
    <3>4. enter[at] <= clock /\ clock <= clock
      BY <1>6, <1>7
    <3> QED BY <1>1, <1>3, <1>8, <2>2, <3>3, <3>4
  <2>3. CASE b # at
    <3>1. leave'[b] = leave[b] /\ leave[b] # 0
      BY <1>8, <2>3
    <3>2. \A c \in Kids(b) : c # at
      BY <1>3, <1>5, <3>1 DEF LeaveInv, Open
    <3> QED BY <1>5, <1>8, <2>1, <3>1, <3>2 DEF LeaveInv
  <2> QED BY <2>2, <2>3
<1>13. NestInv'
  <2> SUFFICES ASSUME NEW a \in Entered, NEW b \in Entered,
                      enter[b] < enter[a], leave'[b] = 0 \/ enter[a] <= leave'[b]
               PROVE  next[a] # Size /\ enter[b] <= enter[next[a]]
    BY <1>1, <1>4 DEF NestInv, slice
  <2>1. b = at => leave[b] = 0
    BY <1>3 DEF Open
  <2>2. b # at => leave'[b] = leave[b]
    BY <1>8 DEF Entered
  <2> QED BY <1>5, <2>1, <2>2 DEF NestInv
<1>14. CASE at = root
  <2>1. root' = root + 1 /\ pc' = "roots" /\ at' = at
    BY <1>14 DEF Ascend
  <2>2. root < Size /\ root + 1 \in 0..Size
    BY <1>3, <1>6, <1>14
  <2>3. \A b \in Buckets : ~Open(b)'
    <3> SUFFICES ASSUME NEW b \in Buckets, Open(b), b # at PROVE FALSE
      BY <1>9
    <3>1. b \in Entered /\ enter[b] <= enter[at] /\ enter[b] # enter[at] /\ leave[b] = 0
      BY <1>3, <1>5 DEF WalkInv, Open, NumberInv
    <3>2. enter[b] < enter[at]
      BY <1>3, <1>6, <3>1
    <3>3. next[at] # Size
      BY <1>3, <1>5, <3>1, <3>2 DEF NestInv
    <3> QED BY <1>3, <1>14, <3>3 DEF WalkInv
  <2>4. SliceTypes'
    <3>1. leave' \in [Buckets -> Nat] BY <1>1, <1>3, <1>6
    <3> QED BY <1>1, <1>2, <2>1, <2>2, <3>1 DEF SliceTypes, slice, links
  <2>5. WalkInv'
    BY <2>1, <2>3 DEF WalkInv, Walking
  <2>6. RootInv'
    <3> SUFFICES ASSUME NEW r \in occupied, next[r] = Size
                 PROVE  /\ r # root + 1 => (r \in Entered <=> r < root + 1)
                        /\ r = root + 1 => r \notin Entered
      BY <1>1, <1>4, <2>1 DEF RootInv, slice
    <3>1. r \in Nat /\ root \in Nat
      BY <1>6
    <3>2. CASE r = root
      BY <1>3, <1>14, <3>1, <3>2
    <3>3. CASE r # root
      <4>1. r \in Entered <=> r < root BY <1>5, <3>3 DEF RootInv
      <4> QED BY <3>1, <3>3, <4>1
    <3> QED BY <3>2, <3>3
  <2>7. HeadInv'
    BY <1>1, <1>4, <1>5, <2>1 DEF HeadInv, IsLast, slice, links
  <2> QED BY <1>11, <1>12, <1>13, <2>1, <2>4, <2>5, <2>6, <2>7 DEF SliceInv, ForestInv
<1>15. CASE at # root
  <2> DEFINE p == next[at]
  <2>1. root' = root /\ pc' = "visit" /\ at' = p
    BY <1>15 DEF Ascend
  <2>2. Open(p) /\ p \in Entered /\ p \in Buckets /\ p # Size /\ p \in occupied
    BY <1>3, <1>5, <1>15 DEF WalkInv, Open, Entered, NumberInv
  <2>3. enter[p] < enter[at] /\ p # at /\ p \in 0..Size
    <3>1. enter[p] < enter[at]
      BY <1>3, <1>5, <2>2 DEF NumberInv
    <3>2. enter[at] \in Nat
      BY <1>3, <1>6
    <3> QED BY <2>2, <3>1, <3>2
  <2>4. SliceTypes'
    <3>1. leave' \in [Buckets -> Nat] BY <1>1, <1>3, <1>6
    <3> HIDE DEF p
    <3> QED BY <1>1, <1>2, <2>1, <2>3, <3>1 DEF SliceTypes, slice, links
  <2>5. \A b \in Buckets : Open(b)' => enter[b] <= enter[p]
    <3> SUFFICES ASSUME NEW b \in Buckets, Open(b), b # at PROVE enter[b] <= enter[p]
      BY <1>9
    <3>1. b \in Entered /\ enter[b] <= enter[at] /\ enter[b] # enter[at] /\ leave[b] = 0
      BY <1>3, <1>5 DEF WalkInv, Open, NumberInv
    <3>2. enter[b] < enter[at]
      BY <1>3, <1>6, <3>1
    <3> QED BY <1>3, <1>5, <3>1, <3>2 DEF NestInv
  <2>6. \A b \in Buckets : Open(b)' => b = root \/ Open(next[b])'
    <3> SUFFICES ASSUME NEW b \in Buckets, Open(b), b # at, b # root PROVE Open(next[b])'
      BY <1>9
    <3>1. Open(next[b]) /\ next[b] \in Buckets
      BY <1>3 DEF WalkInv, Open, Entered
    <3>2. next[b] # at
      BY <1>5, <1>10 DEF Open, NumberInv, Kids
    <3>3. next' = next
      BY <1>1 DEF slice
    <3> QED BY <1>9, <3>1, <3>2, <3>3
  <2>7. WalkInv'
    <3> HIDE DEF p
    <3>1. \A b \in Buckets : b = p => Open(b)'
      BY <1>9, <2>2, <2>3
    <3>2. p \in Entered' BY <1>4, <2>2
    <3>3. UNCHANGED <<occupied, next, enter, root>> BY <1>1, <2>1 DEF slice
    <3>4. root \in occupied /\ next[root] = Size BY <1>3 DEF WalkInv
    <3>5. Open(at)'
      <4>1. \A b \in Buckets : b = at' => Open(b)' BY <2>1, <3>1
      <4> QED BY <2>1, <2>2, <4>1 DEF Open
    <3> QED BY <2>1, <2>2, <2>5, <2>6, <3>2, <3>3, <3>4, <3>5 DEF WalkInv, Walking
  <2>8. RootInv'
    BY <1>1, <1>4, <1>5, <2>1 DEF RootInv, slice
  <2>9. HeadInv'
    BY <1>1, <1>4, <1>5, <2>1, <2>2 DEF HeadInv, IsLast, slice, links
  <2> QED BY <1>11, <1>12, <1>13, <2>1, <2>4, <2>7, <2>8, <2>9 DEF SliceInv, ForestInv
<1> QED BY <1>14, <1>15

LEMMA DecideKeeps ==
  ASSUME SliceInv, Decide
  PROVE  SliceInv'
<1> USE SizeAssumption DEF Buckets
<1>1. /\ pc = "roots" /\ root = Size
      /\ pc' = IF seen = Cardinality(occupied) THEN "accepted" ELSE "rejected"
      /\ UNCHANGED <<slice, links, visits, root, at>>
  BY DEF Decide
<1>2. SliceTypes /\ ForestInv
  BY <1>1 DEF SliceInv
<1>3. /\ ChainedInv /\ HeadInv /\ LeaveInv /\ NumberInv /\ NestInv /\ RootInv
      /\ \A b \in Buckets : ~Open(b)
  BY <1>1, <1>2 DEF ForestInv, WalkInv
<1>4. SliceTypes'
  BY <1>1, <1>2 DEF SliceTypes, slice, links, visits
<1>5. Entered' = Entered /\ \A n : Kids(n)' = Kids(n) /\ Open(n)' = Open(n)
  BY <1>1 DEF slice, visits, Kids, Entered, Open
<1>6. CASE seen = Cardinality(occupied)
  <2>1. Entered = occupied
    BY <1>2, <1>3, <1>6, FiniteSlice, FS_Subset DEF NumberInv
  <2>2. AcceptInv'
    BY <1>1, <1>3, <1>5, <2>1
    DEF AcceptInv, ChainedInv, NumberInv, LeaveInv, NestInv, slice, links, visits
  <2> QED BY <1>1, <1>4, <1>6, <2>2 DEF SliceInv
<1>7. CASE seen # Cardinality(occupied)
  <2> DEFINE S == occupied \ Entered
  <2>1. S # {}
    BY <1>3, <1>7 DEF NumberInv
  <2>2. ASSUME NEW b \in S PROVE next[b] \in S
    <3>1. b \in Buckets /\ b # Size /\ b < Size
      BY <1>2 DEF SliceTypes
    <3>2. next[b] # Size
      BY <1>1, <1>3, <3>1 DEF RootInv
    <3>3. next[b] \in occupied /\ next[b] \in Buckets
      BY <1>2, <1>3, <3>2 DEF ChainedInv, SliceTypes
    <3>4. next[b] \in Entered => leave[next[b]] # 0
      BY <1>3, <3>3 DEF Open
    <3>5. next[b] \in Entered => head[next[b]] = 0
      BY <1>3, <3>3, <3>4 DEF LeaveInv
    <3>6. next[b] \in Entered => b \in Entered
      BY <1>1, <1>3, <3>1, <3>2, <3>5 DEF HeadInv
    <3> QED BY <3>3, <3>6
  <2>3. RejectInv'
    BY <1>1, <2>1, <2>2 DEF RejectInv, slice
  <2> QED BY <1>1, <1>4, <1>7, <2>3 DEF SliceInv
<1> QED BY <1>6, <1>7
-----------------------------------------------------------------------------
(* Walks over a slice.                                                     *)

\* w goes along the chain of a until it comes to a bucket of stop
IsWalk(w, a, stop) ==
  /\ w \in [0..Size -> Nat]
  /\ w[0] = a
  /\ \A n \in 0..Size - 1 :
       w[n + 1] = IF w[n] \in occupied \ stop THEN next[w[n]] ELSE w[n]

LEMMA WalkExists ==
  ASSUME SliceTypes, NEW a \in Nat, NEW stop
  PROVE  \E w : IsWalk(w, a, stop)
<1> USE SizeAssumption DEF Buckets
<1> DEFINE s == [x \in Nat |-> IF x \in occupied \ stop THEN next[x] ELSE x]
<1>1. s \in [Nat -> Nat]
  BY DEF SliceTypes
<1>2. HasWalk(Nat, s, a, Size)
  <2> HIDE DEF s
  <2> QED BY <1>1, Walks
<1>3. PICK w \in [0..Size -> Nat] : w[0] = a /\ \A n \in 0..Size - 1 : w[n + 1] = s[w[n]]
  BY <1>2 DEF HasWalk
<1>4. \A n \in 0..Size - 1 : w[n + 1] = IF w[n] \in occupied \ stop THEN next[w[n]] ELSE w[n]
  <2> TAKE n \in 0..Size - 1
  <2>1. n \in 0..Size /\ w[n] \in Nat
    BY <1>3
  <2> QED BY <1>3, <2>1
<1> QED BY <1>3, <1>4 DEF IsWalk

\* Walks are what the recursive definitions define.
LEMMA WalkForm ==
  ASSUME SliceTypes, NEW a \in Nat, NEW stop, NEW i
  PROVE  i = [n \in 0..Size |->
                IF n = 0 THEN a
                ELSE IF i[n - 1] \in occupied \ stop THEN next[i[n - 1]] ELSE i[n - 1]]
         <=> IsWalk(i, a, stop)
<1> USE SizeAssumption DEF Buckets
<1>1. ASSUME IsWalk(i, a, stop)
      PROVE  i = [n \in 0..Size |->
                    IF n = 0 THEN a
                    ELSE IF i[n - 1] \in occupied \ stop THEN next[i[n - 1]] ELSE i[n - 1]]
  <2>1. ASSUME NEW n \in 0..Size, n # 0
        PROVE  i[n] = IF i[n - 1] \in occupied \ stop THEN next[i[n - 1]] ELSE i[n - 1]
    <3>1. n - 1 \in 0..Size - 1 /\ (n - 1) + 1 = n BY <2>1
    <3> QED BY <1>1, <3>1 DEF IsWalk
  <2> QED BY <1>1, <2>1 DEF IsWalk
<1>2. ASSUME i = [n \in 0..Size |->
                    IF n = 0 THEN a
                    ELSE IF i[n - 1] \in occupied \ stop THEN next[i[n - 1]] ELSE i[n - 1]]
      PROVE  IsWalk(i, a, stop)
  <2>1. i[0] = a
    BY <1>2
  <2>2. \A n \in 0..Size - 1 :
          i[n + 1] = IF i[n] \in occupied \ stop THEN next[i[n]] ELSE i[n]
    <3> TAKE n \in 0..Size - 1
    <3>1. n + 1 \in 0..Size /\ n + 1 # 0 /\ (n + 1) - 1 = n
      OBVIOUS
    <3> QED BY <1>2, <3>1
  <2>3. i \in [0..Size -> Nat]
    <3> DEFINE A == {n \in 0..Size : i[n] \in Nat}
    <3>1. 0 \in A
      BY <2>1
    <3>2. ASSUME NEW n \in 0..Size - 1, n \in A PROVE n + 1 \in A
      <4>1. i[n] \in Nat /\ (i[n] \in occupied => next[i[n]] \in Nat)
        BY <3>2 DEF SliceTypes
      <4>2. i[n + 1] \in Nat
        BY <2>2, <4>1
      <4> QED BY <4>2
    <3>3. 0..Size \subseteq A
      <4> HIDE DEF A
      <4> QED BY <3>1, <3>2, Upward
    <3>4. i = [n \in 0..Size |-> i[n]]
      BY <1>2
    <3> QED BY <3>3, <3>4
  <2> QED BY <2>1, <2>2, <2>3 DEF IsWalk
<1> QED BY <1>1, <1>2

\* A lookup is a walk that the name it looks for stops.
LEMMA SearchIs ==
  ASSUME SliceTypes, NEW a \in Nat, NEW b
  PROVE  \E w : IsWalk(w, a, {b}) /\ Search(a, b) = w[Size]
<1> DEFINE i == CHOOSE i : i = [n \in 0..Size |->
                  IF n = 0 THEN a
                  ELSE IF i[n - 1] \in occupied \ {b} THEN next[i[n - 1]] ELSE i[n - 1]]
<1>1. PICK w : IsWalk(w, a, {b})
  BY WalkExists
<1>2. w = [n \in 0..Size |->
             IF n = 0 THEN a
             ELSE IF w[n - 1] \in occupied \ {b} THEN next[w[n - 1]] ELSE w[n - 1]]
  BY <1>1, WalkForm
<1>3. i = [n \in 0..Size |->
             IF n = 0 THEN a
             ELSE IF i[n - 1] \in occupied \ {b} THEN next[i[n - 1]] ELSE i[n - 1]]
  BY <1>2
<1>4. Search(a, b) = i[Size]
  BY DEF Search
<1>5. IsWalk(i, a, {b})
  <2> HIDE DEF i
  <2> QED BY <1>3, WalkForm
<1> QED BY <1>4, <1>5

\* The walk of validatePlan goes on.
LEMMA PlanWalkIs ==
  ASSUME SliceTypes, NEW a \in Nat
  PROVE  IsWalk(PlanWalk(a), a, {})
<1> DEFINE i == CHOOSE i : i = [n \in 0..Size |->
                  IF n = 0 THEN a ELSE IF i[n - 1] \in occupied THEN next[i[n - 1]] ELSE i[n - 1]]
<1>0. occupied \ {} = occupied
  OBVIOUS
<1>1. PICK w : IsWalk(w, a, {})
  BY WalkExists
<1>2. w = [n \in 0..Size |->
             IF n = 0 THEN a
             ELSE IF w[n - 1] \in occupied \ {} THEN next[w[n - 1]] ELSE w[n - 1]]
  BY <1>1, WalkForm
<1>3. i = [n \in 0..Size |->
             IF n = 0 THEN a ELSE IF i[n - 1] \in occupied THEN next[i[n - 1]] ELSE i[n - 1]]
  BY <1>0, <1>2
<1>4. i = [n \in 0..Size |->
             IF n = 0 THEN a
             ELSE IF i[n - 1] \in occupied \ {} THEN next[i[n - 1]] ELSE i[n - 1]]
  BY <1>0, <1>3
<1>5. PlanWalk(a) = i
  BY DEF PlanWalk
<1>6. IsWalk(i, a, {})
  <2> HIDE DEF i
  <2> QED BY <1>4, WalkForm
<1> QED BY <1>5, <1>6

-----------------------------------------------------------------------------
(* An accepted slice.                                                      *)

\* the interval test alone: b is on the way from a
Covers(b, a) == enter[b] <= enter[a] /\ enter[a] <= leave[b]

\* What the numbers say of an entry, and of the next one of its chain.
LEMMA AcceptedEntry ==
  ASSUME SliceTypes, AcceptInv, NEW a \in occupied
  PROVE  /\ a \in Buckets /\ enter[a] \in 1..Size /\ leave[a] \in Nat /\ Covers(a, a)
         /\ next[a] # Size => /\ next[a] \in occupied
                              /\ enter[next[a]] < enter[a] /\ leave[a] <= leave[next[a]]
<1> USE SizeAssumption DEF Buckets
<1>1. a \in Buckets /\ a \in Entered /\ ~Open(a) /\ enter[a] \in Nat /\ leave[a] \in Nat
  BY DEF SliceTypes, AcceptInv
<1>2. clock <= Size
  <2>1. Entered \in SUBSET Buckets /\ IsFiniteSet(Buckets) /\ Cardinality(Buckets) = Size
    BY FS_Interval DEF Entered
  <2>2. Cardinality(Entered) <= Cardinality(Buckets)
    BY <2>1, FS_Subset
  <2> QED BY <2>1, <2>2 DEF AcceptInv, NumberInv
<1>3. enter[a] # 0 /\ enter[a] <= clock /\ clock \in Nat
  BY <1>1 DEF AcceptInv, NumberInv, Entered, SliceTypes
<1>4. leave[a] # 0 /\ enter[a] <= leave[a]
  BY <1>1 DEF Open, AcceptInv, LeaveInv
<1>5. ASSUME next[a] # Size
      PROVE  /\ next[a] \in occupied /\ enter[next[a]] < enter[a] /\ leave[a] <= leave[next[a]]
  <2>1. next[a] \in occupied /\ next[a] \in Buckets /\ enter[next[a]] < enter[a]
    BY <1>1, <1>5 DEF AcceptInv, ChainedInv, NumberInv, SliceTypes
  <2>2. leave[next[a]] # 0
    BY <2>1 DEF AcceptInv, Open
  <2>3. a \in Kids(next[a])
    BY DEF Kids
  <2> QED BY <2>1, <2>2, <2>3 DEF AcceptInv, LeaveInv
<1> QED BY <1>1, <1>2, <1>3, <1>4, <1>5 DEF Covers

\* Whoever is covered and is not b itself has a next one that b covers too.
LEMMA CoveredMoves ==
  ASSUME SliceTypes, AcceptInv, NEW a \in occupied, NEW b \in occupied, Covers(b, a), a # b
  PROVE  next[a] # Size /\ next[a] \in occupied /\ Covers(b, next[a])
<1>1. enter[a] \in Nat /\ enter[b] \in Nat /\ leave[b] \in Nat
  BY AcceptedEntry
<1>2. enter[a] # enter[b] /\ a \in Entered /\ b \in Entered
  BY DEF AcceptInv, NumberInv
<1>3. enter[b] < enter[a] /\ enter[a] <= leave[b]
  BY <1>1, <1>2 DEF Covers
<1>4. next[a] # Size /\ enter[b] <= enter[next[a]]
  BY <1>2, <1>3 DEF AcceptInv, NestInv
<1>5. next[a] \in occupied /\ enter[next[a]] < enter[a] /\ enter[next[a]] \in Nat
  BY <1>4, AcceptedEntry
<1> QED BY <1>1, <1>3, <1>4, <1>5 DEF Covers

\* Every walk over an accepted slice ends, after Size steps at most.
LEMMA WalkEnds ==
  ASSUME SliceTypes, AcceptInv, NEW a \in Nat, NEW stop, NEW w, IsWalk(w, a, stop)
  PROVE  /\ w[Size] \notin occupied \ stop
         /\ a \in occupied => w[Size] \in occupied \cup {Size}
         /\ a \notin occupied => w[Size] = a
<1> USE SizeAssumption DEF Buckets
<1> DEFINE A == {n \in 0..Size : w[n] \in occupied \ stop => enter[w[n]] <= Size - n}
           B == {n \in 0..Size : w[n] \in occupied \cup {Size}}
           C == {n \in 0..Size : w[n] = a}
<1>1. w[0] = a /\ \A n \in 0..Size - 1 :
        w[n + 1] = IF w[n] \in occupied \ stop THEN next[w[n]] ELSE w[n]
  BY DEF IsWalk
<1>2. \A x \in occupied : enter[x] \in 1..Size
  BY AcceptedEntry
<1>3. 0..Size \subseteq A
  <2>1. 0 \in A
    BY <1>1, <1>2
  <2>2. ASSUME NEW n \in 0..Size - 1, n \in A PROVE n + 1 \in A
    <3> SUFFICES ASSUME w[n + 1] \in occupied \ stop PROVE enter[w[n + 1]] <= Size - (n + 1)
      OBVIOUS
    <3>1. w[n] \in occupied \ stop /\ w[n + 1] = next[w[n]]
      BY <1>1
    <3>2. w[n + 1] # Size
      BY DEF SliceTypes
    <3>3. enter[w[n + 1]] < enter[w[n]] /\ enter[w[n]] <= Size - n
      BY <2>2, <3>1, <3>2, AcceptedEntry
    <3> QED BY <1>2, <3>1, <3>3
  <2> HIDE DEF A
  <2> QED BY <2>1, <2>2, Upward
<1>4. a \in occupied => 0..Size \subseteq B
  <2> SUFFICES ASSUME a \in occupied PROVE 0..Size \subseteq B
    OBVIOUS
  <2>1. 0 \in B
    BY <1>1
  <2>2. ASSUME NEW n \in 0..Size - 1, n \in B PROVE n + 1 \in B
    <3>1. w[n] \in occupied => next[w[n]] \in occupied \cup {Size}
      BY AcceptedEntry
    <3>2. w[n + 1] = w[n] \/ (w[n] \in occupied /\ w[n + 1] = next[w[n]])
      BY <1>1
    <3> QED BY <2>2, <3>1, <3>2
  <2> HIDE DEF B
  <2> QED BY <2>1, <2>2, Upward
<1>5. a \notin occupied => 0..Size \subseteq C
  <2> SUFFICES ASSUME a \notin occupied PROVE 0..Size \subseteq C
    OBVIOUS
  <2>1. 0 \in C
    BY <1>1
  <2>2. \A n \in 0..Size - 1 : n \in C => n + 1 \in C
    BY <1>1
  <2> HIDE DEF C
  <2> QED BY <2>1, <2>2, Upward
<1>6. Size \in A
  BY <1>3
<1> QED BY <1>2, <1>4, <1>5, <1>6

\* A walk from a comes to b if and only if b covers a.
LEMMA WalkMeets ==
  ASSUME SliceTypes, AcceptInv, NEW a \in occupied, NEW b \in occupied,
         NEW stop \in SUBSET {b}, NEW w, IsWalk(w, a, stop)
  PROVE  Covers(b, a) <=> \E n \in 0..Size : w[n] = b
<1> USE SizeAssumption DEF Buckets
<1>1. w[0] = a /\ \A n \in 0..Size - 1 :
        w[n + 1] = IF w[n] \in occupied \ stop THEN next[w[n]] ELSE w[n]
  BY DEF IsWalk
<1>2. ASSUME Covers(b, a), \A n \in 0..Size : w[n] # b PROVE FALSE
  <2> DEFINE A == {n \in 0..Size : w[n] \in occupied /\ Covers(b, w[n])}
  <2>1. 0 \in A
    BY <1>1, <1>2
  <2>2. ASSUME NEW n \in 0..Size - 1, n \in A PROVE n + 1 \in A
    <3>1. w[n] # b /\ w[n] \in occupied /\ Covers(b, w[n])
      BY <1>2, <2>2
    <3>2. w[n + 1] = next[w[n]]
      BY <1>1, <3>1
    <3>3. next[w[n]] \in occupied /\ Covers(b, next[w[n]])
      BY <3>1, CoveredMoves
    <3> QED BY <3>2, <3>3
  <2>3. 0..Size \subseteq A
    <3> HIDE DEF A
    <3> QED BY <2>1, <2>2, Upward
  <2>4. a \in Nat
    BY DEF SliceTypes
  <2>5. w[Size] \in occupied /\ w[Size] # b
    BY <1>2, <2>3
  <2>6. w[Size] \notin occupied \ stop
    BY <2>4, WalkEnds
  <2> QED BY <2>5, <2>6
<1>3. ASSUME NEW m \in 0..Size, w[m] = b PROVE Covers(b, a)
  <2> DEFINE A == {n \in 0..Size : w[n] \in occupied => Covers(w[n], a)}
  <2>1. 0 \in A
    BY <1>1, AcceptedEntry
  <2>2. ASSUME NEW n \in 0..Size - 1, n \in A PROVE n + 1 \in A
    <3> SUFFICES ASSUME w[n + 1] \in occupied PROVE Covers(w[n + 1], a)
      OBVIOUS
    <3>1. CASE w[n + 1] = w[n]
      BY <2>2, <3>1
    <3>2. CASE w[n] \in occupied /\ w[n + 1] = next[w[n]]
      <4>0. Size \notin occupied
        BY DEF SliceTypes
      <4>1. next[w[n]] # Size
        BY <3>2, <4>0
      <4>2. enter[w[n + 1]] < enter[w[n]] /\ leave[w[n]] <= leave[w[n + 1]] /\ Covers(w[n], a)
        BY <2>2, <3>2, <4>1, AcceptedEntry
      <4>3. \A x \in occupied : enter[x] \in Nat /\ leave[x] \in Nat
        BY AcceptedEntry
      <4> QED BY <3>2, <4>2, <4>3 DEF Covers
    <3> QED BY <1>1, <3>1, <3>2
  <2>3. 0..Size \subseteq A
    <3> HIDE DEF A
    <3> QED BY <2>1, <2>2, Upward
  <2> QED BY <1>3, <2>3
<1> QED BY <1>2, <1>3
-----------------------------------------------------------------------------
(* The walk of fsck.                                                       *)

FsckStates == [at : 0..Size + 1, met : SUBSET Buckets, bad : BOOLEAN]
FsckStart(a) == [at |-> a, met |-> {}, bad |-> FALSE]

\* w goes as FsckStep says
IsFsckWalk(w, a, b) ==
  /\ w \in [0..Size + 1 -> FsckStates]
  /\ w[0] = FsckStart(a)
  /\ \A n \in 0..Size : w[n + 1] = FsckStep(w[n], b)

\* One round, in the four cases of the code.
LEMMA FsckRound ==
  ASSUME SliceTypes, NEW w \in FsckStates, NEW b
  PROVE  /\ FsckStep(w, b) \in FsckStates
         /\ w.at = Size => FsckStep(w, b) = w
         /\ w.bad => FsckStep(w, b).bad
         /\ w.at # Size /\ (w.at \in w.met \/ w.at \notin occupied) => FsckStep(w, b).bad
         /\ w.at # Size /\ w.at \notin w.met /\ w.at \in occupied =>
              /\ FsckStep(w, b).met = w.met \cup {w.at}
              /\ FsckStep(w, b).at = next[w.at]
              /\ FsckStep(w, b).bad = w.bad
<1> USE SizeAssumption DEF Buckets, FsckStates
<1>1. CASE w.at = Size
  BY <1>1 DEF FsckStep
<1>2. CASE w.at # Size /\ (w.at \in w.met \/ w.at \notin occupied)
  BY <1>2 DEF FsckStep
<1>3. CASE w.at # Size /\ w.at \notin w.met /\ w.at \in occupied
  <2>1. FsckStep(w, b) = [w EXCEPT !.met = w.met \cup {w.at}, !.at = next[w.at]]
    BY <1>3 DEF FsckStep
  <2>2. w.at \in Buckets /\ next[w.at] \in 0..Size + 1
    BY <1>3 DEF SliceTypes
  <2> QED BY <1>3, <2>1, <2>2
<1> QED BY <1>1, <1>2, <1>3

LEMMA FsckWalkIs ==
  ASSUME SliceTypes, NEW a \in occupied, NEW b
  PROVE  \E w : IsFsckWalk(w, a, b) /\ FsckWalk(a, b) = w[Size + 1]
<1> USE SizeAssumption
<1> DEFINE s == [x \in FsckStates |-> FsckStep(x, b)]
           i == CHOOSE i : i = [n \in 0..Size + 1 |->
                                  IF n = 0 THEN FsckStart(a) ELSE FsckStep(i[n - 1], b)]
<1>1. s \in [FsckStates -> FsckStates]
  BY FsckRound
<1>2. FsckStart(a) \in FsckStates
  BY DEF FsckStart, FsckStates, SliceTypes, Buckets
<1>3. HasWalk(FsckStates, s, FsckStart(a), Size + 1)
  <2> HIDE DEF s
  <2>1. Size + 1 \in Nat OBVIOUS
  <2> QED BY <1>1, <1>2, <2>1, Walks
<1>4. PICK w \in [0..Size + 1 -> FsckStates] :
        w[0] = FsckStart(a) /\ \A n \in 0..Size : w[n + 1] = FsckStep(w[n], b)
  <2>1. PICK w \in [0..Size + 1 -> FsckStates] :
          w[0] = FsckStart(a) /\ \A n \in 0..(Size + 1) - 1 : w[n + 1] = s[w[n]]
    BY <1>3 DEF HasWalk
  <2>2. ASSUME NEW n \in 0..Size PROVE w[n + 1] = FsckStep(w[n], b)
    <3>1. n \in 0..(Size + 1) - 1 /\ w[n] \in FsckStates
      BY <2>1
    <3> QED BY <2>1, <3>1
  <2> QED BY <2>1, <2>2
<1>5. w = [n \in 0..Size + 1 |-> IF n = 0 THEN FsckStart(a) ELSE FsckStep(w[n - 1], b)]
  <2>1. ASSUME NEW n \in 0..Size + 1, n # 0 PROVE w[n] = FsckStep(w[n - 1], b)
    <3>1. n - 1 \in 0..Size /\ (n - 1) + 1 = n BY <2>1
    <3> QED BY <1>4, <3>1
  <2> QED BY <1>4, <2>1
<1>6. i = [n \in 0..Size + 1 |-> IF n = 0 THEN FsckStart(a) ELSE FsckStep(i[n - 1], b)]
  BY <1>5
<1>7. FsckWalk(a, b) = i[Size + 1]
  BY DEF FsckWalk, FsckStart
<1> HIDE DEF i, s
<1>8. i[0] = FsckStart(a)
  BY <1>6
<1>9. \A n \in 0..Size : i[n + 1] = FsckStep(i[n], b)
  <2> TAKE n \in 0..Size
  <2>1. n + 1 \in 0..Size + 1 /\ n + 1 # 0 /\ (n + 1) - 1 = n
    OBVIOUS
  <2> QED BY <1>6, <2>1
<1>10. i \in [0..Size + 1 -> FsckStates]
  <2> DEFINE A == {n \in 0..Size + 1 : i[n] \in FsckStates}
  <2>1. 0 \in A
    BY <1>2, <1>8
  <2>2. ASSUME NEW n \in 0..(Size + 1) - 1, n \in A PROVE n + 1 \in A
    <3>1. i[n + 1] \in FsckStates
      BY <1>9, <2>2, FsckRound
    <3> QED BY <3>1
  <2>3. 0..Size + 1 \subseteq A
    <3> HIDE DEF A
    <3>1. Size + 1 \in Nat OBVIOUS
    <3> QED BY <2>1, <2>2, <3>1, Upward
  <2>4. i = [n \in 0..Size + 1 |-> i[n]]
    BY <1>6
  <2> QED BY <2>3, <2>4
<1> QED BY <1>7, <1>8, <1>9, <1>10 DEF IsFsckWalk

\* On an accepted slice fsck complains of nothing and meets what the interval
\* test covers.
LEMMA FsckAccepted ==
  ASSUME SliceTypes, AcceptInv, NEW a \in occupied, NEW b
  PROVE  ~FsckWalk(a, b).bad /\ FsckWalk(a, b).met = {x \in occupied : Covers(x, a)}
<1> USE SizeAssumption
<1>0. \A x \in occupied : enter[x] \in 1..Size /\ leave[x] \in Nat
  BY AcceptedEntry
<1>1. PICK w : IsFsckWalk(w, a, b) /\ FsckWalk(a, b) = w[Size + 1]
  BY FsckWalkIs
<1> DEFINE Good(v, n) ==
             /\ v.bad = FALSE
             /\ v.at \in occupied \cup {Size}
             /\ v.at # Size => Covers(v.at, a) /\ enter[v.at] <= Size - n
             /\ v.met = {x \in occupied :
                          Covers(x, a) /\ (v.at = Size \/ enter[v.at] < enter[x])}
<1>2. Good(w[0], 0)
  <2>1. w[0].at = a /\ w[0].met = {} /\ w[0].bad = FALSE
    BY <1>1 DEF IsFsckWalk, FsckStart
  <2>2. a # Size /\ Covers(a, a) /\ enter[a] <= Size
    BY <1>0, AcceptedEntry DEF Buckets
  <2>3. \A x \in occupied : Covers(x, a) => ~(enter[a] < enter[x])
    BY <1>0 DEF Covers
  <2> QED BY <2>1, <2>2, <2>3
<1>3. ASSUME NEW n \in 0..Size, Good(w[n], n) PROVE Good(w[n + 1], n + 1)
  <2>1. w[n] \in FsckStates /\ w[n + 1] = FsckStep(w[n], b)
    BY <1>1 DEF IsFsckWalk
  <2>2. CASE w[n].at = Size
    BY <1>3, <2>1, <2>2, FsckRound
  <2>3. CASE w[n].at # Size
    <3> DEFINE p == next[w[n].at]
    <3>1. w[n].at \in occupied /\ w[n].at \notin w[n].met
      BY <1>0, <1>3, <2>3
    <3>2. /\ w[n + 1].met = w[n].met \cup {w[n].at}
          /\ w[n + 1].at = p /\ w[n + 1].bad = FALSE
      BY <1>3, <2>1, <2>3, <3>1, FsckRound
    <3>3. ASSUME NEW x \in occupied, Covers(x, a), ~(enter[w[n].at] < enter[x]), x # w[n].at
          PROVE  p # Size /\ enter[x] <= enter[p]
      <4>1. Covers(x, w[n].at)
        BY <1>0, <1>3, <3>1, <2>3, <3>3 DEF Covers
      <4> QED BY <3>1, <3>3, <4>1, CoveredMoves DEF Covers
    <3>4. CASE p = Size
      <4>1. w[n + 1].met = {x \in occupied : Covers(x, a)}
        BY <1>3, <2>3, <3>1, <3>2, <3>3, <3>4
      <4> QED BY <3>2, <3>4, <4>1
    <3>5. CASE p # Size
      <4>1. /\ p \in occupied /\ enter[p] < enter[w[n].at]
            /\ leave[w[n].at] <= leave[p] /\ enter[w[n].at] <= Size - n
            /\ Covers(w[n].at, a)
        BY <1>3, <2>3, <3>1, <3>5, AcceptedEntry
      <4>2. Covers(p, a) /\ enter[p] <= Size - (n + 1)
        <5> HIDE DEF p
        <5> QED BY <1>0, <3>1, <4>1 DEF Covers
      <4>3. w[n + 1].met = {x \in occupied : Covers(x, a) /\ enter[p] < enter[x]}
        <5> HIDE DEF p
        <5>1. \A x \in occupied : enter[w[n].at] < enter[x] => enter[p] < enter[x]
          BY <1>0, <3>1, <4>1
        <5>2. \A x \in occupied : Covers(x, a) /\ enter[p] < enter[x] =>
                                    enter[w[n].at] < enter[x] \/ x = w[n].at
          BY <1>0, <3>3, <4>1
        <5>3. w[n].met = {x \in occupied : Covers(x, a) /\ enter[w[n].at] < enter[x]}
          BY <1>3, <2>3
        <5> QED BY <3>1, <3>2, <4>1, <5>1, <5>2, <5>3
      <4> QED BY <3>2, <3>5, <4>1, <4>2, <4>3
    <3> QED BY <3>4, <3>5
  <2> QED BY <2>2, <2>3
<1>4. Good(w[Size + 1], Size + 1)
  <2> DEFINE A == {n \in 0..Size + 1 : Good(w[n], n)}
  <2>1. 0 \in A
    BY <1>2
  <2>2. ASSUME NEW n \in 0..(Size + 1) - 1, n \in A PROVE n + 1 \in A
    <3> HIDE DEF Good
    <3> QED BY <1>3, <2>2
  <2>3. 0..Size + 1 \subseteq A
    <3> HIDE DEF A
    <3>1. Size + 1 \in Nat OBVIOUS
    <3> QED BY <2>1, <2>2, <3>1, Upward
  <2> HIDE DEF Good
  <2> QED BY <2>3
<1> QED BY <1>0, <1>1, <1>4

-----------------------------------------------------------------------------
(* A rejected slice.                                                       *)

\* Entries whose chains never end: from S they go on with X, that is with S
\* or with buckets that hold nothing.
Stuck(S, X) ==
  /\ S \in SUBSET occupied /\ S # {}
  /\ \A x \in S : next[x] \in X
  /\ Size \notin X
  /\ X \cap occupied \subseteq S

LEMMA RejectedStuck ==
  ASSUME SliceTypes, RejectInv
  PROVE  \E S, X : Stuck(S, X)
<1> USE SizeAssumption DEF Buckets
<1>1. ASSUME NEW b \in occupied, next[b] \notin occupied \cup {Size}
      PROVE  Stuck({b}, {next[b]})
  BY <1>1 DEF Stuck
<1>2. ASSUME NEW S \in SUBSET occupied, S # {}, \A b \in S : next[b] \in S
      PROVE  Stuck(S, S)
  <2>1. Size \notin occupied
    BY DEF SliceTypes
  <2> QED BY <1>2, <2>1 DEF Stuck
<1> QED BY <1>1, <1>2 DEF RejectInv

\* A walk that comes to such an entry does not end.
LEMMA StuckWalk ==
  ASSUME SliceTypes, NEW S, NEW X, Stuck(S, X), NEW a, NEW stop, NEW w, IsWalk(w, a, stop),
         NEW m \in 0..Size, w[m] \in S
  PROVE  w[Size] # Size
<1> USE SizeAssumption
<1> DEFINE A == {n \in 0..Size : m <= n => w[n] \in S \cup X}
<1>1. ASSUME NEW n \in 0..Size - 1, w[n] \in S \cup X PROVE w[n + 1] \in S \cup X
  <2>1. w[n + 1] = IF w[n] \in occupied \ stop THEN next[w[n]] ELSE w[n]
    BY DEF IsWalk
  <2> QED BY <1>1, <2>1 DEF Stuck
<1>2. 0 \in A
  <2>1. m <= 0 => m = 0
    OBVIOUS
  <2> QED BY <2>1
<1>3. ASSUME NEW n \in 0..Size - 1, n \in A PROVE n + 1 \in A
  <2>1. CASE m <= n
    BY <1>1, <1>3, <2>1
  <2>2. CASE ~(m <= n)
    <3>1. m <= n + 1 => m = n + 1
      BY <2>2
    <3> QED BY <3>1
  <2> QED BY <2>1, <2>2
<1>4. 0..Size \subseteq A
  <2> HIDE DEF A
  <2> QED BY <1>2, <1>3, Upward
<1>5. w[Size] \in S \cup X
  BY <1>4
<1>6. Size \notin S
  BY DEF Stuck, SliceTypes, Buckets
<1> QED BY <1>5, <1>6 DEF Stuck

\* fsck complains of it, or does not meet it.
LEMMA FsckRejected ==
  ASSUME SliceTypes, NEW S, NEW X, Stuck(S, X), NEW a \in Buckets, NEW b \in S,
         ~FsckWalk(a, b).bad
  PROVE  b \notin FsckWalk(a, b).met
<1> USE SizeAssumption
<1>0. CASE a \notin occupied
  BY <1>0 DEF FsckWalk
<1>1. CASE a \in occupied
  <2>1. PICK w : IsFsckWalk(w, a, b) /\ FsckWalk(a, b) = w[Size + 1]
    BY <1>1, FsckWalkIs
  <2>2. \A n \in 0..Size + 1 : w[n] \in FsckStates
    BY <2>1 DEF IsFsckWalk
  <2> DEFINE Good(v, n) ==
               v.bad = FALSE =>
                 /\ v.met \cap S # {} => v.at \in X
                 /\ v.at # Size => Cardinality(v.met) = n
  <2>3. Good(w[0], 0)
    BY <2>1, FS_EmptySet DEF IsFsckWalk, FsckStart
  <2>4. ASSUME NEW n \in 0..Size, Good(w[n], n) PROVE Good(w[n + 1], n + 1)
    <3> SUFFICES ASSUME w[n + 1].bad = FALSE
                 PROVE  /\ w[n + 1].met \cap S # {} => w[n + 1].at \in X
                        /\ w[n + 1].at # Size => Cardinality(w[n + 1].met) = n + 1
      OBVIOUS
    <3>1. w[n] \in FsckStates /\ w[n + 1] = FsckStep(w[n], b)
      BY <2>1 DEF IsFsckWalk
    <3>2. w[n].bad = FALSE
      BY <3>1, FsckRound DEF FsckStates
    <3>3. CASE w[n].at = Size
      BY <2>4, <3>1, <3>2, <3>3, FsckRound
    <3>4. CASE w[n].at # Size
      <4>1. w[n].at \notin w[n].met /\ w[n].at \in occupied
        BY <3>1, <3>4, FsckRound
      <4>2. w[n + 1].met = w[n].met \cup {w[n].at} /\ w[n + 1].at = next[w[n].at]
        BY <3>1, <3>4, <4>1, FsckRound
      <4>3. IsFiniteSet(w[n].met)
        <5>1. IsFiniteSet(Buckets)
          BY FS_Interval DEF Buckets
        <5>2. w[n].met \subseteq Buckets
          BY <3>1 DEF FsckStates
        <5> QED BY <5>1, <5>2, FS_Subset
      <4>4. Cardinality(w[n + 1].met) = n + 1
        BY <2>4, <3>2, <3>4, <4>1, <4>2, <4>3, FS_AddElement
      <4>5. w[n + 1].met \cap S # {} => w[n].at \in S
        BY <2>4, <3>2, <4>1, <4>2 DEF Stuck
      <4> QED BY <4>2, <4>4, <4>5 DEF Stuck
    <3> QED BY <3>3, <3>4
  <2>5. Good(w[Size + 1], Size + 1)
    <3> DEFINE A == {n \in 0..Size + 1 : Good(w[n], n)}
    <3>1. 0 \in A
      BY <2>3
    <3>2. ASSUME NEW n \in 0..(Size + 1) - 1, n \in A PROVE n + 1 \in A
      <4> HIDE DEF Good
      <4> QED BY <2>4, <3>2
    <3>3. 0..Size + 1 \subseteq A
      <4> HIDE DEF A
      <4>1. Size + 1 \in Nat OBVIOUS
      <4> QED BY <3>1, <3>2, <4>1, Upward
    <3> HIDE DEF Good
    <3> QED BY <3>3
  <2>6. Cardinality(w[Size + 1].met) <= Size
    <3>1. IsFiniteSet(Buckets) /\ Cardinality(Buckets) = Size
      BY FS_Interval DEF Buckets
    <3>2. w[Size + 1].met \in SUBSET Buckets
      BY <2>2 DEF FsckStates
    <3> QED BY <3>1, <3>2, FS_Subset
  <2>7. w[Size + 1].bad = FALSE
    BY <2>1, <2>2 DEF FsckStates
  <2>8. w[Size + 1].at = Size
    BY <2>5, <2>6, <2>7
  <2> QED BY <2>1, <2>5, <2>7, <2>8 DEF Stuck
<1> QED BY <1>0, <1>1

-----------------------------------------------------------------------------
(* What the invariant says of the properties.                              *)

LEMMA SearchAccepted ==
  ASSUME SliceTypes, AcceptInv, NEW a \in Nat, NEW b
  PROVE  /\ Search(a, b) \notin occupied \ {b}
         /\ a \in occupied => Search(a, b) \in occupied \cup {Size}
         /\ a \notin occupied => Search(a, b) = a
<1>1. PICK w : IsWalk(w, a, {b}) /\ Search(a, b) = w[Size]
  BY SearchIs
<1> QED BY <1>1, WalkEnds

\* A lookup finds what the interval test covers.
LEMMA SearchCovers ==
  ASSUME SliceTypes, AcceptInv, NEW a \in occupied, NEW b \in occupied
  PROVE  Covers(b, a) <=> Search(a, b) = b
<1> USE SizeAssumption
<1>1. a \in Nat
  BY DEF SliceTypes, Buckets
<1>2. PICK w : IsWalk(w, a, {b}) /\ Search(a, b) = w[Size]
  BY <1>1, SearchIs
<1>3. Covers(b, a) <=> \E n \in 0..Size : w[n] = b
  BY <1>2, WalkMeets
<1>4. ASSUME NEW m \in 0..Size, w[m] = b PROVE w[Size] = b
  <2> DEFINE A == {n \in 0..Size : m <= n => w[n] = b}
  <2>1. 0 \in A
    <3>1. m <= 0 => m = 0 OBVIOUS
    <3> QED BY <1>4, <3>1
  <2>2. ASSUME NEW n \in 0..Size - 1, n \in A PROVE n + 1 \in A
    <3>1. w[n] = b => w[n + 1] = b
      BY <1>2 DEF IsWalk
    <3>2. m <= n + 1 => m <= n \/ m = n + 1
      OBVIOUS
    <3> QED BY <1>4, <2>2, <3>1, <3>2
  <2>3. 0..Size \subseteq A
    <3> HIDE DEF A
    <3> QED BY <2>1, <2>2, Upward
  <2> QED BY <2>3
<1> QED BY <1>2, <1>3, <1>4

\* The builder's walk passes what the interval test covers.
LEMMA PlanCovers ==
  ASSUME SliceTypes, AcceptInv, NEW a \in occupied, NEW b \in occupied
  PROVE  /\ PlanWalk(a)[Size] = Size
         /\ Covers(b, a) <=> \E n \in 0..Size - 1 : PlanWalk(a)[n] = b
<1> USE SizeAssumption
<1>1. a \in Nat /\ Size \notin occupied
  BY DEF SliceTypes, Buckets
<1>2. IsWalk(PlanWalk(a), a, {})
  BY <1>1, PlanWalkIs
<1>3. PlanWalk(a)[Size] = Size
  BY <1>1, <1>2, WalkEnds
<1>4. Covers(b, a) <=> \E n \in 0..Size : PlanWalk(a)[n] = b
  BY <1>2, WalkMeets
<1>5. \A n \in 0..Size : n \in 0..Size - 1 \/ n = Size
  OBVIOUS
<1> QED BY <1>1, <1>3, <1>4, <1>5

LEMMA InvDecides == ASSUME SliceInv PROVE ChainsDecides
<1> USE SizeAssumption
<1>0. SliceTypes
  BY DEF SliceInv
<1>1. SliceTypes /\ \A x \in occupied : x \in Nat /\ x # Nowhere
  <2>1. occupied \subseteq Buckets
    BY <1>0 DEF SliceTypes
  <2>2. \A x \in Buckets : x \in Nat /\ x # Nowhere
    BY DEF Buckets, Nowhere
  <2> QED BY <1>0, <2>1, <2>2
<1>2. ASSUME pc = "accepted" PROVE WellFormed
  <2>1. AcceptInv
    BY <1>2 DEF SliceInv
  <2>2. ASSUME NEW b \in occupied
        PROVE  next[b] \in occupied \cup {Size} /\ Search(b, Nowhere) = Size
    BY <1>1, <2>1, SearchAccepted DEF AcceptInv, ChainedInv
  <2> QED BY <2>2 DEF WellFormed
<1>3. ASSUME pc = "rejected", WellFormed PROVE FALSE
  <2>1. PICK S, X : Stuck(S, X)
    BY <1>1, <1>3, RejectedStuck DEF SliceInv
  <2>2. PICK b \in S : b \in occupied
    BY <2>1 DEF Stuck
  <2>3. PICK w : IsWalk(w, b, {Nowhere}) /\ Search(b, Nowhere) = w[Size]
    BY <1>1, <2>2, SearchIs
  <2>4. w[0] \in S /\ 0 \in 0..Size
    BY <2>2, <2>3 DEF IsWalk
  <2>5. w[Size] # Size
    BY <1>1, <2>1, <2>3, <2>4, StuckWalk
  <2> QED BY <1>3, <2>2, <2>3, <2>5 DEF WellFormed
<1> QED BY <1>2, <1>3 DEF ChainsDecides

LEMMA InvReaders == ASSUME SliceInv PROVE ReadersAgree
<1> USE SizeAssumption
<1>0. SliceTypes
  BY DEF SliceInv
<1>1. SliceTypes /\ occupied \subseteq Buckets /\ \A x \in Buckets : x \in Nat
  <2>1. occupied \subseteq Buckets
    BY <1>0 DEF SliceTypes
  <2> QED BY <1>0, <2>1 DEF Buckets
<1>2. \A anchors \in AnchorSets : anchors \subseteq Buckets
  BY DEF AnchorSets
<1>3. ASSUME pc = "accepted" PROVE AcceptInv
  BY <1>3 DEF SliceInv
<1>4. ASSUME pc = "accepted", NEW b, NEW anchors \in AnchorSets PROVE ~Endless(b, anchors)
  BY <1>1, <1>2, <1>3, <1>4, SearchAccepted DEF Endless
<1>5. ASSUME pc = "accepted", NEW b \in occupied, NEW anchors \in AnchorSets
      PROVE  /\ Anchored(b, anchors) <=> Found(b, anchors)
             /\ Anchored(b, anchors) <=> FsckFinds(b, anchors)
             /\ Anchored(b, anchors) <=> PlanFinds(b, anchors)
  <2>0. AcceptInv
    BY <1>3, <1>5
  <2>1. Anchored(b, anchors) <=> \E a \in anchors : a \in occupied /\ Covers(b, a)
    BY DEF Anchored, LeadsTo, Covers
  <2>2. \A a \in anchors : Search(a, b) = b <=> a \in occupied /\ Covers(b, a)
    <3> TAKE a \in anchors
    <3>1. CASE a \in occupied
      BY <1>1, <2>0, <3>1, SearchCovers
    <3>2. CASE a \notin occupied
      <4>1. Search(a, b) = a
        BY <1>1, <1>2, <2>0, <3>2, SearchAccepted
      <4> QED BY <1>5, <3>2, <4>1
    <3> QED BY <3>1, <3>2
  <2>3. next[b] <= Size
    <3>1. next[b] \in occupied \cup {Size}
      BY <2>0 DEF AcceptInv, ChainedInv
    <3>2. Size \in Nat /\ \A x \in Buckets : x <= Size
      BY DEF Buckets
    <3> QED BY <1>1, <3>1, <3>2
  <2>4. \A a \in anchors : /\ ~FsckWalk(a, b).bad
                           /\ b \in FsckWalk(a, b).met <=> a \in occupied /\ Covers(b, a)
    <3> TAKE a \in anchors
    <3>1. CASE a \in occupied
      BY <1>1, <1>5, <2>0, <3>1, FsckAccepted
    <3>2. CASE a \notin occupied
      BY <3>2 DEF FsckWalk
    <3> QED BY <3>1, <3>2
  <2>5. \A a \in anchors \cap occupied :
          /\ PlanWalk(a)[Size] = Size
          /\ Covers(b, a) <=> \E n \in 0..Size - 1 : PlanWalk(a)[n] = b
    BY <1>1, <2>0, PlanCovers
  <2>6. Anchored(b, anchors) <=> Found(b, anchors)
    BY <2>1, <2>2 DEF Found
  <2>7. Anchored(b, anchors) <=> FsckFinds(b, anchors)
    BY <2>1, <2>3, <2>4 DEF FsckFinds
  <2>8. Anchored(b, anchors) <=> PlanFinds(b, anchors)
    BY <2>1, <2>5 DEF PlanFinds
  <2> QED BY <2>6, <2>7, <2>8
<1>6. ASSUME pc = "rejected"
      PROVE  \E b \in occupied : \A anchors \in AnchorSets :
               ~FsckFinds(b, anchors) /\ ~PlanFinds(b, anchors)
  <2>1. PICK S, X : Stuck(S, X)
    BY <1>1, <1>6, RejectedStuck DEF SliceInv
  <2>2. PICK b \in S : b \in occupied
    BY <2>1 DEF Stuck
  <2>3. ASSUME NEW anchors \in AnchorSets, FsckFinds(b, anchors) PROVE FALSE
    BY <1>1, <1>2, <2>1, <2>2, <2>3, FsckRejected DEF FsckFinds
  <2>4. ASSUME NEW anchors \in AnchorSets, PlanFinds(b, anchors) PROVE FALSE
    <3>1. PICK a \in anchors \cap occupied : \E n \in 0..Size - 1 : PlanWalk(a)[n] = b
      BY <2>4 DEF PlanFinds
    <3>2. PICK n \in 0..Size : PlanWalk(a)[n] = b
      BY <3>1
    <3>3. PlanWalk(a)[Size] = Size
      BY <2>4, <3>1 DEF PlanFinds
    <3>4. IsWalk(PlanWalk(a), a, {})
      BY <1>1, <3>1, PlanWalkIs
    <3> QED BY <1>1, <2>1, <2>2, <3>2, <3>3, <3>4, StuckWalk
  <2> QED BY <2>2, <2>3, <2>4
<1> QED BY <1>4, <1>5, <1>6 DEF ReadersAgree
-----------------------------------------------------------------------------
(* The buckets of a set, in order.                                         *)

LEMMA FiniteBuckets ==
  ASSUME NEW S \in SUBSET Buckets
  PROVE  IsFiniteSet(S) /\ Cardinality(S) \in Nat /\ Cardinality(S) <= Size
<1> USE SizeAssumption
<1>1. IsFiniteSet(Buckets) /\ Cardinality(Buckets) = Size
  BY FS_Interval DEF Buckets
<1>2. IsFiniteSet(S) /\ Cardinality(S) <= Size
  BY <1>1, FS_Subset
<1> QED BY <1>2, FS_CardinalityType

\* InOrder lists members of the set, none of them twice.
LEMMA InOrderLists ==
  ASSUME NEW S \in SUBSET Buckets
  PROVE  /\ \A i \in 1..Cardinality(S) : InOrder(S)[i] \in S
         /\ \A i, j \in 1..Cardinality(S) : InOrder(S)[i] = InOrder(S)[j] => i = j
<1> USE SizeAssumption
<1> DEFINE L(b) == {c \in S : c < b}
           n == Cardinality(S)
           rank == [b \in S |-> Cardinality(L(b)) + 1]
<1>1. IsFiniteSet(S) /\ n \in Nat /\ \A b \in S : b \in Nat
  BY FiniteBuckets DEF Buckets
<1>2. ASSUME NEW b \in S
      PROVE  IsFiniteSet(L(b)) /\ Cardinality(L(b)) \in 0..n - 1
  <2>1. L(b) \subseteq S /\ b \notin L(b)
    BY <1>1
  <2>2. IsFiniteSet(L(b)) /\ Cardinality(L(b)) <= n /\ Cardinality(L(b)) # n
    <3> HIDE DEF L
    <3> QED BY <1>1, <2>1, FS_Subset
  <2>3. Cardinality(L(b)) \in Nat
    <3> HIDE DEF L
    <3> QED BY <2>2, FS_CardinalityType
  <2> HIDE DEF L, n
  <2> QED BY <1>1, <2>2, <2>3
<1>3. ASSUME NEW b \in S, NEW d \in S, b < d PROVE Cardinality(L(b)) < Cardinality(L(d))
  <2>1. L(b) \subseteq L(d) /\ b \in L(d) /\ b \notin L(b)
    BY <1>1, <1>3
  <2>2. Cardinality(L(b)) <= Cardinality(L(d)) /\ Cardinality(L(b)) # Cardinality(L(d))
    <3> HIDE DEF L
    <3> QED BY <1>2, <2>1, FS_Subset
  <2> HIDE DEF L
  <2> QED BY <1>1, <1>2, <2>2
<1>4. rank \in Injection(S, 1..n)
  <2>1. rank \in [S -> 1..n]
    <3>1. \A b \in S : Cardinality(L(b)) + 1 \in 1..n
      <4> HIDE DEF L, n
      <4> QED BY <1>1, <1>2
    <3> HIDE DEF L, n
    <3> QED BY <3>1
  <2>2. ASSUME NEW b \in S, NEW d \in S, rank[b] = rank[d] PROVE b = d
    <3>1. Cardinality(L(b)) = Cardinality(L(d))
      <4>1. Cardinality(L(b)) \in Nat /\ Cardinality(L(d)) \in Nat
        <5> HIDE DEF L, n
        <5> QED BY <1>1, <1>2
      <4>2. rank[b] = Cardinality(L(b)) + 1 /\ rank[d] = Cardinality(L(d)) + 1
        OBVIOUS
      <4>3. \A x, y \in Nat : x + 1 = y + 1 => x = y
        OBVIOUS
      <4> HIDE DEF L, rank
      <4> QED BY <2>2, <4>1, <4>2, <4>3
    <3>2. ~(b < d) /\ ~(d < b)
      <4> HIDE DEF L, n
      <4>1. Cardinality(L(b)) \in Nat /\ Cardinality(L(d)) \in Nat
        BY <1>1, <1>2
      <4> QED BY <1>3, <3>1, <4>1
    <3> QED BY <1>1, <3>2
  <2> HIDE DEF rank, n
  <2> QED BY <2>1, <2>2 DEF Injection, IsInjective
<1>5. rank \in Surjection(S, 1..n)
  <2>1. IsFiniteSet(1..n) /\ Cardinality(1..n) = n
    <3> HIDE DEF n
    <3> QED BY <1>1, FS_Interval
  <2> HIDE DEF rank
  <2> QED BY <1>4, <2>1, FS_Injection
<1>6. ASSUME NEW i \in 1..n
      PROVE  InOrder(S)[i] \in S /\ Cardinality(L(InOrder(S)[i])) = i - 1
  <2>1. PICK b \in S : rank[b] = i
    <3> HIDE DEF rank
    <3> QED BY <1>5 DEF Surjection
  <2>2. Cardinality(L(b)) = i - 1
    <3>1. Cardinality(L(b)) \in Nat /\ rank[b] = Cardinality(L(b)) + 1
      BY <1>1, <1>2
    <3> HIDE DEF L, rank
    <3> QED BY <2>1, <3>1
  <2>3. InOrder(S)[i] = CHOOSE c \in S : Cardinality(L(c)) = i - 1
    BY <1>6 DEF InOrder
  <2> HIDE DEF L, n
  <2> QED BY <2>2, <2>3
<1> HIDE DEF L, rank
<1> QED BY <1>1, <1>6


-----------------------------------------------------------------------------
(* The invariant of constructBuckets.  Where a name ends up is known as     *)
(* soon as every name has its anchor.                                      *)

Free == Buckets \ Range(anchor)
First(k) == \A j \in Group(anchor[k]) : k <= j

\* the order of placement
Before(j, k) == anchor[j] < anchor[k] \/ (anchor[j] = anchor[k] /\ j < k)

\* the names up to k that do not start a chain
Others == {j \in Names : ~First(j)}
Upto(k) == {j \in Others : ~Before(k, j)}

Position(k) == IF First(k) THEN anchor[k] ELSE Overflow[Cardinality(Upto(k))]
Follower(k) == IF NeedsNext(k) THEN Overflow[Cardinality(Upto(k)) + 1] ELSE Size

PlanTypes ==
  /\ \E n \in 0..Size : h1 \in [1..n -> Buckets] /\ h2 \in [1..n -> Buckets]
  /\ dual \in BOOLEAN
  /\ \E m \in 0..Len(h1) : anchor \in [1..m -> Buckets]
  /\ loads \in [Buckets -> Nat]
  /\ placed \subseteq Names
  /\ used \in Nat
  /\ holder \in [Buckets -> 0..Len(h1)]
  /\ pc \in {"assign", "place", "link", "roots", "visit", "move", "accepted", "rejected"}

\* loads counts the names of every anchor
AssignInv ==
  /\ \A k \in DOMAIN anchor : anchor[k] \in Anchors(k)
  /\ \A b \in Buckets : loads[b] = Cardinality({k \in DOMAIN anchor : anchor[k] = b})

\* the names placed come first in the order, and are where they will be
PlaceInv ==
  /\ \A k \in placed : \A j \in Names : Before(j, k) => j \in placed
  /\ used = Cardinality(placed \cap Others)
  /\ occupied = {Position(k) : k \in placed}
  /\ \A k \in placed : holder[Position(k)] = k /\ next[Position(k)] = Follower(k)
  /\ \A b \in Buckets \ occupied : holder[b] = 0

PlanInv ==
  /\ SliceInv
  /\ PlanTypes
  /\ AssignInv
  /\ pc = "assign" => placed = {} /\ used = 0 /\ holder = Zeros /\ occupied = {}
  /\ pc # "assign" => Len(anchor) = Len(h1)
  /\ pc # "assign" /\ Names # {} => PlaceInv
  /\ pc \notin {"assign", "place"} => placed = Names

\* every name has its anchor
Settled ==
  /\ Len(h1) \in 0..Size
  /\ Names = 1..Len(h1)
  /\ anchor \in [Names -> Buckets]

LEMMA SettledIs ==
  ASSUME PlanTypes, Len(anchor) = Len(h1)
  PROVE  Settled
<1> USE SizeAssumption
<1>1. PICK n \in 0..Size : h1 \in [1..n -> Buckets]
  BY DEF PlanTypes
<1>2. Len(h1) = n
  BY <1>1
<1>3. PICK m \in 0..Len(h1) : anchor \in [1..m -> Buckets]
  BY DEF PlanTypes
<1>4. m \in Nat /\ Len(anchor) = m
  BY <1>2, <1>3
<1> QED BY <1>1, <1>2, <1>3, <1>4 DEF Settled, Names

\* Groups are finite sets of names.
LEMMA GroupIs ==
  ASSUME Settled, NEW a
  PROVE  Group(a) \in SUBSET (0..Size) /\ IsFiniteSet(Names) /\ Cardinality(Names) = Len(h1)
<1> USE SizeAssumption
<1>1. Len(h1) \in 0..Size /\ Names = 1..Len(h1)
  BY DEF Settled
<1>2. IsFiniteSet(Names) /\ Cardinality(Names) = Len(h1)
  <2> DEFINE n == Len(h1)
  <2>1. n \in Nat /\ Names = 1..n
    BY <1>1
  <2> HIDE DEF n
  <2>2. IsFiniteSet(1..n) /\ Cardinality(1..n) = n
    BY <2>1, FS_Interval
  <2>3. IsFiniteSet(Names) /\ Cardinality(Names) = n
    BY <2>1, <2>2
  <2> QED BY <2>3 DEF n
<1>3. Names \subseteq 0..Size
  BY <1>1
<1> QED BY <1>2, <1>3 DEF Group

\* There are no more names that do not start a chain than buckets where none does.
LEMMA OthersFit ==
  ASSUME Settled
  PROVE  /\ IsFiniteSet(Others) /\ Cardinality(Others) \in Nat
         /\ Free \in SUBSET Buckets /\ Cardinality(Others) <= Cardinality(Free)
<1> USE SizeAssumption
<1> DEFINE F == {k \in Names : First(k)}
           R == Range(anchor)
           g == [k \in F |-> anchor[k]]
<1>1. IsFiniteSet(Names) /\ Cardinality(Names) = Len(h1) /\ Len(h1) \in 0..Size
  BY GroupIs DEF Settled
<1>2. R \subseteq Buckets
  BY DEF Range, Settled
<1>3. IsFiniteSet(F) /\ Cardinality(F) \in Nat /\ F \subseteq Names
  BY <1>1, FS_Subset, FS_CardinalityType
<1>4. g \in Surjection(F, R)
  <2>1. g \in [F -> R]
    BY DEF Settled, Range
  <2>2. ASSUME NEW a \in R PROVE \E k \in F : g[k] = a
    <3>1. Group(a) # {}
      BY <2>2 DEF Range, Group, Settled
    <3>2. Group(a) \in SUBSET Nat
      BY GroupIs
    <3>3. PICK k \in Group(a) : \A j \in Group(a) : k <= j
      BY <3>1, <3>2, LeastNat
    <3>4. k \in Names /\ anchor[k] = a
      BY <3>3 DEF Group
    <3>5. First(k)
      BY <3>3, <3>4 DEF First
    <3> QED BY <3>4, <3>5
  <2> HIDE DEF F, R, g
  <2> QED BY <2>1, <2>2 DEF Surjection
<1>5. Cardinality(R) <= Cardinality(F)
  <2> HIDE DEF F, R, g
  <2> QED BY <1>3, <1>4, FS_Surjection
<1>6. Cardinality(R) \in Nat /\ IsFiniteSet(R)
  <2> HIDE DEF R
  <2> QED BY <1>2, FiniteBuckets
<1>7. Cardinality(Free) = Size - Cardinality(R)
  <2>1. IsFiniteSet(Buckets) /\ Cardinality(Buckets) = Size
    BY FS_Interval DEF Buckets
  <2>2. Free = Buckets \ R /\ Buckets \cap R = R
    BY <1>2 DEF Free
  <2> HIDE DEF R
  <2> QED BY <2>1, <2>2, FS_Difference
<1>8. IsFiniteSet(Others) /\ Cardinality(Others) = Len(h1) - Cardinality(F)
  <2>1. Others = Names \ F /\ Names \cap F = F
    BY DEF Others
  <2>2. IsFiniteSet(Names \ F) /\ Cardinality(Names \ F) = Cardinality(Names) - Cardinality(Names \cap F)
    <3> HIDE DEF F
    <3> QED BY <1>1, FS_Difference
  <2> HIDE DEF F
  <2> QED BY <1>1, <2>1, <2>2
<1>9. Cardinality(Others) \in Nat
  BY <1>8, FS_CardinalityType
<1>10. Cardinality(Others) <= Cardinality(Free)
  <2> HIDE DEF F, R
  <2> QED BY <1>1, <1>3, <1>5, <1>6, <1>7, <1>8
<1> QED BY <1>8, <1>9, <1>10 DEF Free

\* The order of placement is total.
LEMMA BeforeOrder ==
  ASSUME Settled, NEW i \in Names, NEW j \in Names, NEW k \in Names
  PROVE  /\ ~Before(i, i)
         /\ Before(i, j) => ~Before(j, i)
         /\ Before(i, j) \/ Before(j, i) \/ i = j
         /\ Before(i, j) /\ Before(j, k) => Before(i, k)
<1> USE SizeAssumption
<1>1. /\ anchor[i] \in Nat /\ anchor[j] \in Nat /\ anchor[k] \in Nat
      /\ i \in Nat /\ j \in Nat /\ k \in Nat
  BY DEF Settled, Buckets
<1> QED BY <1>1 DEF Before

\* The number of others up to a name grows at every one of them.
LEMMA UptoGrows ==
  ASSUME Settled, NEW k \in Names
  PROVE  /\ IsFiniteSet(Upto(k)) /\ Cardinality(Upto(k)) \in 0..Cardinality(Others)
         /\ k \in Others => k \in Upto(k) /\ Cardinality(Upto(k)) \in 1..Cardinality(Others)
         /\ \A j \in Others : Before(k, j) => Cardinality(Upto(k)) < Cardinality(Upto(j))
<1>0. \A x \in Names : IsFiniteSet(Upto(x)) /\ Cardinality(Upto(x)) \in Nat /\ Cardinality(Upto(x)) <= Cardinality(Others)
  BY OthersFit, FS_Subset, FS_CardinalityType DEF Upto
<1>1. Cardinality(Others) \in Nat /\ Others \subseteq Names
  BY OthersFit DEF Others
<1>2. ASSUME k \in Others PROVE k \in Upto(k) /\ Cardinality(Upto(k)) # 0
  <2>1. k \in Upto(k)
    BY <1>2, BeforeOrder DEF Upto
  <2> QED BY <1>0, <2>1, FS_EmptySet
<1>3. ASSUME NEW j \in Others, Before(k, j) PROVE Cardinality(Upto(k)) < Cardinality(Upto(j))
  <2>1. j \in Names
    BY <1>1
  <2>2. Upto(k) \subseteq Upto(j)
    <3> SUFFICES ASSUME NEW i \in Others, ~Before(k, i) PROVE ~Before(j, i)
      BY DEF Upto
    <3> QED BY <1>1, <1>3, <2>1, BeforeOrder
  <2>3. j \in Upto(j) /\ j \notin Upto(k)
    BY <1>3, <2>1, BeforeOrder DEF Upto
  <2>4. Cardinality(Upto(k)) <= Cardinality(Upto(j)) /\ Cardinality(Upto(k)) # Cardinality(Upto(j))
    BY <1>0, <2>1, <2>2, <2>3, FS_Subset
  <2> QED BY <1>0, <2>1, <2>4
<1> QED BY <1>0, <1>1, <1>2, <1>3

\* Every name has a position, and a position one name.
LEMMA Positions ==
  ASSUME Settled
  PROVE  /\ \A k \in Names : Position(k) \in Buckets
         /\ \A j, k \in Names : Position(j) = Position(k) => j = k
         /\ Len(Overflow) = Cardinality(Free) /\ Cardinality(Free) \in Nat
<1>1. /\ Overflow = InOrder(Free) /\ Free \in SUBSET Buckets /\ Cardinality(Free) \in Nat
      /\ Cardinality(Others) \in Nat /\ Cardinality(Others) <= Cardinality(Free)
  BY OthersFit, FiniteBuckets DEF Overflow, Free
<1>2. Len(Overflow) = Cardinality(Free)
  BY <1>1 DEF InOrder
<1>3. \A k \in Names : First(k) => Position(k) = anchor[k] /\ anchor[k] \in Buckets \ Free
  BY DEF Position, Settled, Free, Range
<1>4. \A k \in Names : ~First(k) =>
        /\ Cardinality(Upto(k)) \in 1..Cardinality(Free)
        /\ Position(k) = InOrder(Free)[Cardinality(Upto(k))]
  <2> SUFFICES ASSUME NEW k \in Names, ~First(k)
               PROVE  /\ Cardinality(Upto(k)) \in 1..Cardinality(Free)
                      /\ Position(k) = InOrder(Free)[Cardinality(Upto(k))]
    OBVIOUS
  <2>1. Cardinality(Upto(k)) \in 1..Cardinality(Others)
    BY UptoGrows DEF Others
  <2>2. Cardinality(Upto(k)) \in 1..Cardinality(Free)
    BY <1>1, <2>1
  <2> QED BY <1>1, <2>2 DEF Position
<1>5. \A k \in Names : ~First(k) => Position(k) \in Free
  BY <1>1, <1>4, InOrderLists
<1>6. ASSUME NEW j \in Names, NEW k \in Names, Position(j) = Position(k) PROVE j = k
  <2>1. CASE First(j) /\ First(k)
    <3>1. anchor[j] = anchor[k] /\ j \in Group(anchor[k]) /\ k \in Group(anchor[j])
      BY <1>3, <1>6, <2>1 DEF Group
    <3>2. j <= k /\ k <= j /\ j \in Nat /\ k \in Nat
      BY <2>1, <3>1 DEF First, Settled
    <3> QED BY <3>2
  <2>2. CASE ~First(j) /\ ~First(k)
    <3>1. Cardinality(Upto(j)) = Cardinality(Upto(k))
      BY <1>1, <1>4, <1>6, <2>2, InOrderLists
    <3>2. Cardinality(Upto(j)) \in Nat /\ j \in Others /\ k \in Others
      BY <1>4, <2>2 DEF Others
    <3>3. ~Before(j, k) /\ ~Before(k, j)
      BY <3>1, <3>2, UptoGrows
    <3> QED BY <3>3, BeforeOrder
  <2>3. CASE First(j) /\ ~First(k)
    BY <1>3, <1>5, <1>6, <2>3
  <2>4. CASE ~First(j) /\ First(k)
    BY <1>3, <1>5, <1>6, <2>4
  <2> QED BY <2>1, <2>2, <2>3, <2>4
<1> QED BY <1>1, <1>2, <1>3, <1>5, <1>6

\* A name that does not end its chain has a next one there, and is followed by
\* that one's bucket.
LEMMA Followers ==
  ASSUME Settled, NEW k \in Names, NeedsNext(k)
  PROVE  \E j \in Group(anchor[k]) :
           /\ j \in Others /\ k < j /\ \A i \in Group(anchor[k]) : k < i => j <= i
           /\ Cardinality(Upto(j)) = Cardinality(Upto(k)) + 1
           /\ Follower(k) = Position(j)
<1> USE SizeAssumption
<1> DEFINE A == {i \in Group(anchor[k]) : k < i}
<1>1. A \in SUBSET Nat /\ A # {}
  BY GroupIs DEF NeedsNext
<1>2. PICK j \in A : \A i \in A : j <= i
  <2> HIDE DEF A
  <2> QED BY <1>1, LeastNat
<1>3. j \in Names /\ anchor[j] = anchor[k] /\ k < j /\ j \in Nat /\ k \in Nat /\ k \in Group(anchor[j])
  BY <1>2 DEF Group, Settled
<1>4. j \in Others /\ ~First(j)
  BY <1>3 DEF Others, First
<1>5. Upto(j) = Upto(k) \cup {j} /\ j \notin Upto(k)
  <2>1. Before(k, j)
    BY <1>3 DEF Before
  <2>2. ASSUME NEW i \in Others, Before(k, i), ~Before(j, i) PROVE i = j
    <3>1. i \in Names /\ i \in Nat /\ anchor[i] \in Nat /\ anchor[k] \in Nat
      BY DEF Others, Settled, Buckets
    <3>2. Before(i, j) \/ i = j
      BY <1>3, <2>2, <3>1, BeforeOrder
    <3>3. Before(i, j) => anchor[i] = anchor[k] /\ k < i /\ i < j
      BY <1>3, <2>2, <3>1 DEF Before
    <3>4. ~Before(i, j)
      <4> SUFFICES ASSUME Before(i, j) PROVE FALSE
        OBVIOUS
      <4>1. i \in A
        BY <3>1, <3>3 DEF Group
      <4> QED BY <1>2, <1>3, <3>1, <3>3, <4>1
    <3> QED BY <3>2, <3>4
  <2>3. ASSUME NEW i \in Others, ~Before(k, i) PROVE ~Before(j, i)
    BY <1>3, <2>1, <2>3, BeforeOrder DEF Others
  <2>4. ~Before(j, j)
    BY <1>3, BeforeOrder
  <2> HIDE DEF A
  <2> QED BY <1>4, <2>1, <2>2, <2>3, <2>4 DEF Upto
<1>6. Cardinality(Upto(j)) = Cardinality(Upto(k)) + 1
  BY <1>5, UptoGrows, FS_AddElement
<1>7. Follower(k) = Position(j)
  BY <1>4, <1>6 DEF Follower, Position
<1> QED BY <1>2, <1>3, <1>4, <1>6, <1>7
-----------------------------------------------------------------------------
(* The steps keep the invariant.                                           *)

\* What depends on the names and their anchors alone stays with them.
LEMMA PlanStays ==
  ASSUME UNCHANGED <<h1, anchor>>
  PROVE  /\ Names' = Names /\ Others' = Others /\ Overflow' = Overflow
         /\ \A k : Position(k)' = Position(k) /\ Follower(k)' = Follower(k)
         /\ \A j, k : Before(j, k)' <=> Before(j, k)
<1>1. Names' = Names /\ \A a : Group(a)' = Group(a)
  BY DEF Names, Group
<1>2. \A k : First(k)' <=> First(k)
  BY DEF First, Group, Names
<1>3. Others' = Others
  BY <1>1, <1>2 DEF Others
<1>4. \A j, k : Before(j, k)' <=> Before(j, k)
  BY DEF Before
<1>5. \A k : Upto(k)' = Upto(k)
  BY <1>3, <1>4 DEF Upto
<1>6. \A k : NeedsNext(k)' <=> NeedsNext(k)
  BY DEF NeedsNext, Group, Names
<1>7. Overflow' = Overflow
  BY DEF Overflow
<1>8. \A k : Position(k)' = Position(k)
  BY <1>2, <1>5, <1>7 DEF Position
<1>9. \A k : Follower(k)' = Follower(k)
  BY <1>5, <1>6, <1>7 DEF Follower
<1> QED BY <1>1, <1>3, <1>4, <1>7, <1>8, <1>9

\* Where nothing that the builder keeps changes, nor its image.
LEMMA BuilderStays ==
  ASSUME PlanInv, UNCHANGED <<hashes, plan, occupied, next>>, SliceInv',
         pc' \in {"place", "link", "roots", "visit", "move", "accepted", "rejected"},
         pc # "assign", pc' = "place" \/ placed = Names
  PROVE  PlanInv'
<1>1. UNCHANGED <<h1, h2, dual, loads, anchor, placed, used, holder, occupied, next>>
  BY DEF hashes, plan
<1>2. PlanTypes'
  <2>1. PlanTypes BY DEF PlanInv
  <2> QED BY <1>1, <2>1 DEF PlanTypes, Names
<1>3. AssignInv'
  <2>1. AssignInv BY DEF PlanInv
  <2> QED BY <1>1, <2>1 DEF AssignInv, Anchors
<1>4. Names # {} => PlaceInv'
  <2> SUFFICES ASSUME Names # {} PROVE PlaceInv'
    OBVIOUS
  <2>1. PlaceInv
    BY DEF PlanInv
  <2> QED BY <1>1, <2>1, PlanStays DEF PlaceInv
<1>5. Len(anchor') = Len(h1') /\ Names' = Names
  BY <1>1 DEF PlanInv, Names
<1> QED BY <1>1, <1>2, <1>3, <1>4, <1>5 DEF PlanInv

LEMMA KernelKeeps ==
  ASSUME PlanInv, Next, UNCHANGED <<hashes, plan>>
  PROVE  PlanInv'
<1>1. SliceInv
  BY DEF PlanInv
<1>2. SliceInv'
  BY <1>1, LinkKeeps, LinkedKeeps, FindRootKeeps, VisitKeeps, DescendKeeps, AscendKeeps, DecideKeeps
  DEF Next
<1>3. UNCHANGED <<occupied, next>>
  BY DEF Next, Link, Linked, FindRoot, Visit, Descend, Ascend, Decide, slice
<1>4. pc \in {"link", "roots", "visit", "move"}
  BY DEF Next, Link, Linked, FindRoot, Visit, Descend, Ascend, Decide
<1>5. pc' \in {"link", "roots", "visit", "move", "accepted", "rejected"}
  BY DEF Next, Link, Linked, FindRoot, Visit, Descend, Ascend, Decide
<1>6. placed = Names
  BY <1>4 DEF PlanInv
<1> QED BY <1>2, <1>3, <1>4, <1>5, <1>6, BuilderStays

\* What chains() starts from satisfies its invariant.
LEMMA FreshLinks ==
  ASSUME Fresh, occupied \subseteq Buckets
  PROVE  LinkInv /\ head \in [Buckets -> 0..Size] /\ sibling \in [Buckets -> 0..Size]
         /\ enter \in [Buckets -> Nat] /\ leave \in [Buckets -> Nat]
         /\ clock \in Nat /\ seen \in Nat /\ root \in 0..Size /\ at \in 0..Size
<1> USE SizeAssumption DEF Buckets
<1>1. /\ head = Zeros /\ sibling = Zeros /\ enter = Zeros /\ leave = Zeros
      /\ clock = 0 /\ seen = 0 /\ root = 0 /\ at = 0
  BY DEF Fresh
<1>2. Zeros \in [Buckets -> 0..Size] /\ Zeros \in [Buckets -> Nat]
  BY DEF Zeros
<1> HIDE DEF Buckets
<1>3. LinkInv
  <2>1. \A c \in occupied : c \in Nat /\ ~(c < at) /\ Zeros[c] = 0
    BY <1>1 DEF Buckets, Zeros
  <2>2. \A n \in occupied : IsLast(head[n], n, at)
    BY <1>1, <2>1 DEF IsLast, Kids
  <2> QED BY <1>1, <2>1, <2>2 DEF LinkInv
<1> QED BY <1>1, <1>2, <1>3

LEMMA InitKeeps ==
  ASSUME PInit
  PROVE  PlanInv
<1> USE SizeAssumption
<1>1. Zeros \in [Buckets -> Nat] /\ \A b \in Buckets : Zeros[b] = 0
  BY DEF Zeros
<1>2. /\ loads = Zeros /\ anchor = <<>> /\ placed = {} /\ used = 0 /\ holder = Zeros
      /\ Fresh /\ pc \in {"assign", "link"} /\ dual \in BOOLEAN
  BY DEF PInit, PlanInit, GivenInit, Init
<1>3. \E n \in 0..Size : h1 \in [1..n -> Buckets] /\ h2 \in [1..n -> Buckets]
  <2>1. CASE PlanInit
    BY <2>1, NamesAssumption DEF PlanInit
  <2>2. CASE GivenInit
    <3>1. h1 \in [1..0 -> Buckets] /\ h2 \in [1..0 -> Buckets] /\ 0 \in 0..Size
      BY <2>2 DEF GivenInit
    <3> QED BY <3>1
  <2> QED BY <2>1, <2>2 DEF PInit
<1>4. Len(h1) \in Nat
  BY <1>3
<1>5. PlanTypes
  <2>1. anchor \in [1..0 -> Buckets] /\ 0 \in 0..Len(h1)
    BY <1>2, <1>4
  <2>2. holder \in [Buckets -> 0..Len(h1)]
    BY <1>2, <1>4 DEF Zeros
  <2> QED BY <1>1, <1>2, <1>3, <2>1, <2>2 DEF PlanTypes
<1>6. DOMAIN anchor = {} /\ Len(anchor) = 0
  BY <1>2
<1>7. AssignInv
  <2>1. \A b \in Buckets : {k \in DOMAIN anchor : anchor[k] = b} = {}
    BY <1>6
  <2> QED BY <1>1, <1>2, <1>6, <2>1, FS_EmptySet DEF AssignInv
<1>8. occupied \subseteq Buckets /\ next \in [Buckets -> 0..Size + 1]
  <2>1. CASE PlanInit
    BY <2>1 DEF PlanInit
  <2>2. CASE GivenInit
    BY <2>2 DEF GivenInit, Init
  <2> QED BY <2>1, <2>2 DEF PInit
<1>9. SliceInv
  BY <1>2, <1>8, FreshLinks DEF SliceInv, SliceTypes
<1>10. pc = "link" => Len(anchor) = Len(h1) /\ Names = {}
  <2>1. pc = "link" => h1 = <<>>
    BY DEF PInit, PlanInit, GivenInit
  <2> QED BY <1>6, <2>1 DEF Names
<1>11. pc = "assign" => occupied = {}
  BY DEF PInit, PlanInit, GivenInit, Init
<1> QED BY <1>2, <1>5, <1>7, <1>9, <1>10, <1>11 DEF PlanInv

LEMMA AssignKeeps ==
  ASSUME PlanInv, Assign
  PROVE  PlanInv'
<1> USE SizeAssumption
<1> DEFINE k == Len(anchor) + 1
           better == dual /\ (\/ loads[h2[k]] < loads[h1[k]]
                              \/ loads[h2[k]] = loads[h1[k]] /\ h2[k] < h1[k])
           a == IF better THEN h2[k] ELSE h1[k]
<1>1. /\ pc = "assign" /\ k \in Names
      /\ loads' = [loads EXCEPT ![a] = loads[a] + 1]
      /\ anchor' = Append(anchor, a)
      /\ UNCHANGED <<slice, kernel, pc, hashes, placed, used, holder>>
  BY DEF Assign
<1>2. PlanTypes /\ AssignInv /\ SliceInv
      /\ placed = {} /\ used = 0 /\ holder = Zeros /\ occupied = {}
  BY <1>1 DEF PlanInv
<1>3. UNCHANGED <<h1, h2, dual, placed, used, holder, pc, occupied, next>>
  BY <1>1 DEF hashes, slice
<1>4. PICK n \in 0..Size : h1 \in [1..n -> Buckets] /\ h2 \in [1..n -> Buckets]
  BY <1>2 DEF PlanTypes
<1>5. PICK m \in 0..Len(h1) : anchor \in [1..m -> Buckets]
  BY <1>2 DEF PlanTypes
<1>6. m \in Nat /\ k = m + 1 /\ k \in 1..n /\ Len(h1) = n
  BY <1>1, <1>4, <1>5 DEF Names
<1>7. a \in Buckets /\ a \in Anchors(k)
  <2>1. h1[k] \in Buckets /\ h2[k] \in Buckets
    BY <1>4, <1>6
  <2> HIDE DEF k
  <2> QED BY <2>1 DEF Anchors
<1> HIDE DEF k, better, a
<1>8. /\ anchor' \in [1..m + 1 -> Buckets] /\ anchor'[k] = a
      /\ \A j \in 1..m : anchor'[j] = anchor[j]
  <2>1. anchor \in Seq(Buckets) /\ Len(anchor) = m /\ m \in Nat
    BY <1>5, <1>6
  <2>2. /\ Append(anchor, a) \in Seq(Buckets) /\ Len(Append(anchor, a)) = m + 1
        /\ Append(anchor, a)[m + 1] = a
        /\ \A j \in 1..m : Append(anchor, a)[j] = anchor[j]
    BY <1>7, <2>1
  <2>3. anchor' \in Seq(Buckets) /\ Len(anchor') = m + 1
    BY <1>1, <2>2
  <2>4. anchor' \in [1..m + 1 -> Buckets]
    BY <2>3
  <2> QED BY <1>1, <1>6, <2>2, <2>4
<1>9. loads \in [Buckets -> Nat]
  BY <1>2 DEF PlanTypes
<1>10. PlanTypes'
  <2>1. m + 1 \in 0..Len(h1')
    BY <1>3, <1>6
  <2>2. loads' \in [Buckets -> Nat]
    BY <1>1, <1>7, <1>9
  <2>3. placed' \subseteq Names' /\ used' \in Nat /\ holder' \in [Buckets -> 0..Len(h1')]
    BY <1>2, <1>3 DEF PlanTypes
  <2>4. \E i \in 0..Size : h1' \in [1..i -> Buckets] /\ h2' \in [1..i -> Buckets]
    BY <1>3, <1>4
  <2>5. dual' \in BOOLEAN /\ pc' = "assign"
    BY <1>1, <1>2, <1>3 DEF PlanTypes
  <2>6. \E i \in 0..Len(h1') : anchor' \in [1..i -> Buckets]
    BY <1>8, <2>1
  <2> QED BY <2>2, <2>3, <2>4, <2>5, <2>6 DEF PlanTypes
<1>11. AssignInv'
  <2>1. DOMAIN anchor = 1..m /\ DOMAIN anchor' = 1..m + 1
    BY <1>5, <1>8
  <2>2. \A j \in 1..m + 1 : anchor'[j] \in Anchors(j)
    <3>1. \A j \in 1..m : anchor'[j] \in Anchors(j)
      BY <1>2, <1>8, <2>1 DEF AssignInv
    <3>2. \A j \in 1..m + 1 : j \in 1..m \/ j = k
      BY <1>6
    <3> QED BY <1>7, <1>8, <3>1, <3>2
  <2>3. \A j : Anchors(j)' = Anchors(j)
    BY <1>3 DEF Anchors
  <2>4. ASSUME NEW b \in Buckets
        PROVE  loads'[b] = Cardinality({j \in 1..m + 1 : anchor'[j] = b})
    <3> DEFINE S == {j \in 1..m : anchor[j] = b}
               T == {j \in 1..m + 1 : anchor'[j] = b}
    <3>1. loads[b] = Cardinality(S) /\ IsFiniteSet(S) /\ loads[b] \in Nat
      <4>1. IsFiniteSet(1..m)
        BY <1>6, FS_Interval
      <4>2. loads[b] = Cardinality(S)
        BY <1>2, <2>1 DEF AssignInv
      <4> QED BY <1>9, <4>1, <4>2, FS_Subset
    <3>2. \A j \in 1..m + 1 : j \in 1..m \/ j = k
      BY <1>6
    <3>3. \A j \in 1..m : j \in 1..m + 1 /\ j # k
      BY <1>6
    <3>4. k \in 1..m + 1
      BY <1>6
    <3>5. CASE b = a
      <4>1. T = S \cup {k} /\ k \notin S
        BY <1>8, <3>2, <3>3, <3>4, <3>5
      <4>2. Cardinality(T) = Cardinality(S) + 1
        <5> HIDE DEF S, T
        <5> QED BY <3>1, <4>1, FS_AddElement
      <4>3. loads'[b] = loads[b] + 1
        BY <1>1, <1>9, <3>5
      <4> HIDE DEF S, T
      <4> QED BY <3>1, <4>2, <4>3 DEF T
    <3>6. CASE b # a
      <4>1. T = S
        BY <1>8, <3>2, <3>3, <3>6
      <4>2. loads'[b] = loads[b]
        BY <1>1, <1>9, <3>6
      <4> HIDE DEF S
      <4> QED BY <3>1, <4>1, <4>2
    <3> QED BY <3>5, <3>6
  <2> QED BY <2>1, <2>2, <2>3, <2>4 DEF AssignInv
<1>12. SliceInv'
  BY <1>1, <1>2 DEF SliceInv, SliceTypes, Fresh, slice, kernel, links, visits
<1> QED BY <1>1, <1>2, <1>3, <1>10, <1>11, <1>12 DEF PlanInv

LEMMA AssignedKeeps ==
  ASSUME PlanInv, Assigned
  PROVE  PlanInv'
<1> USE SizeAssumption
<1>1. pc = "assign" /\ pc' = "place" /\ Len(anchor) = Len(h1)
      /\ UNCHANGED <<slice, kernel, hashes, plan>>
  BY DEF Assigned
<1>2. PlanTypes /\ AssignInv /\ SliceInv
      /\ placed = {} /\ used = 0 /\ holder = Zeros /\ occupied = {}
  BY <1>1 DEF PlanInv
<1>3. UNCHANGED <<h1, h2, dual, loads, anchor, placed, used, holder, occupied, next>>
  BY <1>1 DEF hashes, plan, slice
<1>4. SliceInv'
  BY <1>1, <1>2 DEF SliceInv, SliceTypes, Fresh, slice, kernel, links, visits
<1>5. PlanTypes'
  BY <1>1, <1>2, <1>3 DEF PlanTypes, Names
<1>6. AssignInv'
  BY <1>2, <1>3 DEF AssignInv, Anchors
<1>7. PlaceInv'
  <2>1. placed' = {} /\ used' = 0 /\ holder' = Zeros /\ occupied' = {}
    BY <1>2, <1>3
  <2>2. (placed \cap Others)' = {}
    BY <2>1
  <2>3. \A b \in Buckets : Zeros[b] = 0
    BY DEF Zeros
  <2> QED BY <2>1, <2>2, <2>3, FS_EmptySet DEF PlaceInv
<1> QED BY <1>1, <1>3, <1>4, <1>5, <1>6, <1>7 DEF PlanInv
LEMMA PlaceKeeps ==
  ASSUME PlanInv, Place
  PROVE  PlanInv'
<1> USE SizeAssumption
<1>1. PICK k \in Names :
        LET first == \A j \in Group(anchor[k]) : k <= j
            taken == IF first THEN used ELSE used + 1
            position == IF first THEN anchor[k] ELSE Overflow[taken]
            follower == IF NeedsNext(k) THEN Overflow[taken + 1] ELSE Size
        IN
        /\ Turn(k)
        /\ IF \/ taken > Len(Overflow)
              \/ NeedsNext(k) /\ taken = Len(Overflow)
           THEN pc' = "error" /\ UNCHANGED <<slice, placed, used, holder>>
           ELSE /\ occupied' = occupied \cup {position}
                /\ next' = [next EXCEPT ![position] = follower]
                /\ holder' = [holder EXCEPT ![position] = k]
                /\ placed' = placed \cup {k}
                /\ used' = taken
                /\ UNCHANGED pc
  BY DEF Place
<1>2. pc = "place" /\ UNCHANGED <<kernel, hashes, loads, anchor>>
  BY DEF Place
<1>3. PlanTypes /\ AssignInv /\ SliceInv /\ PlaceInv /\ Settled
  BY <1>2, SettledIs DEF PlanInv
<1>4. UNCHANGED <<h1, h2, dual, loads, anchor, head, sibling, enter, leave, clock, seen, root, at>>
  BY <1>2 DEF hashes, kernel, links, visits
<1>5. k \notin placed /\ placed \subseteq Names
  BY <1>1, <1>3 DEF Turn, PlanTypes
<1>6. ASSUME NEW j \in Names PROVE j \in placed <=> Before(j, k)
  <2>1. j \in placed => Before(j, k)
    BY <1>3, <1>5, <1>6, BeforeOrder DEF PlaceInv
  <2>2. j \notin placed => ~Before(j, k)
    <3> SUFFICES ASSUME j \notin placed PROVE ~Before(j, k)
      OBVIOUS
    <3>1. anchor[k] < anchor[j] \/ (anchor[k] = anchor[j] /\ k <= j)
      BY <1>1, <1>6 DEF Turn
    <3>2. anchor[k] \in Nat /\ anchor[j] \in Nat /\ k \in Nat /\ j \in Nat
      BY <1>3 DEF Settled, Buckets
    <3> QED BY <3>1, <3>2 DEF Before
  <2> QED BY <2>1, <2>2
<1>7. Upto(k) = (placed \cup {k}) \cap Others
  <2>1. ASSUME NEW j \in Others PROVE ~Before(k, j) <=> j \in placed \cup {k}
    BY <1>3, <1>6, BeforeOrder DEF Others
  <2> QED BY <2>1 DEF Upto
<1> DEFINE taken == IF First(k) THEN used ELSE used + 1
<1>8. taken = Cardinality(Upto(k))
  <2>1. used = Cardinality(placed \cap Others) /\ IsFiniteSet(placed \cap Others)
    BY <1>3, OthersFit, FS_Subset DEF PlaceInv
  <2>2. CASE First(k)
    <3>1. Upto(k) = placed \cap Others
      BY <1>7, <2>2 DEF Others
    <3> QED BY <2>1, <2>2, <3>1
  <2>3. CASE ~First(k)
    <3>1. Upto(k) = (placed \cap Others) \cup {k} /\ k \notin placed \cap Others
      BY <1>5, <1>7, <2>3 DEF Others
    <3> QED BY <2>1, <2>3, <3>1, FS_AddElement
  <2> QED BY <2>2, <2>3
<1>9. Cardinality(Upto(k)) \in 0..Len(Overflow) /\ Len(Overflow) \in Nat
  BY <1>3, OthersFit, Positions, UptoGrows
<1>10. ASSUME NeedsNext(k)
       PROVE  Cardinality(Upto(k)) # Len(Overflow) /\ Follower(k) \in Buckets
  <2>1. PICK j \in Group(anchor[k]) :
          /\ j \in Others /\ Cardinality(Upto(j)) = Cardinality(Upto(k)) + 1
          /\ Follower(k) = Position(j)
    BY <1>3, <1>10, Followers
  <2>2. j \in Names
    BY DEF Group
  <2>3. Cardinality(Upto(j)) \in 0..Len(Overflow) /\ Position(j) \in Buckets
    BY <1>3, <2>2, OthersFit, Positions, UptoGrows
  <2> QED BY <1>9, <2>1, <2>3
<1>11. /\ occupied' = occupied \cup {Position(k)}
       /\ next' = [next EXCEPT ![Position(k)] = Follower(k)]
       /\ holder' = [holder EXCEPT ![Position(k)] = k]
       /\ placed' = placed \cup {k}
       /\ used' = Cardinality(Upto(k))
       /\ pc' = "place"
  <2>1. ~(taken > Len(Overflow)) /\ ~(NeedsNext(k) /\ taken = Len(Overflow))
    <3> HIDE DEF taken
    <3> QED BY <1>8, <1>9, <1>10
  <2>2. Position(k) = IF First(k) THEN anchor[k] ELSE Overflow[taken]
    <3> HIDE DEF taken
    <3> QED BY <1>8 DEF Position
  <2>3. Follower(k) = IF NeedsNext(k) THEN Overflow[taken + 1] ELSE Size
    <3> HIDE DEF taken
    <3> QED BY <1>8 DEF Follower
  <2>4. /\ occupied' = occupied \cup {Position(k)}
        /\ next' = [next EXCEPT ![Position(k)] = Follower(k)]
        /\ holder' = [holder EXCEPT ![Position(k)] = k]
        /\ placed' = placed \cup {k}
        /\ used' = taken
        /\ UNCHANGED pc
    BY <1>1, <2>1, <2>2, <2>3 DEF First
  <2> HIDE DEF taken
  <2> QED BY <1>2, <1>8, <2>4
<1>12. Position(k) \in Buckets /\ Follower(k) \in 0..Size
  BY <1>3, <1>10, Positions DEF Follower, Buckets
<1>13. \A j \in placed : Position(j) # Position(k) /\ Position(j) \in Buckets
  BY <1>3, <1>5, Positions
<1>14. next \in [Buckets -> 0..Size + 1] /\ holder \in [Buckets -> 0..Len(h1)]
       /\ occupied \subseteq Buckets
  <2>1. SliceTypes BY <1>3 DEF SliceInv
  <2> QED BY <1>3, <2>1 DEF PlanTypes, SliceTypes
<1>15. /\ \A j \in placed : Position(j)' = Position(j) /\ Follower(j)' = Follower(j)
       /\ Position(k)' = Position(k) /\ Follower(k)' = Follower(k)
       /\ Names' = Names /\ Others' = Others
       /\ \A i, j : Before(i, j)' <=> Before(i, j)
  BY <1>4, PlanStays
<1>16. PlaceInv'
  <2>1. \A i \in placed' : \A j \in Names' : Before(j, i)' => j \in placed'
    <3>1. \A i \in placed : \A j \in Names : Before(j, i) => j \in placed
      BY <1>3 DEF PlaceInv
    <3> QED BY <1>6, <1>11, <1>15, <3>1
  <2>2. used' = Cardinality((placed \cap Others)')
    <3>1. (placed \cap Others)' = (placed \cup {k}) \cap Others
      BY <1>11, <1>15
    <3> QED BY <1>7, <1>11, <3>1
  <2>3. occupied' = {Position(j)' : j \in placed'}
    BY <1>3, <1>11, <1>15 DEF PlaceInv
  <2>4. \A j \in placed' : holder'[Position(j)'] = j /\ next'[Position(j)'] = Follower(j)'
    <3>1. \A j \in placed : holder[Position(j)] = j /\ next[Position(j)] = Follower(j)
      BY <1>3 DEF PlaceInv
    <3>2. holder'[Position(k)] = k /\ next'[Position(k)] = Follower(k)
      BY <1>11, <1>12, <1>14
    <3>3. \A j \in placed : /\ holder'[Position(j)] = holder[Position(j)]
                            /\ next'[Position(j)] = next[Position(j)]
      BY <1>11, <1>13, <1>14
    <3> QED BY <1>11, <1>15, <3>1, <3>2, <3>3
  <2>5. \A b \in Buckets \ occupied' : holder'[b] = 0
    BY <1>3, <1>11, <1>14 DEF PlaceInv
  <2> QED BY <2>1, <2>2, <2>3, <2>4, <2>5 DEF PlaceInv
<1>17. SliceInv'
  <2>1. SliceTypes /\ Fresh
    BY <1>2, <1>3 DEF SliceInv
  <2>2. occupied' \subseteq Buckets /\ next' \in [Buckets -> 0..Size + 1]
    <3>1. Follower(k) \in 0..Size + 1
      BY <1>12
    <3> QED BY <1>11, <1>12, <1>14, <3>1
  <2>3. SliceTypes' /\ Fresh'
    BY <1>4, <2>1, <2>2 DEF SliceTypes, Fresh
  <2> QED BY <1>11, <2>3 DEF SliceInv
<1>18. PlanTypes'
  <2>1. placed' \subseteq Names' /\ used' \in Nat
    BY <1>5, <1>9, <1>11, <1>15
  <2>2. holder' \in [Buckets -> 0..Len(h1')]
    <3>1. k \in 0..Len(h1)
      BY <1>3 DEF Settled
    <3> QED BY <1>4, <1>11, <1>12, <1>14, <3>1
  <2> QED BY <1>3, <1>4, <1>11, <2>1, <2>2 DEF PlanTypes
<1>19. AssignInv'
  BY <1>3, <1>4 DEF AssignInv, Anchors
<1>20. Len(anchor') = Len(h1') /\ pc' = "place"
  BY <1>2, <1>4, <1>11 DEF PlanInv
<1> QED BY <1>16, <1>17, <1>18, <1>19, <1>20 DEF PlanInv

LEMMA WrittenKeeps ==
  ASSUME PlanInv, Written
  PROVE  PlanInv'
<1>1. pc = "place" /\ placed = Names /\ pc' = "link"
      /\ UNCHANGED <<slice, kernel, hashes, plan>>
  BY DEF Written
<1>2. UNCHANGED <<occupied, next, head, sibling, enter, leave, clock, seen, root, at>>
  BY <1>1 DEF slice, kernel, links, visits
<1>3. SliceTypes /\ Fresh /\ occupied \subseteq Buckets
  <2>1. SliceInv BY DEF PlanInv
  <2>2. SliceTypes /\ Fresh BY <1>1, <2>1 DEF SliceInv
  <2> QED BY <2>2 DEF SliceTypes
<1>4. SliceTypes' /\ LinkInv'
  BY <1>2, <1>3, FreshLinks DEF SliceTypes, LinkInv, IsLast, Kids
<1>5. SliceInv'
  BY <1>1, <1>4 DEF SliceInv
<1> QED BY <1>1, <1>2, <1>5, BuilderStays

\* Nothing changes, nothing is lost.
LEMMA SliceStays ==
  ASSUME SliceInv, UNCHANGED vars
  PROVE  SliceInv'
<1>1. UNCHANGED <<occupied, next, head, sibling, enter, leave, clock, seen, root, at, pc>>
  BY DEF vars, slice, links, visits
<1>2. /\ Entered' = Entered
      /\ \A n : Kids(n)' = Kids(n) /\ (Open(n)' <=> Open(n))
      /\ Walking' <=> Walking
  BY <1>1 DEF Entered, Kids, Open, Walking
<1>3. \A x, n, k : IsLast(x, n, k)' <=> IsLast(x, n, k)
  BY <1>1, <1>2 DEF IsLast
<1>4. SliceTypes => SliceTypes'
  BY <1>1 DEF SliceTypes
<1>5. LinkInv => LinkInv'
  BY <1>1 DEF LinkInv, IsLast, Kids
<1>6. ChainedInv => ChainedInv'
  BY <1>1 DEF ChainedInv
<1>7. HeadInv => HeadInv'
  BY <1>1 DEF HeadInv, IsLast, Kids, Entered
<1>8. NumberInv => NumberInv'
  BY <1>1, <1>2 DEF NumberInv
<1>9. LeaveInv => LeaveInv'
  BY <1>1, <1>2 DEF LeaveInv
<1>10. NestInv => NestInv'
  BY <1>1, <1>2 DEF NestInv
<1>11. RootInv => RootInv'
  BY <1>1, <1>2 DEF RootInv
<1>12. WalkInv => WalkInv'
  BY <1>1 DEF WalkInv, Open, Walking, Entered
<1>13. RejectInv => RejectInv'
  BY <1>1 DEF RejectInv
<1>14. Fresh => Fresh'
  BY <1>1 DEF Fresh
<1>15. AcceptInv => AcceptInv'
  BY <1>1, <1>2, <1>6, <1>8, <1>9, <1>10 DEF AcceptInv, Open
<1>16. ForestInv => ForestInv'
  BY <1>6, <1>7, <1>8, <1>9, <1>10, <1>11, <1>12 DEF ForestInv
<1> QED BY <1>1, <1>4, <1>5, <1>13, <1>14, <1>15, <1>16 DEF SliceInv

LEMMA PlanInvKept == PSpec => []PlanInv
<1>1. PInit => PlanInv
  BY InitKeeps
<1>2. PlanInv /\ [PNext]_pvars => PlanInv'
  <2> SUFFICES ASSUME PlanInv, [PNext]_pvars PROVE PlanInv'
    OBVIOUS
  <2>1. CASE Build
    BY <2>1, AssignKeeps, AssignedKeeps, PlaceKeeps, WrittenKeeps DEF Build
  <2>2. CASE Next /\ UNCHANGED <<hashes, plan>>
    BY <2>2, KernelKeeps
  <2>3. CASE UNCHANGED pvars
    <3>1. SliceInv' /\ UNCHANGED <<hashes, plan>> /\ UNCHANGED <<occupied, next, pc>>
      BY <2>3, SliceStays DEF PlanInv, pvars, vars, slice
    <3>2. CASE pc = "assign"
      <4>1. UNCHANGED <<h1, h2, dual, loads, anchor, placed, used, holder>>
        BY <3>1 DEF hashes, plan
      <4>2. PlanTypes' /\ AssignInv'
        BY <3>1, <4>1 DEF PlanInv, PlanTypes, AssignInv, Anchors, Names
      <4> QED BY <3>1, <3>2, <4>1, <4>2 DEF PlanInv
    <3>3. CASE pc # "assign"
      <4>1. pc' = "place" \/ placed = Names
        BY <3>1, <3>3 DEF PlanInv
      <4>2. pc' \in {"place", "link", "roots", "visit", "move", "accepted", "rejected"}
        BY <3>1, <3>3 DEF PlanInv, PlanTypes
      <4> QED BY <3>1, <3>3, <4>1, <4>2, BuilderStays
    <3> QED BY <3>2, <3>3
  <2> QED BY <2>1, <2>2, <2>3 DEF PNext
<1> QED BY <1>1, <1>2, PTL DEF PSpec
-----------------------------------------------------------------------------
(* What was placed.                                                        *)

\* j is the next name of i's chain
NextOf(i, j) ==
  /\ j \in Group(anchor[i]) /\ i < j
  /\ \A m \in Group(anchor[i]) : i < m => j <= m

\* Induction along a chain.
LEMMA AlongChain ==
  ASSUME Settled, NEW a, NEW A,
         \A j \in Group(a) : First(j) => j \in A,
         \A i, j \in Group(a) : i \in A /\ NextOf(i, j) => j \in A
  PROVE  Group(a) \subseteq A
<1> USE SizeAssumption
<1> DEFINE B == {m \in 0..Size : \A j \in Group(a) : j <= m => j \in A}
<1>1. \A j \in Group(a) : j \in Names /\ j \in 1..Size /\ anchor[j] = a
  BY DEF Group, Settled
<1>2. 0 \in B
  BY <1>1
<1>3. ASSUME NEW m \in 0..Size - 1, m \in B PROVE m + 1 \in B
  <2> SUFFICES ASSUME NEW j \in Group(a), j <= m + 1 PROVE j \in A
    OBVIOUS
  <2>1. CASE j <= m
    BY <1>3, <2>1
  <2>2. CASE First(j)
    BY <2>2
  <2>3. CASE ~First(j) /\ ~(j <= m)
    <3> DEFINE P == {i \in Group(a) : i < j}
    <3>1. P \in SUBSET (0..Size) /\ P # {}
      <4>1. \E i \in Group(a) : ~(j <= i)
        BY <1>1, <2>3 DEF First
      <4> QED BY <1>1, <4>1
    <3>2. PICK p \in P : \A i \in P : i <= p
      <4> HIDE DEF P
      <4> QED BY <3>1, GreatestNat
    <3>3. p \in Group(a) /\ p < j /\ p <= m
      BY <1>1, <2>3, <3>2
    <3>4. NextOf(p, j)
      BY <1>1, <3>2, <3>3 DEF NextOf
    <3>5. p \in A
      BY <1>3, <3>3
    <3> QED BY <3>3, <3>4, <3>5
  <2> QED BY <2>1, <2>2, <2>3
<1>4. Size \in B
  <2> HIDE DEF B
  <2> QED BY <1>2, <1>3, Upward
<1> QED BY <1>1, <1>4

\* The chains of the image are those of the plan.
LEMMA PlacedChains ==
  ASSUME Settled, PlaceInv, placed = Names, NEW k \in Names
  PROVE  /\ Position(k) \in Buckets /\ Position(k) \in occupied
         /\ \A c \in Buckets : holder[c] = k <=> c = Position(k)
         /\ \A j \in Names : NextOf(k, j) => next[Position(k)] = Position(j)
         /\ ~NeedsNext(k) => next[Position(k)] = Size
<1> USE SizeAssumption
<1>1. Position(k) \in Buckets /\ Position(k) \in occupied
  BY Positions DEF PlaceInv
<1>2. \A c \in Buckets : holder[c] = k <=> c = Position(k)
  <2> TAKE c \in Buckets
  <2>1. c \in occupied => \E j \in Names : c = Position(j) /\ holder[c] = j
    BY DEF PlaceInv
  <2>2. c \notin occupied => holder[c] = 0 /\ k # 0
    BY DEF PlaceInv, Settled
  <2> QED BY <1>1, <2>1, <2>2 DEF PlaceInv
<1>3. ASSUME NEW j \in Names, NextOf(k, j) PROVE next[Position(k)] = Position(j)
  <2>1. NeedsNext(k)
    BY <1>3 DEF NextOf, NeedsNext
  <2>2. PICK i \in Group(anchor[k]) :
          /\ k < i /\ \A m \in Group(anchor[k]) : k < m => i <= m
          /\ Follower(k) = Position(i)
    BY <2>1, Followers
  <2>3. i = j
    <3>1. i \in Nat /\ j \in Nat
      BY GroupIs DEF NextOf, Settled, Group
    <3>2. i <= j /\ j <= i
      BY <1>3, <2>2 DEF NextOf
    <3> QED BY <3>1, <3>2
  <2> QED BY <2>2, <2>3 DEF PlaceInv
<1>4. ~NeedsNext(k) => next[Position(k)] = Size
  BY DEF PlaceInv, Follower
<1> QED BY <1>1, <1>2, <1>3, <1>4

\* Of the entries that lead only to each other the last name would end.
LEMMA PlacedAccepted ==
  ASSUME PlanInv, placed # {}
  PROVE  pc # "rejected"
<1> USE SizeAssumption
<1> SUFFICES ASSUME pc = "rejected" PROVE FALSE
  OBVIOUS
<1>1. SliceTypes /\ RejectInv /\ Settled /\ placed = Names /\ PlaceInv
  <2>1. SliceInv /\ placed = Names /\ PlanTypes /\ Len(anchor) = Len(h1)
    BY DEF PlanInv
  <2>2. SliceTypes /\ RejectInv
    BY <2>1 DEF SliceInv
  <2>3. PlaceInv
    BY <2>1 DEF PlanInv
  <2> QED BY <2>1, <2>2, <2>3, SettledIs
<1>2. PICK S, X : Stuck(S, X)
  BY <1>1, RejectedStuck
<1> DEFINE K == {k \in Names : Position(k) \in S}
<1>3. K \in SUBSET (0..Size) /\ K # {}
  <2>1. PICK b \in S : b \in occupied
    BY <1>2 DEF Stuck
  <2>2. \E k \in Names : b = Position(k)
    BY <1>1, <2>1 DEF PlaceInv
  <2> QED BY <1>1, <2>1, <2>2 DEF Settled
<1>4. PICK k \in K : \A i \in K : i <= k
  <2> HIDE DEF K
  <2> QED BY <1>3, GreatestNat
<1>5. k \in Names /\ Position(k) \in S /\ next[Position(k)] \in X /\ Size \notin X
  BY <1>2, <1>4 DEF Stuck
<1>6. NeedsNext(k)
  BY <1>1, <1>5, PlacedChains
<1>7. PICK j \in Group(anchor[k]) : k < j /\ Follower(k) = Position(j)
  BY <1>1, <1>5, <1>6, Followers
<1>8. j \in Names /\ Position(j) \in occupied /\ next[Position(k)] = Position(j)
  <2>1. j \in Names
    BY DEF Group
  <2> QED BY <1>1, <1>5, <1>7, <2>1 DEF PlaceInv
<1>9. j \in K
  BY <1>2, <1>5, <1>8 DEF Stuck
<1>10. j \in Nat /\ k \in Nat
  BY <1>1, <1>5, <1>8 DEF Settled
<1> QED BY <1>4, <1>7, <1>9, <1>10

\* A chain leads to the buckets of its names and to no others.
LEMMA ChainCovers ==
  ASSUME SliceTypes, AcceptInv, Settled, PlaceInv, placed = Names, NEW k \in Names
  PROVE  /\ anchor[k] \in occupied
         /\ \A c \in occupied : Covers(c, anchor[k]) <=> holder[c] \in Group(anchor[k])
<1> USE SizeAssumption
<1> DEFINE a == anchor[k]
<1>1. \A j \in Group(a) : j \in Names /\ anchor[j] = a /\ j \in 1..Size
  BY DEF Group, Settled
<1>2. \A j \in Group(a) :
        /\ Position(j) \in occupied
        /\ First(j) => Position(j) = a
        /\ \A c \in Buckets : holder[c] = j <=> c = Position(j)
        /\ \A i \in Group(a) : NextOf(j, i) => next[Position(j)] = Position(i)
        /\ ~NeedsNext(j) => next[Position(j)] = Size
  BY <1>1, PlacedChains DEF Position
<1>3. k \in Group(a)
  BY DEF Group
<1> HIDE DEF a
<1>4. a \in occupied
  <2>1. PICK j \in Group(a) : \A i \in Group(a) : j <= i
    <3>1. Group(a) \in SUBSET Nat /\ Group(a) # {}
      BY <1>1, <1>3
    <3> QED BY <3>1, LeastNat
  <2>2. First(j)
    BY <1>1, <2>1 DEF First
  <2> QED BY <1>2, <2>2
<1>5. \A x \in occupied : enter[x] \in Nat /\ leave[x] \in Nat /\ x # Size
  BY AcceptedEntry DEF Buckets
<1>6. ASSUME NEW j \in Group(a) PROVE Covers(Position(j), a)
  <2> DEFINE A == {i \in Group(a) : Covers(Position(i), a)}
  <2>1. \A i \in Group(a) : First(i) => i \in A
    BY <1>2, <1>4, AcceptedEntry
  <2>2. ASSUME NEW i \in Group(a), NEW m \in Group(a), i \in A, NextOf(i, m)
        PROVE  m \in A
    <3>1. next[Position(i)] = Position(m) /\ Position(i) \in occupied /\ Position(m) \in occupied
      BY <1>2, <2>2
    <3>2. next[Position(i)] # Size
      BY <1>5, <3>1
    <3>3. /\ enter[Position(m)] < enter[Position(i)]
          /\ leave[Position(i)] <= leave[Position(m)]
      BY <3>1, <3>2, AcceptedEntry
    <3> QED BY <1>4, <1>5, <2>2, <3>1, <3>3 DEF Covers
  <2>3. Group(a) \subseteq A
    <3> HIDE DEF A
    <3> QED BY <2>1, <2>2, AlongChain
  <2> QED BY <2>3
<1>7. ASSUME NEW c \in occupied, Covers(c, a), holder[c] \notin Group(a) PROVE FALSE
  <2> DEFINE A == {i \in Group(a) : Covers(c, Position(i))}
  <2>0. \A i \in Group(a) : Position(i) # c
    BY <1>2, <1>7 DEF SliceTypes
  <2>1. \A i \in Group(a) : First(i) => i \in A
    BY <1>2, <1>7
  <2>2. ASSUME NEW i \in Group(a), i \in A
        PROVE  next[Position(i)] # Size /\ Covers(c, next[Position(i)])
    BY <1>2, <2>0, <2>2, CoveredMoves
  <2>3. ASSUME NEW i \in Group(a), NEW m \in Group(a), i \in A, NextOf(i, m)
        PROVE  m \in A
    BY <1>2, <2>2, <2>3
  <2>4. Group(a) \subseteq A
    <3> HIDE DEF A
    <3> QED BY <2>1, <2>3, AlongChain
  <2>5. PICK j \in Group(a) : \A i \in Group(a) : i <= j
    <3>1. Group(a) \in SUBSET (0..Size) /\ Group(a) # {}
      BY <1>1, <1>3
    <3> QED BY <3>1, GreatestNat
  <2>6. ~NeedsNext(j)
    BY <1>1, <2>5 DEF NeedsNext
  <2> QED BY <1>2, <2>2, <2>4, <2>6
<1>8. ASSUME NEW c \in occupied, holder[c] \in Group(a) PROVE Covers(c, a)
  <2>1. c = Position(holder[c])
    BY <1>2, <1>8 DEF SliceTypes
  <2> QED BY <1>6, <1>8, <2>1
<1> QED BY <1>4, <1>7, <1>8 DEF a

LEMMA InvFinds == ASSUME PlanInv PROVE KernelFinds
<1> USE SizeAssumption
<1>1. PlacementFits
  BY DEF PlanInv, PlanTypes, PlacementFits
<1>2. placed # {} => pc # "rejected"
  BY PlacedAccepted
<1>3. ASSUME pc = "accepted", NEW k \in Names
      PROVE  \E b \in occupied :
               /\ \A c \in Buckets : holder[c] = k <=> c = b
               /\ Anchored(b, Anchors(k)) /\ Found(b, Anchors(k))
               /\ Cardinality({c \in occupied : LeadsTo(anchor[k], c)}) = loads[anchor[k]]
  <2>1. /\ SliceInv /\ SliceTypes /\ AcceptInv /\ Settled /\ AssignInv
        /\ placed = Names /\ PlaceInv
    <3>1. SliceInv /\ AssignInv /\ placed = Names /\ PlanTypes /\ Len(anchor) = Len(h1)
      BY <1>3 DEF PlanInv
    <3>2. SliceTypes /\ AcceptInv
      BY <1>3, <3>1 DEF SliceInv
    <3>3. PlaceInv
      BY <1>3 DEF PlanInv
    <3> QED BY <3>1, <3>2, <3>3, SettledIs
  <2> DEFINE a == anchor[k]
             b == Position(k)
  <2>2. /\ b \in Buckets /\ b \in occupied /\ holder[b] = k
        /\ \A c \in Buckets : holder[c] = k <=> c = b
    BY <1>3, <2>1, PlacedChains
  <2>3. a \in occupied /\ \A c \in occupied : Covers(c, a) <=> holder[c] \in Group(a)
    BY <1>3, <2>1, ChainCovers
  <2>4. a \in Anchors(k) /\ k \in Group(a) /\ DOMAIN anchor = Names
    BY <1>3, <2>1 DEF AssignInv, Settled, Group
  <2>5. Anchored(b, Anchors(k))
    <3> HIDE DEF a, b
    <3>1. Covers(b, a)
      BY <2>2, <2>3, <2>4
    <3> QED BY <2>3, <2>4, <3>1 DEF Anchored, LeadsTo, Covers
  <2>6. Anchors(k) \in AnchorSets
    <3>1. h1[k] \in Buckets /\ h2[k] \in Buckets
      <4>1. PICK n \in 0..Size : h1 \in [1..n -> Buckets] /\ h2 \in [1..n -> Buckets]
        BY DEF PlanInv, PlanTypes
      <4> QED BY <1>3, <4>1 DEF Names
    <3>2. Anchors(k) \subseteq Buckets
      BY <3>1 DEF Anchors
    <3>3. Cardinality({h1[k]}) = 1
      BY FS_Singleton
    <3>4. Cardinality({h1[k], h2[k]}) \in {1, 2}
      <4>1. CASE h1[k] = h2[k]
        <5>1. {h1[k], h2[k]} = {h1[k]}
          BY <4>1
        <5> QED BY <3>3, <5>1
      <4>2. CASE h1[k] # h2[k]
        <5>1. {h1[k], h2[k]} = {h1[k]} \cup {h2[k]} /\ h2[k] \notin {h1[k]}
          BY <4>2
        <5>2. IsFiniteSet({h1[k]})
          BY FS_Singleton
        <5>3. Cardinality({h1[k]} \cup {h2[k]}) = Cardinality({h1[k]}) + 1
          BY <5>1, <5>2, FS_AddElement
        <5> QED BY <3>3, <5>1, <5>3
      <4> QED BY <4>1, <4>2
    <3> QED BY <3>2, <3>3, <3>4 DEF AnchorSets, Anchors
  <2>7. Found(b, Anchors(k))
    <3> HIDE DEF b
    <3>1. ReadersAgree
      BY <2>1, InvReaders
    <3> QED BY <1>3, <2>2, <2>5, <2>6, <3>1 DEF ReadersAgree
  <2>8. Cardinality({c \in occupied : LeadsTo(a, c)}) = loads[a]
    <3> DEFINE C == {c \in occupied : LeadsTo(a, c)}
               f == [j \in Group(a) |-> Position(j)]
    <3>1. C = {c \in occupied : holder[c] \in Group(a)}
      <4> HIDE DEF a
      <4> QED BY <2>3 DEF LeadsTo, Covers
    <3>2. \A j \in Group(a) : /\ Position(j) \in occupied /\ holder[Position(j)] = j
                              /\ \A c \in Buckets : holder[c] = j <=> c = Position(j)
      <4> HIDE DEF a
      <4>1. \A j \in Group(a) : j \in Names
        BY DEF Group
      <4>2. \A j \in Names : /\ Position(j) \in occupied /\ Position(j) \in Buckets
                             /\ \A c \in Buckets : holder[c] = j <=> c = Position(j)
        BY <2>1, PlacedChains
      <4> QED BY <4>1, <4>2
    <3>3. f \in Bijection(Group(a), C)
      <4> HIDE DEF a, C
      <4>1. f \in [Group(a) -> C]
        BY <3>1, <3>2
      <4>2. \A i, j \in Group(a) : f[i] = f[j] => i = j
        BY <3>2
      <4>3. \A c \in C : \E j \in Group(a) : f[j] = c
        <5>1. occupied \subseteq Buckets
          BY <2>1 DEF SliceTypes
        <5> QED BY <3>1, <3>2, <5>1
      <4> HIDE DEF f
      <4> QED BY <4>1, <4>2, <4>3 DEF Bijection, Injection, Surjection, IsInjective
    <3>4. IsFiniteSet(Group(a)) /\ loads[a] = Cardinality(Group(a))
      <4>1. a \in Buckets
        BY <1>3, <2>1 DEF Settled
      <4> HIDE DEF a
      <4>2. loads[a] = Cardinality({j \in Names : anchor[j] = a})
        BY <2>1, <2>4, <4>1 DEF AssignInv
      <4>3. IsFiniteSet(Names)
        BY <2>1, GroupIs
      <4> QED BY <4>2, <4>3, FS_Subset DEF Group
    <3>5. Cardinality(C) = Cardinality(Group(a))
      <4>1. ExistsBijection(Group(a), C)
        <5> HIDE DEF f, C, a
        <5> QED BY <3>3 DEF ExistsBijection
      <4> HIDE DEF C, a
      <4> QED BY <3>4, <4>1, FS_Bijection
    <3> QED BY <3>4, <3>5
  <2> QED BY <2>2, <2>5, <2>7, <2>8
<1> QED BY <1>1, <1>2, <1>3 DEF KernelFinds

-----------------------------------------------------------------------------
(* Theorems.                                                               *)

\* chains() accepts the directories whose chains stay in occupied buckets and
\* end, and rejects every other.
THEOREM KernelDecides == PSpec => []ChainsDecides
<1>1. PlanInv => ChainsDecides
  BY InvDecides DEF PlanInv
<1> QED BY <1>1, PlanInvKept, PTL

\* What the kernel accepts, its interval test, its lookups, fsck and the
\* builder's own check read in the same way; what it rejects, fsck and the
\* builder reject.
THEOREM ReadersAlwaysAgree == PSpec => []ReadersAgree
<1>1. PlanInv => ReadersAgree
  BY InvReaders DEF PlanInv
<1> QED BY <1>1, PlanInvKept, PTL

\* constructBuckets runs out of no buckets, and what it places the kernel
\* accepts and finds, in chains as long as the loads say.
THEOREM PlacedIsFound == PSpec => []KernelFinds
<1>1. PlanInv => KernelFinds
  BY InvFinds
<1> QED BY <1>1, PlanInvKept, PTL
=============================================================================

------------------------------ MODULE MCCellPlan ------------------------------
(***************************************************************************)
(* Instance of CellPlan.  Names are chosen for their hashes: those of      *)
(* Together are equal under both small bases, whatever the table; those of *)
(* Apart only where the table's size divides 6; the best table for Tuned   *)
(* by squares has a chain of three, and the next one, no better by         *)
(* squares, has not.  "e" and "f" are directories.                         *)
(***************************************************************************)
EXTENDS CellPlan

MCNameBytes ==
  <<<<97, 100>>,       \* 1 ad
    <<97, 110>>,       \* 2 an
    <<97, 120, 50>>,   \* 3 ax2
    <<98, 112, 65>>,   \* 4 bpA
    <<99, 104>>,       \* 5 ch
    <<99, 104, 80>>,   \* 6 chP
    <<100, 96, 95>>,   \* 7 d`_
    <<100, 103>>,      \* 8 dg
    <<101>>,           \* 9 e
    <<101, 116>>,      \* 10 et
    <<102>>,           \* 11 f
    <<105, 119>>,      \* 12 iw
    <<109, 120>>,      \* 13 mx
    <<110, 97>>>>      \* 14 na
Together == {3, 4, 6, 7}
Apart == {1, 8}
Tuned == {2, 5, 10, 12, 13, 14}

MCSmallPrimes == <<3, 5>>

\* modes: S_IFREG and so on, the permissions a number of their own
KeyOf == (DIR :> 16384) @@ (FILE :> 32768) @@ (SYMLINK :> 40960) @@ (FIFO :> 4096) @@ (LINK :> 0)

\* a leaf is a file with attributes of its own; or its name says what it is,
\* where a hard link is one of the file just before it
Kind(name) == CASE name \in {4, 8} -> LINK [] name = 6 -> SYMLINK [] name = 7 -> FIFO [] OTHER -> FILE

Leaf(parent, at, name, kind, varied) ==
  [parent |-> parent, name |-> name, type |-> kind,
   key |-> KeyOf[kind] + IF varied THEN 0 ELSE name,
   canonical |-> IF kind = LINK THEN at - 1 ELSE at]

Leaves(parent, at, names, varied) ==
  LET s == SetToSortSeq(names, <)
      NoFileBefore(k) == k = 1 \/ Kind(s[k - 1]) # FILE
      Shown(k) == IF ~varied THEN FILE
                  ELSE IF Kind(s[k]) = LINK /\ NoFileBefore(k) THEN FIFO ELSE Kind(s[k])
  IN [k \in DOMAIN s |-> Leaf(parent, at + k - 1, s[k], Shown(k), varied)]

\* a directory and its leaves after the nodes so far; {0} for one that is not there
WithDir(nodes, parent, name, leaves, varied) ==
  IF leaves = {0} THEN nodes
  ELSE nodes
    \o <<[parent |-> parent, name |-> name, type |-> DIR, key |-> KeyOf[DIR], canonical |-> Len(nodes)]>>
    \o Leaves(Len(nodes), Len(nodes) + 1, leaves, varied)

Numbered(nodes) ==
  [nodes |-> [i \in 0..Len(nodes) - 1 |-> nodes[i + 1]], rootKey |-> KeyOf[DIR]]

\* <<leaves of the root, of directory e, of directory f; f in e; varied>>
MakeTree(x) ==
  LET withE == WithDir(Leaves(-1, 0, x[1], x[5]), -1, 9, x[2], x[5])
  IN Numbered(WithDir(withE, IF x[4] THEN Cardinality(x[1]) ELSE -1, 11, x[3], x[5]))

Shapes ==
  ({{}, Apart, Together} \X {{0}, {}, Apart, Together, Tuned} \X {{0}} \X {FALSE} \X BOOLEAN) \cup
  ({{3}, {3, 4, 6}} \X {Apart, {3, 4, 6}} \X {{4}, Together} \X BOOLEAN \X BOOLEAN) \cup
  ({{}} \X {Tuned} \X {Apart, Together} \X {FALSE} \X {TRUE})

MCTrees == {MakeTree(x) : x \in Shapes}

\* the second one tries two hashes
OnceEdited ==
  {MakeTree(<<{3}, {3, 4, 6}, {4}, TRUE, TRUE>>), MakeTree(<<Together, {0}, {0}, FALSE, TRUE>>)}
TwiceEdited == MakeTree(<<Apart, {0}, {0}, FALSE, TRUE>>)

\* one edit of the larger tables, two of a small one
MCMaxEdits(t, most) ==
  IF most # 100 THEN 0
  ELSE IF t \in OnceEdited THEN 1
  ELSE IF t = TwiceEdited THEN 2
  ELSE 0

MCLimits == (10..26) \cup {100}
MCRooms == {0, 24, 31, 32, 50, 64, 96, 130, 200, 400}
=============================================================================

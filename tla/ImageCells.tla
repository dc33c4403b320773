------------------------------ MODULE ImageCells ------------------------------
(***************************************************************************)
(* The metadata table of an image, and who reads it: ff_validate           *)
(* (ko/image.c), fsck_femtofs (fsck/fsck_femtofs.c) and ff_readdir         *)
(* (ko/femtofs.c).  An image is a header and a function of cells           *)
(*   head  = [count, first, size, entries, attr, hash, hash2]              *)
(*   cell  = [type, hash, attr, a, b, c]                                   *)
(* whose last three fields are the words at 4, 8 and 12:                   *)
(*   bucket     a: the object, b: the name, c: the next bucket             *)
(*   DIR        a: first bucket, b: buckets, c: entries * 2^16 + parent    *)
(*   LINK       a: the FILE              ATTR  attr: mode, a: uid, b: gid  *)
(* A name is an index into NameBytes, not an offset, and a FILE's or a     *)
(* SYMLINK's content is left to ContentPacking and BlobVisibility.         *)
(* An image that any check refuses is refused, so that the order in which  *)
(* the two checkers come to their checks is left out.                      *)
(***************************************************************************)
EXTENDS HashPlan, TLC

CONSTANTS
  NameBytes,     \* the names of the content, in byte order
  MaxEntries     \* 2^15, the limit of objects and of a directory's entries

NULL == 0    FILE == 1    DIR == 2    SYMLINK == 3    LINK == 4    FIFO == 5    ATTR == 129

\* file type bits of a mode, S_IFMT / 2^12
Format == (FILE :> 8) @@ (DIR :> 4) @@ (SYMLINK :> 10) @@ (FIFO :> 1)

RootParent == 65535

Cells(img) == 0..img.head.count - 1
Root(img) == img.head.count      \* the root has a header and no cell

Directory(img, d) ==
  IF d = Root(img)
  THEN [first |-> img.head.first, size |-> img.head.size,
        entries |-> img.head.entries, hash |-> img.head.hash]
  ELSE LET cell == img.cells[d]
       IN [first |-> cell.a, size |-> cell.b, entries |-> cell.c \div 65536, hash |-> cell.hash]

Slice(img, d) ==
  LET r == Directory(img, d) IN (r.first..r.first + r.size - 1) \cap Cells(img)

\* the occupied buckets
Entries(img, d) == {i \in Slice(img, d) : img.cells[i].type \notin {NULL, ATTR}}

\* the directories a breadth-first walk from the root comes to
Reached(img) ==
  LET Below(d) == {img.cells[i].a : i \in Entries(img, d)} \cap Cells(img)
      Widen(known, level) ==
        known \cup {o \in UNION {Below(d) : d \in known} : img.cells[o].type = DIR}
      levels == Cardinality({i \in Cells(img) : img.cells[i].type = DIR})
  IN FoldLeft(Widen, {Root(img)}, [level \in 1..levels |-> level])

-----------------------------------------------------------------------------
(* Rules that the two checkers state alike.                                *)

SliceLimits(img, d) ==
  LET r == Directory(img, d) IN
  /\ r.hash < 128 /\ r.hash % 64 < Len(SmallPrimes)
  /\ r.size <= MaxTableSize
  /\ r.entries < MaxEntries /\ r.entries <= r.size
  /\ r.size = 0 => r.first = 0
  /\ r.first + r.size <= img.head.count

\* an object's attributes are in an ATTR cell, and for its type
AttrHolds(img, a, type) ==
  a \in Cells(img) /\ img.cells[a].type = ATTR /\ img.cells[a].attr \div 4096 = Format[type]

EmptyBucket(cell, size) ==
  cell.hash = 0 /\ cell.attr = 0 /\ cell.a = 0 /\ cell.b = 0 /\ cell.c = size

Unused(cell) == cell = [type |-> NULL, hash |-> 0, attr |-> 0, a |-> 0, b |-> 0, c |-> 0]

ObjectFields(cell) ==
  /\ cell.type \in {FILE, SYMLINK, LINK, FIFO} => cell.c = 0
  /\ cell.type = FIFO => cell.a = 0 /\ cell.b = 0
  /\ cell.type = LINK => cell.attr = 0 /\ cell.b = 0

Anchors(img, r, name) ==
  {NameHash(NameBytes[name], p, r.size) :
     p \in {SmallPrimes[(r.hash % 64) + 1]} \cup IF r.hash >= 64 THEN {img.head.hash2} ELSE {}}

\* every chain goes through entries to its end, and an entry is on the chain of
\* one of its anchors (how each reader finds that out: HashSlice)
ChainsHold(img, d) ==
  LET r == Directory(img, d)
      in == {i - r.first : i \in Entries(img, d)}
      Follow(w, step) ==
        IF w.at \in in THEN [at |-> img.cells[r.first + w.at].c, met |-> w.met \cup {w.at}] ELSE w
      chain(a) == FoldLeft(Follow, [at |-> a, met |-> {}], [step \in 1..r.size |-> step])
  IN \A b \in in :
       /\ chain(b).at = r.size
       /\ \E a \in Anchors(img, r, img.cells[r.first + b].b) : b \in chain(a).met

NamesDiffer(img, d) ==
  /\ \A i \in Entries(img, d) : img.cells[i].b \in DOMAIN NameBytes
  /\ \A i, j \in Entries(img, d) : img.cells[i].b = img.cells[j].b => i = j

AttrsDiffer(img) ==
  LET attrs == {i \in Cells(img) : img.cells[i].type = ATTR}
  IN \A i, j \in attrs :
       [img.cells[i] EXCEPT !.hash = 0] = [img.cells[j] EXCEPT !.hash = 0] => i = j

HashBase(img, dirs) ==
  IF \E d \in dirs : Directory(img, d).hash >= 64
  THEN img.head.hash2 > 256 /\ img.head.hash2 < 16777216 /\ DividesNone(img.head.hash2)
  ELSE img.head.hash2 = 0

-----------------------------------------------------------------------------
(* ff_validate.                                                            *)

\* Fault: a directory's parent is not compared with where it was found.
KernelEntryAnyParent(img, d, i, slices) ==
  LET bucket == img.cells[i]
      object == img.cells[bucket.a]
  IN /\ bucket.type \in FILE..FIFO /\ bucket.hash = 0 /\ bucket.attr = 0
     /\ bucket.a \in Cells(img) \ slices
     /\ object.type = bucket.type
     /\ object.type # LINK => AttrHolds(img, object.attr, object.type)
     /\ ObjectFields(object)

KernelEntry(img, d, i, slices) ==
  LET bucket == img.cells[i]
      object == img.cells[bucket.a]
  IN /\ bucket.type \in FILE..FIFO /\ bucket.hash = 0 /\ bucket.attr = 0
     /\ bucket.a \in Cells(img) \ slices
     /\ object.type = bucket.type
     /\ object.type # LINK => AttrHolds(img, object.attr, object.type)
     /\ ObjectFields(object)
     /\ object.type = DIR => object.c % 65536 = IF d = Root(img) THEN RootParent ELSE d

KernelAccepts(img) ==
  LET dirs == Reached(img)
      slices == UNION {Slice(img, d) : d \in dirs}
      entries == UNION {Entries(img, d) : d \in dirs}
      objects == {img.cells[i].a : i \in entries}
      attrs == {img.head.attr} \cup {img.cells[o].attr : o \in {o \in objects : img.cells[o].type # LINK}}
  IN
  /\ AttrHolds(img, img.head.attr, DIR)
  /\ \A d \in dirs :
       /\ SliceLimits(img, d)
       /\ \A e \in dirs \ {d} : Slice(img, d) \cap Slice(img, e) = {}
       /\ \A i \in Slice(img, d) :
            img.cells[i].type = NULL => EmptyBucket(img.cells[i], Directory(img, d).size)
       /\ \A i \in Entries(img, d) : KernelEntry(img, d, i, slices)
       /\ NamesDiffer(img, d)
       /\ Cardinality(Entries(img, d)) = Directory(img, d).entries
       /\ ChainsHold(img, d)
  /\ Cardinality(objects) = Cardinality(entries)
  /\ Cardinality(objects) < MaxEntries
  /\ HashBase(img, dirs)
  /\ \A i \in Cells(img) :
       IF img.cells[i].type = ATTR THEN i \in attrs /\ img.cells[i].hash = 0 /\ img.cells[i].c = 0
       ELSE i \notin slices \cup objects => Unused(img.cells[i])
  /\ \A o \in objects : img.cells[o].type = LINK =>
       img.cells[o].a \in objects /\ img.cells[img.cells[o].a].type = FILE
  /\ AttrsDiffer(img)

-----------------------------------------------------------------------------
(* fsck_femtofs.                                                           *)

\* a bucket, before its object is looked at
FsckBucket(img, i, slices) ==
  LET bucket == img.cells[i] IN
  /\ bucket.hash = 0 /\ bucket.attr = 0
  /\ bucket.a \in Cells(img) \ slices
  /\ img.cells[bucket.a].type = bucket.type

\* visit_object; a hard link takes its target along, wherever that is
FsckObject(img, o, slices) ==
  LET object == img.cells[o] IN
  /\ object.type # LINK => AttrHolds(img, object.attr, object.type)
  /\ ObjectFields(object)
  /\ object.type = LINK =>
       object.a \in Cells(img) \ slices /\ img.cells[object.a].type = FILE

FsckAccepts(img) ==
  LET dirs == Reached(img)
      slices == UNION {Slice(img, d) : d \in dirs}
      entries == UNION {Entries(img, d) : d \in dirs}
      targets == {img.cells[i].a : i \in entries}
      visited == targets \cup {img.cells[o].a : o \in {o \in targets : img.cells[o].type = LINK}}
      attrs == {img.head.attr} \cup {img.cells[o].attr : o \in {o \in visited : img.cells[o].type # LINK}}
  IN
  /\ AttrHolds(img, img.head.attr, DIR)
  /\ \A i \in Cells(img) :
       /\ img.cells[i].type \in (NULL..FIFO) \cup {ATTR}
       /\ img.cells[i].type = ATTR => img.cells[i].hash = 0 /\ img.cells[i].c = 0
  /\ AttrsDiffer(img)
  /\ \A d \in dirs :
       /\ SliceLimits(img, d)
       /\ \A e \in dirs \ {d} : Slice(img, d) \cap Slice(img, e) = {}
       /\ \A i \in Slice(img, d) :
            img.cells[i].type = NULL => EmptyBucket(img.cells[i], Directory(img, d).size)
       /\ \A i \in Entries(img, d) :
            /\ FsckBucket(img, i, slices)
            /\ FsckObject(img, img.cells[i].a, slices)
            /\ img.cells[i].type = DIR => \* expected_parent
                 img.cells[img.cells[i].a].c % 65536 = IF d = Root(img) THEN RootParent ELSE d
       /\ NamesDiffer(img, d)
       /\ Cardinality(Entries(img, d)) = Directory(img, d).entries
       /\ ChainsHold(img, d)
  /\ Cardinality(targets) = Cardinality(entries)
  /\ \A o \in visited : FsckObject(img, o, slices)
  /\ Cardinality(visited) < MaxEntries
  /\ HashBase(img, dirs)
  /\ \A i \in Cells(img) \ slices :
       /\ img.cells[i].type \in FILE..FIFO => i \in visited
       /\ img.cells[i].type = NULL => Unused(img.cells[i])
  /\ \A i \in Cells(img) : img.cells[i].type = ATTR => i \in attrs

\* what only the kernel requires: an entry for every FILE
LinkedFilesHaveEntries(img) ==
  LET targets == {img.cells[i].a : i \in UNION {Entries(img, d) : d \in Reached(img)}}
  IN \A o \in targets : img.cells[o].type = LINK => img.cells[o].a \in targets

-----------------------------------------------------------------------------
(* ff_readdir.                                                             *)

Dot == <<46>>
DotDot == <<46, 46>>

\* GENERIC_DIRSIZ: 24 bytes, the name and its end, to a multiple of 8
RecordSize(name) == ((24 + Len(name) + 1 + 7) \div 8) * 8

Parent(img, d) ==
  IF d = Root(img) \/ img.cells[d].c % 65536 = RootParent THEN Root(img) ELSE img.cells[d].c % 65536

\* what position p of directory d holds; nothing in an empty bucket
DirentAt(img, d, p) ==
  LET i == Directory(img, d).first + p - 2
      o == img.cells[i].a
  IN IF p = 0 THEN <<[id |-> d, name |-> Dot, off |-> 1]>>
     ELSE IF p = 1 THEN <<[id |-> Parent(img, d), name |-> DotDot, off |-> 2]>>
     ELSE IF i \notin Entries(img, d) THEN <<>>
     ELSE <<[id |-> IF img.cells[o].type = LINK THEN img.cells[o].a ELSE o,
             name |-> NameBytes[img.cells[i].b], off |-> p + 1]>>

\* Fault: the position goes past a record that no longer fits.
ReadStepSkips(img, d, r, p) ==
  LET e == DirentAt(img, d, p) IN
  IF r.full THEN r
  ELSE IF e = <<>> THEN [r EXCEPT !.pos = p + 1]
  ELSE IF r.room < RecordSize(e[1].name) \/ Len(r.out) = r.capacity
       THEN [r EXCEPT !.full = TRUE, !.pos = p + 1]
  ELSE [r EXCEPT !.out = @ \o e, !.room = @ - RecordSize(e[1].name), !.pos = p + 1]

\* one round of the loop: the next entry is copied if there is room for it
ReadStep(img, d, r, p) ==
  LET e == DirentAt(img, d, p) IN
  IF r.full THEN r
  ELSE IF e = <<>> THEN [r EXCEPT !.pos = p + 1]
  ELSE IF r.room < RecordSize(e[1].name) \/ Len(r.out) = r.capacity
       THEN [r EXCEPT !.full = TRUE]
  ELSE [r EXCEPT !.out = @ \o e, !.room = @ - RecordSize(e[1].name), !.pos = p + 1]

\* a call at position pos for a buffer of `room' bytes; the caller may want a
\* cookie for each entry, and the cookies are allocated beforehand
Readdir(img, d, pos, room, cookies) ==
  LET end == Directory(img, d).size + 2
      least == room \div 25 + 1
      capacity == IF ~cookies THEN end + 1 ELSE IF least < end THEN least ELSE end
      start == [out |-> <<>>, room |-> room, pos |-> pos, full |-> FALSE, capacity |-> capacity]
      r == FoldLeft(LAMBDA s, p : ReadStep(img, d, s, p), start, [k \in 1..end - pos |-> pos + k - 1])
  IN [out |-> r.out, pos |-> r.pos, eof |-> r.pos = end]
=============================================================================

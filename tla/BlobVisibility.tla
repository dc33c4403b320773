--------------------------- MODULE BlobVisibility ---------------------------
(***************************************************************************)
(* Which blobs of an image are public.  makefemtofs resolves hard links    *)
(* (normalizeTree), finds the files that everybody can read, and merges    *)
(* names and contents of equal bytes (classifyBlobs, internBlob); the      *)
(* kernel recomputes visibility from the finished image (ff_validate), and *)
(* refuses an image that has a blob in the wrong part.  femtofsSim         *)
(* classifies a listing of the tree; fsck checks which uses of a blob may  *)
(* share its bytes.                                                        *)
(***************************************************************************)
EXTENDS Integers, FiniteSets, SequencesExt

CONSTANTS
  MaxNodes,   \* bound: objects other than the root
  Names,      \* bytes of names
  Contents,   \* bytes of files and symlinks
  DirModes    \* what others may do in a directory: subsets of {"r", "x"}

ASSUME ModesAssumption == MaxNodes \in Nat /\ DirModes \subseteq SUBSET {"r", "x"}

Root == 0

VARIABLES
  parent, kind, mode, name,  \* the objects 1..n in path order, and the root
  bytes,      \* bytes[k]: content of a file or a symlink
  target,     \* target[k]: the object that k is declared a hard link to, or k
  canonical,  \* canonical[k]: the file that k is a link to, or k
  readable,   \* canonicalPublic: files others can read under some path
  blobs,      \* <<domain, bytes>> of the blobs so far
  public,     \* those of them that go to the public part
  done,       \* objects whose blobs are interned
  pc

tree == <<parent, kind, mode, name, bytes, target>>
vars == <<tree, canonical, readable, blobs, public, done, pc>>

Nodes == DOMAIN parent
Files == {k \in Nodes : kind[k] = "file"}

\* Trees: a parent is a directory and comes first, siblings differ in name, and
\* hard links are between files of equal attributes and content.
Init ==
  /\ \E n \in 0..MaxNodes :
       /\ parent \in {p \in [1..n -> 0..n] : \A k \in 1..n : p[k] < k}
       /\ kind \in [0..n -> {"dir", "file", "symlink"}]
  /\ kind[Root] = "dir"
  /\ \A k \in Nodes : kind[parent[k]] = "dir"
  /\ name \in [Nodes -> Names]
  /\ \A j, k \in Nodes : parent[j] = parent[k] /\ name[j] = name[k] => j = k
  /\ mode \in {m \in [Nodes \cup {Root} -> DirModes \cup {{}, {"r"}}] :
       \A k \in DOMAIN m : m[k] \in IF kind[k] = "dir" THEN DirModes
                                     ELSE IF kind[k] = "file" THEN {{}, {"r"}} ELSE {{}}}
  /\ bytes \in {c \in [Nodes -> Contents] :
       \A k \in Nodes : kind[k] = "dir" => c[k] = CHOOSE x \in Contents : TRUE}
  /\ target \in {t \in [Nodes -> Nodes] :
       \A k \in Nodes : t[k] = k \/ ({k, t[k]} \subseteq Files /\ mode[k] = mode[t[k]]
                                      /\ bytes[k] = bytes[t[k]])}
  /\ canonical = [k \in Nodes |-> k]
  /\ readable = {}
  /\ blobs = {} /\ public = {}
  /\ done = 0
  /\ pc = "links"

-----------------------------------------------------------------------------
(* makefemtofs.                                                            *)

\* the objects that declarations connect with k, in n steps: normalizeTree's
\* disjoint sets
Linked(k) ==
  LET reach[n \in 0..Cardinality(Nodes)] ==
        IF n = 0 THEN {k}
        ELSE reach[n - 1] \cup {j \in Nodes : target[j] \in reach[n - 1]}
                          \cup {target[j] : j \in reach[n - 1]}
  IN reach[Cardinality(Nodes)]

\* the file that comes first in path order stands for its group
ResolveLinks ==
  /\ pc = "links"
  /\ canonical' = [k \in Nodes |-> CHOOSE j \in Linked(k) : \A i \in Linked(k) : j <= i]
  /\ pc' = "readable"
  /\ UNCHANGED <<tree, readable, blobs, public, done>>

\* the directories from the root to d
Path(d) ==
  LET up[n \in 0..Cardinality(Nodes)] ==
        IF n = 0 THEN {d} ELSE up[n - 1] \cup {parent[j] : j \in up[n - 1] \ {Root}}
  IN up[Cardinality(Nodes)]

\* pathDirectoriesAllow
Allow(d, required) == \A j \in Path(d) : required \subseteq mode[j]

\* a file is readable if any of its names can be reached
FindReadable ==
  /\ pc = "readable"
  /\ readable' = {canonical[k] : k \in
       {j \in Files : "r" \in mode[canonical[j]] /\ Allow(parent[j], {"x"})}}
  /\ pc' = "intern"
  /\ UNCHANGED <<tree, canonical, blobs, public, done>>

\* the blobs of object k, with whether it makes them public
Uses(k) ==
  {[blob |-> <<"shared", name[k]>>, public |-> Allow(parent[k], {"r", "x"})]} \cup
  CASE kind[k] = "file" -> {[blob |-> <<"shared", bytes[canonical[k]]>>,
                             public |-> canonical[k] \in readable]}
    [] kind[k] = "symlink" -> {[blob |-> <<"symlink", bytes[k]>>, public |-> FALSE]}
    [] kind[k] = "dir" -> {}

\* Fault: a blob stays in the part of its first use.
MadePublicFirst(U) == {u.blob : u \in {v \in U : v.public /\ v.blob \notin blobs}}

\* internBlob: one public use is enough
MadePublic(U) == {u.blob : u \in {v \in U : v.public}}

Intern ==
  /\ pc = "intern"
  /\ done < Cardinality(Nodes)
  /\ done' = done + 1
  /\ LET U == Uses(done + 1)
     IN blobs' = blobs \cup {u.blob : u \in U} /\ public' = public \cup MadePublic(U)
  /\ UNCHANGED <<tree, canonical, readable, pc>>

Finish ==
  /\ pc = "intern"
  /\ done = Cardinality(Nodes)
  /\ pc' = "done"
  /\ UNCHANGED <<tree, canonical, readable, blobs, public, done>>

Next == ResolveLinks \/ FindReadable \/ Intern \/ Finish

Spec == Init /\ [][Next]_vars

-----------------------------------------------------------------------------
(* ff_validate: directories are met from the root down, and each passes on *)
(* whether it can be searched, and whether its names can be listed.        *)

\* nodes[d].search and nodes[d].names
Search ==
  LET s[d \in Nodes \cup {Root}] == "x" \in mode[d] /\ (d = Root \/ s[parent[d]]) IN s
Listable ==
  LET l[d \in Nodes \cup {Root}] == {"r", "x"} \subseteq mode[d] /\ (d = Root \/ l[parent[d]])
  IN l

\* a link is its target's file under a further name
PublicFile(f) ==
  \E k \in Files : canonical[k] = f /\ "r" \in mode[f] /\ Search[parent[k]]

\* public_ref of the blob: of its names, and of the files that have it
PublicRef(b) ==
  \/ \E k \in Nodes : b = <<"shared", name[k]>> /\ Listable[parent[k]]
  \/ \E f \in Files : b = <<"shared", bytes[f]>> /\ canonical[f] = f /\ PublicFile(f)

-----------------------------------------------------------------------------
(* femtofsSim, which knows the paths, modes and inode numbers of a listing *)
(* but no bytes of files.                                                  *)

\* its memoised walks from a directory up to the root
SimReach(required) ==
  LET r[d \in Nodes \cup {Root}] == (d = Root \/ r[parent[d]]) /\ required \subseteq mode[d]
  IN r

SimPublicNames == {name[k] : k \in {j \in Nodes : SimReach({"r", "x"})[parent[j]]}}

\* inodes; the names of one inode are one object here
SimPublicPayloads ==
  {canonical[k] : k \in {j \in Files : "r" \in mode[j] /\ SimReach({"x"})[parent[j]]}}

SimPrivateTargets == {bytes[k] : k \in {j \in Nodes : kind[j] = "symlink"}}

SimBlobs ==
  Cardinality({name[k] : k \in Nodes}) + Cardinality({canonical[k] : k \in Files})
    + Cardinality(SimPrivateTargets)

-----------------------------------------------------------------------------
(* Uses that share bytes.                                                  *)

\* the interval of each use of a blob in the image, blobs being apart
References ==
  LET place == SetToSeq(blobs)
      Interval(b) == [start |-> CHOOSE i \in DOMAIN place : place[i] = b,
                      size |-> 1, sym |-> b[1] = "symlink"]
      Named(k) == <<Interval(<<"shared", name[k]>>)>>
      Held(k) == IF kind[k] = "file" /\ canonical[k] = k THEN <<Interval(<<"shared", bytes[k]>>)>>
                 ELSE IF kind[k] = "symlink" THEN <<Interval(<<"symlink", bytes[k]>>)>>
                 ELSE <<>>
  IN SortSeq(FlattenSeq([k \in Nodes |-> Named(k) \o Held(k)]), LAMBDA u, v : u.start < v.start)

\* ff_validate: neighbours are the same blob, or apart
KernelTakes(refs) ==
  \A i \in 2..Len(refs) :
    \/ refs[i] = refs[i - 1]
    \/ refs[i].start # refs[i - 1].start /\ refs[i].start >= refs[i - 1].start + refs[i - 1].size

\* fsck's check_interval_overlaps: only what is no symlink may be met twice
FsckTakes(refs) ==
  LET Sweep(r, u) ==
        IF u = r.prev /\ ~u.sym THEN r
        ELSE LET end == u.start + u.size
             IN [prev |-> u, ok |-> r.ok /\ u.start >= r.end,
                 end |-> IF end > r.end THEN end ELSE r.end]
  IN FoldLeft(Sweep, [prev |-> <<>>, ok |-> TRUE, end |-> 0], refs).ok

-----------------------------------------------------------------------------
(* Properties.                                                             *)

\* The builder puts a blob into the public part exactly if the kernel finds a
\* public use of it, whatever is merged with whatever: no image it makes is
\* refused, nothing private gets into the part that leaking mounts share, and
\* targets of symlinks stay private even if a public file has the same bytes.
\* The simulator, which cannot see equal bytes, finds the same public uses, and
\* no fewer blobs.  The kernel takes every sharing that merging makes, fsck all
\* but that of equal symlink targets.
PartsAgree ==
  pc = "done" =>
    /\ \A b \in blobs : b \in public <=> PublicRef(b)
    /\ \A k \in Nodes : kind[k] = "symlink" => <<"symlink", bytes[k]>> \in blobs \ public
    /\ public = {<<"shared", x>> : x \in SimPublicNames \cup {bytes[f] : f \in SimPublicPayloads}}
    /\ SimBlobs >= Cardinality(blobs)
    /\ KernelTakes(References)
    /\ FsckTakes(References) <=>
         \A j, k \in Nodes : kind[j] = "symlink" /\ kind[k] = "symlink" /\ bytes[j] = bytes[k] => j = k

\* What the specification says of sharing (specification.md, "Content parts"):
\* references may share an interval when their deduplication domain and their
\* bytes are the same, so what the builder merges passes fsck.
FsckTakesBuilt == pc = "done" => FsckTakes(References)
=============================================================================

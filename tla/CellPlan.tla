------------------------------- MODULE CellPlan -------------------------------
(***************************************************************************)
(* makefemtofs laying out the metadata table (buildPlan, without the       *)
(* content), and femtofsSim predicting its size and tuning its tables.     *)
(* The table is then read as it is, or after a few fields of it changed,   *)
(* as ImageCells says.                                                     *)
(*                                                                         *)
(* A tree has the nodes in path order, which is the order of their cells,  *)
(* numbered from 0: [parent, name, type, key, canonical], where parent is  *)
(* -1 below the root, name an index into NameBytes, key the mode of the    *)
(* attributes and canonical a hard link's file; and rootKey.               *)
(***************************************************************************)
EXTENDS ImageCells

CONSTANTS
  Trees,         \* bound: the input trees
  Limits,        \* bound: values of kMaxCellCount
  Bases,         \* bound: the sample of second bases, primes over 2^8
  Budgets,       \* bound: femtofsSim's extra buckets
  HeaderCells, PerPage,   \* kHeaderSize and kPageSize, in cells
  MaxEdits(_, _), \* bound: fields changed in the table of a tree under a limit
  Rooms          \* bound: sizes of a caller's buffer

ASSUME BasesAssumption == \A base \in Bases : base > 256 /\ IsPrime(base)

VARIABLES
  phase,         \* "plan", "fit", "shrink", "construct", "place", "built",
                 \* "error"; "tune", "tuned"
  tree, limit,
  plans,         \* std::vector<DirectoryPlan>: [dir, children, hash], the root first
  single,        \* the choices before applyMixedHashPolicy
  hash2,         \* hash2Base
  pending,       \* fitDirectoryPlans' candidates, in order
  buckets, empty, cells,   \* its counters
  attrs,         \* std::vector<AttrPlan>: [key, refs, cell]
  free,          \* placeAttributes' empty buckets
  image,
  edits,
  selected, used, budget   \* runBudgetedHashTuning

planning == <<plans, single, hash2>>
fitting == <<pending, buckets, empty, cells>>
placing == <<attrs, free>>
tuning == <<selected, used, budget>>
vars == <<phase, tree, limit, planning, fitting, placing, image, edits, tuning>>

Nodes(t) == DOMAIN t.nodes
InOrder(t) == [k \in 1..Cardinality(Nodes(t)) |-> k - 1]
NoImage == [head |-> [count |-> 0], cells |-> <<>>]
Sum(f) == SumFunction(f)

-----------------------------------------------------------------------------
(* Directories and their tables.                                           *)

Children(t, d) ==
  SortSeq(SelectSeq(InOrder(t), LAMBDA i : t.nodes[i].parent = d),
          LAMBDA i, j : t.nodes[i].name < t.nodes[j].name)

NamesIn(t, d) == LET c == Children(t, d) IN [k \in DOMAIN c |-> NameBytes[t.nodes[c[k]].name]]

Directories(t) == <<-1>> \o SelectSeq(InOrder(t), LAMBDA i : t.nodes[i].type = DIR)

\* chosen freely, or as small as they can be
DirectoryPlans[t \in Trees, minimum \in BOOLEAN] ==
  LET Plan(d) ==
        LET names == NamesIn(t, d)
        IN [dir |-> d, children |-> Children(t, d),
            hash |-> IF minimum THEN BestSingleForTable(names, SmallPrimes, Len(names))
                     ELSE ChooseSingle(names, SmallPrimes)]
  IN [k \in DOMAIN Directories(t) |-> Plan(Directories(t)[k])]

Overfull(t) ==
  \/ Cardinality(Nodes(t)) >= MaxEntries
  \/ \E d \in Range(Directories(t)) : Len(Children(t, d)) >= MaxEntries

\* the table a trial of one base would use
Mixed(t, plan, base) ==
  LET Prefer(dual) ==
        IF plan.hash.chain > 2 /\ ImprovesQuality(dual, plan.hash) THEN dual ELSE plan.hash
  IN Prefer(ChooseDual(NamesIn(t, plan.dir), SmallPrimes, base))

\* the average cost of a failing lookup, added up, as a fraction
MissCost(ps, choices) ==
  LET T(k) == IF choices[k].T = 0 THEN 1 ELSE choices[k].T
      product == FoldLeft(LAMBDA x, k : x * T(k), 1, [k \in DOMAIN ps |-> k])
  IN [over |-> product,
      sum |-> Sum([k \in DOMAIN ps |->
                Len(ps[k].children) * Len(ps[k].children) * (IF choices[k].dual THEN 2 ELSE 1)
                  * (product \div T(k))])]

Weighed(ps, base, choices) ==
  [base |-> base, choices |-> choices,
   maximum |-> CHOOSE m \in {choices[k].chain : k \in DOMAIN ps} :
                 \A k \in DOMAIN ps : choices[k].chain <= m,
   squares |-> Sum([k \in DOMAIN ps |-> choices[k].squares]),
   buckets |-> Sum([k \in DOMAIN ps |-> choices[k].T]),
   miss |-> MissCost(ps, choices)]

Trial(t, ps, base) == Weighed(ps, base, [k \in DOMAIN ps |-> Mixed(t, ps[k], base)])

BetterTrial(a, b) ==
  LET am == a.miss.sum * b.miss.over
      bm == b.miss.sum * a.miss.over
      upTo(n) == /\ n >= 1 => a.maximum = b.maximum
                 /\ n >= 2 => a.squares = b.squares
                 /\ n >= 3 => a.buckets = b.buckets
                 /\ n >= 4 => am = bm
  IN \/ a.maximum < b.maximum
     \/ upTo(1) /\ a.squares < b.squares
     \/ upTo(2) /\ a.buckets < b.buckets
     \/ upTo(3) /\ am < bm
     \/ upTo(4) /\ a.base < b.base

BestTrial[t \in Trees] ==
  LET Best(trials) == CHOOSE a \in trials : \A b \in trials \ {a} : BetterTrial(a, b)
  IN Best({Trial(t, DirectoryPlans[t, FALSE], base) : base \in Bases})

Dual(ps) == \E k \in DOMAIN ps : ps[k].hash.dual

\* Fault: the base is kept when no directory uses it.
ApplyMixedKeepsBase(ps, best) ==
  [plans |-> [k \in DOMAIN ps |-> [ps[k] EXCEPT !.hash = best.choices[k]]], base |-> best.base]

\* directories with a chain of three try two hashes, all with the same base
ApplyMixed(ps, best) ==
  LET mixed == [k \in DOMAIN ps |-> [ps[k] EXCEPT !.hash = best.choices[k]]]
  IN [plans |-> mixed, base |-> IF Dual(mixed) THEN best.base ELSE 0]

AttributePlans[t \in Trees] ==
  LET Add(list, use) ==
        IF \E k \in DOMAIN list : list[k].key = use.key
        THEN [k \in DOMAIN list |-> IF list[k].key = use.key
                                    THEN [list[k] EXCEPT !.refs = Append(@, use.node)] ELSE list[k]]
        ELSE Append(list, [key |-> use.key, refs |-> <<use.node>>, cell |-> -1])
      owners == SelectSeq(InOrder(t), LAMBDA i : t.nodes[i].type # LINK)
  IN FoldLeft(Add, <<>>, <<[key |-> t.rootKey, node |-> -1]>>
                         \o [k \in DOMAIN owners |-> [key |-> t.nodes[owners[k]].key, node |-> owners[k]]])

Beyond(n, m) == IF n > m THEN n - m ELSE 0
Buckets(ps) == Sum([k \in DOMAIN ps |-> ps[k].hash.T])
Empties(ps) == Sum([k \in DOMAIN ps |-> ps[k].hash.T - Len(ps[k].children)])

PlannedCells(t, ps, as) == Cardinality(Nodes(t)) + Buckets(ps) + Beyond(Len(as), Empties(ps))

-----------------------------------------------------------------------------
(* buildPlan, up to its fitting.                                           *)

Init ==
  /\ phase \in {"plan", "tune"}
  /\ tree \in Trees /\ limit \in Limits
  /\ plans = <<>> /\ single = <<>> /\ hash2 = 0
  /\ pending = <<>> /\ buckets = 0 /\ empty = 0 /\ cells = 0
  /\ attrs = <<>> /\ free = {}
  /\ image = NoImage /\ edits = 0
  /\ selected = [k \in DOMAIN Directories(tree) |-> 1] /\ used = 0
  /\ budget \in IF phase = "tune" THEN Budgets ELSE {0}
  /\ phase = "tune" => limit = CHOOSE l \in Limits : TRUE

\* makeDirectoryPlans, applyMixedHashPolicy and makeAttributePlans
MakePlans ==
  LET first == DirectoryPlans[tree, FALSE]
      mixed == ApplyMixed(first, BestTrial[tree])
  IN
  /\ phase = "plan"
  /\ IF Overfull(tree)
     THEN phase' = "error" /\ UNCHANGED <<planning, attrs>>
     ELSE /\ phase' = "fit"
          /\ single' = first /\ plans' = mixed.plans /\ hash2' = mixed.base
          /\ attrs' = AttributePlans[tree]
  /\ UNCHANGED <<tree, limit, fitting, free, image, edits, tuning>>

\* the tables that shrink, those that give most first
Candidates(ps, minimum) ==
  LET saving(k) == ps[k].hash.T - minimum[k].hash.T
  IN SetToSortSeq({k \in DOMAIN ps : saving(k) # 0},
                  LAMBDA j, k : saving(j) > saving(k) \/ (saving(j) = saving(k) /\ j < k))

\* fitDirectoryPlans, before its loop
Fit ==
  LET minimum == DirectoryPlans[tree, TRUE] IN
  /\ phase = "fit"
  /\ \/ /\ PlannedCells(tree, plans, attrs) <= limit
        /\ phase' = "construct"
        /\ UNCHANGED fitting
     \/ /\ PlannedCells(tree, plans, attrs) > limit
        /\ PlannedCells(tree, minimum, attrs) > limit
        /\ phase' = "error"
        /\ UNCHANGED fitting
     \/ /\ PlannedCells(tree, plans, attrs) > limit
        /\ PlannedCells(tree, minimum, attrs) <= limit
        /\ phase' = "shrink"
        /\ pending' = Candidates(plans, minimum)
        /\ buckets' = Buckets(plans) /\ empty' = Empties(plans)
        /\ cells' = PlannedCells(tree, plans, attrs)
  /\ UNCHANGED <<tree, limit, planning, placing, image, edits, tuning>>

\* Fault: the buckets that go are still counted as empty.
ShrinkKeepsEmpty ==
  LET k == Head(pending)
      minimum == DirectoryPlans[tree, TRUE][k].hash
      saving == plans[k].hash.T - minimum.T
  IN
  /\ phase = "shrink" /\ pending # <<>> /\ cells > limit
  /\ plans' = [plans EXCEPT ![k].hash = minimum]
  /\ pending' = Tail(pending)
  /\ buckets' = buckets - saving /\ empty' = empty
  /\ cells' = Cardinality(Nodes(tree)) + buckets' + Beyond(Len(attrs), empty')
  /\ UNCHANGED <<phase, tree, limit, single, hash2, placing, image, edits, tuning>>

\* its loop: the next table becomes as small as it can be
Shrink ==
  LET k == Head(pending)
      minimum == DirectoryPlans[tree, TRUE][k].hash
      saving == plans[k].hash.T - minimum.T
  IN
  /\ phase = "shrink" /\ pending # <<>> /\ cells > limit
  /\ plans' = [plans EXCEPT ![k].hash = minimum]
  /\ pending' = Tail(pending)
  /\ buckets' = buckets - saving /\ empty' = empty - saving
  /\ cells' = Cardinality(Nodes(tree)) + buckets' + Beyond(Len(attrs), empty')
  /\ UNCHANGED <<phase, tree, limit, single, hash2, placing, image, edits, tuning>>

Shrunk ==
  /\ phase = "shrink"
  /\ pending = <<>> \/ cells <= limit
  /\ hash2' = IF Dual(plans) THEN hash2 ELSE 0
  /\ phase' = "construct"
  /\ UNCHANGED <<tree, limit, plans, single, fitting, placing, image, edits, tuning>>

-----------------------------------------------------------------------------
(* buildPlan, from constructBuckets on.                                    *)

TablesEnd(t, ps, k) == Cardinality(Nodes(t)) + Sum([j \in 1..k |-> ps[j].hash.T])

\* directory.first
First(t, ps, k) == IF ps[k].hash.T = 0 THEN 0 ELSE TablesEnd(t, ps, k - 1)

\* constructBuckets for one directory (BucketPlan has it step by step): where
\* the chain of each child starts
AnchorsOf(names, hash, base) ==
  LET Put(r, name) ==
        LET h1 == NameHash(name, SmallPrimes[hash.prime], hash.T)
            h2 == IF hash.dual THEN NameHash(name, base, hash.T) ELSE h1
            a == IF r.loads[h2] < r.loads[h1] \/ (r.loads[h2] = r.loads[h1] /\ h2 < h1) THEN h2 ELSE h1
        IN [loads |-> [r.loads EXCEPT ![a] = @ + 1], anchor |-> Append(r.anchor, a)]
  IN FoldLeft(Put, [loads |-> [b \in 0..hash.T - 1 |-> 0], anchor |-> <<>>], names).anchor

\* and what each bucket then holds, as a child and the next bucket
Layout(children, T, anchor) ==
  LET Before(j, k) == anchor[j] < anchor[k] \/ (anchor[j] = anchor[k] /\ j < k)
      follows == {k \in DOMAIN anchor : \E j \in DOMAIN anchor : anchor[j] = anchor[k] /\ j < k}
      overflow == SelectSeq([b \in 1..T |-> b - 1], LAMBDA b : b \notin Range(anchor))
      Position(k) == IF k \in follows THEN overflow[Cardinality({j \in follows : Before(j, k)}) + 1]
                     ELSE anchor[k]
      Following(later) == IF later = {} THEN T ELSE Position(CHOOSE j \in later : \A i \in later : j <= i)
      Entry(k) == [node |-> children[k],
                   next |-> Following({j \in follows : anchor[j] = anchor[k] /\ j > k})]
  IN [b \in {Position(k) : k \in DOMAIN anchor} |->
       Entry(CHOOSE k \in DOMAIN anchor : Position(k) = b)]

Placement(t, plan, base) ==
  Layout(plan.children, plan.hash.T, AnchorsOf(NamesIn(t, plan.dir), plan.hash, base))

ConstructBuckets ==
  /\ phase = "construct"
  /\ phase' = "place"
  /\ free' = UNION {{First(tree, plans, k) + b :
                       b \in (0..plans[k].hash.T - 1) \ DOMAIN Placement(tree, plans[k], hash2)} :
                    k \in DOMAIN plans}
  /\ UNCHANGED <<tree, limit, planning, fitting, attrs, image, edits, tuning>>

Page(cell) == (HeaderCells + cell) \div PerPage
PageOfReference(node) == IF node = -1 THEN 0 ELSE Page(node)
Least(S) == CHOOSE x \in S : \A y \in S : x <= y

NextCell(t, ps, as) ==
  TablesEnd(t, ps, Len(ps)) + Cardinality({k \in DOMAIN as : as[k].cell >= TablesEnd(t, ps, Len(ps))})

\* placeAttributes, one attribute: an empty bucket on the page of an object
\* that has it, any empty bucket, or a new cell
PlaceAttribute ==
  LET k == Least({j \in DOMAIN attrs : attrs[j].cell = -1})
      near(r) == {c \in free : Page(c) = PageOfReference(attrs[k].refs[r])}
      useful == {r \in DOMAIN attrs[k].refs : near(r) # {}}
      cell == IF useful # {} THEN Least(near(Least(useful)))
              ELSE IF free # {} THEN Least(free) ELSE NextCell(tree, plans, attrs)
  IN
  /\ phase = "place"
  /\ \E j \in DOMAIN attrs : attrs[j].cell = -1
  /\ IF cell > limit
     THEN phase' = "error" /\ UNCHANGED placing
     ELSE /\ attrs' = [attrs EXCEPT ![k].cell = cell]
          /\ free' = free \ {cell}
          /\ UNCHANGED phase
  /\ UNCHANGED <<tree, limit, planning, fitting, image, edits, tuning>>

HashByte(choice) == choice.prime - 1 + IF choice.dual THEN 64 ELSE 0
AttrCell(as, key) == as[CHOOSE k \in DOMAIN as : as[k].key = key].cell

\* encodeObject; a file's and a symlink's offset and size are left out
ObjectCell(t, ps, as, i) ==
  LET node == t.nodes[i]
      k == CHOOSE k \in DOMAIN ps : ps[k].dir = i
      dir == node.type = DIR
  IN [type |-> node.type,
      hash |-> IF dir THEN HashByte(ps[k].hash) ELSE 0,
      attr |-> IF node.type = LINK THEN 0 ELSE AttrCell(as, node.key),
      a |-> IF dir THEN First(t, ps, k) ELSE IF node.type = LINK THEN node.canonical ELSE 0,
      b |-> IF dir THEN ps[k].hash.T ELSE 0,
      c |-> IF dir THEN Len(ps[k].children) * 65536 + (IF node.parent = -1 THEN RootParent ELSE node.parent)
            ELSE 0]

\* encodeMetadata: objects, buckets, and the attributes in between and after
Encoded(t, ps, as, base, count) ==
  LET blank == [type |-> NULL, hash |-> 0, attr |-> 0, a |-> 0, b |-> 0, c |-> 0]
      holder(i) == {k \in DOMAIN ps : i \in First(t, ps, k)..First(t, ps, k) + ps[k].hash.T - 1}
      Bucket(k, b, placed) ==
        IF b \notin DOMAIN placed THEN [blank EXCEPT !.c = ps[k].hash.T]
        ELSE [blank EXCEPT !.type = t.nodes[placed[b].node].type, !.a = placed[b].node,
                           !.b = t.nodes[placed[b].node].name, !.c = placed[b].next]
  IN [i \in 0..count - 1 |->
       IF \E k \in DOMAIN as : as[k].cell = i
       THEN [blank EXCEPT !.type = ATTR, !.attr = as[CHOOSE k \in DOMAIN as : as[k].cell = i].key]
       ELSE IF i \in Nodes(t) THEN ObjectCell(t, ps, as, i)
       ELSE LET k == CHOOSE k \in holder(i) : TRUE IN Bucket(k, i - First(t, ps, k), Placement(t, ps[k], base))]

\* encodeHeader
Header(t, ps, as, base, count) ==
  [count |-> count, first |-> First(t, ps, 1), size |-> ps[1].hash.T,
   entries |-> Len(ps[1].children), attr |-> AttrCell(as, t.rootKey),
   hash |-> HashByte(ps[1].hash), hash2 |-> base]

Encode ==
  LET count == NextCell(tree, plans, attrs) IN
  /\ phase = "place"
  /\ \A k \in DOMAIN attrs : attrs[k].cell # -1
  /\ IF count > limit
     THEN phase' = "error" /\ UNCHANGED image
     ELSE /\ phase' = "built"
          /\ image' = [head |-> Header(tree, plans, attrs, hash2, count),
                       cells |-> Encoded(tree, plans, attrs, hash2, count)]
  /\ UNCHANGED <<tree, limit, planning, fitting, placing, edits, tuning>>

\* validatePlan, what it says of the header, of each directory, and of the
\* buckets that have an object (its chains: PlanFinds of HashSlice)
PlanValid ==
  LET Holding(k, i) == LET placed == Placement(tree, plans[k], hash2)
                       IN {b \in DOMAIN placed : placed[b].node = i}
  IN
  /\ image.head.count = Cardinality(DOMAIN image.cells)
  /\ IF Dual(plans) THEN hash2 > 256 /\ hash2 < 16777216 /\ IsPrime(hash2) ELSE hash2 = 0
  /\ \A k \in DOMAIN plans :
       /\ Len(plans[k].children) < MaxEntries /\ Len(plans[k].children) <= plans[k].hash.T
       /\ Cardinality(DOMAIN Placement(tree, plans[k], hash2)) = Len(plans[k].children)
  /\ \A i \in Nodes(tree) : Sum([k \in DOMAIN plans |-> Cardinality(Holding(k, i))]) = 1

-----------------------------------------------------------------------------
(* Tables that are not the builder's.                                      *)

\* a field of a cell is set to what the field of another cell holds, or to one
\* more or less
Edit ==
  /\ phase = "built"
  /\ edits < MaxEdits(tree, limit)
  /\ edits' = edits + 1
  /\ \/ \E i, j \in DOMAIN image.cells, f \in DOMAIN image.cells[0], delta \in {-1, 0, 1} :
          /\ image.cells[j][f] + delta >= 0
          /\ image' = [image EXCEPT !.cells[i][f] = image.cells[j][f] + delta]
     \/ \E f \in DOMAIN image.head \ {"count"}, delta \in {-1, 1} :
          /\ image.head[f] + delta >= 0
          /\ image' = [image EXCEPT !.head[f] = @ + delta]
     \/ \E i, j \in DOMAIN image.cells : image' = [image EXCEPT !.cells[i] = image.cells[j]]
  /\ UNCHANGED <<phase, tree, limit, planning, fitting, placing, tuning>>

-----------------------------------------------------------------------------
(* femtofsSim.                                                             *)

Objects(t) == Cardinality(Nodes(t))

\* cellCountFor
SimCells(t, choices) ==
  LET attributes == Len(AttributePlans[t])
      empties == Sum([k \in DOMAIN choices |-> choices[k].T - Len(Children(t, Directories(t)[k]))])
  IN Objects(t) + Sum([k \in DOMAIN choices |-> choices[k].T])
     + (attributes - IF attributes <= empties THEN attributes ELSE empties)

\* simulateMinimumHashing
SimMinimum[t \in Trees] ==
  [k \in DOMAIN Directories(t) |->
    LET names == NamesIn(t, Directories(t)[k]) IN SimBestForTable(names, SmallPrimes, Len(names))]

\* all tables as small as they can be, if there are too many cells
SimFitted(t, most, wanted, base) ==
  IF SimCells(t, wanted) > most
  THEN [fallback |-> TRUE, choices |-> SimMinimum[t], base |-> 0]
  ELSE [fallback |-> FALSE, choices |-> wanted, base |-> base]

\* the best trial of a second base, if a directory uses it
SimSelected(t, most) ==
  LET first == DirectoryPlans[t, FALSE]
      Select(best) ==
        IF \E k \in DOMAIN best.choices : best.choices[k].dual
        THEN SimFitted(t, most, best.choices, best.base)
        ELSE SimFitted(t, most, [k \in DOMAIN first |-> first[k].hash], 0)
  IN Select(BestTrial[t])

\* metadataCellLimitExceeded, objectLimitExceeded, dirsOverHardLimit
SimExceeded(t, most, choices) ==
  \/ SimCells(t, choices) > most
  \/ Objects(t) >= MaxEntries
  \/ \E k \in DOMAIN Directories(t) : Len(Children(t, Directories(t)[k])) >= MaxEntries

CandidateSets[t \in Trees] ==
  [k \in DOMAIN Directories(t) |-> SimCandidates(NamesIn(t, Directories(t)[k]), SmallPrimes)]

Longest(sets, sel) ==
  LET chains == {sets[k][sel[k]].chain : k \in DOMAIN sets}
  IN CHOOSE m \in chains : \A c \in chains : c <= m
Squares(sets, sel) == Sum([k \in DOMAIN sets |-> sets[k][sel[k]].squares])

\* the upgrades that a round of runBudgetedHashTuning considers
Upgrades(sets, sel, left) ==
  {u \in UNION {{[dir |-> k, choice |-> j, cost |-> sets[k][j].T - sets[k][sel[k]].T,
                  longest |-> Longest(sets, [sel EXCEPT ![k] = j]),
                  squares |-> Squares(sets, [sel EXCEPT ![k] = j]),
                  T |-> sets[k][j].T, prime |-> sets[k][j].prime] :
                   j \in DOMAIN sets[k] \ {sel[k]}} : k \in DOMAIN sets} :
     /\ u.cost >= 0 /\ u.cost <= left
     /\ \/ u.longest < Longest(sets, sel)
        \/ u.longest = Longest(sets, sel) /\ u.squares < Squares(sets, sel)}

\* the order it prefers them in, field by field
UpgradeKey(u) == <<u.longest, u.squares, u.cost, u.T, u.prime, u.dir, u.choice>>
Precedes(a, b) ==
  \E n \in DOMAIN a : a[n] < b[n] /\ \A m \in 1..n - 1 : a[m] = b[m]
BestUpgrade(us) ==
  CHOOSE a \in us : \A b \in us \ {a} : Precedes(UpgradeKey(a), UpgradeKey(b))

\* one round: the best upgrade that the rest of the budget pays for (what cuts
\* the longest chain always precedes what does not, target or no target)
Tune ==
  LET upgrades == Upgrades(CandidateSets[tree], selected, budget - used)
      u == BestUpgrade(upgrades)
  IN
  /\ phase = "tune"
  /\ IF upgrades = {}
     THEN phase' = "tuned" /\ UNCHANGED tuning
     ELSE /\ selected' = [selected EXCEPT ![u.dir] = u.choice]
          /\ used' = used + u.cost
          /\ UNCHANGED <<phase, budget>>
  /\ UNCHANGED <<tree, limit, planning, fitting, placing, image, edits>>

Next ==
  \/ MakePlans \/ Fit \/ Shrink \/ Shrunk
  \/ ConstructBuckets \/ PlaceAttribute \/ Encode
  \/ Edit
  \/ Tune

Spec == Init /\ [][Next]_vars

-----------------------------------------------------------------------------
(* Properties.                                                             *)

SimAgrees(sim) ==
  /\ SimExceeded(tree, limit, sim.choices) <=> phase = "error"
  /\ phase = "built" /\ ~sim.fallback =>
       sim.base = hash2 /\ \A k \in DOMAIN plans : plans[k].hash = sim.choices[k]
  /\ phase = "built" /\ sim.fallback => SimCells(tree, sim.choices) <= image.head.count

\* The cells are counted right: while tables shrink, the counters say what
\* counting anew would say; makefemtofs refuses a tree only if tables without
\* an empty bucket are too large, or a directory or the tree has too many
\* entries, and never after the fitting; what it builds has as many cells as
\* was planned, within the limit, and no table is smaller than it had to be
\* made; and femtofsSim comes to the same verdict, and to the same tables
\* whenever none had to shrink.  Its tuner spends no more than its budget.
CellsCounted ==
  /\ phase = "shrink" =>
       /\ buckets = Buckets(plans) /\ empty = Empties(plans)
       /\ cells = PlannedCells(tree, plans, attrs)
  /\ phase = "error" =>
       \/ Overfull(tree)
       \/ PlannedCells(tree, DirectoryPlans[tree, TRUE], attrs) > limit
  /\ phase \in {"error", "built"} /\ edits = 0 => SimAgrees(SimSelected(tree, limit))
  /\ phase = "built" /\ edits = 0 => image.head.count = PlannedCells(tree, plans, attrs)
  /\ phase \in {"tune", "tuned"} =>
       /\ used <= budget
       /\ used = Sum([k \in DOMAIN selected |->
                       CandidateSets[tree][k][selected[k]].T - CandidateSets[tree][k][1].T])

\* What the builder lays out, its own validation, the kernel and fsck accept,
\* whichever tables were shrunk; and a directory that tries two hashes, or was
\* left alone, has no longer chain than its first choice had.
BuiltAccepted ==
  phase = "built" /\ edits = 0 =>
    /\ PlanValid /\ KernelAccepts(image) /\ FsckAccepts(image)
    /\ \A k \in DOMAIN plans :
         plans[k].hash.T >= single[k].hash.T => plans[k].hash.chain <= single[k].hash.chain

\* Of any table, the kernel and fsck say the same, but for a FILE that hard
\* links have and no directory: fsck takes it, the kernel does not.
CheckersAgree ==
  phase = "built" =>
    (KernelAccepts(image) <=> FsckAccepts(image) /\ LinkedFilesHaveEntries(image))

\* A directory is read completely: whatever the buffers of the calls, a call
\* returns the next entries, in order and each once, and the position where
\* the rest begins, ends with the mark of the end only if there is no rest,
\* and makes progress whenever an entry fits; cookies take nothing away.
ReaddirComplete ==
  phase = "built" /\ edits = 0 =>
    \A d \in Reached(image) :
      LET end == Directory(image, d).size + 2
          Rest(p) == FlattenSeq([k \in 1..end - p |-> DirentAt(image, d, p + k - 1)])
      IN
      /\ Len(Rest(0)) = Directory(image, d).entries + 2
      /\ \A pos \in 0..end, room \in Rooms, cookies \in BOOLEAN :
           LET r == Readdir(image, d, pos, room, cookies) IN
           /\ r.out \o Rest(r.pos) = Rest(pos)
           /\ r.eof <=> Rest(r.pos) = <<>>
           /\ r.out = <<>> => Rest(pos) = <<>> \/ room < RecordSize(Rest(pos)[1].name)
           /\ r.out # <<>> => r.out[Len(r.out)].off <= r.pos
=============================================================================

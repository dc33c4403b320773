-------------------------- MODULE BootAdoptionProofs --------------------------
(***************************************************************************)
(* Proofs about BootAdoption: DISCARD gives back no memory that is part of *)
(* another preload, whatever the loader left, of any sizes and anywhere,   *)
(* and whatever the order of the calls.  The inductive invariant keeps     *)
(* what adopt tested once: since then no preload has come or moved.        *)
(***************************************************************************)
EXTENDS BootAdoption, TLAPS

Page(p) == p * PageSize..(p + 1) * PageSize - 1

\* bank b has the memory of preload i, which nothing still there overlaps
Backs(i, b) ==
  /\ Named(b.source) = {i}
  /\ memory[i].addr = b.base /\ memory[i].size = b.extent
  /\ memory[i].addr # 0 /\ memory[i].size # 0 /\ memory[i].size <= Top - memory[i].addr
  /\ \A j \in present \ {i} : ~Overlaps(memory[i], memory[j])

IsBank(b) ==
  b = [label |-> b.label, source |-> b.source, claimed |-> b.claimed,
       base |-> b.base, extent |-> b.extent]

MemoryInv ==
  /\ \A i \in present : memory[i].addr \in 0..Top /\ memory[i].size \in 0..Top
  /\ \A b \in banks : IsBank(b) /\ \E i \in present : Backs(i, b)
  /\ \A b, c \in banks : b.base = c.base => b = c
  /\ \A i \in present : \A p \in freed : Page(p) \cap Span(memory[i]) = {}

-----------------------------------------------------------------------------
\* A preload that does not go past the top of memory has the addresses from its
\* first on.
LEMMA StraightSpan ==
  ASSUME NEW m, m.addr \in 0..Top, m.size \in 0..Top, m.size <= Top - m.addr
  PROVE  \A a \in Span(m) : a \in Int /\ m.addr <= a /\ a < m.addr + m.size
<1> SUFFICES ASSUME NEW a \in Span(m)
             PROVE  a \in Int /\ m.addr <= a /\ a < m.addr + m.size
  OBVIOUS
<1>1. PICK k \in 0..m.size - 1 : a = (m.addr + k) % (Top + 1)
  BY DEF Span
<1>2. m.addr + k \in 0..Top /\ k \in Int /\ k >= 0 /\ k < m.size
  BY PageAssumption
<1>3. (m.addr + k) % (Top + 1) = m.addr + k
  <2>1. \A x \in 0..Top : x % (Top + 1) = x
    BY PageAssumption
  <2> QED BY <1>2, <2>1
<1> QED BY <1>1, <1>2, <1>3, PageAssumption

\* A preload that adopt did not find overlapping has no address in common with
\* the adopted one, even if it goes past the top of memory: that was an overlap.
LEMMA ApartIsDisjoint ==
  ASSUME NEW m, NEW o,
         m.addr \in 0..Top, m.size \in 0..Top, o.addr \in 0..Top, o.size \in 0..Top,
         m.addr # 0, m.size # 0, m.size <= Top - m.addr,
         ~Overlaps(m, o)
  PROVE  Span(m) \cap Span(o) = {}
<1>1. CASE o.addr = 0 \/ o.size = 0
  BY <1>1, PageAssumption DEF Span
<1>2. CASE o.addr # 0 /\ o.size # 0
  <2>1. o.size <= Top - o.addr /\ ~(m.addr < o.addr + o.size /\ o.addr < m.addr + m.size)
    BY <1>2, PageAssumption DEF Overlaps
  <2>2. \A a \in Span(o) : a \in Int /\ o.addr <= a /\ a < o.addr + o.size
    BY <2>1, StraightSpan
  <2>3. \A a \in Span(m) : a \in Int /\ m.addr <= a /\ a < m.addr + m.size
    BY StraightSpan
  <2> QED BY <2>1, <2>2, <2>3, PageAssumption
<1> QED BY <1>1, <1>2

\* One round of ff_banks_init's loop adopts at most one preload, which passed
\* adopt's tests.
LEMMA AdoptStep ==
  ASSUME MemoryInv, Adopt
  PROVE  MemoryInv'
<1> USE DEF MemoryInv
<1>1. UNCHANGED <<memory, present, freed>>
  BY DEF Adopt
<1>2. CASE UNCHANGED banks
  BY <1>1, <1>2 DEF Backs, Named
<1>3. ASSUME NEW i \in Named(kenv[entry].name), Adoptable(i),
             banks' = banks \cup {[label |-> kenv[entry].label, source |-> kenv[entry].name,
                                   claimed |-> FALSE,
                                   base |-> memory[i].addr, extent |-> memory[i].size]}
      PROVE  MemoryInv'
  <2> DEFINE n == [label |-> kenv[entry].label, source |-> kenv[entry].name, claimed |-> FALSE,
                   base |-> memory[i].addr, extent |-> memory[i].size]
  <2>1. i \in present /\ memory[i].name = kenv[entry].name
    BY DEF Named
  <2>2. IsBank(n) /\ n.source = kenv[entry].name /\ n.base = memory[i].addr
                  /\ n.extent = memory[i].size
    BY DEF IsBank
  <2>3. Backs(i, n)
    BY <1>3, <2>1, <2>2 DEF Backs, Adoptable
  <2>4. \A b \in banks : b.base # n.base
    BY <1>3, <2>2 DEF Adoptable
  <2>5. banks' = banks \cup {n}
    BY <1>3
  <2> HIDE DEF n
  <2>6. \A b \in banks' : IsBank(b) /\ \E j \in present : Backs(j, b)
    BY <2>1, <2>2, <2>3, <2>5
  <2>7. \A b, c \in banks' : b.base = c.base => b = c
    BY <2>4, <2>5
  <2>8. \A j \in present : \A b : Backs(j, b)' <=> Backs(j, b)
    BY <1>1 DEF Backs, Named
  <2> QED BY <1>1, <2>6, <2>7, <2>8
<1> QED BY <1>2, <1>3 DEF Adopt

\* A claim or a release says nothing about memory.
LEMMA ClaimStep ==
  ASSUME MemoryInv, NEW b \in banks, Claim(b)
  PROVE  MemoryInv'
<1> USE DEF MemoryInv
<1> DEFINE n == [b EXCEPT !.claimed = ~@]
<1>1. UNCHANGED <<memory, present, freed>> /\ banks' = (banks \ {b}) \cup {n}
  BY DEF Claim
<1>2. IsBank(n) /\ n.source = b.source /\ n.base = b.base /\ n.extent = b.extent
  <2>1. b = [label |-> b.label, source |-> b.source, claimed |-> b.claimed,
             base |-> b.base, extent |-> b.extent]
    BY DEF IsBank
  <2> QED BY <2>1 DEF IsBank
<1> HIDE DEF n
<1>3. \A c \in banks' : IsBank(c) /\ \E i \in present : Backs(i, c)
  BY <1>1, <1>2 DEF Backs
<1>4. \A c, d \in banks' : c.base = d.base => c = d
  BY <1>1, <1>2
<1>5. \A i, c : Backs(i, c)' <=> Backs(i, c)
  BY <1>1 DEF Backs, Named
<1> QED BY <1>1, <1>3, <1>4, <1>5

\* DISCARD removes the one preload its bank was made from; the pages it gives back
\* are apart from what remains, and the other banks' preloads remain.
LEMMA DiscardStep ==
  ASSUME MemoryInv, NEW b \in banks, Discard(b)
  PROVE  MemoryInv'
<1> USE DEF MemoryInv
<1>1. PICK i \in present : Backs(i, b)
  OBVIOUS
<1>2. /\ memory' = memory /\ banks' = banks \ {b}
      /\ present' = present \ {i}
      /\ freed' = freed \cup PagesOf(memory[i])
  BY <1>1 DEF Discard, Backs
<1>3. ASSUME NEW c \in banks' PROVE IsBank(c) /\ \E j \in present' : Backs(j, c)'
  <2>1. PICK j \in present : Backs(j, c)
    BY <1>2, <1>3
  <2>2. j # i
    BY <1>1, <1>2, <1>3, <2>1 DEF Backs
  <2>3. Backs(j, c)'
    BY <1>2, <2>1, <2>2 DEF Backs, Named
  <2> QED BY <1>2, <1>3, <2>2, <2>3
<1>4. ASSUME NEW j \in present', NEW p \in freed' PROVE Page(p) \cap Span(memory[j]) = {}
  <2>1. CASE p \in freed
    BY <1>2, <2>1
  <2>2. CASE p \in PagesOf(memory[i])
    <3>1. Page(p) \subseteq Span(memory[i])
      BY <2>2 DEF PagesOf, Page
    <3>2. Span(memory[i]) \cap Span(memory[j]) = {}
      BY <1>1, <1>2, ApartIsDisjoint DEF Backs
    <3> QED BY <3>1, <3>2
  <2> QED BY <1>2, <2>1, <2>2
<1>5. (\A j \in present : \A p \in freed : Page(p) \cap Span(memory[j]) = {})'
  BY <1>2, <1>4 DEF Page, Span
<1> QED BY <1>2, <1>3, <1>5

LEMMA MemoryInductive == MemoryInv /\ [Next]_vars => MemoryInv'
<1> SUFFICES ASSUME MemoryInv, [Next]_vars PROVE MemoryInv'
  OBVIOUS
<1>1. CASE UNCHANGED <<memory, present, banks, freed>>
  BY <1>1 DEF MemoryInv, Backs, Named, IsBank
<1>2. CASE Registered \/ Reload \/ UNCHANGED vars
  BY <1>1, <1>2 DEF Registered, Reload, vars
<1> QED BY <1>2, AdoptStep, ClaimStep, DiscardStep DEF Next

\* No page that DISCARD gave back is part of a preload that is still there, and
\* every bank, mounted or not, still has the memory of its own preload.
THEOREM DiscardFreesItsOwn == Spec => []NothingForeignFreed
<1>1. Init => MemoryInv
  BY MemoriesAssumption DEF Init, MemoryInv
<1>2. MemoryInv => NothingForeignFreed
  <2> SUFFICES ASSUME MemoryInv PROVE NothingForeignFreed
    OBVIOUS
  <2>1. \A i \in present :
          Span(memory[i]) \cap UNION {p * PageSize..(p + 1) * PageSize - 1 : p \in freed} = {}
    BY DEF MemoryInv, Page
  <2> QED BY <2>1 DEF MemoryInv, NothingForeignFreed, Backs
<1> QED BY <1>1, <1>2, MemoryInductive, PTL DEF Spec
=============================================================================

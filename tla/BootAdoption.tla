----------------------------- MODULE BootAdoption -----------------------------
(***************************************************************************)
(* The banks that ff_banks_init takes from the boot loader's preloads, and *)
(* DISCARD, which gives their memory back (ko/bank.c).  What BankStore     *)
(* calls "a preload that passed adopt's checks" is spelled out here: the   *)
(* loader has put its modules anywhere in memory, aligned or not, and      *)
(* preload_delete_name frees the whole pages of those with a given name.   *)
(* Every call here holds bank_lock, or runs before there is a device.      *)
(***************************************************************************)
EXTENDS Integers, Sequences, FiniteSets

CONSTANTS
  Memories,      \* bound: what the loader left: sequences of preloads
                 \* [name, image, addr, size]; image: of type femtofs_image
  Environments,  \* bound: the femtofs.bank.* entries: sequences of [label, name]
  PageSize,      \* PAGE_SIZE, in the units of the addresses
  Top,           \* UINTPTR_MAX
  MaxReloads     \* bound: times the module is loaded again

ASSUME PageAssumption == PageSize \in Nat \ {0} /\ Top \in Nat
\* uintptr_t and size_t; what the loader says need not fit the memory
ASSUME MemoriesAssumption ==
  \A m \in Memories : \A i \in DOMAIN m : m[i].addr \in 0..Top /\ m[i].size \in 0..Top

VARIABLES
  phase,         \* "init", "live"
  memory,        \* the loader's preloads
  present,       \* those of them that have not been deleted
  kenv,          \* the entries, in order
  entry,         \* ff_banks_init's loop: the next entry
  banks,         \* [label, source, base, extent, claimed]
  freed,         \* the pages given back
  reloads

vars == <<phase, memory, present, kenv, entry, banks, freed, reloads>>

\* the addresses of a preload, which may go past the top of memory; none if the
\* loader gave it no address
Span(m) == IF m.addr = 0 THEN {} ELSE {(m.addr + k) % (Top + 1) : k \in 0..m.size - 1}
PagesOf(m) == {p \in 0..Top \div PageSize : p * PageSize..(p + 1) * PageSize - 1 \subseteq Span(m)}

Named(name) == {i \in present : memory[i].name = name}

\* Fault: only a preload that reaches over the start of the image overlaps it.
OverlapsStart(m, o) ==
  o.addr # 0 /\ o.size # 0 /\
  (o.addr > Top - o.size \/ (o.addr <= m.addr /\ m.addr < o.addr + o.size))

\* adopt's test of another preload; one that goes past the top is refused
Overlaps(m, o) ==
  o.addr # 0 /\ o.size # 0 /\
  (o.addr > Top - o.size \/ (m.addr < o.addr + o.size /\ o.addr < m.addr + m.size))

\* adopt, before it reads the image
Adoptable(i) ==
  LET m == memory[i] IN
  /\ Named(m.name) = {i}
  /\ m.image
  /\ m.addr # 0 /\ m.size # 0
  /\ m.addr % PageSize = 0 /\ m.size % PageSize = 0
  /\ m.size <= Top - m.addr
  /\ \A j \in present \ {i} : ~Overlaps(m, memory[j])
  /\ \A b \in banks : b.base # m.addr

Init ==
  /\ phase = "init"
  /\ memory \in Memories /\ present = DOMAIN memory
  /\ kenv \in Environments /\ entry = 1
  /\ banks = {} /\ freed = {}
  /\ reloads = 0

\* one round of the loop: whatever fails, the entry is skipped; the image may
\* be invalid, and its label taken
Adopt ==
  /\ phase = "init" /\ entry <= Len(kenv)
  /\ entry' = entry + 1
  /\ LET e == kenv[entry] IN
     \/ UNCHANGED banks \* ff_header or ff_validate fails, or what is below
     \/ /\ \A b \in banks : b.label # e.label
        /\ \E i \in Named(e.name) :
             /\ Adoptable(i)
             /\ banks' = banks \cup {[label |-> e.label, source |-> e.name, claimed |-> FALSE,
                                      base |-> memory[i].addr, extent |-> memory[i].size]}
  /\ UNCHANGED <<phase, memory, present, kenv, freed, reloads>>

Registered ==
  /\ phase = "init" /\ entry > Len(kenv)
  /\ phase' = "live"
  /\ UNCHANGED <<memory, present, kenv, entry, banks, freed, reloads>>

\* ff_bank_claim and ff_bank_release: a filesystem is mounted, or not any more
Claim(b) ==
  /\ phase = "live" /\ b \in banks
  /\ banks' = (banks \ {b}) \cup {[b EXCEPT !.claimed = ~@]}
  /\ UNCHANGED <<phase, memory, present, kenv, entry, freed, reloads>>

\* FF_BANK_DISCARD: the preload goes by its name, and with it its memory
Discard(b) ==
  /\ phase = "live" /\ b \in banks
  /\ ~b.claimed
  /\ banks' = banks \ {b}
  /\ present' = present \ Named(b.source)
  /\ freed' = freed \cup UNION {PagesOf(memory[i]) : i \in Named(b.source)}
  /\ UNCHANGED <<phase, memory, kenv, entry, reloads>>

\* ff_banks_uninit, which refuses while there are banks; and ff_banks_init
Reload ==
  /\ phase = "live" /\ banks = {}
  /\ reloads < MaxReloads
  /\ reloads' = reloads + 1
  /\ phase' = "init" /\ entry' = 1
  /\ UNCHANGED <<memory, present, kenv, banks, freed>>

Next == Adopt \/ Registered \/ Reload \/ \E b \in banks : Claim(b) \/ Discard(b)

Spec == Init /\ [][Next]_vars

\* Discarding takes memory from nobody: no page that was given back is part of
\* a preload that is still there (of another module, or of another bank), and
\* the memory of every bank, mounted or not, is that of its own preload still.
NothingForeignFreed ==
  /\ \A i \in present : Span(memory[i]) \cap UNION {p * PageSize..(p + 1) * PageSize - 1 : p \in freed} = {}
  /\ \A b \in banks :
       \E i \in present : /\ Named(b.source) = {i}
                          /\ memory[i].addr = b.base /\ memory[i].size = b.extent
=============================================================================

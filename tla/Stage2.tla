-------------------------------- MODULE Stage2 --------------------------------
(***************************************************************************)
(* The stage 2 translation tables (arch/arm/paging.c, lpae.c and           *)
(* core/vm/vmem.c): the words that paging_create and write_pgentry store   *)
(* at the addresses they compute, and what the table walk of the MMU makes *)
(* of them.  The tables of all VMs are slices of one array, __VM_PGTABLE.  *)
(*                                                                         *)
(* A word is an entry of 8 bytes, and addresses count words.  The tables   *)
(* are written by pCPU 0 before any vCPU runs, and once more at run time:  *)
(* when a guest asks for the memory it shares with OP-TEE, the whole of it *)
(* is mapped for its VM (arch/arm/optee.c:62).  The array is not part of   *)
(* .bss and nothing clears the third level: the walk is right for pages    *)
(* that are not mapped because the loader leaves zeroes there.             *)
(***************************************************************************)
EXTENDS Integers, Sequences

CONSTANTS
    L1Entry,      \* L1_ENTRY
    Entry,        \* L2_ENTRY = L3_ENTRY = 2^ENTRY_SHIFT
    SecondBase,   \* offset of the second level tables, 0x1000 bytes
    ThirdBase,    \* offset of the third level tables, 0x5000 bytes
    PgtableSize,  \* PGTABLE_SIZE
    NrVms,        \* CONFIG_NR_VMS
    Mmap,         \* per VM its device map and DRAM, one entry for each page
    Shm,          \* the pages of the memory shared with OP-TEE
    Unmapped

Vms   == 0 .. NrVms - 1
Pages == 0 .. L1Entry * Entry * Entry - 1
Words == 0 .. NrVms * PgtableSize - 1

ASSUME Stage2Assumption ==
    /\ L1Entry \in Nat \ {0} /\ Entry \in Nat \ {0} /\ NrVms \in Nat \ {0}
    /\ SecondBase \in Nat /\ ThirdBase \in Nat /\ PgtableSize \in Nat
    /\ L1Entry <= SecondBase
    /\ SecondBase + L1Entry * Entry <= ThirdBase
    /\ ThirdBase + L1Entry * Entry * Entry <= PgtableSize
    /\ Mmap \in [Vms -> Seq([ipa : Pages, pa : Nat, af : {0, 1}])]
    /\ Shm \in Seq(Pages)
    /\ Unmapped \notin [pa : Nat, af : {0, 1}]

VARIABLES
    mem,     \* the words of __VM_PGTABLE
    created, \* the VMs that vmem_create has set up
    mapped   \* per VM, how many of its Entries have been stored

s2Vars == <<mem, created, mapped>>

\* What is stored for each VM, in this order: its memory map, and then the
\* shared memory, each page of it at its physical address.
SharedPage(p) == [ipa |-> p, pa |-> p, af |-> 1]
Entries ==
    [v \in Vms |-> Mmap[v] \o [i \in 1 .. Len(Shm) |-> SharedPage(Shm[i])]]

\* base is the word address of the next table, or the physical page.
PgEntry(valid, base, af) == [valid |-> valid, base |-> base, af |-> af]
Zero == PgEntry(FALSE, 0, 0)
SetTable(base) == PgEntry(FALSE, base, 0)
SetEntry(pa, af) == PgEntry(TRUE, pa, af)

S2Init ==
    /\ mem = [w \in Words |-> Zero]
    /\ created = {}
    /\ mapped = [v \in Vms |-> 0]

----------------------------------------------------------------------------
(* Writing the tables.                                                     *)

\* vmem->base.
Base(v) == PgtableSize * v

\* paging_create.
Create(v) ==
    /\ v \notin created
    /\ created' = created \cup {v}
    /\ mem' = [w \in Words |->
                 LET first  == w - Base(v)
                     second == first - SecondBase
                 IN  IF first \in 0 .. L1Entry - 1
                     THEN SetTable(Base(v) + SecondBase + first * Entry)
                     ELSE IF second \in 0 .. L1Entry * Entry - 1
                     THEN SetTable(Base(v) + ThirdBase + second * Entry)
                     ELSE mem[w]]
    /\ UNCHANGED mapped

\* The numbers of a page's entries among those of each level.
L3Index(p) == p
L2Index(p) == L3Index(p) \div Entry
L1Index(p) == L2Index(p) \div Entry

\* The addresses write_pgentry stores to.  Faulty variant: the third level
\* tables are found as if the first level had one entry.
L3WordOneTable(v, p) == Base(v) + ThirdBase + (L3Index(p) % (Entry * Entry))
L1Word(v, p) == Base(v) + L1Index(p)
L2Word(v, p) == Base(v) + SecondBase + L2Index(p)
L3Word(v, p) == Base(v) + ThirdBase + L3Index(p)

WritePgentry(v, p, pa, af) ==
    mem' = [mem EXCEPT ![L1Word(v, p)].valid = TRUE,
                       ![L2Word(v, p)].valid = TRUE,
                       ![L3Word(v, p)] = SetEntry(pa, af)]

\* One iteration of paging_add_ipa_mapping.
MapEntry(v) ==
    /\ v \in created
    /\ mapped[v] < Len(Entries[v])
    /\ mapped' = [mapped EXCEPT ![v] = @ + 1]
    /\ LET e == Entries[v][mapped[v] + 1] IN WritePgentry(v, e.ipa, e.pa, e.af)
    /\ UNCHANGED created

\* In vmem_init.
MapPage(v) == mapped[v] < Len(Mmap[v]) /\ MapEntry(v)

\* Guests run when the memory maps of all VMs have been stored.
Booted == \A v \in Vms : mapped[v] >= Len(Mmap[v])

\* In handle_optee_get_shm_config, for the VM of the caller.  A later call
\* stores the same words again.
MapShm(v) == Booted /\ MapEntry(v)

S2Next == \E v \in Vms : Create(v) \/ MapPage(v) \/ MapShm(v)
S2Spec == S2Init /\ [][S2Next]_s2Vars

----------------------------------------------------------------------------
(* Reading them.                                                           *)

\* The walk of the MMU, from VTTBR, the base of the VM.  A page with af = 0
\* raises an access flag fault, on which its accesses are emulated.
Walk(v, p) ==
    LET one   == mem[Base(v) + L1Index(p)]
        two   == mem[one.base + (L2Index(p) % Entry)]
        three == mem[two.base + (L3Index(p) % Entry)]
    IN  IF one.valid
        THEN IF two.valid
             THEN IF three.valid THEN [pa |-> three.base, af |-> three.af] ELSE Unmapped
             ELSE Unmapped
        ELSE Unmapped

\* The tables are what they stand for: each page has the translation of its
\* last entry among those stored for its VM, and pages without one have none,
\* although every level shares words between pages (lpae.c:36).
Abstract == INSTANCE IpaMap WITH map <- [v \in Vms |-> [p \in Pages |-> Walk(v, p)]]
ImplementsIpaMap == Abstract!Spec
=============================================================================

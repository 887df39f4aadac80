-------------------------------- MODULE IpaMap --------------------------------
(***************************************************************************)
(* What the stage 2 tables of the VMs stand for: a function from the pages *)
(* a guest sees to physical pages, filled in the order of its entries.     *)
(***************************************************************************)
EXTENDS Naturals, Sequences

CONSTANTS NrVms, Pages, Entries, Unmapped

VARIABLES
    map,     \* for each VM, the translation of each page
    mapped   \* how many of its entries have been entered

Vms == 0 .. NrVms - 1

Init ==
    /\ map = [v \in Vms |-> [p \in Pages |-> Unmapped]]
    /\ mapped = [v \in Vms |-> 0]

\* The next of them gives one page its translation, whatever the
\* page had before, and no other page and no other VM a different one.
Enter(v) ==
    /\ mapped[v] < Len(Entries[v])
    /\ mapped' = [mapped EXCEPT ![v] = @ + 1]
    /\ LET e == Entries[v][mapped[v] + 1]
       IN  map' = [map EXCEPT ![v][e.ipa] = [pa |-> e.pa, af |-> e.af]]

Next == \E v \in Vms : Enter(v)
Spec == Init /\ [][Next]_<<map, mapped>>
=============================================================================

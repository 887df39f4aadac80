---------------------------- MODULE BackgroundCopy ----------------------------
(***************************************************************************)
(* What the snapshot of a VM promises, without saying how it is done: the  *)
(* copy is made in the background, one unit of memory at a time and in any *)
(* order, while the VM goes on writing.  A new snapshot starts all over;   *)
(* some of the units that are copied first may then be lost, once.         *)
(***************************************************************************)
EXTENDS Naturals

CONSTANTS
    Units, Unwritten,
    First   \* the units that are copied first

VARIABLES
    mem,    \* how often the VM has written each unit
    copy,   \* the version of each unit that the backup VM holds
    todo,   \* the units that are still to be copied
    lost    \* the units that this snapshot does not copy

vars == <<mem, copy, todo, lost>>

Init ==
    /\ mem = [u \in Units |-> 0]
    /\ copy = [u \in Units |-> Unwritten]
    /\ todo = {} /\ lost = {}

Write(u) ==
    /\ mem' = [mem EXCEPT ![u] = @ + 1]
    /\ UNCHANGED <<copy, todo, lost>>

Take ==
    /\ todo' = Units /\ lost' = {}
    /\ UNCHANGED <<mem, copy>>

Copy(u) ==
    /\ u \in todo
    /\ copy' = [copy EXCEPT ![u] = mem[u]]
    /\ todo' = todo \ {u}
    /\ UNCHANGED <<mem, lost>>

\* The snapshot before still copies one.
CopyTwice(u) ==
    /\ u \in todo
    /\ copy' = [copy EXCEPT ![u] = mem[u]]
    /\ UNCHANGED <<mem, todo, lost>>

Lose ==
    /\ lost = {}
    /\ \E part \in SUBSET (First \cap todo) :
          todo' = todo \ part /\ lost' = part
    /\ UNCHANGED <<mem, copy>>

Next ==
    \/ Take \/ Lose
    \/ \E u \in Units : Write(u) \/ Copy(u) \/ CopyTwice(u)

Spec == Init /\ [][Next]_vars /\ WF_vars(\E u \in Units : Copy(u))
=============================================================================

----------------------------- MODULE MCGuestAccess -----------------------------
(* Two VMs with the shape of vm0_device_md and vm1_device_md: sysreg, the   *)
(* timer, the distributor and the UART are emulated, each VM has a page of  *)
(* memory, and the page of vdev_sample is not mapped.  OP-TEE shares one    *)
(* page.  What a VM stores to a page is marked with both, to tell every     *)
(* pair of them apart; VM 0 stores a second value to a device and to its    *)
(* memory.  The preset is that of vcpu_init.  Of the secure threads, t and  *)
(* u belong to different VMs.                                               *)
EXTENDS GuestAccess

CONSTANT u

MCMmap ==
    [v \in Vms |->
        [i \in 1 .. 4 |-> [ipa |-> i - 1, pa |-> i + 9, af |-> 0]]
        \o <<[ipa |-> 6, pa |-> v, af |-> 1]>>]
MCPageOf ==
    [d \in Devices |-> CASE d = "sysreg" -> 0 [] d = "sp804" -> 1 [] d = "sample" -> 4]
MCWritten ==
    [v \in Vms |-> [p \in Pages |->
        {1 + 8 * v + p} \cup IF v = 0 /\ p \in {0, 6} THEN {17} ELSE {}]]
MCShm == <<5>>
MCPreset == [v \in {0, 1} |-> IF v = 0 THEN {<<37, 37>>} ELSE {<<39, 37>>}]
MCVmOf == [x \in Threads |-> IF x = u THEN 1 ELSE 0]
=============================================================================

---------------------------- MODULE MCScheduler ----------------------------
(* Two pCPUs.  VM "A" has two vCPUs on the first and one on the second; VM  *)
(* "B" and the backup VM "K" share the first pCPU with it, the backup VM    *)
(* "L" the second.                                                          *)
EXTENDS Scheduler, TLC

CONSTANTS p0, p1, a0, a1, a2, b0, k0, l0

MCPcpus  == {p0, p1}
MCVcpus  == {a0, a1, a2, b0, k0, l0}
MCPcpuOf == [v \in MCVcpus |-> IF v \in {a1, l0} THEN p1 ELSE p0]
MCVmOf   == (a0 :> "A") @@ (a1 :> "A") @@ (a2 :> "A") @@ (b0 :> "B")
            @@ (k0 :> "K") @@ (l0 :> "L")
MCBoot   == {a0, b0}
MCBackup == {k0, l0}
=============================================================================

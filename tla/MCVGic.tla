------------------------------- MODULE MCVGic -------------------------------
(* a0, the first vCPU of its VM, and b0, of another VM and not its first,  *)
(* share the boot pCPU p0; a1, of the VM of a0, is on p1 and injects         *)
(* remotely.  a0 gets enough software interrupts to fill its LR and queue.   *)
EXTENDS VGic

CONSTANTS p0, p1, a0, a1, b0

MCPcpuOf == [v \in Vcpus |-> IF v = a1 THEN p1 ELSE p0]
MCVmOf   == [v \in Vcpus |-> IF v = b0 THEN "B" ELSE "A"]
MCSoftBound == [v \in Vcpus |-> CASE v = a0 -> 3 [] v = b0 -> 1 [] v = a1 -> 0]
=============================================================================

---------------------------- MODULE VcpuService ----------------------------
(***************************************************************************)
(* What scheduling promises, whatever the policy: each pCPU executes at    *)
(* most one of its vCPUs, a vCPU that is ready is eventually executed, one *)
(* that is executed gives way only to another one or when it is retired,   *)
(* and a retired vCPU never comes back.                                    *)
(***************************************************************************)
CONSTANTS Pcpus, Vcpus, PcpuOf

VARIABLE place      \* "off", "ready", "on" its pCPU, or "gone" for good

Init == place = [v \in Vcpus |-> "off"]

PowerOn(v) ==
    /\ place[v] = "off"
    /\ place' = [place EXCEPT ![v] = "ready"]

\* v takes its pCPU over from the vCPU that is on it, if there is one.
Dispatch(v) ==
    /\ place[v] = "ready"
    /\ place' = [u \in Vcpus |-> IF u = v THEN "on"
                                 ELSE IF PcpuOf[u] = PcpuOf[v] /\ place[u] = "on"
                                 THEN "ready" ELSE place[u]]

Retire(v) ==
    /\ place[v] = "on"
    /\ place' = [place EXCEPT ![v] = "gone"]

Next == \E v \in Vcpus : PowerOn(v) \/ Dispatch(v) \/ Retire(v)

Spec == Init /\ [][Next]_place /\ \A v \in Vcpus : WF_place(Dispatch(v))
=============================================================================

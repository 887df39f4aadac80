-------------------------- MODULE MCRunqueueList --------------------------
(* Three vCPUs homed on pCPU h; pCPU r switches vCPUs on as well.          *)
EXTENDS RunqueueList
CONSTANTS n1, n2, n3, h, r
MCNodes  == {n1, n2, n3}
MCOthers == {r}
=============================================================================

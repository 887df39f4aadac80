---------------------------- MODULE MCRtPolicies ----------------------------
(* Three vCPUs.  A slice of zeros is an unused entry of the configuration.  *)
EXTENDS RtPolicies, TLC

CONSTANTS v0, v1, v2

MCVcpus  == {v0, v1, v2}
Symmetry == Permutations(MCVcpus)
MCSlices == {[period |-> s[1], budget |-> s[2]] :
                s \in {<<0, 0>>, <<2, 1>>, <<4, 2>>, <<5, 2>>, <<5, 5>>}}
=============================================================================

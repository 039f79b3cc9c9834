------------------------ MODULE MCNetworkActionFaults -----------------------
(***************************************************************************)
(* NetworkActionFaults for TLC, with every container in a pod.             *)
(***************************************************************************)
EXTENDS NetworkActionFaults, TLC

\* Executions are interchangeable: no action or property names one.
ExecSymmetry == Permutations(Exec)

PodFaultInit ==
  /\ FaultInit
  /\ \A e \in Exec : /\ ~isUsingHostNetwork(target(e))
                    /\ ~request[e].failOnHostNetwork

PodFaultSpec == PodFaultInit /\ [][FaultNext]_faultVars
=============================================================================

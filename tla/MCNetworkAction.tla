--------------------------- MODULE MCNetworkAction --------------------------
(***************************************************************************)
(* NetworkAction for TLC.                                                  *)
(***************************************************************************)
EXTENDS NetworkAction, TLC

\* Executions are interchangeable: no action or property names one.
ExecSymmetry == Permutations(Exec)

\* Instances in which no container is on the host network, where only
\* failOnHostNetwork makes a difference.
PodInit ==
  /\ Init
  /\ \A e \in Exec : /\ ~isUsingHostNetwork(target(e))
                    /\ ~request[e].failOnHostNetwork

PodSpec == PodInit /\ [][Next]_vars

\* All of these, and instances on any network with a single experiment.
MixedInit ==
  /\ Init
  /\ \A e \in Exec :
       IF isUsingHostNetwork(target(e))
         THEN \A f \in Exec : request[f].experiment = request[e].experiment
         ELSE ~request[e].failOnHostNetwork

MixedSpec == MixedInit /\ [][Next]_vars

PodFairSpec == PodSpec /\ Fairness

(***************************************************************************)
(* The ordinary course only: Start follows Prepare before any Stop, and    *)
(* the options can be decoded.                                             *)
(***************************************************************************)
OrdinaryNext ==
  /\ Next
  /\ \A e \in Exec : pc[e] = "prepared" =>
       pc'[e] \in {"prepared", "applying", "started"}
  /\ \A e \in Exec : pc'[e] = "releasing" /\ pc[e] \in Stoppable =>
       isShadow[e] \/ ~NamespacesExists(e)

OrdinarySpec == PodInit /\ [][OrdinaryNext]_vars
=============================================================================

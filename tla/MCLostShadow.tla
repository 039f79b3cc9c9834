---------------------------- MODULE MCLostShadow ----------------------------
(***************************************************************************)
(* NetworkActionFaults for TLC, with a history of who started as a shadow. *)
(* No action reads it; only the property below does.  isShadow itself does *)
(* not tell, because it is the flag a lost answer takes with it.           *)
(***************************************************************************)
EXTENDS MCNetworkActionFaults

VARIABLE shadows   \* the executions whose Start has answered as a shadow's

historyVars == <<faultVars, shadows>>

Record == shadows' = shadows \cup {e \in Exec : isShadow'[e]}

HistorySpec == /\ PodFaultInit /\ shadows = {}
               /\ [][FaultNext /\ Record]_historyVars

(***************************************************************************)
(* "Their Stop must not revert, or the primary's attack would be torn down *)
(* early" (action_network.go:315-318): whoever started as a shadow leaves  *)
(* the attack of a running primary in its place.                           *)
(***************************************************************************)
ShadowsSparePrimaries ==
  [][\A e \in shadows, o \in Exec :
       o # e /\ Running(o) /\ Running(o)' /\ Installed(o) /\ pc[e] = "reverting" =>
         Installed(o)' \/ pc'[e] = "reverting"]_historyVars
=============================================================================

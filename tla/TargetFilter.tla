---------------------------- MODULE TargetFilter ----------------------------
(***************************************************************************)
(* Which containers become targets (extcontainer/discovery.go), and which  *)
(* targets the actions accept (getContainerTarget in common.go).  Both ask *)
(* hasDisallowedK8sNamespaceLabel; the configuration has what is           *)
(* disallowed from the environment and from the command line               *)
(* (config/config.go).                                                     *)
(*                                                                         *)
(* A pattern is the set of the names it matches.                           *)
(***************************************************************************)
EXTENDS Naturals

\* A bug: the command line replaces what the environment says.
argsReplace(config) == IF config.args = {} THEN config.env ELSE config.args

\* What parseArgs leaves in Config.DisallowK8sNamespaces.
DisallowK8sNamespaces(config) == config.env \cup config.args

\* The container has no label with its namespace; one that is empty is a name.
NoLabel == "no label"

hasDisallowedK8sNamespaceLabel(config, container) ==
  /\ container.namespace # NoLabel
  /\ \E pattern \in DisallowK8sNamespaces(config) : container.namespace \in pattern

\* A bug: the discovery leaves the namespaces to the actions.
ignoresByLabelOnly(config, container) ==
  \/ "sandbox" \in container.labels
  \/ ~config.disableDiscoveryExcludes /\ "discovery-disabled" \in container.labels

ignoreContainer(config, container) ==
  \/ hasDisallowedK8sNamespaceLabel(config, container)
  \/ "sandbox" \in container.labels
  \/ ~config.disableDiscoveryExcludes /\ "discovery-disabled" \in container.labels

-----------------------------------------------------------------------------
\* An id, with or without the runtime it belongs to.
AddPrefix(id, runtime) == IF id.prefix = "" THEN [id EXCEPT !.prefix = runtime] ELSE id
RemovePrefix(id) == [id EXCEPT !.prefix = ""]

\* Of the attributes of a target only the one that the actions read.
mapTarget(container, runtime) == [containerId |-> AddPrefix(container.id, runtime)]

\* Those of the listed containers that become targets.
DiscoverTargets(config, listed, runtime) ==
  {mapTarget(c, runtime) : c \in {l \in listed : ~ignoreContainer(config, l)}}

(***************************************************************************)
(* The label takes eight characters of the id and panics for less.         *)
(***************************************************************************)
getContainerTarget(config, known, containerId, steadybitLabel) ==
  LET found == {c \in known : c.id = RemovePrefix(containerId)}
  IN  IF found = {} THEN "not found"
      ELSE IF \E c \in found : hasDisallowedK8sNamespaceLabel(config, c) THEN "disallowed"
      ELSE IF steadybitLabel /\ containerId.length < 8 THEN "panic"
      ELSE "accepted"
=============================================================================

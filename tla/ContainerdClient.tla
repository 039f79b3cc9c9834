-------------------------- MODULE ContainerdClient --------------------------
(***************************************************************************)
(* Stop of extcontainer/container/containerd/client.go: load the task; if  *)
(* graceful, send SIGTERM and wait up to ten seconds for the exit; send    *)
(* SIGKILL.  Every call to containerd can fail, and does when its context  *)
(* was cancelled before it began.                                          *)
(*                                                                         *)
(* There is one call per execution.  The containers are external: a        *)
(* process may end by itself, may ignore SIGTERM, and ends some time after *)
(* SIGKILL.                                                                *)
(***************************************************************************)
EXTENDS Naturals

CONSTANTS Exec, Containers

VARIABLES
  container,  \* what has become of each container
  target,     \* the container each execution stops
  graceful,   \* SIGTERM first?
  call,       \* where the call of Stop is
  cancelled,  \* its context was cancelled
  result      \* what it returned

clientVars == <<container, target, graceful, call, cancelled, result>>

ContainerState == {"running", "terminating", "killed", "exited"}

CallPC == {"none", "loading", "terminating", "waiting", "killing", "returned"}

ClientTypeOK ==
  /\ container \in [Containers -> ContainerState]
  /\ target \in [Exec -> Containers]
  /\ graceful \in [Exec -> BOOLEAN]
  /\ call \in [Exec -> CallPC]
  /\ cancelled \in [Exec -> BOOLEAN]
  /\ result \in [Exec -> {"none", "ok", "error"}]

ClientInit ==
  /\ container = [c \in Containers |-> "running"]
  /\ target \in [Exec -> Containers]
  /\ graceful \in [Exec -> BOOLEAN]
  /\ call = [e \in Exec |-> "none"]
  /\ cancelled = [e \in Exec |-> FALSE]
  /\ result = [e \in Exec |-> "none"]

-----------------------------------------------------------------------------
Exited(c) == container[c] = "exited"

InCall(e, from, to) == call[e] = from /\ call' = [call EXCEPT ![e] = to]

Return(e, from, r) ==
  /\ InCall(e, from, "returned")
  /\ result' = [result EXCEPT ![e] = r]

\* A signal reaches a process that has not ended.  A cancellation may come
\* too late for a call that has begun.
Signal(e, state) ==
  /\ ~Exited(target[e])
  /\ container' = [container EXCEPT ![target[e]] = state]

BeginCall(e) == InCall(e, "none", "loading")

LoadTask(e) ==
  /\ InCall(e, "loading", IF graceful[e] THEN "terminating" ELSE "killing")
  /\ ~cancelled[e]
  /\ UNCHANGED <<container, target, graceful, cancelled, result>>

\* SIGTERM changes nothing for a process that is being killed already.
SendSigterm(e) ==
  /\ InCall(e, "terminating", "waiting")
  /\ Signal(e, IF container[target[e]] = "killed" THEN "killed" ELSE "terminating")
  /\ UNCHANGED <<target, graceful, cancelled, result>>

SeeExit(e) ==
  /\ Return(e, "waiting", "ok")
  /\ Exited(target[e])
  /\ UNCHANGED <<container, target, graceful, cancelled>>

\* No SIGKILL follows in a cancelled context: see CallFails.
GraceExpires(e) ==
  /\ InCall(e, "waiting", "killing")
  /\ ~cancelled[e]
  /\ UNCHANGED <<container, target, graceful, cancelled, result>>

\* The call does not wait for the exit that SIGKILL brings.
SendSigkill(e) ==
  /\ Return(e, "killing", "ok")
  /\ Signal(e, "killed")
  /\ UNCHANGED <<target, graceful, cancelled>>

\* The error returns, one after each call to containerd.
CallFails(e) ==
  /\ \E at \in {"loading", "terminating", "waiting", "killing"} : Return(e, at, "error")
  /\ UNCHANGED <<container, target, graceful, cancelled>>

CallStep(e) == \/ LoadTask(e) \/ SendSigterm(e) \/ SeeExit(e) \/ GraceExpires(e)
               \/ SendSigkill(e) \/ CallFails(e)

\* external: a process ends, by itself or because of a signal
ContainerExits(c) ==
  /\ ~Exited(c)
  /\ container' = [container EXCEPT ![c] = "exited"]
  /\ UNCHANGED <<target, graceful, call, cancelled, result>>
=============================================================================

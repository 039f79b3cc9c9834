---------------------------- MODULE RuntimeClient ---------------------------
(***************************************************************************)
(* The container runtime as the extension sees it through types.Client:    *)
(* the choice of the client (extcontainer/container/container.go), what    *)
(* the calls of the three clients answer, and the liveness check.  The     *)
(* stop call of containerd has a module of its own, ContainerdClient.      *)
(*                                                                         *)
(* The runtime and its containers are external.  Every call fails while    *)
(* the runtime cannot be reached.                                          *)
(***************************************************************************)
EXTENDS Naturals, Sequences

CONSTANT Containers

VARIABLES
  runtime,    \* the runtime of the client
  connected,  \* can the runtime be reached?
  container,  \* the state of each container
  alive       \* exthealth: what the liveness probe answers

runtimeVars == <<runtime, connected, container, alive>>

\* In the order of types.AllRuntimes.
AllRuntimes == <<"docker", "containerd", "cri-o">>

Runtimes == {AllRuntimes[i] : i \in DOMAIN AllRuntimes}

ContainerState == {"running", "paused",
                   "exited",  \* the runtime still knows it
                   "gone"}

Up == {c \in Containers : container[c] \in {"running", "paused"}}

RuntimeTypeOK ==
  /\ runtime \in Runtimes
  /\ connected \in BOOLEAN
  /\ container \in [Containers -> ContainerState]
  /\ alive \in BOOLEAN

-----------------------------------------------------------------------------
\* The first runtime whose default socket exists.
AutoDetect(sockets) ==
  LET found == {i \in DOMAIN AllRuntimes : AllRuntimes[i] \in sockets}
  IN  IF found = {} THEN ""
      ELSE AllRuntimes[CHOOSE i \in found : \A j \in found : i <= j]

\* A bug: any runtime that is configured is taken.
NewClientUnchecked(configured, sockets) ==
  LET r == IF configured = "" THEN AutoDetect(sockets) ELSE configured
  IN  IF r # "" THEN r ELSE "none"

NewClient(configured, sockets) ==
  LET r == IF configured = "" THEN AutoDetect(sockets) ELSE configured
  IN  IF r \in Runtimes THEN r ELSE "none"

\* Without a supported runtime the extension does not start.
RuntimeInit ==
  /\ \E configured \in Runtimes \cup {"", "podman"}, sockets \in SUBSET Runtimes :
       runtime = NewClient(configured, sockets)
  /\ runtime # "none"
  /\ connected = TRUE
  /\ container = [c \in Containers |-> "running"]
  /\ alive = TRUE

-----------------------------------------------------------------------------
(***************************************************************************)
(* What the calls can answer.  Docker answers GetPid for a container that  *)
(* has exited, with pid 0 and no error; CRI-O takes pid 0 for an error;    *)
(* containerd answers as long as the task has not been deleted.            *)
(***************************************************************************)
InfoFound(c) == connected /\ container[c] # "gone"

PidFound(c) ==
  /\ connected
  /\ c \in Up \/ (container[c] = "exited" /\ runtime # "cri-o")

PidMissing(c) ==
  \/ ~connected
  \/ container[c] = "gone"
  \/ container[c] = "exited" /\ runtime # "docker"

\* CRI-O: not supported.
CanPause(c) == connected /\ runtime # "cri-o" /\ container[c] = "running"

CanUnpause(c) == connected /\ runtime # "cri-o" /\ container[c] = "paused"

\* Which containers List asks for, or keeps of those the runtime streams.
Listed(c) == IF runtime = "cri-o" THEN container[c] = "running" ELSE c \in Up

-----------------------------------------------------------------------------
\* external: a container ends, and is forgotten later
ContainerExits(c) ==
  /\ c \in Up
  /\ container' = [container EXCEPT ![c] = "exited"]
  /\ UNCHANGED <<runtime, connected, alive>>

ContainerRemoved(c) ==
  /\ container[c] = "exited"
  /\ container' = [container EXCEPT ![c] = "gone"]
  /\ UNCHANGED <<runtime, connected, alive>>

\* external: docker starts a container again under its id
ContainerRestarts(c) ==
  /\ runtime = "docker"
  /\ container[c] = "exited"
  /\ container' = [container EXCEPT ![c] = "running"]
  /\ UNCHANGED <<runtime, connected, alive>>

\* external: the runtime's own process ends and comes back, the containers stay
ConnectionChanges ==
  /\ connected' = ~connected
  /\ UNCHANGED <<runtime, container, alive>>

\* A bug: the probe is set by failures only.
NeverAliveAgain ==
  /\ alive /\ ~connected
  /\ alive' = FALSE
  /\ UNCHANGED <<runtime, connected, container>>

\* The goroutine of RegisterLivenessCheck, at each tick that makes a difference.
LivenessCheck ==
  /\ alive # connected
  /\ alive' = connected
  /\ UNCHANGED <<runtime, connected, container>>

World == \/ \E c \in Containers :
              ContainerExits(c) \/ ContainerRemoved(c) \/ ContainerRestarts(c)
         \/ ConnectionChanges

-----------------------------------------------------------------------------
(***************************************************************************)
(* The probe goes wrong when the runtime stays unreachable, and recovers   *)
(* with it: Kubernetes restarts the extension for the first and must not   *)
(* for the second (container.go:70-81).                                    *)
(***************************************************************************)
ProbeFollows ==
  /\ <>[]connected => <>[]alive
  /\ <>[]~connected => <>[]~alive
=============================================================================

---------------------------- MODULE SidecarAttack ---------------------------
(***************************************************************************)
(* The attacks that run a process next to their target: stress             *)
(* (extcontainer/action_stress.go), fill memory (action_fill_mem.go) and   *)
(* fill disk (action_fill_disk.go).  They share their course: Start puts a *)
(* handle of the process into a map and starts the process, Status asks    *)
(* the handle whether the process has exited and judges the exit code,     *)
(* Stop takes the handle out of the map and stops the process.  The map    *)
(* lives in the extension only, the process does not.                      *)
(*                                                                         *)
(* A Status that was sent before Stop may still be running during it.      *)
(*                                                                         *)
(* The process is external.  It ends by itself, is killed, or goes with    *)
(* the target, in whose PID namespace it runs.                             *)
(***************************************************************************)
EXTENDS Naturals

CONSTANTS
  Exec,
  MaxRestarts   \* bound: how often the extension restarts

ASSUME RestartAssumption == MaxRestarts \in Nat

VARIABLES
  kind,          \* the attack of each execution
  failOnOomKill, \* the parameter: an OOM kill is a failure
  targetAlive,   \* is the target container there?
  process,       \* the process, and how it has ended
  handles,       \* the executions with a handle in the map
  start,         \* where Start is, and how it ended
  status,        \* where Status is
  told,          \* what Status told the platform when it completed
  stop,          \* where Stop is, and what it answered
  restarts

request == <<kind, failOnOomKill>>
world == <<targetAlive, process>>
vars == <<request, world, handles, start, status, told, stop, restarts>>

Kinds == {"stress", "memory", "disk"}

\* How a process ends: with exit code 0, by a signal, together with its
\* target (by a signal, too), with exit code 137, in any other way.
Ended == {"ok", "killed", "gone", "oom", "failed"}

Process == {"none", "running"} \cup Ended

TypeOK ==
  /\ kind \in [Exec -> Kinds]
  /\ failOnOomKill \in [Exec -> BOOLEAN]
  /\ targetAlive \in [Exec -> BOOLEAN]
  /\ process \in [Exec -> Process]
  /\ handles \subseteq {e \in Exec : start[e] \in {"stored", "started", "failed"}}
  /\ start \in [Exec -> {"idle", "refused", "prepared", "stored", "started", "failed"}]
  /\ status \in [Exec -> {"none", "loaded", "asking", "completed"}]
  /\ told \in [Exec -> {"nothing", "stopped", "warning", "error"}]
  /\ stop \in [Exec -> {"none", "stopping", "ok", "error"}]
  /\ restarts \in 0..MaxRestarts

Init ==
  /\ kind \in [Exec -> Kinds]
  /\ failOnOomKill \in [Exec -> BOOLEAN]
  /\ targetAlive = [e \in Exec |-> TRUE]
  /\ process = [e \in Exec |-> "none"]
  /\ handles = {}
  /\ start = [e \in Exec |-> "idle"]
  /\ status = [e \in Exec |-> "none"]
  /\ told = [e \in Exec |-> "nothing"]
  /\ stop = [e \in Exec |-> "none"]
  /\ restarts = 0

-----------------------------------------------------------------------------
(***************************************************************************)
(* Prepare reads the target's process info and finds nothing when the      *)
(* target is gone; it refuses for other reasons as well.                   *)
(***************************************************************************)
\* A bug: Prepare makes the handle already.
PrepareStores(e) ==
  /\ start[e] = "idle"
  /\ start' = [start EXCEPT ![e] = "prepared"]
  /\ handles' = handles \cup {e}
  /\ UNCHANGED <<request, world, status, told, stop, restarts>>

Prepare(e) ==
  /\ start[e] = "idle"
  /\ \/ targetAlive[e] /\ start' = [start EXCEPT ![e] = "prepared"]
     \/ start' = [start EXCEPT ![e] = "refused"]
  /\ UNCHANGED <<request, world, handles, status, told, stop, restarts>>

\* The process cannot be set up: no handle is stored.
StartRefused(e) ==
  /\ start[e] = "prepared" /\ stop[e] = "none"
  /\ start' = [start EXCEPT ![e] = "failed"]
  /\ UNCHANGED <<request, world, handles, status, told, stop, restarts>>

StartStores(e) ==
  /\ start[e] = "prepared" /\ stop[e] = "none"
  /\ start' = [start EXCEPT ![e] = "stored"]
  /\ handles' = handles \cup {e}
  /\ UNCHANGED <<request, world, status, told, stop, restarts>>

StartRuns(e) ==
  /\ start[e] = "stored" /\ targetAlive[e]
  /\ start' = [start EXCEPT ![e] = "started"]
  /\ process' = [process EXCEPT ![e] = "running"]
  /\ UNCHANGED <<request, targetAlive, handles, status, told, stop, restarts>>

\* The handle stays in the map.
StartFails(e) ==
  /\ start[e] = "stored"
  /\ start' = [start EXCEPT ![e] = "failed"]
  /\ UNCHANGED <<request, world, handles, status, told, stop, restarts>>

-----------------------------------------------------------------------------
(***************************************************************************)
(* Status: look the handle up, ask it, ask the runtime for the target when *)
(* the process was ended by a signal.  To be polled again changes nothing. *)
(***************************************************************************)
Complete(e, report) ==
  /\ status' = [status EXCEPT ![e] = "completed"]
  /\ told' = [told EXCEPT ![e] = report]

Polled(e) == start[e] = "started" /\ status[e] = "none" /\ stop[e] \in {"none", "stopping"}

\* Fill disk goes by the error only: without a handle there is none.
StatusFindsNone(e) ==
  /\ Polled(e)
  /\ e \notin handles
  /\ kind[e] # "disk"
  /\ Complete(e, "stopped")
  /\ UNCHANGED <<request, world, handles, start, stop, restarts>>

StatusLoads(e) ==
  /\ Polled(e)
  /\ e \in handles
  /\ status' = [status EXCEPT ![e] = "loaded"]
  /\ UNCHANGED <<request, world, handles, start, told, stop, restarts>>

\* A bug: only an end without an error counts as one.
GoesOnAfterAnError(e) == process[e] # "ok"

\* A disk stays full when the process that filled it has done its work.
GoesOn(e) == process[e] = "running" \/ (process[e] = "ok" /\ kind[e] = "disk")

StatusGoesOn(e) ==
  /\ status[e] = "loaded"
  /\ GoesOn(e)
  /\ status' = [status EXCEPT ![e] = "none"]
  /\ UNCHANGED <<request, world, handles, start, told, stop, restarts>>

BySignal(e) == process[e] \in {"killed", "gone"}

\* IgnoreExitCodes
Ignored(e) == process[e] = "oom" /\ ~failOnOomKill[e]

\* A bug: an error of the handle counts as an end like any other.
IgnoresTheError(e) == "stopped"

Report(e) == IF process[e] = "ok" THEN "stopped"
             ELSE IF Ignored(e) THEN "warning" ELSE "error"

StatusJudges(e) ==
  /\ status[e] = "loaded"
  /\ ~GoesOn(e)
  /\ ~BySignal(e)
  /\ Complete(e, Report(e))
  /\ UNCHANGED <<request, world, handles, start, stop, restarts>>

StatusSeesSignal(e) ==
  /\ status[e] = "loaded"
  /\ BySignal(e)
  /\ status' = [status EXCEPT ![e] = "asking"]
  /\ UNCHANGED <<request, world, handles, start, told, stop, restarts>>

\* A bug: the runtime is asked, its answer is not looked at.
BlamesTheAttack(e) ==
  /\ status[e] = "asking"
  /\ Complete(e, "error")
  /\ UNCHANGED <<request, world, handles, start, stop, restarts>>

\* The question can fail although the target is there.
StatusAsks(e) ==
  /\ status[e] = "asking"
  /\ \/ targetAlive[e] /\ Complete(e, "error")
     \/ Complete(e, "warning")
  /\ UNCHANGED <<request, world, handles, start, stop, restarts>>

-----------------------------------------------------------------------------
(***************************************************************************)
(* Stop takes the handle out in one step.  Fill disk answers with an error *)
(* when there is none, and when the process cannot be stopped; fill memory *)
(* drops that error; stopping a stress process reports none.               *)
(***************************************************************************)
StopFindsNone(e) ==
  /\ start[e] \in {"prepared", "started", "failed"} /\ stop[e] = "none"
  /\ e \notin handles
  /\ stop' = [stop EXCEPT ![e] = IF kind[e] = "disk" THEN "error" ELSE "ok"]
  /\ UNCHANGED <<request, world, handles, start, status, told, restarts>>

StopTakes(e) ==
  /\ start[e] \in {"prepared", "started", "failed"} /\ stop[e] = "none"
  /\ e \in handles
  /\ handles' = handles \ {e}
  /\ stop' = [stop EXCEPT ![e] = "stopping"]
  /\ UNCHANGED <<request, world, start, status, told, restarts>>

StopEnds(e) ==
  /\ stop[e] = "stopping"
  /\ process' = [process EXCEPT ![e] = IF @ = "running" THEN "killed" ELSE @]
  /\ stop' = [stop EXCEPT ![e] = "ok"]
  /\ UNCHANGED <<request, targetAlive, handles, start, status, told, restarts>>

\* A bug: fill disk drops the error, too.
StopDropsTheError(e) ==
  /\ stop[e] = "stopping"
  /\ kind[e] # "stress"
  /\ stop' = [stop EXCEPT ![e] = "ok"]
  /\ UNCHANGED <<request, world, handles, start, status, told, restarts>>

StopFails(e) ==
  /\ stop[e] = "stopping"
  /\ kind[e] # "stress"
  /\ stop' = [stop EXCEPT ![e] = IF kind[e] = "disk" THEN "error" ELSE "ok"]
  /\ UNCHANGED <<request, world, handles, start, status, told, restarts>>

-----------------------------------------------------------------------------
\* external: the process ends while its target is there
ProcessEnds(e) ==
  /\ process[e] = "running"
  /\ \E how \in Ended \ {"gone"} : process' = [process EXCEPT ![e] = how]
  /\ UNCHANGED <<request, targetAlive, handles, start, status, told, stop, restarts>>

\* external: the target ends, and the process in its PID namespace with it
TargetEnds(e) ==
  /\ targetAlive[e]
  /\ targetAlive' = [targetAlive EXCEPT ![e] = FALSE]
  /\ process' = [process EXCEPT ![e] = IF @ = "running" THEN "gone" ELSE @]
  /\ UNCHANGED <<request, handles, start, status, told, stop, restarts>>

(***************************************************************************)
(* The extension restarts.  The handles and the requests in progress are   *)
(* gone; a process may survive or not.  The platform takes an interrupted  *)
(* Start as failed and sends an interrupted Status or Stop again.          *)
(***************************************************************************)
Restart ==
  /\ restarts < MaxRestarts
  /\ restarts' = restarts + 1
  /\ handles' = {}
  /\ \E E \in SUBSET {e \in Exec : process[e] = "running"} :
       process' = [e \in Exec |-> IF e \in E THEN "killed" ELSE process[e]]
  /\ start' = [e \in Exec |-> IF start[e] = "stored" THEN "failed" ELSE start[e]]
  /\ status' = [e \in Exec |-> IF status[e] = "completed" THEN "completed" ELSE "none"]
  /\ stop' = [e \in Exec |-> IF stop[e] = "stopping" THEN "none" ELSE stop[e]]
  /\ UNCHANGED <<request, targetAlive, told>>

Start(e) == StartRefused(e) \/ StartStores(e) \/ StartRuns(e) \/ StartFails(e)

Status(e) == \/ StatusFindsNone(e) \/ StatusLoads(e) \/ StatusGoesOn(e)
             \/ StatusJudges(e) \/ StatusSeesSignal(e) \/ StatusAsks(e)

Stop(e) == StopFindsNone(e) \/ StopTakes(e) \/ StopEnds(e) \/ StopFails(e)

World(e) == ProcessEnds(e) \/ TargetEnds(e)

Over(e) == start[e] \in {"idle", "refused"} \/ stop[e] \in {"ok", "error"}

Terminating == (\A e \in Exec : Over(e)) /\ UNCHANGED vars

Next == \/ \E e \in Exec : Prepare(e) \/ Start(e) \/ Status(e) \/ Stop(e) \/ World(e)
        \/ Restart
        \/ Terminating

(***************************************************************************)
(* The platform polls Status until it has completed.  It need not call     *)
(* Stop at all.                                                            *)
(***************************************************************************)
Fairness == \A e \in Exec : WF_vars(Status(e))

Spec == Init /\ [][Next]_vars

FairSpec == Spec /\ Fairness

-----------------------------------------------------------------------------
(***************************************************************************)
(* A Status that says "stopped" before any Stop speaks of a process that   *)
(* has ended well, unless a restart has lost the handle: no error is taken *)
(* for a regular end (action_stress.go:136-146).                           *)
(***************************************************************************)
StoppedEndedWell ==
  \A e \in Exec : told[e] = "stopped" /\ stop[e] = "none" /\ restarts = 0 =>
    process[e] = "ok"

(***************************************************************************)
(* A process that goes with its target is no error of the attack, however  *)
(* Status, Stop and the end of the target interleave                       *)
(* (action_stress.go:156: "ok if the target process is also gone").        *)
(***************************************************************************)
TargetGoneIsNoError ==
  \A e \in Exec : told[e] = "error" => process[e] \in {"killed", "oom", "failed"}

(***************************************************************************)
(* A Stop that answers well leaves no process behind, unless a restart has *)
(* lost the handle.  Fill memory is left out: it drops the error of its    *)
(* process (action_fill_mem.go:311-312).                                   *)
(***************************************************************************)
StopLeavesNone ==
  \A e \in Exec : stop[e] = "ok" /\ kind[e] # "memory" /\ restarts = 0 =>
    process[e] # "running"

(***************************************************************************)
(* A failure of the process reaches the platform, as an error that no      *)
(* later Status takes back, unless Stop comes first or a restart loses the *)
(* handle.                                                                 *)
(***************************************************************************)
FailureTold ==
  \A e \in Exec :
    (process[e] = "failed") ~>
      ([](told[e] = "error") \/ stop[e] # "none" \/ restarts > 0)
=============================================================================

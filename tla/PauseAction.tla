----------------------------- MODULE PauseAction ----------------------------
(***************************************************************************)
(* extcontainer/action_pause.go.  The action keeps nothing in the          *)
(* extension: Stop resumes the container whoever has paused it, and also   *)
(* when its own Start has failed.  So a restart of the extension loses     *)
(* nothing but the answer of the call in progress.                         *)
(*                                                                         *)
(* Start and Stop are one call each to the runtime that changes the        *)
(* container.  Stop and Status ask for the pid first and take any error    *)
(* for the end of the container.                                           *)
(***************************************************************************)
EXTENDS RuntimeClient

CONSTANTS
  Exec,
  MaxRepeats   \* bound: how often a Stop is delivered again, per execution

ASSUME PauseAssumption == MaxRepeats \in Nat

VARIABLES
  target,   \* the container of each execution
  start,    \* where Prepare and Start are, and how they ended
  stop,     \* where Stop is, and what it answered
  status,   \* what Status answered last
  repeats   \* how often Stop has been delivered again

pauseVars == <<target, start, stop, status, repeats>>

vars == <<runtimeVars, pauseVars>>

TypeOK ==
  /\ RuntimeTypeOK
  /\ target \in [Exec -> Containers]
  /\ start \in [Exec -> {"idle", "refused", "prepared", "started", "failed"}]
  /\ stop \in [Exec -> {"none", "unpausing", "unpaused", "notRunning", "error"}]
  /\ status \in [Exec -> {"none", "notRunning"}]
  /\ repeats \in [Exec -> 0..MaxRepeats]

PauseInit ==
  /\ target \in [Exec -> Containers]
  /\ start = [e \in Exec |-> "idle"]
  /\ stop = [e \in Exec |-> "none"]
  /\ status = [e \in Exec |-> "none"]
  /\ repeats = [e \in Exec |-> 0]

-----------------------------------------------------------------------------
\* Prepare refuses also for a disallowed namespace: see TargetFilter.
Prepare(e) ==
  /\ start[e] = "idle"
  /\ \/ InfoFound(target[e]) /\ start' = [start EXCEPT ![e] = "prepared"]
     \/ start' = [start EXCEPT ![e] = "refused"]
  /\ UNCHANGED <<runtimeVars, target, stop, status, repeats>>

Starting(e) == start[e] = "prepared" /\ stop[e] = "none"

(***************************************************************************)
(* The context of the request may end, or the extension restart, before    *)
(* the runtime has answered: then Start has failed and the container is    *)
(* paused all the same.                                                    *)
(***************************************************************************)
StartPauses(e) ==
  /\ Starting(e)
  /\ CanPause(target[e])
  /\ container' = [container EXCEPT ![target[e]] = "paused"]
  /\ \E answer \in {"started", "failed"} : start' = [start EXCEPT ![e] = answer]
  /\ UNCHANGED <<runtime, connected, alive, target, stop, status, repeats>>

\* A bug: a Start that has failed cleans up after itself.
StartRollsBack(e) ==
  /\ Starting(e)
  /\ start' = [start EXCEPT ![e] = "failed"]
  /\ container' = [container EXCEPT ![target[e]] = IF CanUnpause(target[e]) THEN "running" ELSE @]
  /\ UNCHANGED <<runtime, connected, alive, target, stop, status, repeats>>

StartFails(e) ==
  /\ Starting(e)
  /\ start' = [start EXCEPT ![e] = "failed"]
  /\ UNCHANGED <<runtimeVars, target, stop, status, repeats>>

\* Polled until it answers with Completed, also while Stop is in progress.
Status(e) ==
  /\ start[e] = "started" /\ status[e] = "none" /\ stop[e] \in {"none", "unpausing"}
  /\ PidMissing(target[e])
  /\ status' = [status EXCEPT ![e] = "notRunning"]
  /\ UNCHANGED <<runtimeVars, target, start, stop, repeats>>

-----------------------------------------------------------------------------
Stoppable(e) == start[e] \in {"prepared", "started", "failed"} /\ stop[e] = "none"

\* A bug: Stop has nothing to do when Start did not answer well.
StopSkipsFailedStart(e) ==
  /\ Stoppable(e)
  /\ PidFound(target[e])
  /\ stop' = [stop EXCEPT ![e] = IF start[e] = "started" THEN "unpausing" ELSE "unpaused"]
  /\ UNCHANGED <<runtimeVars, target, start, status, repeats>>

StopFindsPid(e) ==
  /\ Stoppable(e)
  /\ PidFound(target[e])
  /\ stop' = [stop EXCEPT ![e] = "unpausing"]
  /\ UNCHANGED <<runtimeVars, target, start, status, repeats>>

\* The answer is a warning, not an error.
StopFindsNoPid(e) ==
  /\ Stoppable(e)
  /\ PidMissing(target[e])
  /\ stop' = [stop EXCEPT ![e] = "notRunning"]
  /\ UNCHANGED <<runtimeVars, target, start, status, repeats>>

StopUnpauses(e) ==
  /\ stop[e] = "unpausing"
  /\ CanUnpause(target[e])
  /\ container' = [container EXCEPT ![target[e]] = "running"]
  /\ stop' = [stop EXCEPT ![e] = "unpaused"]
  /\ UNCHANGED <<runtime, connected, alive, target, start, status, repeats>>

\* A bug: Stop waits for a runtime that is away.
StopWaitsForTheRuntime(e) ==
  /\ stop[e] = "unpausing"
  /\ ~CanUnpause(target[e]) /\ connected
  /\ stop' = [stop EXCEPT ![e] = "error"]
  /\ UNCHANGED <<runtimeVars, target, start, status, repeats>>

\* The container is not paused, or cannot be paused, or the runtime is away.
StopFails(e) ==
  /\ stop[e] = "unpausing"
  /\ ~CanUnpause(target[e])
  /\ stop' = [stop EXCEPT ![e] = "error"]
  /\ UNCHANGED <<runtimeVars, target, start, status, repeats>>

\* The platform sends Stop again: the answer was an error, or was lost.
StopAgain(e) ==
  /\ stop[e] # "none"
  /\ repeats[e] < MaxRepeats
  /\ repeats' = [repeats EXCEPT ![e] = @ + 1]
  /\ stop' = [stop EXCEPT ![e] = "none"]
  /\ UNCHANGED <<runtimeVars, target, start, status>>

Stop(e) == StopFindsPid(e) \/ StopFindsNoPid(e) \/ StopUnpauses(e) \/ StopFails(e)

PauseStep(e) == \/ Prepare(e) \/ StartPauses(e) \/ StartFails(e)
                \/ Status(e) \/ Stop(e) \/ StopAgain(e)

Init == RuntimeInit /\ PauseInit

Next == \/ \E e \in Exec : PauseStep(e)
        \/ (World \/ LivenessCheck) /\ UNCHANGED pauseVars

Spec == Init /\ [][Next]_vars

(***************************************************************************)
(* The ticker of the liveness check runs for the life of the extension.    *)
(* PauseEnds also assumes that the platform stops what it has prepared.    *)
(***************************************************************************)
FairSpec == Spec /\ WF_vars(LivenessCheck /\ UNCHANGED pauseVars)

StopFairness == \A e \in Exec : WF_vars(Stop(e))

-----------------------------------------------------------------------------
(***************************************************************************)
(* No container is left paused in silence: while one is paused there is an *)
(* execution on it whose Stop is still to come or in progress, or has      *)
(* warned of it or failed.  It takes no memory of who has paused it, so    *)
(* lost answers, restarts and the Stops of other executions change nothing *)
(* (action_pause.go:118-145).                                              *)
(***************************************************************************)
NoSilentPause ==
  \A c \in Containers : container[c] = "paused" =>
    \E e \in Exec : /\ target[e] = c
                    /\ start[e] \in {"started", "failed"}
                    /\ stop[e] # "unpaused"

(***************************************************************************)
(* A paused container runs again or ends, or a Stop on it has told the     *)
(* platform that it did not resume it: whatever the runtime does, Stop     *)
(* answers (action_pause.go:119-135).  After any error of GetPid it tells  *)
(* so with the words "is not running anymore" (126), be they true or not.  *)
(***************************************************************************)
PauseEnds ==
  StopFairness =>
    \A c \in Containers : container[c] = "paused" ~>
      \/ container[c] # "paused"
      \/ \E e \in Exec : target[e] = c /\ stop[e] \in {"notRunning", "error"}

(***************************************************************************)
(* The container of a started execution stays paused until it ends, or     *)
(* until a Stop on that container: of another execution, too, and also of  *)
(* one whose Start failed because it found the container paused            *)
(* (action_pause.go:85-98, 132).                                           *)
(***************************************************************************)
PauseLasts ==
  [][\A e \in Exec :
       LET c == target[e]
       IN  start[e] = "started" /\ stop[e] = "none" /\ container[c] = "paused" =>
             \/ container'[c] \in {"paused", "exited"}
             \/ \E o \in Exec \ {e} : /\ target[o] = c
                                      /\ stop[o] = "unpausing" /\ stop'[o] = "unpaused"]_vars
=============================================================================

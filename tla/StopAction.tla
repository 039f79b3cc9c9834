----------------------------- MODULE StopAction -----------------------------
(***************************************************************************)
(* The stop-container action of extcontainer/action_stop.go.  Start hands  *)
(* the call of client.Stop to a goroutine, waits a second for its answer   *)
(* and returns.  The goroutine sends the answer on an unbuffered channel,  *)
(* then closes it.  Status looks for the answer without waiting, Stop      *)
(* cancels the call and waits for the answer.  Both find the channel in    *)
(* the completers map, which lives in the process only.                    *)
(*                                                                         *)
(* Status and Stop may overlap: the platform sends Stop also while a       *)
(* Status has not been answered.                                           *)
(***************************************************************************)
EXTENDS ContainerdClient

CONSTANT MaxRestarts   \* bound: how often the extension restarts

ASSUME RestartAssumption == MaxRestarts \in Nat

VARIABLES
  completers, \* the executions with a completer in the map
  goroutine,  \* the goroutine of each execution
  start,      \* where Start is, and how it ended
  status,     \* where Status is
  stop,       \* where Stop is
  said,       \* what Status or Stop told the platform last
  restarts

actionVars == <<completers, goroutine, start, status, stop, said, restarts>>
vars == <<clientVars, actionVars>>

TypeOK ==
  /\ ClientTypeOK
  /\ completers \subseteq {e \in Exec : start[e] \notin {"idle", "prepared"}}
  /\ goroutine \in [Exec -> {"none", "working", "closing", "ended"}]
  /\ start \in [Exec -> {"idle", "prepared", "waiting", "started", "failed"}]
  /\ status \in [Exec -> {"none", "loaded", "completed"}]
  /\ stop \in [Exec -> {"none", "receiving", "done"}]
  /\ said \in [Exec -> {"nothing", "stopped", "failed", "canceled"}]
  /\ restarts \in 0..MaxRestarts

Init ==
  /\ ClientInit
  /\ completers = {}
  /\ goroutine = [e \in Exec |-> "none"]
  /\ start = [e \in Exec |-> "idle"]
  /\ status = [e \in Exec |-> "none"]
  /\ stop = [e \in Exec |-> "none"]
  /\ said = [e \in Exec |-> "nothing"]
  /\ restarts = 0

-----------------------------------------------------------------------------
(***************************************************************************)
(* The channel.  It is unbuffered: the goroutine is blocked in its send    *)
(* until somebody receives.  A receive from the closed channel answers at  *)
(* once, with no error.                                                    *)
(***************************************************************************)
Sending(e) == goroutine[e] = "working" /\ call[e] = "returned"

Closed(e) == goroutine[e] = "ended"

Ready(e) == Sending(e) \/ Closed(e)

\* One receive, and the error it yields.
Receive(e) ==
  \/ Sending(e) /\ goroutine' = [goroutine EXCEPT ![e] = "closing"]
  \/ Closed(e) /\ UNCHANGED goroutine

Received(e) == IF Sending(e) THEN result[e] ELSE "ok"

\* A bug: the goroutine ends without closing the channel.
NeverCloses(e) ==
  /\ goroutine[e] = "closing"
  /\ UNCHANGED vars

CloseChannel(e) ==
  /\ goroutine[e] = "closing"
  /\ goroutine' = [goroutine EXCEPT ![e] = "ended"]
  /\ UNCHANGED <<clientVars, completers, start, status, stop, said, restarts>>

-----------------------------------------------------------------------------
\* A bug: Prepare puts the completer into the map already.
PrepareStores(e) ==
  /\ start[e] = "idle"
  /\ stop[e] = "none"
  /\ start' = [start EXCEPT ![e] = "prepared"]
  /\ completers' = completers \cup {e}
  /\ UNCHANGED <<clientVars, goroutine, status, stop, said, restarts>>

Prepare(e) ==
  /\ start[e] = "idle"
  /\ stop[e] = "none"
  /\ start' = [start EXCEPT ![e] = "prepared"]
  /\ UNCHANGED <<clientVars, completers, goroutine, status, stop, said, restarts>>

\* stopContainer, up to its select.
StartSpawns(e) ==
  /\ start[e] = "prepared"
  /\ stop[e] = "none"
  /\ start' = [start EXCEPT ![e] = "waiting"]
  /\ completers' = completers \cup {e}
  /\ goroutine' = [goroutine EXCEPT ![e] = "working"]
  /\ BeginCall(e)
  /\ UNCHANGED <<container, target, graceful, cancelled, result, status, stop, said,
                 restarts>>

\* A bug: the error that arrives within the second is dropped.
DropsTheError(e) ==
  /\ start[e] = "waiting"
  /\ Ready(e)
  /\ Receive(e)
  /\ start' = [start EXCEPT ![e] = "started"]
  /\ UNCHANGED <<clientVars, completers, status, stop, said, restarts>>

StartReceives(e) ==
  /\ start[e] = "waiting"
  /\ Ready(e)
  /\ Receive(e)
  /\ start' = [start EXCEPT ![e] = IF Received(e) = "ok" THEN "started" ELSE "failed"]
  /\ UNCHANGED <<clientVars, completers, status, stop, said, restarts>>

StartTimesOut(e) ==
  /\ start[e] = "waiting"
  /\ start' = [start EXCEPT ![e] = "started"]
  /\ UNCHANGED <<clientVars, completers, goroutine, status, stop, said, restarts>>

-----------------------------------------------------------------------------
(***************************************************************************)
(* Status, polled while the action runs: look the completer up, then look  *)
(* at its channel.                                                         *)
(***************************************************************************)
StatusFindsNone(e) ==
  /\ start[e] = "started" /\ stop[e] = "none" /\ status[e] = "none"
  /\ e \notin completers
  /\ status' = [status EXCEPT ![e] = "completed"]
  /\ said' = [said EXCEPT ![e] = "stopped"]
  /\ UNCHANGED <<clientVars, completers, goroutine, start, stop, restarts>>

StatusLoads(e) ==
  /\ start[e] = "started" /\ stop[e] = "none" /\ status[e] = "none"
  /\ e \in completers
  /\ status' = [status EXCEPT ![e] = "loaded"]
  /\ UNCHANGED <<clientVars, completers, goroutine, start, stop, said, restarts>>

StatusReceives(e) ==
  /\ status[e] = "loaded"
  /\ Ready(e)
  /\ Receive(e)
  /\ completers' = completers \ {e}
  /\ status' = [status EXCEPT ![e] = "completed"]
  /\ said' = [said EXCEPT ![e] = IF Received(e) = "ok" THEN "stopped" ELSE "failed"]
  /\ UNCHANGED <<clientVars, start, stop, restarts>>

StatusNotCompleted(e) ==
  /\ status[e] = "loaded"
  /\ ~Ready(e)
  /\ status' = [status EXCEPT ![e] = "none"]
  /\ UNCHANGED <<clientVars, completers, goroutine, start, stop, said, restarts>>

-----------------------------------------------------------------------------
(***************************************************************************)
(* Stop, which the platform calls for everything it has prepared.          *)
(***************************************************************************)
StopFindsNone(e) ==
  /\ start[e] \in {"prepared", "started", "failed"} /\ stop[e] = "none"
  /\ e \notin completers
  /\ stop' = [stop EXCEPT ![e] = "done"]
  /\ UNCHANGED <<clientVars, completers, goroutine, start, status, said, restarts>>

\* A bug: Stop cancels, but does not wait for the goroutine.
StopDoesNotWait(e) ==
  /\ start[e] \in {"prepared", "started", "failed"} /\ stop[e] = "none"
  /\ e \in completers
  /\ cancelled' = [cancelled EXCEPT ![e] = TRUE]
  /\ stop' = [stop EXCEPT ![e] = "done"]
  /\ said' = [said EXCEPT ![e] = "canceled"]
  /\ UNCHANGED <<container, target, graceful, call, result, completers, goroutine,
                 start, status, restarts>>

StopCancels(e) ==
  /\ start[e] \in {"prepared", "started", "failed"} /\ stop[e] = "none"
  /\ e \in completers
  /\ cancelled' = [cancelled EXCEPT ![e] = TRUE]
  /\ stop' = [stop EXCEPT ![e] = "receiving"]
  /\ UNCHANGED <<container, target, graceful, call, result, completers, goroutine,
                 start, status, said, restarts>>

StopReceives(e) ==
  /\ stop[e] = "receiving"
  /\ Ready(e)
  /\ Receive(e)
  /\ stop' = [stop EXCEPT ![e] = "done"]
  /\ said' = [said EXCEPT ![e] = "canceled"]
  /\ UNCHANGED <<clientVars, completers, start, status, restarts>>

-----------------------------------------------------------------------------
(***************************************************************************)
(* The extension restarts: the map, the goroutines and the requests in     *)
(* progress are gone.  The platform takes an interrupted Start as failed   *)
(* and sends an interrupted Status or Stop again.                          *)
(***************************************************************************)
Restart ==
  /\ restarts < MaxRestarts
  /\ restarts' = restarts + 1
  /\ completers' = {}
  /\ goroutine' = [e \in Exec |-> "none"]
  /\ call' = [e \in Exec |-> IF call[e] = "none" THEN "none" ELSE "returned"]
  /\ start' = [e \in Exec |-> IF start[e] = "waiting" THEN "failed" ELSE start[e]]
  /\ status' = [e \in Exec |-> IF status[e] = "loaded" THEN "none" ELSE status[e]]
  /\ stop' = [e \in Exec |-> IF stop[e] = "receiving" THEN "none" ELSE stop[e]]
  /\ UNCHANGED <<container, target, graceful, cancelled, result, said>>

Start(e) == StartReceives(e) \/ StartTimesOut(e)

Status(e) == StatusFindsNone(e) \/ StatusLoads(e) \/ StatusReceives(e)
             \/ StatusNotCompleted(e)

Stop(e) == StopFindsNone(e) \/ StopCancels(e) \/ StopReceives(e)

Goroutine(e) == CloseChannel(e) \/ (CallStep(e) /\ UNCHANGED actionVars)

Terminating ==
  /\ \A e \in Exec : start[e] = "idle" \/ (stop[e] = "done" /\ status[e] # "loaded")
  /\ UNCHANGED vars

Next == \/ \E e \in Exec : \/ Prepare(e) \/ StartSpawns(e) \/ Start(e)
                           \/ Status(e) \/ Stop(e) \/ Goroutine(e)
        \/ \E c \in Containers : ContainerExits(c) /\ UNCHANGED actionVars
        \/ Restart
        \/ Terminating

(***************************************************************************)
(* Handlers and goroutines run on, and the platform sends Stop.  Nothing   *)
(* makes a container end.                                                  *)
(***************************************************************************)
Fairness == \A e \in Exec : /\ WF_vars(Goroutine(e))
                            /\ WF_vars(Start(e))
                            /\ WF_vars(Stop(e))

Spec == Init /\ [][Next]_vars

FairSpec == Spec /\ Fairness

-----------------------------------------------------------------------------
(***************************************************************************)
(* A Status that says "Container ... stopped" (action_stop.go:127) has     *)
(* something to show for it, as long as no Stop has been called and the    *)
(* extension has not restarted: the container has ended or SIGKILL is on   *)
(* its way to it.  An error is reported, by Start or by Status, and never  *)
(* turns into a success on the way through the channel.                    *)
(***************************************************************************)
StoppedIsStopped ==
  \A e \in Exec : said[e] = "stopped" /\ ~cancelled[e] /\ restarts = 0 =>
    container[target[e]] \in {"killed", "exited"}

(***************************************************************************)
(* Once Stop has answered, this execution signals its container no more:   *)
(* cancelStopContainer waits for the goroutine (action_stop.go:201-202).   *)
(***************************************************************************)
NoSignalAfterStop ==
  [][\A e \in Exec : stop[e] = "done" => ~(SendSigterm(e) \/ SendSigkill(e))]_vars

(***************************************************************************)
(* Stop never hangs on the channel, whoever took the answer before it: the *)
(* goroutine closes the channel after its only send.                       *)
(***************************************************************************)
StopAnswers == \A e \in Exec : (stop[e] = "receiving") ~> (stop[e] # "receiving")

(***************************************************************************)
(* No goroutine stays blocked in its send: Start, Status or at the latest  *)
(* Stop takes the answer.                                                  *)
(***************************************************************************)
GoroutinesEnd == \A e \in Exec : (goroutine[e] = "working") ~> (goroutine[e] # "working")

-----------------------------------------------------------------------------
(***************************************************************************)
(* What the messages say and the code does not keep.                       *)
(***************************************************************************)

(***************************************************************************)
(* "Container ... stopped" (action_stop.go:127), restarts included.        *)
(***************************************************************************)
StoppedDespiteRestart ==
  \A e \in Exec : said[e] = "stopped" /\ ~cancelled[e] =>
    container[target[e]] \in {"killed", "exited"}
=============================================================================

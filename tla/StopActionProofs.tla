-------------------------- MODULE StopActionProofs --------------------------
(***************************************************************************)
(* Proofs about StopAction, for any number of executions, containers and   *)
(* restarts.                                                               *)
(***************************************************************************)
EXTENDS StopAction, TLAPS

\* client.Stop is at work and may still signal the container.
Busy(e) == call[e] \notin {"none", "returned"}

(***************************************************************************)
(* While client.Stop is at work its goroutine waits for it, the completer  *)
(* is in the map and Stop has not answered.                                *)
(***************************************************************************)
BusyInv ==
  \A e \in Exec : /\ Busy(e) => e \in completers /\ goroutine[e] = "working"
                  /\ stop[e] = "done" => ~Busy(e)
                  /\ start[e] \in {"idle", "prepared"} => call[e] = "none"

IInv == TypeOK /\ BusyInv

\* Nothing is called and nothing is running at first.
LEMMA InitIInv == Init => IInv
BY RestartAssumption DEF Init, IInv, TypeOK, BusyInv, Busy, ClientInit, ClientTypeOK, ContainerState,
       CallPC

\* Every step keeps IInv.
LEMMA StepIInv ==
  ASSUME IInv, [Next]_vars
  PROVE  IInv'
<1> USE DEF IInv, TypeOK, BusyInv, Busy, ClientTypeOK, CallPC, clientVars
<1>1. ASSUME NEW e \in Exec, Prepare(e)
      PROVE  IInv'
  BY <1>1 DEF Prepare
<1>2. ASSUME NEW e \in Exec, StartSpawns(e)
      PROVE  IInv'
  BY <1>2 DEF StartSpawns, BeginCall, InCall
<1>3. ASSUME NEW e \in Exec, StartReceives(e)
      PROVE  IInv'
  BY <1>3 DEF StartReceives, Ready, Receive, Sending, Closed, Received
<1>4. ASSUME NEW e \in Exec, StartTimesOut(e)
      PROVE  IInv'
  BY <1>4 DEF StartTimesOut
<1>5. ASSUME NEW e \in Exec, StatusFindsNone(e) \/ StatusLoads(e) \/ StatusNotCompleted(e)
      PROVE  IInv'
  BY <1>5 DEF StatusFindsNone, StatusLoads, StatusNotCompleted
<1>6. ASSUME NEW e \in Exec, StatusReceives(e)
      PROVE  IInv'
  BY <1>6 DEF StatusReceives, Ready, Receive, Sending, Closed, Received
<1>7. ASSUME NEW e \in Exec, StopFindsNone(e) \/ StopCancels(e)
      PROVE  IInv'
  <2>1. CASE StopFindsNone(e)
    BY <2>1 DEF StopFindsNone
  <2>2. CASE StopCancels(e)
    BY <2>2 DEF StopCancels
  <2> QED BY <1>7, <2>1, <2>2
<1>8. ASSUME NEW e \in Exec, StopReceives(e)
      PROVE  IInv'
  BY <1>8 DEF StopReceives, Ready, Receive, Sending, Closed
<1>9. ASSUME NEW e \in Exec, CloseChannel(e)
      PROVE  IInv'
  BY <1>9 DEF CloseChannel
<1>10. ASSUME NEW e \in Exec, CallStep(e), UNCHANGED actionVars
       PROVE  IInv'
  BY <1>10 DEF CallStep, LoadTask, SendSigterm, SeeExit, GraceExpires, SendSigkill,
               CallFails, InCall, Return, Signal, ContainerState, actionVars
<1>11. ASSUME NEW c \in Containers, ContainerExits(c), UNCHANGED actionVars
       PROVE  IInv'
  BY <1>11 DEF ContainerExits, ContainerState, actionVars
<1>12. CASE Restart
  BY <1>12, RestartAssumption DEF Restart
<1>13. CASE UNCHANGED vars
  BY <1>13 DEF vars, actionVars
<1> QED BY <1>1, <1>2, <1>3, <1>4, <1>5, <1>6, <1>7, <1>8, <1>9, <1>10, <1>11,
           <1>12, <1>13
        DEF Next, Start, Status, Stop, Goroutine, Terminating

\* IInv holds throughout: the inductive invariant the theorems below rest on.
THEOREM IInvCorrect == Spec => []IInv
<1>1. Init => IInv
  BY InitIInv
<1>2. IInv /\ [Next]_vars => IInv'
  BY StepIInv
<1> QED BY <1>1, <1>2, PTL DEF Spec

\* Every variable keeps its type, and a completer is there only after Start.
THEOREM TypeCorrect == Spec => []TypeOK
<1>1. IInv => TypeOK
  BY DEF IInv
<1> QED BY <1>1, IInvCorrect, PTL

(***************************************************************************)
(* Once Stop has answered, the container gets no signal from this          *)
(* execution any more, restarts or not.                                    *)
(***************************************************************************)
THEOREM NoSignalAfterStopCorrect == Spec => NoSignalAfterStop
<1>1. IInv /\ [Next]_vars =>
        [\A e \in Exec : stop[e] = "done" => ~(SendSigterm(e) \/ SendSigkill(e))]_vars
  BY DEF IInv, BusyInv, Busy, SendSigterm, SendSigkill, InCall, Return
<1> QED BY <1>1, IInvCorrect, PTL DEF Spec, NoSignalAfterStop

-----------------------------------------------------------------------------
(***************************************************************************)
(* The answer on its way.  While the extension has not restarted, a        *)
(* started action has its completer until a Status has completed, and an   *)
(* answer that was taken while the completer is still there was a success. *)
(***************************************************************************)
Doomed(e) == container[target[e]] \in {"killed", "exited"}

AnswerInv ==
  \A e \in Exec :
    /\ result[e] = "ok" => Doomed(e)
    /\ restarts = 0 =>
         /\ start[e] = "waiting" => goroutine[e] = "working" /\ e \in completers
         /\ stop[e] = "receiving" => cancelled[e] /\ start[e] # "waiting"
         /\ start[e] = "started" => e \in completers \/ status[e] = "completed"
         /\ status[e] = "loaded" => e \in completers /\ start[e] = "started"
         /\ /\ goroutine[e] \in {"closing", "ended"} /\ start[e] = "started"
            /\ e \in completers /\ ~cancelled[e]
            => result[e] = "ok"
         /\ said[e] = "stopped" /\ ~cancelled[e] => Doomed(e)

\* No answer has been given at first.
LEMMA InitAnswer == Init => AnswerInv
BY DEF Init, ClientInit, AnswerInv

\* Steps that leave the call and the container alone.
LEMMA AnswerHandlers ==
  ASSUME IInv, AnswerInv, NEW e \in Exec,
         \/ Prepare(e) \/ StartSpawns(e) \/ Start(e) \/ Status(e) \/ Stop(e)
         \/ CloseChannel(e)
  PROVE  AnswerInv'
<1> USE DEF IInv, TypeOK, ClientTypeOK, BusyInv, Busy, AnswerInv, Doomed, clientVars
<1>1. CASE Prepare(e)
  BY <1>1 DEF Prepare
<1>2. CASE StartSpawns(e)
  BY <1>2 DEF StartSpawns, BeginCall, InCall
<1>3. CASE StartReceives(e)
  BY <1>3 DEF StartReceives, Ready, Receive, Sending, Closed, Received
<1>4. CASE StartTimesOut(e)
  BY <1>4 DEF StartTimesOut
<1>5. CASE StatusFindsNone(e)
  BY <1>5 DEF StatusFindsNone
<1>6. CASE StatusLoads(e)
  BY <1>6 DEF StatusLoads
<1>7. CASE StatusReceives(e)
  BY <1>7 DEF StatusReceives, Ready, Receive, Sending, Closed, Received
<1>8. CASE StatusNotCompleted(e)
  BY <1>8 DEF StatusNotCompleted
<1>9. CASE StopFindsNone(e)
  BY <1>9 DEF StopFindsNone
<1>10. CASE StopCancels(e)
  BY <1>10 DEF StopCancels
<1>11. CASE StopReceives(e)
  BY <1>11 DEF StopReceives, Ready, Receive, Sending, Closed
<1>12. CASE CloseChannel(e)
  BY <1>12 DEF CloseChannel
<1> QED BY <1>1, <1>2, <1>3, <1>4, <1>5, <1>6, <1>7, <1>8, <1>9, <1>10, <1>11,
           <1>12 DEF Start, Status, Stop

\* Steps of client.Stop: what is doomed stays so, and success means doomed.
LEMMA AnswerCall ==
  ASSUME IInv, AnswerInv, NEW e \in Exec, CallStep(e), UNCHANGED actionVars
  PROVE  AnswerInv'
<1>1. /\ UNCHANGED <<completers, goroutine, start, status, stop, said, restarts,
                     target, cancelled>>
      /\ \A f \in Exec : f # e => result'[f] = result[f]
      /\ Busy(e)
  BY DEF CallStep, LoadTask, SendSigterm, SeeExit, GraceExpires, SendSigkill, CallFails,
         InCall, Return, Busy, actionVars, IInv, TypeOK, ClientTypeOK
<1>2. \A f \in Exec : Doomed(f) => Doomed(f)'
  BY DEF CallStep, LoadTask, SendSigterm, SeeExit, GraceExpires, SendSigkill, CallFails,
         Signal, Exited, Doomed, IInv, TypeOK, ClientTypeOK
<1>3. result'[e] = "ok" => result[e] = "ok" \/ Doomed(e)'
  BY DEF CallStep, LoadTask, SendSigterm, SeeExit, GraceExpires, SendSigkill, CallFails,
         Return, Signal, Exited, Doomed, IInv, TypeOK, ClientTypeOK
<1>4. goroutine[e] = "working"
  BY <1>1 DEF IInv, BusyInv
<1> QED BY <1>1, <1>2, <1>3, <1>4 DEF AnswerInv

\* Every step keeps AnswerInv.
LEMMA AnswerStep ==
  ASSUME IInv, AnswerInv, [Next]_vars
  PROVE  AnswerInv'
<1>1. ASSUME NEW c \in Containers, ContainerExits(c), UNCHANGED actionVars
      PROVE  AnswerInv'
  BY <1>1 DEF ContainerExits, actionVars, AnswerInv, Doomed, IInv, TypeOK, ClientTypeOK
<1>2. CASE Restart
  BY <1>2 DEF Restart, AnswerInv, Doomed, IInv, TypeOK
<1>3. CASE UNCHANGED vars
  BY <1>3 DEF vars, clientVars, actionVars, AnswerInv, Doomed
<1> QED BY <1>1, <1>2, <1>3, AnswerHandlers, AnswerCall DEF Next, Goroutine, Terminating

(***************************************************************************)
(* A Status that says "stopped" tells the truth, as long as nobody cancels *)
(* the call and the extension does not restart.                            *)
(***************************************************************************)
THEOREM StoppedIsStoppedCorrect == Spec => []StoppedIsStopped
<1>1. Init => AnswerInv
  BY InitAnswer
<1>2. IInv /\ AnswerInv /\ [Next]_vars => AnswerInv'
  BY AnswerStep
<1>3. AnswerInv => StoppedIsStopped
  BY DEF AnswerInv, StoppedIsStopped, Doomed
<1> QED BY <1>1, <1>2, <1>3, IInvCorrect, PTL DEF Spec
-----------------------------------------------------------------------------
(***************************************************************************)
(* The safety half of StopAnswers and GoroutinesEnd: nobody waits on the   *)
(* channel for somebody who is not there.                                  *)
(***************************************************************************)

(***************************************************************************)
(* A Stop that waits for the answer waits for a goroutine of this process  *)
(* that is in its call, or offers the answer, or closes the channel, or    *)
(* has closed it (action_stop.go:163-166, 201-202).  The same goes for     *)
(* Start.                                                                  *)
(***************************************************************************)
WaitersHaveSenders ==
  \A e \in Exec : stop[e] = "receiving" \/ start[e] = "waiting" =>
    Busy(e) \/ goroutine[e] = "closing" \/ Ready(e)

(***************************************************************************)
(* A goroutine that offers its answer is found by a Stop still to come:    *)
(* the completer is in the map and no Stop has answered.  Whoever takes    *)
(* the completer out of the map has taken the answer first                 *)
(* (action_stop.go:186-189).                                               *)
(***************************************************************************)
SendersHaveReceivers ==
  \A e \in Exec : Sending(e) => e \in completers /\ stop[e] # "done"

ChannelInv ==
  \A e \in Exec :
    /\ e \in completers => goroutine[e] # "none"
    /\ stop[e] = "receiving" \/ start[e] = "waiting" => goroutine[e] # "none"
    /\ goroutine[e] = "working" => call[e] # "none" /\ e \in completers /\ stop[e] # "done"
    /\ status[e] = "loaded" => goroutine[e] # "none"

\* Every step keeps each end of the channel within reach of the other.
LEMMA ChannelStep ==
  ASSUME IInv, ChannelInv, [Next]_vars
  PROVE  ChannelInv'
<1> USE DEF IInv, TypeOK, BusyInv, Busy, ClientTypeOK, CallPC, ChannelInv, clientVars
<1>1. ASSUME NEW e \in Exec, Prepare(e)
      PROVE  ChannelInv'
  BY <1>1 DEF Prepare
<1>2. ASSUME NEW e \in Exec, StartSpawns(e)
      PROVE  ChannelInv'
  BY <1>2 DEF StartSpawns, BeginCall, InCall
<1>3. ASSUME NEW e \in Exec, StartReceives(e)
      PROVE  ChannelInv'
  BY <1>3 DEF StartReceives, Ready, Receive, Sending, Closed, Received
<1>4. ASSUME NEW e \in Exec, StartTimesOut(e)
      PROVE  ChannelInv'
  BY <1>4 DEF StartTimesOut
<1>5. ASSUME NEW e \in Exec, StatusFindsNone(e) \/ StatusLoads(e) \/ StatusNotCompleted(e)
      PROVE  ChannelInv'
  BY <1>5 DEF StatusFindsNone, StatusLoads, StatusNotCompleted
<1>6. ASSUME NEW e \in Exec, StatusReceives(e)
      PROVE  ChannelInv'
  BY <1>6 DEF StatusReceives, Ready, Receive, Sending, Closed, Received
<1>7. ASSUME NEW e \in Exec, StopFindsNone(e)
      PROVE  ChannelInv'
  BY <1>7 DEF StopFindsNone
<1>8. ASSUME NEW e \in Exec, StopCancels(e)
      PROVE  ChannelInv'
  BY <1>8 DEF StopCancels
<1>9. ASSUME NEW e \in Exec, StopReceives(e)
      PROVE  ChannelInv'
  BY <1>9 DEF StopReceives, Ready, Receive, Sending, Closed
<1>10. ASSUME NEW e \in Exec, CloseChannel(e)
       PROVE  ChannelInv'
  BY <1>10 DEF CloseChannel
<1>11. ASSUME NEW e \in Exec, CallStep(e), UNCHANGED actionVars
       PROVE  ChannelInv'
  BY <1>11 DEF CallStep, LoadTask, SendSigterm, SeeExit, GraceExpires, SendSigkill,
               CallFails, InCall, Return, actionVars
<1>12. ASSUME NEW c \in Containers, ContainerExits(c), UNCHANGED actionVars
       PROVE  ChannelInv'
  BY <1>12 DEF ContainerExits, actionVars
<1>13. CASE Restart
  BY <1>13 DEF Restart
<1>14. CASE UNCHANGED vars
  BY <1>14 DEF vars, actionVars
<1> QED BY <1>1, <1>2, <1>3, <1>4, <1>5, <1>6, <1>7, <1>8, <1>9, <1>10, <1>11,
           <1>12, <1>13, <1>14
        DEF Next, Start, Status, Stop, Goroutine, Terminating

\* ChannelInv holds throughout, restarts included.
LEMMA ChannelInvCorrect == Spec => []ChannelInv
<1>1. Init => ChannelInv
  BY DEF Init, ClientInit, ChannelInv
<1>2. IInv /\ ChannelInv /\ [Next]_vars => ChannelInv'
  BY ChannelStep
<1> QED BY <1>1, <1>2, IInvCorrect, PTL DEF Spec

(***************************************************************************)
(* For any number of executions and restarts, neither Stop nor Start waits *)
(* on a channel that nobody sends on and nobody closes.                    *)
(***************************************************************************)
THEOREM WaitersHaveSendersCorrect == Spec => []WaitersHaveSenders
<1>1. IInv /\ ChannelInv => WaitersHaveSenders
  BY DEF IInv, TypeOK, ClientTypeOK, ChannelInv, WaitersHaveSenders, Busy, Ready, Sending,
         Closed
<1> QED BY <1>1, IInvCorrect, ChannelInvCorrect, PTL

(***************************************************************************)
(* For any number of executions and restarts, no goroutine is blocked in a *)
(* send after the last one who would receive has answered.                 *)
(***************************************************************************)
THEOREM SendersHaveReceiversCorrect == Spec => []SendersHaveReceivers
<1>1. ChannelInv => SendersHaveReceivers
  BY DEF ChannelInv, SendersHaveReceivers, Sending
<1> QED BY <1>1, ChannelInvCorrect, PTL
=============================================================================

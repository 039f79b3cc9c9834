------------------------- MODULE SidecarAttackProofs ------------------------
(***************************************************************************)
(* Proofs about SidecarAttack, for any number of executions and restarts.  *)
(***************************************************************************)
EXTENDS SidecarAttack, TLAPS

(***************************************************************************)
(* How the parts of an execution fit together.  A process is there only    *)
(* after Start has started it, a report only of a started attack, and the  *)
(* handle until Stop takes it or a restart loses it.                       *)
(***************************************************************************)
CourseInv ==
  \A e \in Exec :
    /\ start[e] = "started" <=> process[e] # "none"
    /\ start[e] # "started" => told[e] = "nothing" /\ status[e] = "none"
    /\ start[e] = "stored" => stop[e] = "none" /\ e \in handles
    /\ start[e] = "started" /\ stop[e] = "none" /\ restarts = 0 => e \in handles
    /\ process[e] = "gone" => ~targetAlive[e]
    /\ status[e] = "asking" => BySignal(e)

IInv == TypeOK /\ CourseInv /\ StoppedEndedWell /\ TargetGoneIsNoError /\ StopLeavesNone

\* Nothing has been called and nothing told at first.
LEMMA InitIInv == Init => IInv
BY RestartAssumption
   DEF Init, IInv, TypeOK, CourseInv, StoppedEndedWell, TargetGoneIsNoError,
       StopLeavesNone, Process, Ended, BySignal

\* Prepare and Start keep IInv.
LEMMA StartStep ==
  ASSUME IInv, NEW e \in Exec, Prepare(e) \/ Start(e)
  PROVE  IInv'
<1> USE DEF IInv, TypeOK, CourseInv, StoppedEndedWell, TargetGoneIsNoError,
            StopLeavesNone, Process, Ended, BySignal, request, world
<1>1. CASE Prepare(e)
  BY <1>1 DEF Prepare
<1>2. CASE StartRefused(e)
  BY <1>2 DEF StartRefused
<1>3. CASE StartStores(e)
  BY <1>3 DEF StartStores
<1>4. CASE StartRuns(e)
  BY <1>4 DEF StartRuns
<1>5. CASE StartFails(e)
  BY <1>5 DEF StartFails
<1> QED BY <1>1, <1>2, <1>3, <1>4, <1>5 DEF Start

\* Status keeps IInv: it changes nothing but its own state and report.
LEMMA StatusStep ==
  ASSUME IInv, NEW e \in Exec, Status(e)
  PROVE  IInv'
<1> USE DEF IInv, TypeOK, CourseInv, StoppedEndedWell, TargetGoneIsNoError,
            StopLeavesNone, Process, Ended, BySignal, request, world
<1>1. CASE StatusFindsNone(e)
  BY <1>1 DEF StatusFindsNone, Polled, Complete
<1>2. CASE StatusLoads(e)
  BY <1>2 DEF StatusLoads, Polled
<1>3. CASE StatusGoesOn(e)
  BY <1>3 DEF StatusGoesOn
<1>4. CASE StatusJudges(e)
  BY <1>4 DEF StatusJudges, Complete, Report, Ignored, GoesOn
<1>5. CASE StatusSeesSignal(e)
  BY <1>5 DEF StatusSeesSignal
<1>6. CASE StatusAsks(e)
  BY <1>6 DEF StatusAsks, Complete
<1> QED BY <1>1, <1>2, <1>3, <1>4, <1>5, <1>6 DEF Status

\* Stop keeps IInv.
LEMMA StopStep ==
  ASSUME IInv, NEW e \in Exec, Stop(e)
  PROVE  IInv'
<1> USE DEF IInv, TypeOK, CourseInv, StoppedEndedWell, TargetGoneIsNoError,
            StopLeavesNone, Process, Ended, BySignal, request, world
<1>1. CASE StopFindsNone(e)
  BY <1>1 DEF StopFindsNone
<1>2. CASE StopTakes(e)
  BY <1>2 DEF StopTakes
<1>3. CASE StopEnds(e)
  <2>1. CASE process[e] = "running"
    BY <1>3, <2>1 DEF StopEnds
  <2>2. CASE process[e] # "running"
    <3>1. process' = process
      BY <1>3, <2>2 DEF StopEnds
    <3>2. stop' = [stop EXCEPT ![e] = "ok"] /\ stop[e] = "stopping"
      BY <1>3 DEF StopEnds
    <3>3. UNCHANGED <<kind, failOnOomKill, targetAlive, handles, start, status, told, restarts>>
      BY <1>3 DEF StopEnds
    <3>4. TypeOK'
      BY <3>1, <3>2, <3>3
    <3>5. CourseInv'
      BY <3>1, <3>2, <3>3
    <3>6. StoppedEndedWell' /\ TargetGoneIsNoError'
      BY <3>1, <3>2, <3>3
    <3>7. StopLeavesNone'
      BY <2>2, <3>1, <3>2, <3>3
    <3> QED BY <3>4, <3>5, <3>6, <3>7
  <2> QED BY <2>1, <2>2
<1>4. CASE StopFails(e)
  BY <1>4 DEF StopFails, Kinds
<1> QED BY <1>1, <1>2, <1>3, <1>4 DEF Stop

\* Every step keeps IInv.
LEMMA StepIInv ==
  ASSUME IInv, [Next]_vars
  PROVE  IInv'
<1> USE DEF IInv, TypeOK, CourseInv, StoppedEndedWell, TargetGoneIsNoError,
            StopLeavesNone, Process, Ended, BySignal, request, world
<1>1. ASSUME NEW e \in Exec, ProcessEnds(e)
      PROVE  IInv'
  BY <1>1 DEF ProcessEnds
<1>2. ASSUME NEW e \in Exec, TargetEnds(e)
      PROVE  IInv'
  BY <1>2 DEF TargetEnds
<1>3. CASE Restart
  BY <1>3, RestartAssumption DEF Restart
<1>4. CASE UNCHANGED vars
  BY <1>4 DEF vars
<1> QED BY <1>1, <1>2, <1>3, <1>4, StartStep, StatusStep, StopStep
        DEF Next, World, Terminating

\* IInv holds throughout: the inductive invariant the theorems below rest on.
THEOREM IInvCorrect == Spec => []IInv
<1>1. Init => IInv
  BY InitIInv
<1>2. IInv /\ [Next]_vars => IInv'
  BY StepIInv
<1> QED BY <1>1, <1>2, PTL DEF Spec

\* Every variable keeps its type, and handles belong to attacks that were started.
THEOREM TypeCorrect == Spec => []TypeOK
<1>1. IInv => TypeOK
  BY DEF IInv
<1> QED BY <1>1, IInvCorrect, PTL

\* No error of a process is taken for a regular end.
THEOREM StoppedEndedWellCorrect == Spec => []StoppedEndedWell
<1>1. IInv => StoppedEndedWell
  BY DEF IInv
<1> QED BY <1>1, IInvCorrect, PTL

\* A process that goes with its target is never reported as an error.
THEOREM TargetGoneIsNoErrorCorrect == Spec => []TargetGoneIsNoError
<1>1. IInv => TargetGoneIsNoError
  BY DEF IInv
<1> QED BY <1>1, IInvCorrect, PTL

\* A Stop that answers well leaves no process behind.
THEOREM StopLeavesNoneCorrect == Spec => []StopLeavesNone
<1>1. IInv => StopLeavesNone
  BY DEF IInv
<1> QED BY <1>1, IInvCorrect, PTL
-----------------------------------------------------------------------------
(***************************************************************************)
(* The safety half of FailureTold.  Status tells its verdict once, it fits *)
(* the end of the process, and until it is told nothing is lost.           *)
(***************************************************************************)

(***************************************************************************)
(* The verdict that completes an action stands: no Status, Stop or restart *)
(* after it tells another one (action_stress.go:130-146).                  *)
(***************************************************************************)
VerdictStands ==
  [][\A e \in Exec : told[e] # "nothing" => told'[e] = told[e]]_vars

(***************************************************************************)
(* The verdict fits how the process has ended, or will: a warning needs a  *)
(* signal or an ignored OOM kill, an error anything but a regular end or   *)
(* that of the target (action_stress.go:156-205).                          *)
(***************************************************************************)
VerdictFits ==
  \A e \in Exec :
    /\ told[e] = "warning" =>
         \/ process[e] \in {"killed", "gone"}
         \/ process[e] = "oom" /\ ~failOnOomKill[e]
    /\ told[e] = "error" =>
         \/ process[e] \in {"killed", "failed"}
         \/ process[e] = "oom" /\ failOnOomKill[e]

(***************************************************************************)
(* A failure that was not told yet can still be told, as long as no Stop   *)
(* comes first and no restart loses the handle: Status finds the handle,   *)
(* and neither goes on polling nor asks for the target.                    *)
(***************************************************************************)
FailureOutstanding ==
  \A e \in Exec : process[e] = "failed" /\ stop[e] = "none" /\ restarts = 0 =>
    \/ told[e] = "error"
    \/ /\ told[e] = "nothing"
       /\ e \in handles
       /\ status[e] = "loaded" \/ Polled(e)

CompletedTold == \A e \in Exec : status[e] = "completed" <=> told[e] # "nothing"

VerdictInv == CompletedTold /\ VerdictFits

\* Every step keeps the verdicts right.
LEMMA VerdictStep ==
  ASSUME IInv, VerdictInv, [Next]_vars
  PROVE  VerdictInv' /\ \A e \in Exec : told[e] # "nothing" => told'[e] = told[e]
<1> DEFINE Kept == VerdictInv' /\ \A e \in Exec : told[e] # "nothing" => told'[e] = told[e]
<1> USE DEF IInv, TypeOK, CourseInv, VerdictInv, CompletedTold, VerdictFits, Process, Ended,
            BySignal, request, world
<1>1. ASSUME NEW e \in Exec, Prepare(e) \/ Start(e)
      PROVE  Kept
  BY <1>1 DEF Prepare, Start, StartRefused, StartStores, StartRuns, StartFails
<1>2. ASSUME NEW e \in Exec, Status(e)
      PROVE  Kept
  <2>1. CASE StatusFindsNone(e)
    BY <2>1 DEF StatusFindsNone, Polled, Complete
  <2>2. CASE StatusLoads(e) \/ StatusGoesOn(e) \/ StatusSeesSignal(e)
    BY <2>2 DEF StatusLoads, StatusGoesOn, StatusSeesSignal, Polled
  <2>3. CASE StatusJudges(e)
    BY <2>3 DEF StatusJudges, Complete, Report, Ignored, GoesOn
  <2>4. CASE StatusAsks(e)
    BY <2>4 DEF StatusAsks, Complete
  <2> QED BY <1>2, <2>1, <2>2, <2>3, <2>4 DEF Status
<1>3. ASSUME NEW e \in Exec, Stop(e) \/ World(e)
      PROVE  Kept
  <2>1. UNCHANGED <<request, status, told>>
    BY <1>3 DEF Stop, StopFindsNone, StopTakes, StopEnds, StopFails, World, ProcessEnds,
                TargetEnds
  <2>2. \A o \in Exec : process'[o] = process[o] \/ process[o] = "running"
    BY <1>3 DEF Stop, StopFindsNone, StopTakes, StopEnds, StopFails, World, ProcessEnds,
                TargetEnds
  <2> QED BY <2>1, <2>2
<1>4. CASE Restart
  BY <1>4 DEF Restart
<1>5. CASE UNCHANGED vars
  BY <1>5 DEF vars
<1> QED BY <1>1, <1>2, <1>3, <1>4, <1>5 DEF Next, Terminating

\* VerdictInv holds throughout, restarts included.
LEMMA VerdictInvCorrect == Spec => []VerdictInv
<1>1. Init => VerdictInv
  BY DEF Init, VerdictInv, CompletedTold, VerdictFits
<1>2. IInv /\ VerdictInv /\ [Next]_vars => VerdictInv'
  BY VerdictStep
<1> QED BY <1>1, <1>2, IInvCorrect, PTL DEF Spec

\* For any number of executions and restarts, a verdict is told once and stands.
THEOREM VerdictStandsCorrect == Spec => VerdictStands
<1>1. IInv /\ VerdictInv /\ [Next]_vars =>
        [\A e \in Exec : told[e] # "nothing" => told'[e] = told[e]]_vars
  BY VerdictStep
<1> QED BY <1>1, IInvCorrect, VerdictInvCorrect, PTL DEF Spec, VerdictStands

\* For any number of executions and restarts, a verdict fits the end of the process.
THEOREM VerdictFitsCorrect == Spec => []VerdictFits
<1>1. VerdictInv => VerdictFits
  BY DEF VerdictInv
<1> QED BY <1>1, VerdictInvCorrect, PTL

(***************************************************************************)
(* For any number of executions, a failure has been told, or Status still  *)
(* has all it takes to tell it.                                            *)
(***************************************************************************)
THEOREM FailureOutstandingCorrect == Spec => []FailureOutstanding
<1>1. IInv /\ VerdictInv => FailureOutstanding
  BY DEF IInv, TypeOK, CourseInv, StoppedEndedWell, VerdictInv, CompletedTold, VerdictFits,
         FailureOutstanding, Polled, BySignal
<1> QED BY <1>1, IInvCorrect, VerdictInvCorrect, PTL
=============================================================================

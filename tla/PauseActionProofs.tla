-------------------------- MODULE PauseActionProofs -------------------------
(***************************************************************************)
(* Proofs about PauseAction, for any number of containers, executions and  *)
(* repeated Stops.  The invariants are inductive together; what keeps a    *)
(* pause from being forgotten is that the one step after which an          *)
(* execution has "unpaused" resumes the container in the same call.        *)
(***************************************************************************)
EXTENDS PauseAction, TLAPS

\* Every client that AutoDetect can pick is one of AllRuntimes.
LEMMA NewClientSupported ==
  ASSUME NEW configured, NEW sockets
  PROVE  NewClient(configured, sockets) \in Runtimes \cup {"none"}
BY DEF NewClient

\* What is outside of the actions leaves the types of the runtime alone.
LEMMA WorldType ==
  ASSUME RuntimeTypeOK, World \/ LivenessCheck
  PROVE  RuntimeTypeOK'
<1>1. CASE \E c \in Containers : ContainerExits(c) \/ ContainerRemoved(c) \/ ContainerRestarts(c)
  BY <1>1 DEF RuntimeTypeOK, ContainerState, ContainerExits, ContainerRemoved, ContainerRestarts
<1>2. CASE ConnectionChanges
  BY <1>2 DEF RuntimeTypeOK, ConnectionChanges
<1>3. CASE LivenessCheck
  BY <1>3 DEF RuntimeTypeOK, LivenessCheck
<1> QED BY <1>1, <1>2, <1>3 DEF World

\* A step of an execution, one action at a time.
LEMMA PauseStepType ==
  ASSUME TypeOK, NEW e \in Exec, PauseStep(e)
  PROVE  TypeOK'
<1> USE PauseAssumption DEF TypeOK, RuntimeTypeOK, ContainerState, runtimeVars
<1>1. target[e] \in Containers
  OBVIOUS
<1>2. CASE Prepare(e)
  BY <1>2 DEF Prepare
<1>3. CASE StartPauses(e)
  BY <1>3, <1>1 DEF StartPauses
<1>4. CASE StartFails(e)
  BY <1>4 DEF StartFails
<1>5. CASE Status(e)
  BY <1>5 DEF Status
<1>6. CASE StopFindsPid(e)
  BY <1>6 DEF StopFindsPid
<1>7. CASE StopFindsNoPid(e)
  BY <1>7 DEF StopFindsNoPid
<1>8. CASE StopUnpauses(e)
  BY <1>8, <1>1 DEF StopUnpauses
<1>9. CASE StopFails(e)
  BY <1>9 DEF StopFails
<1>10. CASE StopAgain(e)
  <2>1. repeats[e] \in 0..MaxRepeats /\ repeats[e] < MaxRepeats
    BY <1>10 DEF StopAgain
  <2>2. repeats[e] + 1 \in 0..MaxRepeats
    BY <2>1
  <2> QED BY <1>10, <2>2 DEF StopAgain
<1> QED
  BY <1>2, <1>3, <1>4, <1>5, <1>6, <1>7, <1>8, <1>9, <1>10 DEF PauseStep, Stop

\* For any number of executions and containers, every variable keeps its type.
THEOREM TypeCorrect == Spec => []TypeOK
<1>1. Init => TypeOK
  <2> SUFFICES ASSUME Init PROVE TypeOK
    OBVIOUS
  <2>1. RuntimeTypeOK
    BY NewClientSupported DEF Init, RuntimeInit, RuntimeTypeOK, ContainerState
  <2> QED BY <2>1, PauseAssumption DEF Init, PauseInit, TypeOK
<1>2. TypeOK /\ [Next]_vars => TypeOK'
  <2> SUFFICES ASSUME TypeOK, [Next]_vars PROVE TypeOK'
    OBVIOUS
  <2>1. CASE \E e \in Exec : PauseStep(e)
    BY <2>1, PauseStepType
  <2>2. CASE (World \/ LivenessCheck) /\ UNCHANGED pauseVars
    BY <2>2, WorldType DEF TypeOK, pauseVars
  <2>3. CASE UNCHANGED vars
    BY <2>3 DEF TypeOK, RuntimeTypeOK, vars, runtimeVars, pauseVars
  <2> QED BY <2>1, <2>2, <2>3 DEF Next
<1> QED BY <1>1, <1>2, PTL DEF Spec

-----------------------------------------------------------------------------
(***************************************************************************)
(* A container that is not paused before a step is paused after it only by *)
(* a Start.                                                                *)
(***************************************************************************)
LEMMA StepKeepsPausesTold ==
  ASSUME TypeOK, NoSilentPause, NEW e \in Exec, PauseStep(e)
  PROVE  NoSilentPause'
<1> DEFINE Told(x, c) == /\ target[x] = c
                         /\ start[x] \in {"started", "failed"}
                         /\ stop[x] # "unpaused"
<1> SUFFICES ASSUME NEW c \in Containers, container'[c] = "paused"
             PROVE  \E x \in Exec : Told(x, c)'
  BY DEF NoSilentPause
<1>1. target' = target
  BY DEF PauseStep, Prepare, StartPauses, StartFails, Status, Stop, StopFindsPid,
         StopFindsNoPid, StopUnpauses, StopFails, StopAgain
<1>2. CASE StartPauses(e)
  <2>1. CASE target[e] = c
    <3>1. start'[e] \in {"started", "failed"} /\ stop'[e] = "none"
      BY <1>2 DEF StartPauses, Starting, TypeOK
    <3> QED BY <3>1, <2>1, <1>1
  <2>2. CASE target[e] # c
    <3>1. container[c] = "paused"
      BY <1>2, <2>2 DEF StartPauses, TypeOK, RuntimeTypeOK
    <3>2. PICK x \in Exec : Told(x, c)
      BY <3>1 DEF NoSilentPause
    <3>3. x # e
      BY <3>2, <2>2
    <3>4. start'[x] = start[x] /\ stop'[x] = stop[x]
      BY <1>2, <3>3 DEF StartPauses, TypeOK
    <3> QED BY <3>2, <3>4, <1>1
  <2> QED BY <2>1, <2>2
<1>3. CASE StopUnpauses(e)
  <2>1. target[e] # c /\ container[c] = "paused"
    BY <1>3 DEF StopUnpauses, TypeOK, RuntimeTypeOK
  <2>2. PICK x \in Exec : Told(x, c)
    BY <2>1 DEF NoSilentPause
  <2>3. start' = start /\ stop'[x] = stop[x]
    BY <1>3, <2>1, <2>2 DEF StopUnpauses, TypeOK
  <2> QED BY <2>2, <2>3, <1>1
<1>4. CASE ~StartPauses(e) /\ ~StopUnpauses(e)
  <2>1. container' = container
    BY <1>4 DEF PauseStep, Prepare, StartFails, Status, Stop, StopFindsPid,
                StopFindsNoPid, StopFails, StopAgain, runtimeVars
  <2>2. PICK x \in Exec : Told(x, c)
    BY <2>1 DEF NoSilentPause
  <2>3. start'[x] \in {"started", "failed"}
    BY <1>4, <2>2 DEF PauseStep, Prepare, StartFails, Status, Stop, StopFindsPid,
                      StopFindsNoPid, StopFails, StopAgain, TypeOK
  <2>4. stop'[x] # "unpaused"
    BY <1>4, <2>2 DEF PauseStep, Prepare, StartFails, Status, Stop, StopFindsPid,
                      StopFindsNoPid, StopFails, StopAgain, TypeOK
  <2> QED BY <2>2, <2>3, <2>4, <1>1
<1> QED BY <1>2, <1>3, <1>4

(***************************************************************************)
(* For any number of executions on any containers, with repeated Stops and *)
(* lost answers, no container is left paused in silence.                   *)
(***************************************************************************)
THEOREM NoSilentPauseCorrect == Spec => []NoSilentPause
<1>1. Init => NoSilentPause
  BY DEF Init, RuntimeInit, NoSilentPause
<1>2. TypeOK /\ NoSilentPause /\ [Next]_vars => NoSilentPause'
  <2> SUFFICES ASSUME TypeOK, NoSilentPause, [Next]_vars PROVE NoSilentPause'
    OBVIOUS
  <2>1. CASE \E e \in Exec : PauseStep(e)
    BY <2>1, StepKeepsPausesTold
  <2>2. CASE (World \/ LivenessCheck) /\ UNCHANGED pauseVars
    <3>1. \A c \in Containers : container'[c] = "paused" => container[c] = "paused"
      BY <2>2 DEF World, LivenessCheck, ContainerExits, ContainerRemoved, ContainerRestarts,
                  ConnectionChanges, TypeOK, RuntimeTypeOK
    <3> QED BY <3>1, <2>2 DEF NoSilentPause, pauseVars
  <2>3. CASE UNCHANGED vars
    BY <2>3 DEF NoSilentPause, vars, runtimeVars, pauseVars
  <2> QED BY <2>1, <2>2, <2>3 DEF Next
<1> QED BY <1>1, <1>2, TypeCorrect, PTL DEF Spec

-----------------------------------------------------------------------------
\* What a step of the program and its surroundings may do to a pause.
PauseKept ==
  \A e \in Exec :
    LET c == target[e]
    IN  start[e] = "started" /\ stop[e] = "none" /\ container[c] = "paused" =>
          \/ container'[c] \in {"paused", "exited"}
          \/ \E o \in Exec \ {e} : /\ target[o] = c
                                   /\ stop[o] = "unpausing" /\ stop'[o] = "unpaused"

\* The step of one execution, seen from another one or from itself.
LEMMA StepKeepsPause ==
  ASSUME TypeOK, NEW o \in Exec, PauseStep(o)
  PROVE  PauseKept
<1> SUFFICES ASSUME NEW e \in Exec, start[e] = "started", stop[e] = "none",
                    container[target[e]] = "paused"
             PROVE  \/ container'[target[e]] \in {"paused", "exited"}
                    \/ \E x \in Exec \ {e} : /\ target[x] = target[e]
                                             /\ stop[x] = "unpausing" /\ stop'[x] = "unpaused"
  BY DEF PauseKept
<1>1. target[e] \in Containers /\ target[o] \in Containers
  BY DEF TypeOK
<1>2. CASE StartPauses(o)
  <2>1. CASE target[o] = target[e]
    BY <2>1, <1>2, <1>1 DEF StartPauses, TypeOK, RuntimeTypeOK
  <2>2. CASE target[o] # target[e]
    BY <2>2, <1>2, <1>1 DEF StartPauses, TypeOK, RuntimeTypeOK
  <2> QED BY <2>1, <2>2
<1>3. CASE StopUnpauses(o)
  <2>1. o # e /\ stop[o] = "unpausing" /\ stop'[o] = "unpaused"
    BY <1>3 DEF StopUnpauses, TypeOK
  <2>2. CASE target[o] = target[e]
    BY <2>1, <2>2
  <2>3. CASE target[o] # target[e]
    BY <2>3, <1>3, <1>1 DEF StopUnpauses, TypeOK, RuntimeTypeOK
  <2> QED BY <2>2, <2>3
<1>4. CASE ~StartPauses(o) /\ ~StopUnpauses(o)
  BY <1>4 DEF PauseStep, Prepare, StartFails, Status, Stop, StopFindsPid,
              StopFindsNoPid, StopFails, StopAgain, runtimeVars
<1> QED BY <1>2, <1>3, <1>4

(***************************************************************************)
(* For any number of executions, a started pause lasts until the container *)
(* ends or a Stop on it is answered.                                       *)
(***************************************************************************)
THEOREM PauseLastsCorrect == Spec => PauseLasts
<1>1. TypeOK /\ [Next]_vars => [PauseKept]_vars
  <2> SUFFICES ASSUME TypeOK, Next PROVE PauseKept
    OBVIOUS
  <2>1. CASE \E e \in Exec : PauseStep(e)
    BY <2>1, StepKeepsPause
  <2>2. CASE (World \/ LivenessCheck) /\ UNCHANGED pauseVars
    <3>1. \A c \in Containers : container[c] = "paused" => container'[c] \in {"paused", "exited"}
      BY <2>2 DEF World, LivenessCheck, ContainerExits, ContainerRemoved, ContainerRestarts,
                  ConnectionChanges, TypeOK, RuntimeTypeOK
    <3>2. \A e \in Exec : target[e] \in Containers
      BY DEF TypeOK
    <3> QED BY <3>1, <3>2 DEF PauseKept
  <2> QED BY <2>1, <2>2 DEF Next
<1> QED BY <1>1, TypeCorrect, PTL DEF Spec, PauseLasts, PauseKept
=============================================================================

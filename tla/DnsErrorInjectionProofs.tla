---------------------- MODULE DnsErrorInjectionProofs -----------------------
(***************************************************************************)
(* Proofs about DnsErrorInjection, for any number of executions and        *)
(* faults.                                                                 *)
(***************************************************************************)
EXTENDS DnsErrorInjection, TLAPS

(***************************************************************************)
(* How the parts of an execution fit together: nothing runs or is told     *)
(* before Start, and a Status that has seen an exit saw a process that has *)
(* ended for good.                                                         *)
(***************************************************************************)
CourseInv ==
  \A e \in Exec :
    /\ process[e] \in {"running", "exited"} => start[e] = "started"
    /\ start[e] # "started" => status[e] = "none" /\ told[e] = "nothing"
    /\ start[e] \in {"idle", "refused"} => stop[e] = "none"
    /\ status[e] = "exited" => process[e] \in {"exited", "killed"}

IInv == TypeOK /\ CourseInv /\ NoOrphan

\* Nothing has been called and nothing told at first.
LEMMA InitIInv == Init => IInv
BY DEF Init, IInv, TypeOK, CourseInv, NoOrphan, Process, FaultKinds

\* Prepare and Start keep IInv.
LEMMA StartStep ==
  ASSUME IInv, NEW e \in Exec, Prepare(e) \/ PrepareRefused(e) \/ Start(e)
  PROVE  IInv'
<1> USE DEF IInv, TypeOK, CourseInv, NoOrphan, Process
<1>1. CASE Prepare(e)
  BY <1>1 DEF Prepare
<1>2. CASE PrepareRefused(e)
  BY <1>2 DEF PrepareRefused
<1>3. CASE StartFindsNone(e)
  BY <1>3 DEF StartFindsNone
<1>4. CASE StartRuns(e)
  BY <1>4 DEF StartRuns
<1>5. CASE StartFails(e)
  BY <1>5 DEF StartFails
<1> QED BY <1>1, <1>2, <1>3, <1>4, <1>5 DEF Start

\* Status keeps IInv: it removes the handle of an ended process only.
LEMMA StatusStep ==
  ASSUME IInv, NEW e \in Exec, Status(e)
  PROVE  IInv'
<1> USE DEF IInv, TypeOK, CourseInv, NoOrphan, Process
<1>1. CASE StatusFindsNone(e)
  BY <1>1 DEF StatusFindsNone, Polled, Complete
<1>2. CASE StatusLoads(e)
  BY <1>2 DEF StatusLoads, Polled
<1>3. CASE StatusGoesOn(e)
  BY <1>3 DEF StatusGoesOn
<1>4. CASE StatusSeesExit(e)
  BY <1>4 DEF StatusSeesExit, Exited
<1>5. CASE StatusReports(e)
  BY <1>5 DEF StatusReports, Complete, removeDNSInjectHandle
<1> QED BY <1>1, <1>2, <1>3, <1>4, <1>5 DEF Status

\* Stop keeps IInv: between the removal and the kill it knows the process.
LEMMA StopStep ==
  ASSUME IInv, NEW e \in Exec, Stop(e)
  PROVE  IInv'
<1> USE DEF IInv, TypeOK, CourseInv, NoOrphan, Process
<1>1. CASE StopFindsNone(e)
  BY <1>1 DEF StopFindsNone, Stoppable
<1>2. CASE StopLoads(e)
  BY <1>2 DEF StopLoads, Stoppable
<1>3. CASE StopRemoves(e)
  BY <1>3 DEF StopRemoves, removeDNSInjectHandle
<1>4. CASE StopKills(e)
  <2>1. CASE process[e] \in {"created", "running"}
    <3>1. process' = [process EXCEPT ![e] = "killed"]
      BY <1>4, <2>1 DEF StopKills
    <3>2. stop' = [stop EXCEPT ![e] = "answered"] /\ stop[e] = "removed"
      BY <1>4 DEF StopKills
    <3>3. UNCHANGED <<request, handles, start, status, told, stopFailed, faults>>
      BY <1>4 DEF StopKills
    <3> QED BY <2>1, <3>1, <3>2, <3>3
  <2>2. CASE process[e] \notin {"created", "running"}
    <3>1. process' = process
      BY <1>4, <2>2 DEF StopKills
    <3> QED BY <1>4, <2>2, <3>1 DEF StopKills
  <2> QED BY <2>1, <2>2
<1>5. CASE StopFails(e)
  BY <1>5 DEF StopFails
<1> QED BY <1>1, <1>2, <1>3, <1>4, <1>5 DEF Stop

\* The end of the process and the faults keep IInv.
LEMMA WorldStep ==
  ASSUME IInv, NEW e \in Exec,
         ProcessExits(e) \/ LoseStatus(e) \/ StopAgain(e) \/ Restart
  PROVE  IInv'
<1> USE DEF IInv, TypeOK, CourseInv, NoOrphan, Process, FaultKinds
<1>1. CASE ProcessExits(e)
  BY <1>1 DEF ProcessExits, calls
<1>2. CASE LoseStatus(e)
  BY <1>2 DEF LoseStatus, Fault
<1>3. CASE StopAgain(e)
  BY <1>3 DEF StopAgain, Fault
<1>4. CASE Restart
  <2>1. faults' = [faults EXCEPT !["restart"] = @ + 1]
    BY <1>4 DEF Restart, Fault
  <2>2. faults' \in [FaultKinds -> Nat] /\ faults'["restart"] # 0
    BY <2>1
  <2>3. PICK E \in SUBSET {x \in Exec : process[x] \in {"created", "running"}} :
          process' = [x \in Exec |-> IF x \in E THEN "lost" ELSE process[x]]
    BY <1>4 DEF Restart
  <2>4. TypeOK' /\ CourseInv'
    BY <1>4, <2>2, <2>3 DEF Restart
  <2>5. NoOrphan'
    BY <2>2
  <2> QED BY <2>4, <2>5
<1> QED BY <1>1, <1>2, <1>3, <1>4

\* IInv holds throughout: the inductive invariant the theorems below rest on.
THEOREM IInvCorrect == Spec => []IInv
<1>1. Init => IInv
  BY InitIInv
<1>2. IInv /\ [Next]_vars => IInv'
  <2> SUFFICES ASSUME IInv, [Next]_vars
               PROVE  IInv'
    OBVIOUS
  <2>1. CASE Restart /\ Exec # {}
    BY <2>1, WorldStep
  <2>2. CASE Restart /\ Exec = {}
    BY <2>2 DEF Restart, Fault, IInv, TypeOK, CourseInv, NoOrphan, FaultKinds
  <2>3. CASE UNCHANGED vars
    BY <2>3 DEF vars, calls, IInv, TypeOK, CourseInv, NoOrphan
  <2>4. CASE \E e \in Exec : Step(e)
    BY <2>4, StartStep, StatusStep, StopStep, WorldStep DEF Step
  <2> QED BY <2>1, <2>2, <2>3, <2>4 DEF Next, Terminating
<1> QED BY <1>1, <1>2, PTL DEF Spec

\* Every variable keeps its type, and handles belong to attacks that were prepared.
THEOREM TypeCorrect == Spec => []TypeOK
<1>1. IInv => TypeOK
  BY DEF IInv
<1> QED BY <1>1, IInvCorrect, PTL

\* A running process can be stopped, however Status and Stop interleave.
THEOREM NoOrphanCorrect == Spec => []NoOrphan
<1>1. IInv => NoOrphan
  BY DEF IInv
<1> QED BY <1>1, IInvCorrect, PTL
-----------------------------------------------------------------------------
(***************************************************************************)
(* What keeps ExitTold within reach: as long as there was no fault and no  *)
(* Stop, an attack that was prepared has its handle in the map and nothing *)
(* has been told of it, or Status has told its error.  So an exit is never *)
(* forgotten on the way to the platform (dns_error_injection.go:153-166).  *)
(***************************************************************************)
Undisturbed(e) == stop[e] = "none" /\ \A k \in FaultKinds : faults[k] = 0

ExitRemembered ==
  \A e \in Exec : start[e] \in {"prepared", "started", "failed"} /\ Undisturbed(e) =>
    \/ e \in handles /\ status[e] # "completed" /\ told[e] = "nothing"
    \/ status[e] = "completed" /\ told[e] = "error"

(***************************************************************************)
(* What keeps HandlesFreed within reach: a handle always has a Stop in     *)
(* front of it that will take it out, never one that has already answered, *)
(* whatever has been lost or delivered again.                              *)
(***************************************************************************)
HandlesAwaitStop == \A e \in handles : stop[e] \in {"none", "found"}

\* A verdict is the answer of a Status that has completed.
ToldByStatus == \A e \in Exec : told[e] # "nothing" => status[e] = "completed"

\* Stop kills what is no longer in the map.
KilledIsOut ==
  \A e \in Exec : process[e] = "killed" =>
    e \notin handles /\ start[e] \notin {"idle", "refused"}

HandleInv == ExitRemembered /\ HandlesAwaitStop /\ ToldByStatus /\ KilledIsOut

\* Prepare stores a handle only of an attack nobody has stopped yet.
LEMMA StartHandle ==
  ASSUME IInv, HandleInv, NEW e \in Exec, Prepare(e) \/ PrepareRefused(e) \/ Start(e)
  PROVE  HandleInv'
<1> USE DEF IInv, TypeOK, CourseInv, HandleInv, ExitRemembered, Undisturbed,
            HandlesAwaitStop, ToldByStatus, KilledIsOut
<1>1. CASE Prepare(e)
  BY <1>1 DEF Prepare
<1>2. CASE PrepareRefused(e)
  BY <1>2 DEF PrepareRefused
<1>3. CASE StartFindsNone(e)
  BY <1>3 DEF StartFindsNone
<1>4. CASE StartRuns(e)
  BY <1>4 DEF StartRuns
<1>5. CASE StartFails(e)
  BY <1>5 DEF StartFails
<1> QED BY <1>1, <1>2, <1>3, <1>4, <1>5 DEF Start

\* Status takes the handle out in the step that tells the error.
LEMMA StatusHandle ==
  ASSUME IInv, HandleInv, NEW e \in Exec, Status(e)
  PROVE  HandleInv'
<1> USE DEF IInv, TypeOK, CourseInv, HandleInv, ExitRemembered, Undisturbed,
            HandlesAwaitStop, ToldByStatus, KilledIsOut
<1>1. CASE StatusFindsNone(e)
  BY <1>1 DEF StatusFindsNone, Polled, Complete
<1>2. CASE StatusLoads(e)
  BY <1>2 DEF StatusLoads, Polled
<1>3. CASE StatusGoesOn(e)
  BY <1>3 DEF StatusGoesOn
<1>4. CASE StatusSeesExit(e)
  BY <1>4 DEF StatusSeesExit
<1>5. CASE StatusReports(e)
  BY <1>5 DEF StatusReports, Complete, removeDNSInjectHandle
<1> QED BY <1>1, <1>2, <1>3, <1>4, <1>5 DEF Status

\* Stop goes on only past a handle that is out of the map.
LEMMA StopHandle ==
  ASSUME IInv, HandleInv, NEW e \in Exec, Stop(e)
  PROVE  HandleInv'
<1> USE DEF IInv, TypeOK, CourseInv, HandleInv, ExitRemembered, Undisturbed,
            HandlesAwaitStop, ToldByStatus, KilledIsOut
<1>1. CASE StopFindsNone(e)
  BY <1>1 DEF StopFindsNone, Stoppable
<1>2. CASE StopLoads(e)
  BY <1>2 DEF StopLoads, Stoppable
<1>3. CASE StopRemoves(e)
  BY <1>3 DEF StopRemoves, removeDNSInjectHandle
<1>4. CASE StopKills(e)
  BY <1>4 DEF StopKills
<1>5. CASE StopFails(e)
  BY <1>5 DEF StopFails
<1> QED BY <1>1, <1>2, <1>3, <1>4, <1>5 DEF Stop

\* A fault counts, and then nothing is promised of an exit any more.
LEMMA FaultCounts ==
  ASSUME TypeOK, NEW k \in FaultKinds, Fault(k)
  PROVE  ~ \A kind \in FaultKinds : faults'[kind] = 0
<1>1. faults'[k] = faults[k] + 1 /\ faults[k] \in Nat
  BY DEF TypeOK, Fault
<1> QED BY <1>1

\* The end of the process and the faults take no Stop away from a handle.
LEMMA WorldHandle ==
  ASSUME IInv, HandleInv, NEW e \in Exec,
         ProcessExits(e) \/ LoseStatus(e) \/ StopAgain(e) \/ Restart
  PROVE  HandleInv'
<1> USE DEF IInv, TypeOK, CourseInv, HandleInv, HandlesAwaitStop, ToldByStatus, KilledIsOut
<1>1. CASE ProcessExits(e)
  BY <1>1 DEF ProcessExits, calls, ExitRemembered, Undisturbed
<1>2. CASE LoseStatus(e)
  <2>1. ExitRemembered'
    BY <1>2, FaultCounts DEF LoseStatus, ExitRemembered, Undisturbed, FaultKinds
  <2> QED BY <1>2, <2>1 DEF LoseStatus
<1>3. CASE StopAgain(e)
  <2>1. ExitRemembered'
    BY <1>3, FaultCounts DEF StopAgain, ExitRemembered, Undisturbed, FaultKinds
  <2> QED BY <1>3, <2>1 DEF StopAgain
<1>4. CASE Restart
  <2>1. ExitRemembered'
    BY <1>4, FaultCounts DEF Restart, ExitRemembered, Undisturbed, FaultKinds
  <2> QED BY <1>4, <2>1 DEF Restart
<1> QED BY <1>1, <1>2, <1>3, <1>4

\* HandleInv holds throughout, on the ground of IInv.
LEMMA HandleInvAlways == Spec => []HandleInv
<1>1. Init => HandleInv
  BY DEF Init, HandleInv, ExitRemembered, HandlesAwaitStop, ToldByStatus, KilledIsOut
<1>2. IInv /\ HandleInv /\ [Next]_vars => HandleInv'
  <2> SUFFICES ASSUME IInv, HandleInv, [Next]_vars
               PROVE  HandleInv'
    OBVIOUS
  <2>1. CASE Restart /\ Exec # {}
    BY <2>1, WorldHandle
  <2>2. CASE Restart /\ Exec = {}
    BY <2>2 DEF Restart, HandleInv, ExitRemembered, HandlesAwaitStop, ToldByStatus, KilledIsOut
  <2>3. CASE UNCHANGED vars
    BY <2>3 DEF vars, calls, HandleInv, ExitRemembered, Undisturbed,
                HandlesAwaitStop, ToldByStatus, KilledIsOut
  <2>4. CASE \E e \in Exec : Step(e)
    BY <2>4, StartHandle, StatusHandle, StopHandle, WorldHandle DEF Step
  <2> QED BY <2>1, <2>2, <2>3, <2>4 DEF Next, Terminating
<1> QED BY <1>1, <1>2, IInvCorrect, PTL DEF Spec

\* Without a fault and a Stop, an exit is on its way to the platform or told.
THEOREM ExitRememberedCorrect == Spec => []ExitRemembered
<1>1. HandleInv => ExitRemembered
  BY DEF HandleInv
<1> QED BY <1>1, HandleInvAlways, PTL

\* No handle stays behind a Stop that has answered, with any faults.
THEOREM HandlesAwaitStopCorrect == Spec => []HandlesAwaitStop
<1>1. HandleInv => HandlesAwaitStop
  BY DEF HandleInv
<1> QED BY <1>1, HandleInvAlways, PTL

(***************************************************************************)
(* No false alarm can follow: nothing is known of e in the map, and no     *)
(* Status of e is on its way to tell an error, or has told one.            *)
(***************************************************************************)
Quiet(e) ==
  /\ e \notin handles
  /\ start[e] \notin {"idle", "refused"}
  /\ status[e] \notin {"loaded", "exited"}
  /\ told[e] # "error"

\* Only Prepare could end the quiet, and it comes before everything else.
LEMMA QuietStays ==
  ASSUME TypeOK, NEW e \in Exec, Quiet(e), [Next]_vars
  PROVE  Quiet(e)'
<1> USE DEF TypeOK, Quiet
<1>1. ASSUME NEW x \in Exec, Prepare(x) \/ PrepareRefused(x) \/ Start(x)
      PROVE  Quiet(e)'
  BY <1>1 DEF Prepare, PrepareRefused, Start, StartFindsNone, StartRuns, StartFails
<1>2. ASSUME NEW x \in Exec, Status(x)
      PROVE  Quiet(e)'
  BY <1>2 DEF Status, StatusFindsNone, StatusLoads, StatusGoesOn, StatusSeesExit,
       StatusReports, Polled, Complete, removeDNSInjectHandle
<1>3. ASSUME NEW x \in Exec, Stop(x)
      PROVE  Quiet(e)'
  BY <1>3 DEF Stop, StopFindsNone, StopLoads, StopRemoves, StopKills, StopFails,
       removeDNSInjectHandle
<1>4. ASSUME NEW x \in Exec, ProcessExits(x) \/ LoseStatus(x) \/ StopAgain(x)
      PROVE  Quiet(e)'
  BY <1>4 DEF ProcessExits, LoseStatus, StopAgain, calls
<1>5. CASE Restart \/ Terminating \/ UNCHANGED vars
  BY <1>5 DEF Restart, Terminating, vars, calls
<1> QED BY <1>1, <1>2, <1>3, <1>4, <1>5 DEF Next, Step

\* After a kill no Status that begins tells an error, with any faults.
THEOREM NoFalseAlarmCorrect == Spec => NoFalseAlarm
<1> SUFFICES ASSUME NEW e \in Exec
             PROVE  Spec => [](process[e] = "killed" /\ status[e] = "none" =>
                                 [](told[e] # "error"))
  BY DEF NoFalseAlarm
<1>1. HandleInv /\ process[e] = "killed" /\ status[e] = "none" => Quiet(e)
  BY DEF HandleInv, ToldByStatus, KilledIsOut, Quiet
<1>2. TypeOK /\ Quiet(e) /\ [Next]_vars => Quiet(e)'
  BY QuietStays
<1>3. Quiet(e) => told[e] # "error"
  BY DEF Quiet
<1> QED BY <1>1, <1>2, <1>3, TypeCorrect, HandleInvAlways, PTL DEF Spec

(***************************************************************************)
(* A verdict that Status has told stands, across restarts too: only the    *)
(* loss of that very answer lets another Status tell something else.       *)
(***************************************************************************)
VerdictStands ==
  [][\A e \in Exec : told[e] # "nothing" =>
       told'[e] = told[e] \/ faults'["lostStatus"] > faults["lostStatus"]]_vars

(***************************************************************************)
(* A handle goes into the map once, with Prepare: when Status, Stop or a   *)
(* restart has taken it out nothing brings it back.                        *)
(***************************************************************************)
HandleOnce ==
  [][\A e \in handles' \ handles : start[e] = "idle" /\ start'[e] = "prepared"]_vars

\* A Status that has completed is not asked again, unless its answer was lost.
THEOREM VerdictStandsCorrect == Spec => VerdictStands
<1>1. TypeOK /\ HandleInv /\ [Next]_vars =>
        [\A e \in Exec : told[e] # "nothing" =>
           told'[e] = told[e] \/ faults'["lostStatus"] > faults["lostStatus"]]_vars
  <2> SUFFICES ASSUME TypeOK, HandleInv, Next,
                      NEW e \in Exec, told[e] # "nothing"
               PROVE  told'[e] = told[e] \/ faults'["lostStatus"] > faults["lostStatus"]
    BY DEF vars
  <2>1. status[e] = "completed"
    BY DEF HandleInv, ToldByStatus
  <2>2. ASSUME NEW x \in Exec, LoseStatus(x)
        PROVE  faults'["lostStatus"] > faults["lostStatus"]
    <3>1. faults' = [faults EXCEPT !["lostStatus"] = @ + 1]
      BY <2>2 DEF LoseStatus, Fault
    <3> QED BY <3>1 DEF TypeOK, FaultKinds
  <2>3. ASSUME NEW x \in Exec, Status(x)
        PROVE  told'[e] = told[e]
    BY <2>1, <2>3 DEF Status, StatusFindsNone, StatusLoads, StatusGoesOn,
         StatusSeesExit, StatusReports, Polled, Complete, TypeOK
  <2>4. ASSUME NEW x \in Exec,
               Prepare(x) \/ PrepareRefused(x) \/ Start(x) \/ Stop(x)
               \/ ProcessExits(x) \/ StopAgain(x)
        PROVE  told' = told
    BY <2>4 DEF Prepare, PrepareRefused, Start, StartFindsNone, StartRuns, StartFails,
         Stop, StopFindsNone, StopLoads, StopRemoves, StopKills, StopFails,
         ProcessExits, StopAgain, calls
  <2>5. CASE Restart \/ Terminating
    BY <2>5 DEF Restart, Terminating, vars, calls
  <2> QED BY <2>2, <2>3, <2>4, <2>5 DEF Next, Step
<1>2. Spec => []HandleInv
  BY HandleInvAlways
<1> QED BY <1>1, <1>2, TypeCorrect, PTL DEF Spec, VerdictStands

\* Of the steps that change the map only Prepare adds to it.
THEOREM HandleOnceCorrect == Spec => HandleOnce
<1>1. TypeOK /\ [Next]_vars =>
        [\A e \in handles' \ handles : start[e] = "idle" /\ start'[e] = "prepared"]_vars
  <2> SUFFICES ASSUME TypeOK, Next, NEW e \in handles' \ handles
               PROVE  start[e] = "idle" /\ start'[e] = "prepared"
    BY DEF vars
  <2>1. ASSUME NEW x \in Exec, Prepare(x)
        PROVE  start[e] = "idle" /\ start'[e] = "prepared"
    <3>1. e = x
      BY <2>1 DEF Prepare
    <3> QED BY <2>1, <3>1 DEF Prepare, TypeOK
  <2>2. ASSUME NEW x \in Exec,
               PrepareRefused(x) \/ Start(x) \/ Status(x) \/ Stop(x)
               \/ ProcessExits(x) \/ LoseStatus(x) \/ StopAgain(x)
        PROVE  handles' \subseteq handles
    BY <2>2 DEF PrepareRefused, Start, StartFindsNone, StartRuns, StartFails, Status,
         StatusFindsNone, StatusLoads, StatusGoesOn, StatusSeesExit, StatusReports,
         Stop, StopFindsNone, StopLoads, StopRemoves, StopKills, StopFails,
         ProcessExits, LoseStatus, StopAgain, removeDNSInjectHandle, calls
  <2>3. CASE Restart \/ Terminating
    BY <2>3 DEF Restart, Terminating, vars
  <2> QED BY <2>1, <2>2, <2>3 DEF Next, Step
<1> QED BY <1>1, TypeCorrect, PTL DEF Spec, HandleOnce
=============================================================================

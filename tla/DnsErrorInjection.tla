-------------------------- MODULE DnsErrorInjection -------------------------
(***************************************************************************)
(* extcontainer/action_network_dns_error_injection.go.  Other than the     *)
(* attacks of SidecarAttack it makes its process in Prepare, so the map    *)
(* holds handles of processes that do not run yet, and it takes a handle   *)
(* out of the map in two critical sections: get, then remove.              *)
(*                                                                         *)
(* A Status that was sent before Stop may still be running during it.      *)
(* The process, dns-inject, is external.                                   *)
(***************************************************************************)
EXTENDS Naturals, FiniteSets, FiniteSetsExt

CONSTANTS
  Exec,
  DisallowHostNetwork,  \* config.Config.DisallowHostNetwork
  MaxFaults             \* bound: how many faults happen

ASSUME DnsAssumption ==
  /\ DisallowHostNetwork \in BOOLEAN
  /\ MaxFaults \in Nat

VARIABLES
  request,     \* what each execution is asked to do
  process,     \* the process of each execution, and how it has ended
  handles,     \* the executions with an entry in dnsInjectHandles
  start,       \* where Prepare and Start are, and how they ended
  status,      \* where Status is
  told,        \* what Status told the platform when it completed
  stop,        \* where Stop is
  stopFailed,  \* Stop could not stop the process, and has only logged it
  faults       \* how many of each kind have happened

calls == <<start, status, told, stop, stopFailed>>
vars == <<request, process, handles, calls, faults>>

FaultKinds == {"restart",     \* the extension's process ends, another one starts
               "lostStatus",  \* the last answer of Status is lost
               "dupStop"}     \* Stop is delivered a second time

\* One defect is enough for parseDNSInjectOpts to answer with an error.
Options == {"valid", "noErrorType", "unknownErrorType", "invalidPort", "invalidCidr"}

Request == [hostNetwork : BOOLEAN, failOnHostNetwork : BOOLEAN, options : Options]

Process == {"none", "created", "running",
            "exited",  \* by itself
            "killed",  \* by Stop
            "lost"}    \* with the extension

TypeOK ==
  /\ request \in [Exec -> Request]
  /\ process \in [Exec -> Process]
  /\ handles \subseteq {e \in Exec : start[e] \in {"prepared", "started", "failed"}}
  /\ start \in [Exec -> {"idle", "refused", "prepared", "started", "failed"}]
  /\ status \in [Exec -> {"none", "loaded", "exited", "completed"}]
  /\ told \in [Exec -> {"nothing", "completed", "error"}]
  /\ stop \in [Exec -> {"none", "found", "removed", "answered"}]
  /\ stopFailed \in [Exec -> BOOLEAN]
  /\ faults \in [FaultKinds -> Nat]

Init ==
  /\ request \in [Exec -> Request]
  /\ process = [e \in Exec |-> "none"]
  /\ handles = {}
  /\ start = [e \in Exec |-> "idle"]
  /\ status = [e \in Exec |-> "none"]
  /\ told = [e \in Exec |-> "nothing"]
  /\ stop = [e \in Exec |-> "none"]
  /\ stopFailed = [e \in Exec |-> FALSE]
  /\ faults = [k \in FaultKinds |-> 0]

-----------------------------------------------------------------------------
\* removeDNSInjectHandle: what is not there is not removed.
removeDNSInjectHandle(e) == handles' = handles \ {e}

parseDNSInjectOpts(e) == request[e].options = "valid"

MayInject(e) ==
  request[e].hostNetwork => ~DisallowHostNetwork /\ ~request[e].failOnHostNetwork

(***************************************************************************)
(* Prepare makes the process and stores its handle.  It refuses for many   *)
(* more reasons: no such container, no process info, no such process.      *)
(***************************************************************************)
Prepare(e) ==
  /\ start[e] = "idle"
  /\ MayInject(e)
  /\ parseDNSInjectOpts(e)
  /\ start' = [start EXCEPT ![e] = "prepared"]
  /\ process' = [process EXCEPT ![e] = "created"]
  /\ handles' = handles \cup {e}
  /\ UNCHANGED <<request, status, told, stop, stopFailed, faults>>

\* A bug: the handle is stored before everything has been checked.
PrepareStoresTooEarly(e) ==
  /\ start[e] = "idle"
  /\ start' = [start EXCEPT ![e] = "refused"]
  /\ handles' = handles \cup {e}
  /\ UNCHANGED <<request, process, status, told, stop, stopFailed, faults>>

PrepareRefused(e) ==
  /\ start[e] = "idle"
  /\ start' = [start EXCEPT ![e] = "refused"]
  /\ UNCHANGED <<request, process, handles, status, told, stop, stopFailed, faults>>

StartFindsNone(e) ==
  /\ start[e] = "prepared" /\ stop[e] = "none"
  /\ e \notin handles
  /\ start' = [start EXCEPT ![e] = "failed"]
  /\ UNCHANGED <<request, process, handles, status, told, stop, stopFailed, faults>>

StartRuns(e) ==
  /\ start[e] = "prepared" /\ stop[e] = "none"
  /\ e \in handles
  /\ start' = [start EXCEPT ![e] = "started"]
  /\ process' = [process EXCEPT ![e] = "running"]
  /\ UNCHANGED <<request, handles, status, told, stop, stopFailed, faults>>

\* The handle stays in the map.
StartFails(e) ==
  /\ start[e] = "prepared" /\ stop[e] = "none"
  /\ e \in handles
  /\ start' = [start EXCEPT ![e] = "failed"]
  /\ UNCHANGED <<request, process, handles, status, told, stop, stopFailed, faults>>

-----------------------------------------------------------------------------
(***************************************************************************)
(* Status: get the handle, ask it, remove it when the process has exited.  *)
(* Any exit is an error.  To be polled again changes nothing.              *)
(***************************************************************************)
Complete(e, report) ==
  /\ status' = [status EXCEPT ![e] = "completed"]
  /\ told' = [told EXCEPT ![e] = report]

Polled(e) == start[e] = "started" /\ status[e] = "none" /\ stop[e] # "answered"

StatusFindsNone(e) ==
  /\ Polled(e)
  /\ e \notin handles
  /\ Complete(e, "completed")
  /\ UNCHANGED <<request, process, handles, start, stop, stopFailed, faults>>

StatusLoads(e) ==
  /\ Polled(e)
  /\ e \in handles
  /\ status' = [status EXCEPT ![e] = "loaded"]
  /\ UNCHANGED <<request, process, handles, start, told, stop, stopFailed, faults>>

Exited(e) == process[e] \in {"exited", "killed"}

\* A bug: without metrics the handle is given up.
StatusGivesUp(e) ==
  /\ status[e] = "loaded"
  /\ ~Exited(e)
  /\ status' = [status EXCEPT ![e] = "none"]
  /\ removeDNSInjectHandle(e)
  /\ UNCHANGED <<request, process, start, told, stop, stopFailed, faults>>

\* With metrics or without them.
StatusGoesOn(e) ==
  /\ status[e] = "loaded"
  /\ ~Exited(e)
  /\ status' = [status EXCEPT ![e] = "none"]
  /\ UNCHANGED <<request, process, handles, start, told, stop, stopFailed, faults>>

StatusSeesExit(e) ==
  /\ status[e] = "loaded"
  /\ Exited(e)
  /\ status' = [status EXCEPT ![e] = "exited"]
  /\ UNCHANGED <<request, process, handles, start, told, stop, stopFailed, faults>>

\* A bug: an exit without an error of its own is a regular end.
StatusMissesTheError(e) ==
  /\ status[e] = "exited"
  /\ removeDNSInjectHandle(e)
  /\ \E report \in {"completed", "error"} : Complete(e, report)
  /\ UNCHANGED <<request, process, start, stop, stopFailed, faults>>

StatusReports(e) ==
  /\ status[e] = "exited"
  /\ removeDNSInjectHandle(e)
  /\ Complete(e, "error")
  /\ UNCHANGED <<request, process, start, stop, stopFailed, faults>>

-----------------------------------------------------------------------------
(***************************************************************************)
(* Stop answers well whatever happens.                                     *)
(***************************************************************************)
Stoppable(e) == start[e] \in {"prepared", "started", "failed"} /\ stop[e] = "none"

StopFindsNone(e) ==
  /\ Stoppable(e)
  /\ e \notin handles
  /\ stop' = [stop EXCEPT ![e] = "answered"]
  /\ UNCHANGED <<request, process, handles, start, status, told, stopFailed, faults>>

\* A bug: the process is killed while the handle is still in the map.
StopKillsFirst(e) ==
  /\ Stoppable(e)
  /\ e \in handles
  /\ stop' = [stop EXCEPT ![e] = "found"]
  /\ process' = [process EXCEPT ![e] = IF @ \in {"created", "running"} THEN "killed" ELSE @]
  /\ UNCHANGED <<request, handles, start, status, told, stopFailed, faults>>

StopLoads(e) ==
  /\ Stoppable(e)
  /\ e \in handles
  /\ stop' = [stop EXCEPT ![e] = "found"]
  /\ UNCHANGED <<request, process, handles, start, status, told, stopFailed, faults>>

\* A bug: the handle is left in the map.
StopKeepsTheHandle(e) ==
  /\ stop[e] = "found"
  /\ stop' = [stop EXCEPT ![e] = "removed"]
  /\ UNCHANGED <<request, process, handles, start, status, told, stopFailed, faults>>

StopRemoves(e) ==
  /\ stop[e] = "found"
  /\ removeDNSInjectHandle(e)
  /\ stop' = [stop EXCEPT ![e] = "removed"]
  /\ UNCHANGED <<request, process, start, status, told, stopFailed, faults>>

StopKills(e) ==
  /\ stop[e] = "removed"
  /\ process' = [process EXCEPT ![e] = IF @ \in {"created", "running"} THEN "killed" ELSE @]
  /\ stop' = [stop EXCEPT ![e] = "answered"]
  /\ UNCHANGED <<request, handles, start, status, told, stopFailed, faults>>

StopFails(e) ==
  /\ stop[e] = "removed"
  /\ stop' = [stop EXCEPT ![e] = "answered"]
  /\ stopFailed' = [stopFailed EXCEPT ![e] = TRUE]
  /\ UNCHANGED <<request, process, handles, start, status, told, faults>>

-----------------------------------------------------------------------------
\* external: the process ends by itself, or with its target
ProcessExits(e) ==
  /\ process[e] = "running"
  /\ process' = [process EXCEPT ![e] = "exited"]
  /\ UNCHANGED <<request, handles, calls, faults>>

Fault(k) ==
  /\ MapThenSumSet(LAMBDA kind : faults[kind], FaultKinds) < MaxFaults
  /\ faults' = [faults EXCEPT ![k] = @ + 1]

(***************************************************************************)
(* The map and the requests in progress are gone; a process may survive or *)
(* not.  The platform sends an interrupted Status or Stop again.           *)
(***************************************************************************)
Restart ==
  /\ Fault("restart")
  /\ handles' = {}
  /\ \E E \in SUBSET {e \in Exec : process[e] \in {"created", "running"}} :
       process' = [e \in Exec |-> IF e \in E THEN "lost" ELSE process[e]]
  /\ status' = [e \in Exec |-> IF status[e] = "completed" THEN "completed" ELSE "none"]
  /\ stop' = [e \in Exec |-> IF stop[e] = "answered" THEN "answered" ELSE "none"]
  /\ UNCHANGED <<request, start, told, stopFailed>>

LoseStatus(e) ==
  /\ Fault("lostStatus")
  /\ status[e] = "completed" /\ stop[e] = "none"
  /\ status' = [status EXCEPT ![e] = "none"]
  /\ told' = [told EXCEPT ![e] = "nothing"]
  /\ UNCHANGED <<request, process, handles, start, stop, stopFailed>>

StopAgain(e) ==
  /\ Fault("dupStop")
  /\ stop[e] = "answered"
  /\ stop' = [stop EXCEPT ![e] = "none"]
  /\ UNCHANGED <<request, process, handles, start, status, told, stopFailed>>

Start(e) == StartFindsNone(e) \/ StartRuns(e) \/ StartFails(e)

Status(e) == StatusFindsNone(e) \/ StatusLoads(e) \/ StatusGoesOn(e)
             \/ StatusSeesExit(e) \/ StatusReports(e)

Stop(e) == StopFindsNone(e) \/ StopLoads(e) \/ StopRemoves(e) \/ StopKills(e)
           \/ StopFails(e)

Step(e) == \/ Prepare(e) \/ PrepareRefused(e)
           \/ Start(e) \/ Status(e) \/ Stop(e)
           \/ ProcessExits(e) \/ LoseStatus(e) \/ StopAgain(e)

Terminating ==
  /\ \A e \in Exec : start[e] = "refused" \/ stop[e] = "answered"
  /\ UNCHANGED vars

Next == (\E e \in Exec : Step(e)) \/ Restart \/ Terminating

(***************************************************************************)
(* The platform polls Status until it has completed.  HandlesFreed also    *)
(* assumes that it stops what it has prepared.                             *)
(***************************************************************************)
Fairness == \A e \in Exec : WF_vars(Status(e))

StopFairness == \A e \in Exec : WF_vars(Stop(e))

Spec == Init /\ [][Next]_vars

FairSpec == Spec /\ Fairness

-----------------------------------------------------------------------------
(***************************************************************************)
(* A process that injects errors can still be stopped: a Stop will find    *)
(* its handle, or one is about to kill the process.  It is lost only with  *)
(* a restart, or when Stop has failed to kill it.  Status and Stop remove  *)
(* the handle independently of each other, a Status only when there is     *)
(* nothing left to stop (dns_error_injection.go:153-155, 181-187).         *)
(***************************************************************************)
NoOrphan ==
  \A e \in Exec : process[e] = "running" /\ faults["restart"] = 0 =>
    \/ e \in handles /\ stop[e] # "answered"
    \/ stop[e] \in {"found", "removed"}
    \/ stopFailed[e]

(***************************************************************************)
(* A Status that begins after Stop has killed the process never takes the  *)
(* kill for an unexpected exit: Stop has taken the handle out of the map   *)
(* before it killed, and neither a restart nor a repeated call brings it   *)
(* back.  A Status that had the handle already does take it for one        *)
(* (dns_error_injection.go:154-157, 181-187).                              *)
(***************************************************************************)
NoFalseAlarm ==
  \A e \in Exec :
    [](process[e] = "killed" /\ status[e] = "none" => [](told[e] # "error"))

(***************************************************************************)
(* No handle stays in the map for the life of the extension: Prepare has   *)
(* put it there, and if the platform stops what it has prepared it goes,   *)
(* also when Start failed or never came                                    *)
(* (dns_error_injection.go:128-130).                                       *)
(***************************************************************************)
HandlesFreed ==
  StopFairness => \A e \in Exec : e \in handles ~> e \notin handles

(***************************************************************************)
(* When the process ends by itself the platform is told, and no later      *)
(* Status takes the error back, unless Stop comes first or one of the      *)
(* faults loses the handle or the answer (dns_error_injection.go:154-166). *)
(***************************************************************************)
ExitTold ==
  \A e \in Exec : process[e] = "exited" ~>
    \/ [](told[e] = "error")
    \/ stop[e] # "none"
    \/ \E k \in FaultKinds : faults[k] > 0
=============================================================================

---------------------------- MODULE StressLimits ----------------------------
(***************************************************************************)
(* extcontainer/action_stress_limit_helpers.go: how Prepare of a stress    *)
(* action turns a share of what the container may use into what stress-ng  *)
(* is asked for.  The formats of the cgroup files, which differ between    *)
(* cgroup v1 and v2, are left out: a file is a number, or Unlimited, or    *)
(* Unreadable.                                                             *)
(***************************************************************************)
EXTENDS Integers

Unlimited == -1
Unreadable == -2

\* Negative: no limit to adapt to.
readCpuLimit(cgroup) ==
  IF cgroup.quota \in {Unlimited, Unreadable} \/ cgroup.period = Unreadable
    THEN -1
    ELSE (cgroup.quota * 1000) \div cgroup.period

readMemLimit(cgroup) ==
  IF cgroup.memory \in {Unlimited, Unreadable} THEN -1 ELSE cgroup.memory

-----------------------------------------------------------------------------
stressCpu(request) == [workers |-> request.workers, load |-> request.load]

\* math.Round(a / b) and mathx.RoundUp(a / b, 0)
Rounded(a, b) == (2 * a + b) \div (2 * b)
RoundedUp(a, b) == (a + b - 1) \div b

\* The int of the quotient 0 / 0 depends on the processor: 0 or the least int.
IntOfNaN == {0, -1}

\* A bug: the number of workers is rounded to the nearest one.
WorkersRounded(millis) == Rounded(millis, 1000)

\* As many workers as are needed when the user leaves it open.
WorkersFor(millis) == RoundedUp(millis, 1000)

\* The outcomes; more than one only for no workers at all.
adaptToCpuContainerLimits(limit, opts) ==
  LET millis == (limit * opts.load) \div 100
      workers == IF opts.workers = 0 THEN WorkersFor(millis) ELSE opts.workers
  IN  IF workers = 0
        THEN {[workers |-> 0, load |-> n] : n \in IntOfNaN}
        ELSE {[workers |-> workers, load |-> Rounded(millis, workers) \div 10]}

adaptToAllowedCpus(cgroup, opts) ==
  IF cgroup.cpusAllowed = Unreadable THEN opts
  ELSE [opts EXCEPT !.workers = cgroup.cpusAllowed]

adaptCpu(cgroup, opts) ==
  IF readCpuLimit(cgroup) >= 0
    THEN adaptToCpuContainerLimits(readCpuLimit(cgroup), opts)
  ELSE IF opts.workers = 0 THEN {adaptToAllowedCpus(cgroup, opts)}
  ELSE {opts}

-----------------------------------------------------------------------------
\* Always one worker.
stressMemory(percentage) == [unit |-> "percent", amount |-> percentage]

\* A bug: a small share is rounded down to no bytes at all.
MayBeNothing(limit, opts) ==
  [unit |-> "kilobytes", amount |-> ((limit * opts.amount) \div 100) \div 1024]

adaptToMemContainerLimits(limit, opts) ==
  LET kilobytes == ((limit * opts.amount) \div 100) \div 1024
  IN  [unit |-> "kilobytes", amount |-> IF kilobytes < 1 THEN 1 ELSE kilobytes]

adaptMemory(cgroup, opts) ==
  IF readMemLimit(cgroup) >= 0
    THEN adaptToMemContainerLimits(readMemLimit(cgroup), opts)
    ELSE opts
=============================================================================

---------------------- MODULE NetworkActionFaultsProofs ---------------------
(***************************************************************************)
(* Proofs about NetworkActionFaults, for any number of faults.             *)
(*                                                                         *)
(* With faults the count of a namespace and the number of its holders no   *)
(* longer agree.  A restart and a repeated Stop can only make the count    *)
(* too low, a lost answer of Start only too high: so NoLeak is Over for    *)
(* all namespaces and NoForeignRelease is Under, and every step without a  *)
(* fault preserves each of the two by itself.                              *)
(***************************************************************************)
EXTENDS NetworkActionFaults, NetworkActionProofs

Over(n) == Claimed(n) => active[n].count <= Cardinality(Holders(n))

Under(n) ==
  Holders(n) # {} => Claimed(n) /\ active[n].count >= Cardinality(Holders(n))

\* Faults are counted.
CountsOK == faults \in [FaultKinds -> Nat]

(***************************************************************************)
(* The part of FlagsOK that survives faults.                               *)
(***************************************************************************)
FaultFlags ==
  \A e \in Exec :
    /\ pc[e] \in {"idle", "refused", "prepared"} => ~netnsClaimed[e]
    /\ pc[e] \in {"idle", "refused", "prepared", "applying"} =>
         ~isShadow[e] /\ ~stopError[e]

FaultInv == TypeOK /\ CountsOK /\ FaultFlags /\ DeadEmpty

-----------------------------------------------------------------------------
\* A fault is counted under its kind and under no other.
LEMMA FaultCounted ==
  ASSUME CountsOK, NEW kind \in FaultKinds, Fault(kind)
  PROVE  /\ CountsOK'
         /\ faults'[kind] = faults[kind] + 1
         /\ \A k \in FaultKinds \ {kind} : faults'[k] = faults[k]
<1>1. faults' = [faults EXCEPT ![kind] = @ + 1]
  BY DEF Fault
<1> QED BY <1>1 DEF CountsOK

\* Steps without a fault keep the flags.
LEMMA FaultFlagsStep ==
  ASSUME TypeOK, FaultFlags, [Next]_vars
  PROVE  FaultFlags'
<1> USE DEF TypeOK, FaultFlags, Goto, flags
<1>1. ASSUME NEW e \in Exec, Step(e)
      PROVE  FaultFlags'
  <2>1. CASE Prepare(e) \/ PrepareRefused(e)
    BY <2>1 DEF Prepare, PrepareRefused
  <2>2. CASE Start(e)
    BY <2>2 DEF Start, StartUndecodable, StartAsShadow, StartAsPrimary,
                StartAsPassthrough
  <2>3. CASE Apply(e)
    BY <2>3 DEF Apply, ApplySucceeds, ApplyFails
  <2>4. CASE Stop(e)
    BY <2>4 DEF Stop, BeginStop, StopShadow, StopUndecodable, StopNetnsGone,
                StopReverts, Stoppable
  <2>5. CASE Revert(e)
    BY <2>5 DEF Revert, RevertSucceeds, RevertFails
  <2>6. CASE DeferredRelease(e)
    BY <2>6 DEF DeferredRelease
  <2> QED BY <1>1, <2>1, <2>2, <2>3, <2>4, <2>5, <2>6 DEF Step
<1>2. ASSUME NEW n \in Netns, NetnsGone(n)
      PROVE  FaultFlags'
  BY <1>2 DEF NetnsGone
<1>3. CASE UNCHANGED vars
  BY <1>3 DEF vars
<1> QED BY <1>1, <1>2, <1>3 DEF Next, Terminating

\* After a restart rules are only where netfault could install them.
LEMMA RestartInv ==
  ASSUME FaultInv, Restart
  PROVE  FaultInv'
<1> USE DEF FaultInv
<1>1. CountsOK'
  BY FaultCounted DEF Restart, FaultKinds
<1>2. PICK applied \in SUBSET {e \in InStart : NetfaultAccepts(e)},
           reverted \in SUBSET {e \in InStop : pc[e] = "reverting"} :
        rules' = [t \in Targets |->
                    (rules[t] \cup AttacksOn(applied, t)) \ AttacksOn(reverted, t)]
  BY DEF Restart
<1>3. TypeOK'
  <2>1. TrackerTypeOK' /\ pc' \in [Exec -> PC] /\ netnsClaimed' \in [Exec -> BOOLEAN]
    BY DEF Restart, TypeOK, TrackerTypeOK, PC
  <2>2. \A t : AttacksOn(applied, t) \subseteq Attacks
    BY RequestType DEF AttacksOn, InStart
  <2>3. rules' \in [Targets -> SUBSET Attacks]
    BY <1>2, <2>2 DEF TypeOK
  <2> QED BY <2>1, <2>3 DEF Restart, TypeOK
<1>4. FaultFlags'
  BY DEF Restart, FaultFlags, TypeOK, InStart, InStop
<1>5. DeadEmpty'
  <2> SUFFICES ASSUME NEW t \in Targets, ~alive[t]
               PROVE  rules'[t] = {}
    BY DEF DeadEmpty, Restart
  <2>1. AttacksOn(applied, t) = {}
    BY DEF AttacksOn, NetfaultAccepts
  <2> QED BY <1>2, <2>1 DEF DeadEmpty
<1> QED BY <1>1, <1>3, <1>4, <1>5

\* Every step, with or without a fault, keeps the types and the flags.
LEMMA FaultInvStep ==
  ASSUME FaultInv, [FaultNext]_faultVars
  PROVE  FaultInv'
<1>1. CASE Next /\ UNCHANGED faults
  BY <1>1, TypeStep, FaultFlagsStep, DeadEmptyStep DEF FaultInv, CountsOK
<1>2. CASE Restart
  BY <1>2, RestartInv
<1>3. ASSUME NEW e \in Exec, StopAgain(e) PROVE FaultInv'
  <2>1. CountsOK'
    BY <1>3, FaultCounted DEF FaultInv, StopAgain, FaultKinds
  <2>2. TypeOK' /\ FaultFlags' /\ DeadEmpty'
    BY <1>3 DEF FaultInv, StopAgain, Goto, flags, TypeOK, TrackerTypeOK, PC, FaultFlags,
                DeadEmpty
  <2> QED BY <2>1, <2>2 DEF FaultInv
<1>4. ASSUME NEW e \in Exec, LoseStartResponse(e) PROVE FaultInv'
  <2>1. CountsOK'
    BY <1>4, FaultCounted DEF FaultInv, LoseStartResponse, FaultKinds
  <2>2. TypeOK' /\ FaultFlags' /\ DeadEmpty'
    BY <1>4 DEF FaultInv, LoseStartResponse, Goto, TypeOK, TrackerTypeOK, PC, FaultFlags,
                DeadEmpty
  <2> QED BY <2>1, <2>2 DEF FaultInv
<1>5. CASE UNCHANGED faultVars
  BY <1>5, TypeStep, FaultFlagsStep, DeadEmptyStep DEF FaultInv, CountsOK, faultVars
<1> QED BY <1>1, <1>2, <1>3, <1>4, <1>5 DEF FaultNext

(***************************************************************************)
(* With any number of faults every variable keeps its type, no execution   *)
(* has a claim before its Start, and namespaces that are gone are empty.   *)
(***************************************************************************)
THEOREM FaultInvCorrect == FaultSpec => []FaultInv
<1>1. FaultInit => FaultInv
  <2> SUFFICES ASSUME FaultInit PROVE FaultInv
    OBVIOUS
  <2>1. TypeOK
    BY TypeInit DEF FaultInit
  <2>2. CountsOK /\ FaultFlags /\ DeadEmpty
    BY DEF FaultInit, Init, CountsOK, FaultFlags, DeadEmpty
  <2> QED BY <2>1, <2>2 DEF FaultInv
<1> QED BY <1>1, FaultInvStep, PTL DEF FaultSpec

-----------------------------------------------------------------------------
(***************************************************************************)
(* Counting.                                                               *)
(***************************************************************************)

\* Who claims joins the holders of its own namespace only.
LEMMA JoinBounds ==
  ASSUME TypeOK, FaultFlags, NEW e \in Exec, StartAsPrimary(e) \/ StartAsShadow(e),
         NEW n \in Netns
  PROVE  (Over(n) => Over(n)') /\ (Under(n) => Under(n)')
<1>0. PICK t \in Targets : t = target(e)
  BY RequestType
<1>1. /\ e \notin Holders(n)
      /\ n = t => Holders(n)' = Holders(n) \cup {e}
      /\ n # t => Holders(n)' = Holders(n)
  BY <1>0 DEF StartAsPrimary, StartAsShadow, Goto, TypeOK, FaultFlags, Holders, target
<1>2. CASE n # t
  <2>1. active'[n] = active[n]
    BY <1>0, <1>2 DEF StartAsPrimary, StartAsShadow, ClaimPrimary, ClaimShadow, Claimed,
                      TypeOK, TrackerTypeOK
  <2> QED BY <1>1, <1>2, <2>1 DEF Over, Under, Claimed
<1>3. CASE n = t
  <2>1. Cardinality(Holders(n)') = Cardinality(Holders(n)) + 1
    BY <1>1, <1>3, HoldersFinite, FS_AddElement
  <2>2. Cardinality(Holders(n)) \in Nat
    BY HoldersFinite
  <2>3. CASE StartAsPrimary(e)
    <3>1. ~Claimed(n) /\ active'[n].count = 1
      BY <1>0, <1>3, <2>3 DEF StartAsPrimary, ClaimPrimary
    <3>2. Claimed(n)'
      <4>1. TrackerTypeOK'
        BY <1>0, <2>3, ClaimType, RequestType DEF StartAsPrimary, TypeOK
      <4>2. active'[n] = [count |-> 1, opts |-> normalizeOptsForDedup(NetworkOpts(e))]
        BY <1>0, <1>3, <2>3 DEF StartAsPrimary, ClaimPrimary
      <4>3. normalizeOptsForDedup(NetworkOpts(e)) \in NormalizedOpts
        BY RequestType DEF normalizeOptsForDedup, NormalizedOpts, RawOpts
      <4>4. active'[n] \in Entry
        BY <4>2, <4>3 DEF Entry
      <4> QED BY <4>4, TrackerAssumption DEF Claimed
    <3>3. Over(n)'
      BY <3>1, <2>1, <2>2 DEF Over
    <3>4. ASSUME Under(n) PROVE Under(n)'
      <4>1. Holders(n) = {}
        BY <3>1, <3>4 DEF Under
      <4>2. Cardinality(Holders(n)') = 1
        BY <2>1, <4>1, FS_EmptySet
      <4> QED BY <3>1, <3>2, <4>2 DEF Under
    <3> QED BY <3>3, <3>4
  <2>4. CASE StartAsShadow(e)
    <3>1. active[n] \in Entry
      BY <1>0, <1>3, <2>4 DEF StartAsShadow, ClaimShadow, Claimed, TypeOK, TrackerTypeOK
    <3>2. active' = [active EXCEPT ![n].count = @ + 1]
      BY <1>0, <1>3, <2>4 DEF StartAsShadow, ClaimShadow
    <3>3. active'[n] \in Entry /\ active'[n].count = active[n].count + 1
      BY <3>1, <3>2 DEF Entry, TypeOK, TrackerTypeOK
    <3>4. active[n].count \in Nat /\ Claimed(n) /\ Claimed(n)'
      BY <3>1, <3>3, TrackerAssumption DEF Claimed, Entry
    <3>5. ASSUME Over(n) PROVE Over(n)'
      BY <3>3, <3>4, <3>5, <2>1, <2>2 DEF Over
    <3>6. ASSUME Under(n) PROVE Under(n)'
      <4>1. active[n].count >= Cardinality(Holders(n))
        <5>1. CASE Holders(n) = {}
          BY <5>1, <3>4, FS_EmptySet
        <5>2. CASE Holders(n) # {}
          BY <5>2, <3>6 DEF Under
        <5> QED BY <5>1, <5>2
      <4> QED BY <4>1, <3>3, <3>4, <2>1, <2>2 DEF Under
    <3> QED BY <3>5, <3>6
  <2> QED BY <2>3, <2>4
<1> QED BY <1>2, <1>3

\* Who releases its claim leaves the holders, and the count drops by one.
LEMMA LeaveBounds ==
  ASSUME TypeOK, NEW e \in Exec, netnsClaimed[e], pc[e] # "stopped",
         releaseNetnsForAttack(target(e)), NEW n \in Netns,
         Holders(n)' = Holders(n) \ {e}
  PROVE  (Over(n) => Over(n)') /\ (Under(n) => Under(n)')
<1>0. PICK t \in Targets : t = target(e)
  BY RequestType
<1>1. e \in Holders(n) <=> n = t
  BY <1>0 DEF Holders
<1>2. CASE n # t
  <2>1. active'[n] = active[n] /\ Holders(n)' = Holders(n)
    BY <1>0, <1>1, <1>2 DEF releaseNetnsForAttack, Claimed, TypeOK, TrackerTypeOK
  <2> QED BY <2>1 DEF Over, Under, Claimed
<1>3. CASE n = t
  <2>1. Cardinality(Holders(n)') = Cardinality(Holders(n)) - 1
    BY <1>1, <1>3, HoldersFinite, FS_RemoveElement
  <2>2. Cardinality(Holders(n)) \in Nat /\ Holders(n) # {}
    BY <1>1, <1>3, HoldersFinite
  <2>3. CASE ~Claimed(n)
    BY <1>0, <1>3, <2>2, <2>3 DEF releaseNetnsForAttack, Over, Under, Claimed
  <2>4. CASE Claimed(n) /\ LastClaim(n)
    <3>1. active' = [active EXCEPT ![n] = NoEntry]
      BY <1>0, <1>3, <2>4 DEF releaseNetnsForAttack
    <3>2. ~Claimed(n)'
      BY <3>1 DEF Claimed, TypeOK, TrackerTypeOK
    <3>3. ASSUME Under(n) PROVE Holders(n)' = {}
      <4>1. active[n].count \in Nat
        BY <2>4 DEF Claimed, TypeOK, TrackerTypeOK, Entry
      <4>2. Cardinality(Holders(n)) <= 1
        BY <2>2, <2>4, <3>3, <4>1 DEF Under, LastClaim
      <4>3. Cardinality(Holders(n)') \in Nat /\ IsFiniteSet(Holders(n)')
        <5>1. IsFiniteSet(Holders(n) \ {e})
          BY HoldersFinite, FS_Subset
        <5> QED BY <5>1, FS_CardinalityType
      <4>4. Cardinality(Holders(n)') = 0
        BY <2>1, <2>2, <4>2, <4>3
      <4> QED BY <4>3, <4>4, FS_EmptySet
    <3> QED BY <3>2, <3>3 DEF Over, Under
  <2>5. CASE Claimed(n) /\ ~LastClaim(n)
    <3>1. active[n] \in Entry
      BY <2>5 DEF Claimed, TypeOK, TrackerTypeOK
    <3>2. active' = [active EXCEPT ![n].count = @ - 1]
      BY <1>0, <1>3, <2>5 DEF releaseNetnsForAttack
    <3>3. active'[n] \in Entry /\ active'[n].count = active[n].count - 1
      BY <2>5, <3>1, <3>2 DEF TypeOK, TrackerTypeOK, Entry, LastClaim
    <3>4. active[n].count \in Nat /\ Claimed(n)'
      BY <3>1, <3>3, TrackerAssumption DEF Claimed, Entry
    <3>5. ASSUME Over(n) PROVE Over(n)'
      BY <2>1, <2>2, <2>5, <3>3, <3>4, <3>5 DEF Over
    <3>6. ASSUME Under(n) PROVE Under(n)'
      BY <2>1, <2>2, <2>5, <3>3, <3>4, <3>6 DEF Under
    <3> QED BY <3>5, <3>6
  <2> QED BY <2>3, <2>4, <2>5
<1> QED BY <1>2, <1>3

\* A step that leaves the flags and the tracker alone keeps the bounds.
LEMMA SameBounds ==
  ASSUME UNCHANGED active, NEW n, Holders(n)' = Holders(n)
  PROVE  (Over(n) => Over(n)') /\ (Under(n) => Under(n)')
BY DEF Over, Under, Claimed

\* Steps without a fault keep each bound by itself.
LEMMA BoundsStep ==
  ASSUME TypeOK, FaultFlags, [Next]_vars, NEW n \in Netns
  PROVE  (Over(n) => Over(n)') /\ (Under(n) => Under(n)')
<1> DEFINE Kept == (Over(n) => Over(n)') /\ (Under(n) => Under(n)')
<1>1. ASSUME NEW e \in Exec, Step(e)
      PROVE  Kept
  <2>1. CASE \/ Prepare(e) \/ PrepareRefused(e) \/ StartUndecodable(e)
             \/ StartAsPassthrough(e) \/ ApplySucceeds(e) \/ Stop(e) \/ Revert(e)
    <3>1. /\ UNCHANGED <<active, request, isShadow, netnsClaimed>>
          /\ \A f \in Exec : pc'[f] = "stopped" <=> pc[f] = "stopped"
      BY <2>1 DEF Prepare, PrepareRefused, StartUndecodable, StartAsPassthrough,
           ClaimPassthrough, ApplySucceeds, Stop, BeginStop, Stoppable, StopShadow,
           StopUndecodable, StopNetnsGone, StopReverts, Revert, RevertSucceeds,
           RevertFails, Goto, flags, TypeOK
    <3>2. Holders(n)' = Holders(n)
      BY <3>1 DEF Holders, target
    <3> QED BY <3>1, <3>2, SameBounds
  <2>2. CASE StartAsShadow(e) \/ StartAsPrimary(e)
    BY <2>2, JoinBounds
  <2>3. CASE ApplyFails(e) \/ DeferredRelease(e)
    <3>1. /\ ReleaseClaim(e) /\ pc[e] # "stopped" /\ UNCHANGED request
          /\ Holders(n)' = Holders(n) \ {e}
      BY <2>3 DEF ApplyFails, DeferredRelease, Goto, flags, Holders, target, TypeOK
    <3>2. CASE netnsClaimed[e]
      BY <3>1, <3>2, LeaveBounds DEF ReleaseClaim
    <3>3. CASE ~netnsClaimed[e]
      <4>1. Holders(n)' = Holders(n)
        BY <3>1, <3>3 DEF Holders
      <4> QED BY <3>1, <3>3, <4>1, SameBounds DEF ReleaseClaim
    <3> QED BY <3>2, <3>3
  <2> QED BY <1>1, <2>1, <2>2, <2>3 DEF Step, Start, Apply
<1>2. CASE (\E m \in Netns : NetnsGone(m)) \/ UNCHANGED vars
  <2>1. UNCHANGED <<active, request, isShadow, netnsClaimed, pc>>
    BY <1>2 DEF NetnsGone, vars, flags
  <2>2. Holders(n)' = Holders(n)
    BY <2>1 DEF Holders, target
  <2> QED BY <2>1, <2>2, SameBounds
<1> QED BY <1>1, <1>2 DEF Next, Terminating

-----------------------------------------------------------------------------
NothingLeaks == faults["lostResponse"] = 0 => \A n \in Netns : Over(n)

(***************************************************************************)
(* For any number of executions and of restarts and repeated Stops, the    *)
(* tracker never counts a claim that nobody will release.                  *)
(***************************************************************************)
THEOREM NoLeakCorrect == FaultSpec => []NoLeak
<1>1. FaultInit => NothingLeaks
  BY DEF FaultInit, Init, TrackerInit, NothingLeaks, Over, Claimed
<1>2. FaultInv /\ NothingLeaks /\ [FaultNext]_faultVars => NothingLeaks'
  <2> SUFFICES ASSUME FaultInv, NothingLeaks, [FaultNext]_faultVars, NEW n \in Netns,
                      faults'["lostResponse"] = 0
               PROVE  Over(n)'
    BY DEF NothingLeaks
  <2>1. CASE (Next /\ UNCHANGED faults) \/ UNCHANGED faultVars
    BY <2>1, BoundsStep DEF FaultInv, NothingLeaks, faultVars
  <2>2. CASE Restart
    BY <2>2 DEF Restart, Over, Claimed
  <2>3. ASSUME NEW e \in Exec, StopAgain(e) PROVE Over(n)'
    <3>1. faults["lostResponse"] = 0
      BY <2>3, FaultCounted DEF FaultInv, StopAgain, FaultKinds
    <3>2. Holders(n) \subseteq Holders(n)'
      BY <2>3 DEF StopAgain, Goto, flags, FaultInv, TypeOK, Holders, target
    <3>3. IsFiniteSet(Holders(n)')
      BY NetworkAssumption, FS_Subset DEF Holders
    <3>4. /\ Cardinality(Holders(n)) <= Cardinality(Holders(n)')
          /\ Cardinality(Holders(n)) \in Nat /\ Cardinality(Holders(n)') \in Nat
      BY <3>2, <3>3, FS_Subset, FS_CardinalityType
    <3>5. Claimed(n) => active[n].count \in Nat
      BY DEF FaultInv, TypeOK, TrackerTypeOK, Claimed, Entry
    <3> QED BY <2>3, <3>1, <3>4, <3>5 DEF StopAgain, NothingLeaks, Over, Claimed
  <2>4. ASSUME NEW e \in Exec, LoseStartResponse(e) PROVE FALSE
    <3>1. faults["lostResponse"] \in Nat
      BY DEF FaultInv, CountsOK, FaultKinds
    <3> QED BY <2>4, <3>1, FaultCounted DEF FaultInv, LoseStartResponse, FaultKinds
  <2> QED BY <2>1, <2>2, <2>3, <2>4 DEF FaultNext
<1>3. FaultInv /\ NothingLeaks => NoLeak
  <2> SUFFICES ASSUME FaultInv, NothingLeaks, NEW n \in Netns, Claimed(n),
                      faults["lostResponse"] = 0
               PROVE  Holders(n) # {} /\ active[n].count <= Cardinality(Holders(n))
    BY DEF NoLeak
  <2>1. active[n].count \in Nat \ {0}
    BY DEF FaultInv, TypeOK, TrackerTypeOK, Claimed, Entry
  <2>2. active[n].count <= Cardinality(Holders(n))
    BY DEF NothingLeaks, Over
  <2>3. Cardinality({}) = 0
    BY FS_EmptySet
  <2> QED BY <2>1, <2>2, <2>3
<1> QED BY <1>1, <1>2, <1>3, FaultInvCorrect, PTL DEF FaultSpec

(***************************************************************************)
(* For any number of executions and of lost answers, no Stop releases a    *)
(* claim of another execution.                                             *)
(***************************************************************************)
THEOREM NoForeignReleaseCorrect == FaultSpec => []NoForeignRelease
<1>1. FaultInit => NoForeignRelease
  BY DEF FaultInit, Init, NoForeignRelease, Holders
<1>2. FaultInv /\ NoForeignRelease /\ [FaultNext]_faultVars => NoForeignRelease'
  <2> SUFFICES ASSUME FaultInv, NoForeignRelease, [FaultNext]_faultVars, NEW n \in Netns,
                      faults'["restart"] + faults'["dupStop"] = 0
               PROVE  Under(n)'
    BY DEF NoForeignRelease, Under
  <2>1. CASE (Next /\ UNCHANGED faults) \/ UNCHANGED faultVars
    <3>1. Under(n)
      BY <2>1 DEF NoForeignRelease, Under, faultVars
    <3> QED BY <2>1, <3>1, BoundsStep DEF FaultInv, faultVars
  <2>2. faults["restart"] \in Nat /\ faults["dupStop"] \in Nat
    BY DEF FaultInv, CountsOK, FaultKinds
  <2>3. CASE Restart
    <3>1. faults'["restart"] = faults["restart"] + 1 /\ faults'["dupStop"] = faults["dupStop"]
      BY <2>3, FaultCounted DEF FaultInv, Restart, FaultKinds
    <3> QED BY <2>2, <3>1
  <2>4. ASSUME NEW e \in Exec, StopAgain(e) PROVE FALSE
    <3>1. faults'["restart"] = faults["restart"] /\ faults'["dupStop"] = faults["dupStop"] + 1
      BY <2>4, FaultCounted DEF FaultInv, StopAgain, FaultKinds
    <3> QED BY <2>2, <3>1
  <2>5. ASSUME NEW e \in Exec, LoseStartResponse(e) PROVE Under(n)'
    <3>1. Under(n)
      <4>1. faults'["restart"] = faults["restart"] /\ faults'["dupStop"] = faults["dupStop"]
        BY <2>5, FaultCounted DEF FaultInv, LoseStartResponse, FaultKinds
      <4> QED BY <4>1 DEF NoForeignRelease, Under
    <3>2. Holders(n)' \subseteq Holders(n)
      BY <2>5 DEF LoseStartResponse, Goto, FaultInv, TypeOK, Holders, target
    <3>3. Cardinality(Holders(n)') <= Cardinality(Holders(n)) /\ Cardinality(Holders(n)') \in Nat
      BY <3>2, HoldersFinite, FS_Subset, FS_CardinalityType
    <3>4. Claimed(n) => active[n].count \in Nat
      BY DEF FaultInv, TypeOK, TrackerTypeOK, Claimed, Entry
    <3>5. Cardinality(Holders(n)) \in Nat
      BY HoldersFinite
    <3> QED BY <2>5, <3>1, <3>2, <3>3, <3>4, <3>5 DEF LoseStartResponse, Under, Claimed
  <2> QED BY <2>1, <2>3, <2>4, <2>5 DEF FaultNext
<1> QED BY <1>1, <1>2, FaultInvCorrect, PTL DEF FaultSpec

-----------------------------------------------------------------------------
(***************************************************************************)
(* The rules.  StillOwns(e) is what RulesStillOwned asks of an owner.      *)
(***************************************************************************)
StillOwns(e) ==
  ~isShadow[e] /\ (pc[e] \in {"started", "failed", "reverting"} \/ stopError[e])

\* A step of one execution does not change who else owns rules.
LEMMA StillOwnersStay ==
  ASSUME TypeOK, FaultFlags, NEW e \in Exec, Step(e), ~RevertSucceeds(e),
         NEW o \in Exec, StillOwns(o)
  PROVE  StillOwns(o)' \/ (o = e /\ StopNetnsGone(e))
BY DEF Step, Prepare, PrepareRefused, Start, StartUndecodable, StartAsShadow,
       StartAsPrimary, StartAsPassthrough, Apply, ApplySucceeds, ApplyFails, Stop,
       StopShadow, StopUndecodable, StopNetnsGone, StopReverts, Revert,
       RevertFails, DeferredRelease, BeginStop, Stoppable, MustRevert, Goto, flags,
       TypeOK, FaultFlags, StillOwns

\* Steps without a fault keep each rule owned.
LEMMA StillOwnedStep ==
  ASSUME TypeOK, FaultFlags, DeadEmpty, RulesStillOwned, [Next]_vars
  PROVE  RulesStillOwned'
<1>0. request' = request
  BY DEF Next, Step, Prepare, PrepareRefused, Start, StartUndecodable, StartAsShadow,
         StartAsPrimary, StartAsPassthrough, Apply, ApplySucceeds, ApplyFails, Stop,
         StopShadow, StopUndecodable, StopNetnsGone, StopReverts, Revert,
         RevertSucceeds, RevertFails, DeferredRelease, NetnsGone, Terminating, vars
<1>1. SUFFICES ASSUME NEW t \in Targets, NEW a \in rules'[t]
               PROVE  \E o \in Exec : target(o) = t /\ attack(o) = a /\ StillOwns(o)'
  BY <1>0 DEF RulesStillOwned, StillOwns, target, attack
<1>2. a \in rules[t] => \E o \in Exec : target(o) = t /\ attack(o) = a /\ StillOwns(o)
  BY DEF RulesStillOwned, StillOwns
<1>3. ASSUME NEW e \in Exec, Step(e), ~ApplySucceeds(e), ~RevertSucceeds(e)
      PROVE  \E o \in Exec : target(o) = t /\ attack(o) = a /\ StillOwns(o)'
  <2>1. rules' = rules
    BY <1>3 DEF Step, Prepare, PrepareRefused, Start, StartUndecodable,
         StartAsShadow, StartAsPrimary, StartAsPassthrough, Apply, ApplyFails, Stop,
         StopShadow, StopUndecodable, StopNetnsGone, StopReverts, Revert,
         RevertFails, DeferredRelease
  <2>2. PICK o \in Exec : target(o) = t /\ attack(o) = a /\ StillOwns(o)
    BY <1>1, <1>2, <2>1
  <2>3. ~(o = e /\ StopNetnsGone(e))
    BY <1>1, <2>1, <2>2 DEF StopNetnsGone, NamespacesExists, DeadEmpty
  <2> QED BY <1>3, <2>2, <2>3, StillOwnersStay
<1>4. ASSUME NEW e \in Exec, ApplySucceeds(e)
      PROVE  \E o \in Exec : target(o) = t /\ attack(o) = a /\ StillOwns(o)'
  <2>1. CASE target(e) = t /\ attack(e) = a
    <3>1. StillOwns(e)'
      BY <1>4 DEF ApplySucceeds, Goto, flags, TypeOK, FaultFlags, StillOwns
    <3> QED BY <2>1, <3>1
  <2>2. CASE ~(target(e) = t /\ attack(e) = a)
    <3>1. rules' = [rules EXCEPT ![target(e)] = @ \cup {attack(e)}]
      BY <1>4 DEF ApplySucceeds
    <3>2. a \in rules[t]
      BY <1>1, <2>2, <3>1, RequestType DEF TypeOK
    <3>3. PICK o \in Exec : target(o) = t /\ attack(o) = a /\ StillOwns(o)
      BY <1>2, <3>2
    <3>4. Step(e) /\ ~RevertSucceeds(e) /\ ~StopNetnsGone(e)
      BY <1>4 DEF Step, Apply, ApplySucceeds, RevertSucceeds, StopNetnsGone,
                  BeginStop, Stoppable, Goto
    <3> QED BY <3>3, <3>4, StillOwnersStay
  <2> QED BY <2>1, <2>2
<1>5. ASSUME NEW e \in Exec, RevertSucceeds(e)
      PROVE  \E o \in Exec : target(o) = t /\ attack(o) = a /\ StillOwns(o)'
  <2>1. rules' = [rules EXCEPT ![target(e)] = @ \ {attack(e)}]
    BY <1>5 DEF RevertSucceeds
  <2>2. a \in rules[t] /\ ~(target(e) = t /\ attack(e) = a)
    BY <1>1, <2>1, RequestType DEF TypeOK
  <2>3. PICK o \in Exec : target(o) = t /\ attack(o) = a /\ StillOwns(o)
    BY <1>2, <2>2
  <2>4. StillOwns(o)'
    BY <1>5, <2>2, <2>3 DEF RevertSucceeds, Goto, StillOwns, TypeOK
  <2> QED BY <2>3, <2>4
<1>6. ASSUME NEW n \in Netns, NetnsGone(n)
      PROVE  \E o \in Exec : target(o) = t /\ attack(o) = a /\ StillOwns(o)'
  <2>1. a \in rules[t]
    BY <1>1, <1>6 DEF NetnsGone, TypeOK
  <2>2. PICK o \in Exec : target(o) = t /\ attack(o) = a /\ StillOwns(o)
    BY <1>2, <2>1
  <2> QED BY <1>6, <2>2 DEF NetnsGone, flags, StillOwns
<1>7. CASE UNCHANGED vars
  BY <1>1, <1>2, <1>7 DEF vars, flags, StillOwns
<1> QED BY <1>3, <1>4, <1>5, <1>6, <1>7 DEF Next, Terminating

\* After a restart, the calls that were cut off are to be stopped.
LEMMA RestartOwned ==
  ASSUME TypeOK, FaultFlags, RulesStillOwned, Restart
  PROVE  RulesStillOwned'
<1>1. PICK applied \in SUBSET {e \in InStart : NetfaultAccepts(e)},
           reverted \in SUBSET {e \in InStop : pc[e] = "reverting"} :
        rules' = [t \in Targets |->
                    (rules[t] \cup AttacksOn(applied, t)) \ AttacksOn(reverted, t)]
  BY DEF Restart
<1>2. \A o \in Exec : StillOwns(o) \/ o \in InStart => StillOwns(o)'
  BY DEF Restart, StillOwns, InStart, InStop, FaultFlags, TypeOK
<1>3. request' = request
  BY DEF Restart
<1> SUFFICES ASSUME NEW t \in Targets, NEW a \in rules'[t]
             PROVE  \E o \in Exec : target(o) = t /\ attack(o) = a /\ StillOwns(o)'
  BY <1>3 DEF RulesStillOwned, StillOwns, target, attack
<1>4. CASE a \in rules[t]
  BY <1>2, <1>4 DEF RulesStillOwned, StillOwns
<1>5. CASE a \in AttacksOn(applied, t)
  <2>1. PICK o \in applied : target(o) = t /\ attack(o) = a
    BY <1>5 DEF AttacksOn
  <2>2. o \in Exec /\ o \in InStart
    BY DEF InStart
  <2> QED BY <1>2, <2>1, <2>2
<1> QED BY <1>1, <1>4, <1>5

(***************************************************************************)
(* For any number of executions and faults, every rule in a namespace has  *)
(* an owner whose Stop is still to come or has told its failure.           *)
(***************************************************************************)
THEOREM RulesStillOwnedCorrect == FaultSpec => []RulesStillOwned
<1>1. FaultInit => RulesStillOwned
  BY DEF FaultInit, Init, RulesStillOwned
<1>2. FaultInv /\ RulesStillOwned /\ [FaultNext]_faultVars => RulesStillOwned'
  <2> SUFFICES ASSUME FaultInv, RulesStillOwned, [FaultNext]_faultVars
               PROVE  RulesStillOwned'
    OBVIOUS
  <2>1. CASE (Next /\ UNCHANGED faults) \/ UNCHANGED faultVars
    BY <2>1, StillOwnedStep DEF FaultInv, faultVars
  <2>2. CASE Restart
    BY <2>2, RestartOwned DEF FaultInv
  <2>3. ASSUME NEW e \in Exec, StopAgain(e) \/ LoseStartResponse(e)
        PROVE  RulesStillOwned'
    <3>1. UNCHANGED <<rules, request>>
      BY <2>3 DEF StopAgain, LoseStartResponse
    <3>2. \A o \in Exec : StillOwns(o) => StillOwns(o)'
      BY <2>3 DEF StopAgain, LoseStartResponse, Goto, flags, StillOwns, FaultInv, TypeOK
    <3> QED BY <3>1, <3>2 DEF RulesStillOwned, StillOwns, target, attack
  <2> QED BY <2>1, <2>2, <2>3 DEF FaultNext
<1> QED BY <1>1, <1>2, FaultInvCorrect, PTL DEF FaultSpec
-----------------------------------------------------------------------------
(***************************************************************************)
(* Lost answers alone.  The count of a namespace may then be too high but  *)
(* never too low (NoForeignRelease), and this is all that the terms of its *)
(* entry need: who finds the namespace free finds it without holders.      *)
(***************************************************************************)
Terms == ClaimsAgree /\ SinglePrimary

\* A release changes the terms of no entry that is left.
LEMMA ReleaseKeepsTerms ==
  ASSUME TypeOK, NEW id \in Targets, releaseNetnsForAttack(id),
         NEW n \in Netns, Claimed(n)'
  PROVE  active'[n].opts = active[n].opts
<1>1. CASE ~Claimed(id) /\ UNCHANGED active
  BY <1>1
<1>2. CASE Claimed(id) /\ active' = [active EXCEPT ![id] = NoEntry]
  BY <1>2 DEF Claimed, TypeOK, TrackerTypeOK
<1>3. CASE Claimed(id) /\ active' = [active EXCEPT ![id].count = @ - 1]
  <2>1. active[id] \in Entry /\ id \in Netns
    BY <1>3 DEF Claimed, TypeOK, TrackerTypeOK
  <2> QED BY <1>3, <2>1 DEF Entry, TypeOK, TrackerTypeOK
<1> QED BY <1>1, <1>2, <1>3 DEF releaseNetnsForAttack

\* The first to claim a namespace sets the terms; there is nobody else.
LEMMA PrimaryTerms ==
  ASSUME TypeOK, FaultFlags, Terms, \A n \in Netns : Under(n),
         NEW e \in Exec, StartAsPrimary(e)
  PROVE  Terms'
<1>0. PICK t \in Targets : t = target(e)
  BY RequestType
<1>1. \A n \in Netns : /\ n = t => Holders(n)' = Holders(n) \cup {e}
                       /\ n # t => Holders(n)' = Holders(n)
  BY <1>0 DEF StartAsPrimary, Goto, TypeOK, FaultFlags, Holders, target
<1>2. t \in Netns => Holders(t)' = {e}
  BY <1>0, <1>1 DEF StartAsPrimary, ClaimPrimary, Under
<1>3. UNCHANGED <<request, isShadow>>
  BY DEF StartAsPrimary
<1>4. \A n \in Netns : n # t => active'[n] = active[n]
  BY <1>0 DEF StartAsPrimary, ClaimPrimary
<1>5. t \in Netns => active'[t].opts = [attack |-> attack(e), experiment |-> request[e].experiment]
  BY <1>0 DEF StartAsPrimary, ClaimPrimary, NetworkOpts, normalizeOptsForDedup
<1>6. ClaimsAgree'
  BY <1>0, <1>1, <1>2, <1>3, <1>4, <1>5 DEF Terms, ClaimsAgree, attack
<1>7. SinglePrimary'
  BY <1>0, <1>1, <1>2, <1>3 DEF Terms, SinglePrimary
<1> QED BY <1>6, <1>7 DEF Terms

\* A shadow takes the terms it finds.
LEMMA ShadowTerms ==
  ASSUME TypeOK, FaultFlags, Terms, NEW e \in Exec, StartAsShadow(e)
  PROVE  Terms'
<1>0. PICK t \in Targets : t = target(e)
  BY RequestType
<1>1. t \in Netns /\ active[t] \in Entry
  BY <1>0 DEF StartAsShadow, ClaimShadow, Claimed, TypeOK, TrackerTypeOK
<1>2. \A n \in Netns : /\ n = t => Holders(n)' = Holders(n) \cup {e}
                       /\ n # t => Holders(n)' = Holders(n)
  BY <1>0 DEF StartAsShadow, Goto, TypeOK, FaultFlags, Holders, target
<1>3. active' = [active EXCEPT ![t].count = @ + 1]
  BY <1>0 DEF StartAsShadow, ClaimShadow
<1>4. \A n \in Netns : /\ n # t => active'[n] = active[n]
                       /\ n = t => active'[n].opts = active[n].opts
  BY <1>1, <1>3 DEF TypeOK, TrackerTypeOK, Entry
<1>5. request' = request /\ isShadow' = [isShadow EXCEPT ![e] = TRUE]
  BY DEF StartAsShadow
<1>6. active[t].opts = [attack |-> attack(e), experiment |-> request[e].experiment]
  BY <1>0 DEF StartAsShadow, ClaimShadow, NetworkOpts, normalizeOptsForDedup
<1>7. ClaimsAgree'
  BY <1>1, <1>2, <1>4, <1>5, <1>6 DEF Terms, ClaimsAgree, attack
<1>8. SinglePrimary'
  BY <1>2, <1>5 DEF Terms, SinglePrimary, TypeOK
<1> QED BY <1>7, <1>8 DEF Terms

\* No step of a handler mixes the terms of a namespace that is not undercounted.
LEMMA TermsStep ==
  ASSUME TypeOK, FaultFlags, Terms, \A n \in Netns : Under(n), [Next]_vars
  PROVE  Terms'
<1>0. \A n \in Netns : Under(n)'
  BY BoundsStep
<1>1. ASSUME UNCHANGED <<request, isShadow>>,
             \A n \in Netns : Holders(n)' \subseteq Holders(n),
             \A n \in Netns : Claimed(n)' => active'[n].opts = active[n].opts
      PROVE  Terms'
  <2>1. \A n \in Netns : Holders(n)' # {} => active'[n].opts = active[n].opts
    BY <1>0, <1>1 DEF Under
  <2>2. ClaimsAgree'
    BY <1>1, <2>1 DEF Terms, ClaimsAgree, attack
  <2>3. SinglePrimary'
    BY <1>1 DEF Terms, SinglePrimary
  <2> QED BY <2>2, <2>3 DEF Terms
<1>2. ASSUME NEW e \in Exec, Step(e), ~StartAsPrimary(e), ~StartAsShadow(e)
      PROVE  Terms'
  <2>1. CASE \/ Prepare(e) \/ PrepareRefused(e) \/ StartUndecodable(e)
             \/ StartAsPassthrough(e) \/ ApplySucceeds(e) \/ Stop(e) \/ Revert(e)
    <3>1. /\ UNCHANGED <<active, request, isShadow, netnsClaimed>>
          /\ \A f \in Exec : pc'[f] = "stopped" <=> pc[f] = "stopped"
      BY <2>1 DEF Prepare, PrepareRefused, StartUndecodable, StartAsPassthrough,
           ClaimPassthrough, ApplySucceeds, Stop, BeginStop, Stoppable, StopShadow,
           StopUndecodable, StopNetnsGone, StopReverts, Revert, RevertSucceeds,
           RevertFails, Goto, flags, TypeOK
    <3>2. \A n \in Netns : Holders(n)' = Holders(n)
      BY <3>1 DEF Holders, target
    <3> QED BY <1>1, <3>1, <3>2
  <2>2. CASE ApplyFails(e) \/ DeferredRelease(e)
    <3>1. /\ ReleaseClaim(e) /\ UNCHANGED <<request, isShadow>>
          /\ \A n \in Netns : Holders(n)' = Holders(n) \ {e}
      BY <2>2 DEF ApplyFails, DeferredRelease, Goto, flags, Holders, target, TypeOK
    <3>2. \A n \in Netns : Claimed(n)' => active'[n].opts = active[n].opts
      BY <3>1, RequestType, ReleaseKeepsTerms DEF ReleaseClaim
    <3> QED BY <1>1, <3>1, <3>2
  <2> QED BY <1>2, <2>1, <2>2 DEF Step, Start, Apply
<1>3. CASE (\E n \in Netns : NetnsGone(n)) \/ UNCHANGED vars
  <2>1. UNCHANGED <<active, request, isShadow, netnsClaimed, pc>>
    BY <1>3 DEF NetnsGone, vars, flags
  <2>2. \A n \in Netns : Holders(n)' = Holders(n)
    BY <2>1 DEF Holders, target
  <2> QED BY <1>1, <2>1, <2>2
<1> QED BY <1>2, <1>3, PrimaryTerms, ShadowTerms DEF Next, Terminating
\* Once a restart or a repeated Stop has happened it has happened.
LEMMA OnlyLostBefore ==
  ASSUME CountsOK, [FaultNext]_faultVars, OnlyLost'
  PROVE  /\ OnlyLost
         /\ \/ [Next]_vars
            \/ \E e \in Exec : LoseStartResponse(e)
<1>0. faults["restart"] \in Nat /\ faults["dupStop"] \in Nat
  BY DEF CountsOK, FaultKinds
<1>1. CASE Next /\ UNCHANGED faults
  BY <1>1 DEF OnlyLost
<1>2. CASE Restart
  <2>1. faults'["restart"] = faults["restart"] + 1
    BY <1>2, FaultCounted DEF Restart, FaultKinds
  <2> QED BY <1>0, <2>1 DEF OnlyLost
<1>3. ASSUME NEW e \in Exec, StopAgain(e) PROVE FALSE
  <2>1. faults'["dupStop"] = faults["dupStop"] + 1
    BY <1>3, FaultCounted DEF StopAgain, FaultKinds
  <2> QED BY <1>0, <2>1 DEF OnlyLost
<1>4. ASSUME NEW e \in Exec, LoseStartResponse(e)
      PROVE  OnlyLost
  <2>1. faults'["restart"] = faults["restart"] /\ faults'["dupStop"] = faults["dupStop"]
    BY <1>4, FaultCounted DEF LoseStartResponse, FaultKinds
  <2> QED BY <2>1 DEF OnlyLost
<1>5. CASE UNCHANGED faultVars
  BY <1>5 DEF faultVars, OnlyLost
<1> QED BY <1>1, <1>2, <1>3, <1>4, <1>5 DEF FaultNext

\* An execution whose answer is lost holds nothing any more.
LEMMA LoseKeepsTerms ==
  ASSUME TypeOK, Terms, NEW e \in Exec, LoseStartResponse(e)
  PROVE  Terms'
<1>1. /\ UNCHANGED <<active, request>>
      /\ pc' = [pc EXCEPT ![e] = "failed"]
      /\ isShadow' = [isShadow EXCEPT ![e] = FALSE]
      /\ netnsClaimed' = [netnsClaimed EXCEPT ![e] = FALSE]
  BY DEF LoseStartResponse, Goto
<1>2. \A n \in Netns : \A o \in Holders(n)' : o \in Holders(n) /\ o # e
  BY <1>1 DEF Holders, target, TypeOK
<1>3. ClaimsAgree'
  BY <1>1, <1>2 DEF Terms, ClaimsAgree, attack
<1>4. \A o \in Exec : o # e => isShadow'[o] = isShadow[o]
  BY <1>1 DEF TypeOK
<1>5. SinglePrimary'
  <2> SUFFICES ASSUME NEW n \in Netns, NEW x \in Holders(n)', NEW y \in Holders(n)',
                      ~isShadow'[x], ~isShadow'[y]
               PROVE  x = y
    BY DEF SinglePrimary
  <2>1. x \in Holders(n) /\ x # e /\ y \in Holders(n) /\ y # e
    BY <1>2
  <2>2. ~isShadow[x] /\ ~isShadow[y]
    BY <1>4, <2>1 DEF Holders
  <2> QED BY <2>1, <2>2 DEF Terms, SinglePrimary
<1> QED BY <1>3, <1>5 DEF Terms

(***************************************************************************)
(* For any number of executions and of lost answers of Start, the claims   *)
(* still to be released are of one attack and experiment and have one      *)
(* primary.                                                                *)
(***************************************************************************)
THEOREM LossContainedCorrect == FaultSpec => []LossContained
<1> DEFINE Inv == OnlyLost => Terms
<1>1. FaultInit => Inv
  BY ClaimsInit DEF FaultInit, Terms, Claims
<1>2. FaultInv /\ NoForeignRelease /\ Inv /\ [FaultNext]_faultVars => Inv'
  <2> SUFFICES ASSUME FaultInv, NoForeignRelease, Inv, [FaultNext]_faultVars, OnlyLost'
               PROVE  Terms'
    OBVIOUS
  <2>1. OnlyLost /\ ([Next]_vars \/ \E e \in Exec : LoseStartResponse(e))
    BY OnlyLostBefore DEF FaultInv
  <2>2. Terms /\ TypeOK /\ FaultFlags
    BY <2>1 DEF FaultInv
  <2>3. \A n \in Netns : Under(n)
    BY <2>1 DEF OnlyLost, NoForeignRelease, Under
  <2>4. CASE [Next]_vars
    BY <2>2, <2>3, <2>4, TermsStep
  <2>5. CASE \E e \in Exec : LoseStartResponse(e)
    BY <2>2, <2>5, LoseKeepsTerms
  <2> QED BY <2>1, <2>4, <2>5
<1>3. Inv => LossContained
  BY DEF LossContained, Terms
<1> QED BY <1>1, <1>2, <1>3, FaultInvCorrect, NoForeignReleaseCorrect, PTL DEF FaultSpec
-----------------------------------------------------------------------------
(***************************************************************************)
(* The host network.  Whatever state a call comes with, its execution has  *)
(* passed Prepare: no fault takes anybody past the check.                  *)
(***************************************************************************)
Checked == \A e \in Exec : pc[e] \notin {"idle", "refused"} => MayAttack(e)

\* No step, with or without a fault, gets an execution past Prepare's check.
LEMMA CheckedStep ==
  ASSUME FaultInv, Checked, [FaultNext]_faultVars
  PROVE  Checked'
<1> USE DEF FaultInv, TypeOK, Checked, MayAttack, target, Goto
<1>1. ASSUME NEW e \in Exec, Step(e)
      PROVE  Checked'
  <2>1. request' = request
    BY <1>1 DEF Step, Prepare, PrepareRefused, Start, StartUndecodable,
         StartAsShadow, StartAsPrimary, StartAsPassthrough, Apply, ApplySucceeds,
         ApplyFails, Stop, StopShadow, StopUndecodable, StopNetnsGone, StopReverts,
         Revert, RevertSucceeds, RevertFails, DeferredRelease
  <2>2. CASE Prepare(e)
    BY <2>1, <2>2 DEF Prepare
  <2>3. CASE PrepareRefused(e)
    BY <2>1, <2>3 DEF PrepareRefused
  <2>4. CASE ~Prepare(e) /\ ~PrepareRefused(e)
    <3>1. /\ pc[e] \notin {"idle", "refused"}
          /\ \A o \in Exec : o # e => pc'[o] = pc[o]
      BY <1>1, <2>4 DEF Step, Start, StartUndecodable, StartAsShadow, StartAsPrimary,
           StartAsPassthrough, Apply, ApplySucceeds, ApplyFails, Stop, StopShadow,
           StopUndecodable, StopNetnsGone, StopReverts, Revert, RevertSucceeds,
           RevertFails, DeferredRelease, BeginStop, Stoppable
    <3> QED BY <2>1, <3>1
  <2> QED BY <2>2, <2>3, <2>4
<1>2. CASE (\E n \in Netns : NetnsGone(n)) \/ UNCHANGED vars
  BY <1>2 DEF NetnsGone, vars
<1>3. CASE Restart
  BY <1>3 DEF Restart, InStart, InStop
<1>4. ASSUME NEW e \in Exec, StopAgain(e) \/ LoseStartResponse(e)
      PROVE  Checked'
  BY <1>4 DEF StopAgain, LoseStartResponse
<1> QED BY <1>1, <1>2, <1>3, <1>4 DEF FaultNext, Next, Terminating, faultVars

(***************************************************************************)
(* For any number of executions and faults, no attack and no claim reaches *)
(* a host network that was to be spared.                                   *)
(***************************************************************************)
THEOREM HostNetworkSparedDespiteFaults == FaultSpec => []HostNetworkSpared
<1>1. FaultInit => Checked
  BY DEF FaultInit, Init, Checked
<1>2. FaultInv /\ Checked /\ [FaultNext]_faultVars => Checked'
  BY CheckedStep
<1>3. FaultInv /\ Checked /\ RulesStillOwned => HostNetworkSpared
  <2> SUFFICES ASSUME FaultInv, Checked, RulesStillOwned, NEW t \in {HostNetns, NoNetns}
               PROVE  /\ DisallowHostNetwork => rules[t] = {} /\ Holders(t) = {}
                      /\ \A e \in Holders(t) : ~request[e].failOnHostNetwork
    BY DEF HostNetworkSpared
  <2>1. ASSUME NEW e \in Exec, target(e) = t, pc[e] \notin {"idle", "refused"}
        PROVE  ~DisallowHostNetwork /\ ~request[e].failOnHostNetwork
    BY <2>1 DEF Checked, MayAttack, isUsingHostNetwork
  <2>2. \A e \in Holders(t) : ~DisallowHostNetwork /\ ~request[e].failOnHostNetwork
    BY <2>1 DEF Holders, FaultInv, FaultFlags
  <2>3. rules[t] # {} => ~DisallowHostNetwork
    <3>1. t \in Targets
      BY NetworkAssumption DEF Targets
    <3>2. ASSUME NEW a \in rules[t]
          PROVE  \E e \in Exec : target(e) = t /\ pc[e] \notin {"idle", "refused"}
      BY <3>1 DEF FaultInv, FaultFlags, RulesStillOwned
    <3> QED BY <2>1, <3>2
  <2> QED BY <2>2, <2>3
<1> QED BY <1>1, <1>2, <1>3, FaultInvCorrect, RulesStillOwnedCorrect, PTL DEF FaultSpec
=============================================================================

----------------------- MODULE NetworkActionRefinement ----------------------
(***************************************************************************)
(* NetworkAction implements NetnsLease: the initial states are initial     *)
(* states of the lease, and every step is a step of the lease or leaves it *)
(* as it is.                                                               *)
(***************************************************************************)
EXTENDS NetworkActionProofs

\* The initial states map to the initial state of the lease.
LEMMA LeaseInitially ==
  ASSUME Init, TypeOK
  PROVE  Lease!LeaseInit
<1>1. \A n : Holders(n) = {}
  BY DEF Init, Holders
<1>2. \A n \in Netns : ~Claimed(n)
  BY DEF Init, TrackerInit, Claimed
<1>3. LeaseWanted \in [Exec -> NormalizedOpts]
  BY RequestType DEF LeaseWanted, normalizeOptsForDedup, NormalizedOpts, RawOpts
<1> QED BY <1>1, <1>2, <1>3
        DEF Lease!LeaseInit, LeasePrimaries, LeaseShadows, LeaseTerms

\* What an execution wants of the lease is settled once it has been prepared.
LEMMA WantedStays ==
  ASSUME request' = request
  PROVE  LeaseWanted' = LeaseWanted
BY DEF LeaseWanted, normalizeOptsForDedup, NetworkOpts, attack

\* Nobody claims and nobody releases.
LEMMA LeaseStutters ==
  ASSUME UNCHANGED <<active, request>>,
         \A n \in Netns : Holders(n)' = Holders(n),
         \A n \in Netns : \A e \in Holders(n) : isShadow'[e] = isShadow[e]
  PROVE  UNCHANGED Lease!leaseVars
<1>1. LeaseWanted' = LeaseWanted
  BY WantedStays
<1>2. LeaseTerms' = LeaseTerms
  BY DEF LeaseTerms, Claimed
<1>3. LeasePrimaries' = LeasePrimaries /\ LeaseShadows' = LeaseShadows
  BY DEF LeasePrimaries, LeaseShadows
<1> QED BY <1>1, <1>2, <1>3 DEF Lease!leaseVars

\* ClaimPrimary acquires the lease.
LEMMA PrimaryAcquires ==
  ASSUME ClaimsInv, NEW e \in Exec, StartAsPrimary(e)
  PROVE  [Lease!LeaseNext]_(Lease!leaseVars)
<1> USE DEF ClaimsInv
<1>0. PICK t \in Targets : t = target(e)
  BY RequestType
<1>1. Joins(e) /\ isShadow' = isShadow /\ ~isShadow[e] /\ ~Claimed(t)
  BY <1>0 DEF StartAsPrimary, Joins, Goto, FlagsOK, ClaimPrimary, TypeOK
<1>2. \A n \in Netns : /\ e \notin Holders(n)
                       /\ n = t => Holders(n)' = Holders(n) \cup {e}
                       /\ n # t => Holders(n)' = Holders(n)
  BY <1>0, <1>1, HoldersJoin
<1>3. request' = request
  BY DEF StartAsPrimary
<1>4. active' = [n \in Netns |->
                  IF n = t
                  THEN [count |-> 1, opts |-> normalizeOptsForDedup(NetworkOpts(e))]
                  ELSE active[n]]
  BY <1>0 DEF StartAsPrimary, ClaimPrimary
<1>5. CASE t \in Netns
  <2>1. Holders(t) = {}
    BY <1>1, <1>5 DEF RefCount
  <2>2. Claims'
    BY PrimaryJoins DEF Claims
  <2>3. Claimed(t)'
    BY <1>2, <1>5, <2>2 DEF Claims, RefCount
  <2>4. \A n \in Netns : n # t => Claimed(n)' = Claimed(n) /\ active'[n] = active[n]
    BY <1>4 DEF Claimed
  <2>5. LeaseTerms' = [LeaseTerms EXCEPT ![t] = LeaseWanted[e]]
    BY <1>4, <1>5, <2>3, <2>4 DEF LeaseTerms, LeaseWanted
  <2>6. LeasePrimaries' = [LeasePrimaries EXCEPT ![t] = {e}]
    BY <1>1, <1>2, <1>5, <2>1 DEF LeasePrimaries
  <2>7. LeaseShadows' = LeaseShadows
    BY <1>1, <1>2, <1>5, <2>1 DEF LeaseShadows
  <2>8. LeaseTerms[t] = NoEntry
    BY <1>1, <1>5 DEF LeaseTerms
  <2>9. Lease!Acquire(e, t)
    BY <1>3, <2>5, <2>6, <2>7, <2>8, WantedStays DEF Lease!Acquire
  <2> QED BY <1>5, <2>9 DEF Lease!LeaseNext
<1>6. CASE t \notin Netns
  <2>1. active' = active
    BY <1>4, <1>6 DEF TypeOK, TrackerTypeOK
  <2> QED BY <1>1, <1>2, <1>3, <1>6, <2>1, LeaseStutters
<1> QED BY <1>5, <1>6

\* ClaimShadow follows the primary of its terms.
LEMMA ShadowFollows ==
  ASSUME ClaimsInv, NEW e \in Exec, StartAsShadow(e)
  PROVE  Lease!LeaseNext
<1> USE DEF ClaimsInv
<1>0. PICK t \in Targets : t = target(e)
  BY RequestType
<1>1. /\ Joins(e) /\ isShadow' = [isShadow EXCEPT ![e] = TRUE]
      /\ t \in Netns /\ active[t] # NoEntry
      /\ active[t].opts = normalizeOptsForDedup(NetworkOpts(e))
  BY <1>0 DEF StartAsShadow, Joins, Goto, ClaimShadow, Claimed, TypeOK
<1>2. \A n \in Netns : /\ e \notin Holders(n)
                       /\ n = t => Holders(n)' = Holders(n) \cup {e}
                       /\ n # t => Holders(n)' = Holders(n)
  BY <1>0, <1>1, HoldersJoin
<1>3. request' = request
  BY DEF StartAsShadow
<1>4. active' = [active EXCEPT ![t].count = @ + 1] /\ active[t] \in Entry
  BY <1>0, <1>1 DEF StartAsShadow, ClaimShadow, TypeOK, TrackerTypeOK
<1>5. Claimed(t)' /\ Claimed(t)
  <2>1. Claims'
    BY ShadowJoins DEF Claims
  <2> QED BY <1>1, <1>2, <2>1 DEF Claims, RefCount, Claimed
<1>6. active'[t].opts = active[t].opts
  BY <1>1, <1>4 DEF TypeOK, TrackerTypeOK, Entry
<1>7. \A n \in Netns : n # t => active'[n] = active[n] /\ Claimed(n)' = Claimed(n)
  BY <1>1, <1>4 DEF TypeOK, TrackerTypeOK, Claimed
<1>8. LeaseTerms' = LeaseTerms
  BY <1>5, <1>6, <1>7 DEF LeaseTerms
<1>9. LeaseShadows' = [LeaseShadows EXCEPT ![t] = @ \cup {e}]
  <2>1. \A f \in Exec : isShadow'[f] <=> isShadow[f] \/ f = e
    BY <1>1 DEF TypeOK
  <2>2. \A n \in Netns : Holders(n) \subseteq Exec
    BY DEF Holders
  <2>3. LeaseShadows'[t] = LeaseShadows[t] \cup {e}
    BY <1>1, <1>2, <2>1, <2>2 DEF LeaseShadows
  <2>4. \A n \in Netns : n # t => LeaseShadows'[n] = LeaseShadows[n]
    BY <1>2, <2>1, <2>2 DEF LeaseShadows
  <2> QED BY <1>1, <2>3, <2>4 DEF LeaseShadows
<1>10. LeasePrimaries' = LeasePrimaries
  BY <1>1, <1>2 DEF LeasePrimaries, TypeOK, Holders
<1>11. LeaseTerms[t] = LeaseWanted[e]
  BY <1>1, <1>5 DEF LeaseTerms, LeaseWanted
<1>12. ~Lease!Holds(e, t)
  BY <1>1, <1>2 DEF Lease!Holds, LeasePrimaries, LeaseShadows
<1>13. Lease!Follow(e, t)
  BY <1>3, <1>8, <1>9, <1>10, <1>11, <1>12, WantedStays DEF Lease!Follow
<1> QED BY <1>1, <1>13 DEF Lease!LeaseNext

\* A release leaves the lease, and ends the term with its last holder.
LEMMA HolderLeavesLease ==
  ASSUME ClaimsInv, [Next]_vars, NEW e \in Exec, netnsClaimed[e], pc[e] # "stopped",
         releaseNetnsForAttack(target(e)), UNCHANGED <<request, isShadow>>,
         \A n \in Netns : Holders(n)' = Holders(n) \ {e}
  PROVE  [Lease!LeaseNext]_(Lease!leaseVars)
<1> USE DEF ClaimsInv
<1>0. PICK t \in Targets : t = target(e)
  BY RequestType
<1>1. \A n \in Netns : e \in Holders(n) <=> n = t
  BY <1>0 DEF Holders
<1>2. Claims'
  BY ClaimsStep DEF Claims
<1>3. \A n \in Netns : (Claimed(n) <=> Holders(n) # {}) /\ (Claimed(n)' <=> Holders(n)' # {})
  <2>1. ASSUME NEW n \in Netns, Claimed(n)
        PROVE  Holders(n) # {}
    <3>1. active[n].count = Cardinality(Holders(n))
      BY <2>1 DEF RefCount
    <3>2. active[n].count # 0
      BY <2>1 DEF Claimed, TypeOK, TrackerTypeOK, Entry
    <3> QED BY ONLY <3>1, <3>2, FS_EmptySet
  <2>2. TypeOK'
    BY TypeStep
  <2>3. ASSUME NEW n \in Netns, Claimed(n)'
        PROVE  Holders(n)' # {}
    <3>1. active'[n].count = Cardinality(Holders(n)')
      BY <1>2, <2>3 DEF Claims, RefCount
    <3>2. active'[n].count # 0
      BY <2>2, <2>3 DEF Claimed, TypeOK, TrackerTypeOK, Entry
    <3> QED BY ONLY <3>1, <3>2, FS_EmptySet
  <2> QED BY <1>2, <2>1, <2>3 DEF Claims, RefCount
<1>4. CASE t \in Netns
  <2>1. \A n \in Netns : n # t => active'[n] = active[n] /\ Holders(n)' = Holders(n)
    <3>1. \A n \in Netns : n # t => Holders(n)' = Holders(n)
      BY <1>1
    <3>2. \A n \in Netns : n # t => active'[n] = active[n]
      BY <1>0 DEF releaseNetnsForAttack, Claimed, TypeOK, TrackerTypeOK
    <3> QED BY <3>1, <3>2
  <2>2. Claimed(t)' => active'[t].opts = active[t].opts
    BY <1>0, <1>4 DEF releaseNetnsForAttack, Claimed, TypeOK, TrackerTypeOK, Entry
  <2>3. Claimed(t)' <=> Holders(t) # {e}
    BY <1>1, <1>3, <1>4
  <2>4. Holders(t) = LeasePrimaries[t] \cup LeaseShadows[t]
    BY <1>4 DEF LeasePrimaries, LeaseShadows
  <2>5. LeaseTerms' = [LeaseTerms EXCEPT ![t] =
                         IF LeasePrimaries[t] \cup LeaseShadows[t] = {e}
                         THEN NoEntry ELSE @]
    <3>1. LeaseTerms'[t] = IF Holders(t) = {e} THEN NoEntry ELSE LeaseTerms[t]
      BY <1>1, <1>3, <1>4, <2>2, <2>3 DEF LeaseTerms
    <3>2. \A n \in Netns : n # t => LeaseTerms'[n] = LeaseTerms[n]
      BY <1>3, <2>1 DEF LeaseTerms
    <3> QED BY <1>4, <2>4, <3>1, <3>2 DEF LeaseTerms
  <2>6. LeasePrimaries' = [LeasePrimaries EXCEPT ![t] = @ \ {e}]
    BY <1>4, <2>1 DEF LeasePrimaries
  <2>7. LeaseShadows' = [LeaseShadows EXCEPT ![t] = @ \ {e}]
    BY <1>4, <2>1 DEF LeaseShadows
  <2>8. Lease!Holds(e, t)
    BY <1>1, <1>4, <2>4 DEF Lease!Holds
  <2>9. Lease!Leave(e, t)
    BY <2>5, <2>6, <2>7, <2>8, WantedStays DEF Lease!Leave
  <2> QED BY <1>4, <2>9 DEF Lease!LeaseNext
<1>5. CASE t \notin Netns
  <2>1. active' = active
    BY <1>0, <1>5 DEF releaseNetnsForAttack, Claimed
  <2>2. \A n \in Netns : Holders(n)' = Holders(n)
    BY <1>1, <1>5
  <2> QED BY <2>1, <2>2, LeaseStutters
<1> QED BY <1>4, <1>5

\* Every step is a step of the lease or leaves it alone.
LEMMA LeaseStep ==
  ASSUME ClaimsInv, [Next]_vars
  PROVE  [Lease!LeaseNext]_(Lease!leaseVars)
<1> USE DEF ClaimsInv
<1>1. ASSUME NEW e \in Exec, Step(e)
      PROVE  [Lease!LeaseNext]_(Lease!leaseVars)
  <2>1. CASE \/ Prepare(e) \/ PrepareRefused(e) \/ StartUndecodable(e)
             \/ StartAsPassthrough(e) \/ ApplySucceeds(e) \/ Stop(e) \/ Revert(e)
    <3>1. /\ UNCHANGED <<active, request, isShadow, netnsClaimed>>
          /\ \A f \in Exec : pc'[f] = "stopped" <=> pc[f] = "stopped"
      BY <2>1 DEF Prepare, PrepareRefused, StartUndecodable, StartAsPassthrough,
           ClaimPassthrough, ApplySucceeds, Stop, BeginStop, Stoppable, StopShadow,
           StopUndecodable, StopNetnsGone, StopReverts, Revert, RevertSucceeds,
           RevertFails, Goto, flags, TypeOK
    <3>2. \A n \in Netns : Holders(n)' = Holders(n)
      BY <3>1 DEF Holders, target
    <3> QED BY <3>1, <3>2, LeaseStutters
  <2>2. CASE StartAsShadow(e)
    BY <2>2, ShadowFollows
  <2>3. CASE StartAsPrimary(e)
    BY <2>3, PrimaryAcquires
  <2>4. CASE ApplyFails(e) \/ DeferredRelease(e)
    <3>1. /\ ReleaseClaim(e) /\ pc[e] # "stopped" /\ UNCHANGED <<request, isShadow>>
          /\ \A n \in Netns : Holders(n)' = Holders(n) \ {e}
      BY <2>4 DEF ApplyFails, DeferredRelease, Goto, flags, Holders, target, TypeOK
    <3>2. CASE netnsClaimed[e]
      BY <3>1, <3>2, HolderLeavesLease DEF ReleaseClaim
    <3>3. CASE ~netnsClaimed[e]
      <4>1. \A n \in Netns : Holders(n)' = Holders(n)
        BY <3>1, <3>3 DEF Holders
      <4> QED BY <3>1, <3>3, <4>1, LeaseStutters DEF ReleaseClaim
    <3> QED BY <3>2, <3>3
  <2> QED BY <1>1, <2>1, <2>2, <2>3, <2>4 DEF Step, Start, Apply
<1>2. CASE (\E n \in Netns : NetnsGone(n)) \/ UNCHANGED vars
  <2>1. UNCHANGED <<active, request, isShadow, netnsClaimed, pc>>
    BY <1>2 DEF NetnsGone, vars, flags
  <2>2. \A n \in Netns : Holders(n)' = Holders(n)
    BY <2>1 DEF Holders, target
  <2> QED BY <2>1, <2>2, LeaseStutters
<1> QED BY <1>1, <1>2 DEF Next, Terminating

\* The tracker, as the executions use it, implements the lease.
THEOREM LeaseImplemented == Spec => ImplementsLease
<1>1. Init => Lease!LeaseInit
  BY LeaseInitially, TypeInit
<1>2. ClaimsInv /\ [Next]_vars => [Lease!LeaseNext]_(Lease!leaseVars)
  BY LeaseStep
<1> QED BY <1>1, <1>2, ClaimsCorrect, PTL DEF Spec, ImplementsLease, Lease!LeaseSpec

-----------------------------------------------------------------------------
(***************************************************************************)
(* What the lease promises, for every behaviour it allows; with            *)
(* LeaseImplemented the tracker promises it, too.  The proofs look at the  *)
(* variables of the lease only.                                            *)
(***************************************************************************)
LeaseInv == Lease!LeaseTypeOK /\ Lease!LeasePromise

\* A lease is acquired while nobody holds it, and followed on its terms.
LEMMA LeaseInvStep ==
  ASSUME LeaseInv, Lease!LeaseNext
  PROVE  LeaseInv'
<1> USE DEF LeaseInv, Lease!LeaseTypeOK, Lease!LeasePromise
<1>0. NoEntry \notin NormalizedOpts
  BY TrackerAssumption
<1>1. ASSUME NEW e \in Exec, NEW n \in Netns, Lease!Acquire(e, n)
      PROVE  LeaseInv'
  BY <1>0, <1>1 DEF Lease!Acquire
<1>2. ASSUME NEW e \in Exec, NEW n \in Netns, Lease!Follow(e, n)
      PROVE  LeaseInv'
  BY <1>0, <1>2 DEF Lease!Follow, Lease!Holds
<1>3. ASSUME NEW e \in Exec, NEW n \in Netns, Lease!Leave(e, n)
      PROVE  LeaseInv'
  BY <1>0, <1>3 DEF Lease!Leave, Lease!Holds
<1> QED BY <1>1, <1>2, <1>3 DEF Lease!LeaseNext

\* The invariant of the lease, from its specification alone.
LEMMA LeaseInvCorrect == Lease!LeaseSpec => []LeaseInv
<1>1. Lease!LeaseInit => LeaseInv
  BY DEF Lease!LeaseInit, LeaseInv, Lease!LeaseTypeOK, Lease!LeasePromise
<1>2. LeaseInv /\ [Lease!LeaseNext]_(Lease!leaseVars) => LeaseInv'
  <2>1. LeaseInv /\ UNCHANGED Lease!leaseVars => LeaseInv'
    BY DEF LeaseInv, Lease!LeaseTypeOK, Lease!LeasePromise, Lease!leaseVars
  <2> QED BY <2>1, LeaseInvStep
<1> QED BY <1>1, <1>2, PTL DEF Lease!LeaseSpec

\* The tracker keeps the promise of the lease, on the ground of the refinement.
THEOREM LeasePromiseCorrect == Spec => []Lease!LeasePromise
<1>1. LeaseInv => Lease!LeasePromise
  BY DEF LeaseInv
<1> QED BY <1>1, LeaseInvCorrect, LeaseImplemented, PTL DEF ImplementsLease

\* A lease keeps its terms and its primary, on the ground of the refinement.
THEOREM LeaseSettledCorrect == Spec => Lease!LeaseSettled
<1>1. LeaseInv /\ [Lease!LeaseNext]_(Lease!leaseVars) =>
        [\A n \in Netns : LeaseTerms[n] # NoEntry =>
           /\ LeaseTerms'[n] \in {LeaseTerms[n], NoEntry}
           /\ LeasePrimaries'[n] \subseteq LeasePrimaries[n]]_(Lease!leaseVars)
  <2> SUFFICES ASSUME LeaseInv, Lease!LeaseNext, NEW n \in Netns, LeaseTerms[n] # NoEntry
               PROVE  /\ LeaseTerms'[n] \in {LeaseTerms[n], NoEntry}
                      /\ LeasePrimaries'[n] \subseteq LeasePrimaries[n]
    OBVIOUS
  <2> QED BY DEF LeaseInv, Lease!LeaseTypeOK, Lease!LeaseNext, Lease!Acquire,
                 Lease!Follow, Lease!Leave
<1> QED BY <1>1, LeaseInvCorrect, LeaseImplemented, PTL
        DEF ImplementsLease, Lease!LeaseSpec, Lease!LeaseSettled
=============================================================================

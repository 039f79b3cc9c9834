------------------------- MODULE NetworkActionProofs ------------------------
(***************************************************************************)
(* Proofs about NetworkAction, for any number of executions, namespaces,   *)
(* attacks and experiments.                                                *)
(***************************************************************************)
EXTENDS NetworkAction, TLAPS, FiniteSetTheorems

-----------------------------------------------------------------------------
(***************************************************************************)
(* Type correctness.                                                       *)
(***************************************************************************)

\* Whatever a claim or a release does, the tracker stays well-typed.
LEMMA ClaimType ==
  ASSUME TrackerTypeOK, NEW id \in Targets, NEW o \in RawOpts,
         \/ ClaimPrimary(id, o)
         \/ ClaimShadow(id, o)
         \/ ClaimPassthrough(id, o)
  PROVE  TrackerTypeOK'
<1> USE DEF TrackerTypeOK, Claimed, Entry, NormalizedOpts, RawOpts,
            normalizeOptsForDedup
<1>1. CASE ClaimPrimary(id, o)
  BY <1>1 DEF ClaimPrimary
<1>2. CASE ClaimShadow(id, o)
  BY <1>2, TrackerAssumption DEF ClaimShadow
<1>3. CASE ClaimPassthrough(id, o)
  BY <1>3 DEF ClaimPassthrough
<1> QED BY <1>1, <1>2, <1>3

\* A release does not either.
LEMMA ReleaseType ==
  ASSUME TrackerTypeOK, NEW id \in Targets, releaseNetnsForAttack(id)
  PROVE  TrackerTypeOK'
<1> USE DEF TrackerTypeOK, Claimed, LastClaim, Entry
<1>1. CASE ~Claimed(id) /\ UNCHANGED active
  BY <1>1
<1>2. CASE Claimed(id) /\ LastClaim(id) /\ active' = [active EXCEPT ![id] = NoEntry]
  BY <1>2
<1>3. CASE /\ Claimed(id) /\ ~LastClaim(id)
           /\ active' = [active EXCEPT ![id].count = @ - 1]
  BY <1>3, TrackerAssumption
<1> QED BY <1>1, <1>2, <1>3 DEF releaseNetnsForAttack

\* What an execution asked for stays within its types.
LEMMA RequestType ==
  ASSUME TypeOK, NEW e \in Exec
  PROVE  target(e) \in Targets /\ attack(e) \in Attacks /\ NetworkOpts(e) \in RawOpts
BY DEF TypeOK, Request, target, attack, NetworkOpts, RawOpts

\* The release that a handler makes keeps the tracker well-typed.
LEMMA ReleaseClaimType ==
  ASSUME TypeOK, NEW e \in Exec, ReleaseClaim(e)
  PROVE  TrackerTypeOK'
BY ReleaseType, RequestType DEF ReleaseClaim, TypeOK, TrackerTypeOK

\* The initial states are well-typed.
LEMMA TypeInit == Init => TypeOK
BY DEF Init, TypeOK, TrackerInit, TrackerTypeOK, PC

\* Every step of Start, Stop and Prepare keeps the types.
LEMMA TypeStep ==
  ASSUME TypeOK, [Next]_vars
  PROVE  TypeOK'
<1> USE DEF TypeOK, PC, Goto, flags
<1>1. ASSUME NEW e \in Exec, Step(e)
      PROVE  TypeOK'
  <2>1. CASE Prepare(e) \/ PrepareRefused(e)
    BY <2>1 DEF Prepare, PrepareRefused, TrackerTypeOK
  <2>2. CASE StartUndecodable(e)
    BY <2>2 DEF StartUndecodable, TrackerTypeOK
  <2>3. CASE StartAsShadow(e)
    <3>1. TrackerTypeOK'
      BY <2>3, ClaimType, RequestType DEF StartAsShadow
    <3> QED BY <2>3, <3>1 DEF StartAsShadow
  <2>4. CASE StartAsPrimary(e)
    <3>1. TrackerTypeOK'
      BY <2>4, ClaimType, RequestType DEF StartAsPrimary
    <3> QED BY <2>4, <3>1 DEF StartAsPrimary
  <2>5. CASE StartAsPassthrough(e)
    <3>1. TrackerTypeOK'
      BY <2>5, ClaimType, RequestType DEF StartAsPassthrough
    <3> QED BY <2>5, <3>1 DEF StartAsPassthrough
  <2>6. CASE ApplySucceeds(e)
    BY <2>6, RequestType DEF ApplySucceeds, TrackerTypeOK
  <2>7. CASE ApplyFails(e)
    <3>1. TrackerTypeOK'
      BY <2>7, ReleaseClaimType DEF ApplyFails
    <3> QED BY <2>7, <3>1 DEF ApplyFails
  <2>8. CASE Stop(e)
    BY <2>8 DEF Stop, BeginStop, StopShadow, StopUndecodable, StopNetnsGone,
                StopReverts, TrackerTypeOK
  <2>9. CASE Revert(e)
    BY <2>9, RequestType DEF Revert, RevertSucceeds, RevertFails, TrackerTypeOK
  <2>10. CASE DeferredRelease(e)
    <3>1. TrackerTypeOK'
      BY <2>10, ReleaseClaimType DEF DeferredRelease
    <3> QED BY <2>10, <3>1 DEF DeferredRelease
  <2> QED BY <1>1, <2>1, <2>2, <2>3, <2>4, <2>5, <2>6, <2>7, <2>8, <2>9, <2>10
          DEF Step, Start, Apply
<1>2. ASSUME NEW n \in Netns, NetnsGone(n)
      PROVE  TypeOK'
  BY <1>2 DEF NetnsGone, Targets, TrackerTypeOK
<1>3. CASE UNCHANGED vars
  BY <1>3 DEF vars, TrackerTypeOK
<1> QED BY <1>1, <1>2, <1>3 DEF Next, Terminating

\* Every variable keeps the type its declaration in the code gives it.
THEOREM TypeCorrect == Spec => []TypeOK
<1>1. Init => TypeOK
  BY TypeInit
<1>2. TypeOK /\ [Next]_vars => TypeOK'
  BY TypeStep
<1> QED BY <1>1, <1>2, PTL DEF Spec

-----------------------------------------------------------------------------
(***************************************************************************)
(* The inductive invariants.  FlagsOK says where in its life an execution  *)
(* can hold a claim, be a shadow or have seen its Stop fail.               *)
(***************************************************************************)
FlagsOK ==
  \A e \in Exec :
    /\ isShadow[e] => netnsClaimed[e] /\ pc[e] \in {"started", "releasing", "stopped"}
    /\ netnsClaimed[e] => pc[e] \notin {"idle", "refused", "prepared", "failed"}
    /\ stopError[e] => pc[e] \in {"releasing", "stopped"}
    /\ pc[e] \notin {"idle", "refused"} => MayAttack(e)

ClaimsInv == TypeOK /\ FlagsOK /\ RefCount /\ ClaimsAgree /\ SinglePrimary

(***************************************************************************)
(* Applied(e): e's own Apply succeeded and its Stop has not reverted yet.  *)
(* Excused(e): an execution without a claim has reverted e's attack.  Once *)
(* true it stays true.                                                     *)
(***************************************************************************)
Applied(e) ==
  /\ ~isShadow[e]
  /\ pc[e] = "started" \/ (pc[e] = "reverting" /\ netnsClaimed[e])

SameAttack(e, o) == target(o) = target(e) /\ attack(o) = attack(e)

Excused(e) == \E o \in Exec : /\ SameAttack(e, o)
                             /\ ~netnsClaimed[o]
                             /\ pc[o] \in {"releasing", "stopped"}

AppliedIntact ==
  \A e \in Exec : Applied(e) /\ NamespacesExists(e) => Installed(e) \/ Excused(e)

OneApplier ==
  \A e, o \in Exec : Applied(e) /\ Applied(o) /\ SameAttack(e, o) =>
                     e = o \/ Excused(e)

DeadEmpty == \A t \in Targets : ~alive[t] => rules[t] = {}

RulesInv == AppliedIntact /\ OneApplier /\ DeadEmpty /\ RulesOwned

-----------------------------------------------------------------------------
(***************************************************************************)
(* The flags.                                                              *)
(***************************************************************************)
LEMMA FlagsStep ==
  ASSUME TypeOK, FlagsOK, [Next]_vars
  PROVE  FlagsOK'
<1> USE DEF TypeOK, FlagsOK, Goto, flags, MayAttack, target
<1>1. ASSUME NEW e \in Exec, Step(e)
      PROVE  FlagsOK'
  <2>1. CASE Prepare(e) \/ PrepareRefused(e)
    BY <2>1 DEF Prepare, PrepareRefused
  <2>2. CASE Start(e)
    BY <2>2 DEF Start, StartUndecodable, StartAsShadow, StartAsPrimary,
                StartAsPassthrough
  <2>3. CASE Apply(e)
    BY <2>3 DEF Apply, ApplySucceeds, ApplyFails
  <2>4. CASE Stop(e)
    BY <2>4 DEF Stop, BeginStop, StopShadow, StopUndecodable, StopNetnsGone,
                StopReverts, Stoppable, MustRevert
  <2>5. CASE Revert(e)
    BY <2>5 DEF Revert, RevertSucceeds, RevertFails
  <2>6. CASE DeferredRelease(e)
    BY <2>6 DEF DeferredRelease
  <2> QED BY <1>1, <2>1, <2>2, <2>3, <2>4, <2>5, <2>6 DEF Step
<1>2. ASSUME NEW n \in Netns, NetnsGone(n)
      PROVE  FlagsOK'
  BY <1>2 DEF NetnsGone
<1>3. CASE UNCHANGED vars
  BY <1>3 DEF vars
<1> QED BY <1>1, <1>2, <1>3 DEF Next, Terminating

-----------------------------------------------------------------------------
(***************************************************************************)
(* The claims.  Four lemmas, one per way a step can change the holders of  *)
(* a namespace: not at all, a primary joins, a shadow joins, one leaves.   *)
(***************************************************************************)
Claims == RefCount /\ ClaimsAgree /\ SinglePrimary

\* The holders of a namespace can be counted.
LEMMA HoldersFinite ==
  ASSUME NEW n
  PROVE  IsFiniteSet(Holders(n)) /\ Cardinality(Holders(n)) \in Nat
BY NetworkAssumption, FS_Subset, FS_CardinalityType DEF Holders

\* A step that leaves the flags and the tracker alone keeps the claims right.
LEMMA NobodyMoves ==
  ASSUME Claims, UNCHANGED <<active, request, isShadow>>,
         \A n \in Netns : Holders(n)' = Holders(n)
  PROVE  Claims'
BY DEF Claims, RefCount, ClaimsAgree, SinglePrimary, Claimed, attack

\* What a claim that increments the tracker does to the holders.
Joins(e) ==
  /\ pc[e] = "prepared"
  /\ pc' = [pc EXCEPT ![e] = IF isShadow'[e] THEN "started" ELSE "applying"]
  /\ netnsClaimed' = [netnsClaimed EXCEPT ![e] = TRUE]
  /\ UNCHANGED request

\* Who claims joins the holders of its own namespace and of no other.
LEMMA HoldersJoin ==
  ASSUME TypeOK, FlagsOK, NEW e \in Exec, Joins(e), NEW n \in Netns
  PROVE  /\ e \notin Holders(n)
         /\ n = target(e) => Holders(n)' = Holders(n) \cup {e}
         /\ n # target(e) => Holders(n)' = Holders(n)
BY DEF TypeOK, FlagsOK, Joins, Holders, target

\* ClaimPrimary: the first holder of a namespace.
LEMMA PrimaryJoins ==
  ASSUME TypeOK, FlagsOK, Claims, NEW e \in Exec, StartAsPrimary(e)
  PROVE  Claims'
<1>0. PICK t \in Targets : t = target(e)
  BY RequestType
<1>1. Joins(e) /\ isShadow' = isShadow /\ ~isShadow[e] /\ ~Claimed(t)
  BY <1>0 DEF StartAsPrimary, Joins, Goto, FlagsOK, ClaimPrimary, TypeOK
<1>2. \A n \in Netns : /\ e \notin Holders(n)
                       /\ n = t => Holders(n)' = Holders(n) \cup {e}
                       /\ n # t => Holders(n)' = Holders(n)
  BY <1>0, <1>1, HoldersJoin
<1>3. t \in Netns => Holders(t) = {} /\ Holders(t)' = {e}
  BY <1>0, <1>1, <1>2 DEF Claims, RefCount
<1>4. \A n \in Netns : n # t => active'[n] = active[n]
  BY <1>0 DEF StartAsPrimary, ClaimPrimary
<1>5. t \in Netns =>
        active'[t] = [count |-> 1, opts |-> [attack |-> attack(e),
                                             experiment |-> request[e].experiment]]
  BY <1>0 DEF StartAsPrimary, ClaimPrimary, NetworkOpts, normalizeOptsForDedup
<1>6. t \in Netns => active'[t] # NoEntry
  BY <1>0, <1>5, RequestType, TrackerAssumption
     DEF Entry, NormalizedOpts, TypeOK, Request, attack
<1>7. RefCount'
  <2>1. Cardinality({e}) = 1
    BY FS_Singleton
  <2>2. t \in Netns => Claimed(t)' /\ active'[t].count = Cardinality(Holders(t)')
    BY <1>3, <1>5, <1>6, <2>1 DEF Claimed
  <2>3. \A n \in Netns : n # t => /\ Claimed(n)' = Claimed(n)
                                 /\ Holders(n)' = Holders(n)
                                 /\ active'[n] = active[n]
    BY <1>0, <1>2, <1>4 DEF Claimed
  <2> QED BY <2>2, <2>3 DEF Claims, RefCount
<1>8. request' = request
  BY <1>0, <1>1 DEF Joins
<1>9. ClaimsAgree'
  BY <1>0, <1>2, <1>3, <1>4, <1>5, <1>8 DEF Claims, ClaimsAgree, attack
<1>10. SinglePrimary'
  BY <1>0, <1>1, <1>2, <1>3 DEF Claims, SinglePrimary
<1> QED BY <1>7, <1>9, <1>10 DEF Claims

\* ClaimShadow: one more holder of an entry with its own options.
LEMMA ShadowJoins ==
  ASSUME TypeOK, FlagsOK, Claims, NEW e \in Exec, StartAsShadow(e)
  PROVE  Claims'
<1>0. PICK t \in Targets : t = target(e)
  BY RequestType
<1>1. /\ Joins(e) /\ isShadow' = [isShadow EXCEPT ![e] = TRUE]
      /\ t \in Netns /\ active[t] # NoEntry
  BY <1>0 DEF StartAsShadow, Joins, Goto, ClaimShadow, Claimed, TypeOK
<1>2. \A n \in Netns : /\ e \notin Holders(n)
                       /\ n = t => Holders(n)' = Holders(n) \cup {e}
                       /\ n # t => Holders(n)' = Holders(n)
  BY <1>0, <1>1, HoldersJoin
<1>3. active[t] \in Entry
  BY <1>0, <1>1 DEF TypeOK, TrackerTypeOK
<1>4. active' = [active EXCEPT ![t].count = @ + 1]
  BY <1>0 DEF StartAsShadow, ClaimShadow
<1>5. \A n \in Netns : n # t => active'[n] = active[n]
  BY <1>0, <1>1, <1>4 DEF TypeOK, TrackerTypeOK
<1>6. active'[t].count = active[t].count + 1 /\ active'[t].opts = active[t].opts
  BY <1>0, <1>1, <1>3, <1>4 DEF TypeOK, TrackerTypeOK, Entry
<1>7. active'[t] # NoEntry
  <2>1. active'[t] \in Entry
    BY <1>0, <1>1, <1>3, <1>4 DEF TypeOK, TrackerTypeOK, Entry
  <2> QED BY <2>1, TrackerAssumption
<1>8. RefCount'
  <2>1. active[t].count = Cardinality(Holders(t))
    BY <1>0, <1>1 DEF Claims, RefCount, Claimed
  <2>2. Cardinality(Holders(t) \cup {e}) = Cardinality(Holders(t)) + 1
    BY <1>0, <1>1, <1>2, HoldersFinite, FS_AddElement
  <2>3. active'[t].count = Cardinality(Holders(t)')
    BY <1>0, <1>1, <1>2, <1>6, <2>1, <2>2
  <2> QED BY <1>1, <1>2, <1>5, <1>7, <2>3 DEF Claims, RefCount, Claimed
<1>9. active[t].opts = [attack |-> attack(e), experiment |-> request[e].experiment]
  BY <1>0 DEF StartAsShadow, ClaimShadow, NetworkOpts, normalizeOptsForDedup
<1>10. request' = request
  BY <1>0, <1>1 DEF Joins
<1>11. ClaimsAgree'
  BY <1>0, <1>1, <1>2, <1>5, <1>6, <1>9, <1>10 DEF Claims, ClaimsAgree, attack
<1>12. SinglePrimary'
  BY <1>0, <1>1, <1>2 DEF Claims, SinglePrimary, TypeOK
<1> QED BY <1>8, <1>11, <1>12 DEF Claims

\* A release: the count drops, the entry goes with its last holder.
LEMMA HolderLeaves ==
  ASSUME TypeOK, Claims, NEW e \in Exec,
         netnsClaimed[e], pc[e] # "stopped",
         releaseNetnsForAttack(target(e)), UNCHANGED <<request, isShadow>>,
         \A n \in Netns : Holders(n)' = Holders(n) \ {e}
  PROVE  Claims'
<1>0. PICK t \in Targets : t = target(e)
  BY RequestType
<1>1. /\ \A n \in Netns : e \in Holders(n) <=> n = t
      /\ t \in Netns => Claimed(t) /\ active[t].count = Cardinality(Holders(t))
  BY <1>0 DEF Holders, Claims, RefCount
<1>2. \A n \in Netns : n # t => active'[n] = active[n] /\ Holders(n)' = Holders(n)
  <2>1. \A n \in Netns : n # t => Holders(n)' = Holders(n)
    BY <1>1
  <2>2. \A n \in Netns : n # t => active'[n] = active[n]
    BY <1>0 DEF releaseNetnsForAttack, Claimed, TypeOK, TrackerTypeOK
  <2> QED BY <2>1, <2>2
<1>3. t \in Netns => Cardinality(Holders(t)') = Cardinality(Holders(t)) - 1
  BY <1>1, HoldersFinite, FS_RemoveElement
<1>4. SinglePrimary'
  BY DEF Claims, SinglePrimary
<1>5. CASE t \notin Netns
  <2>1. RefCount'
    BY <1>2, <1>5 DEF Claims, RefCount, Claimed
  <2>2. ClaimsAgree'
    BY <1>2, <1>5 DEF Claims, ClaimsAgree, attack
  <2> QED BY <1>4, <2>1, <2>2 DEF Claims
<1>6. CASE t \in Netns /\ LastClaim(t)
  <2>1. active' = [active EXCEPT ![t] = NoEntry]
    BY <1>0, <1>1, <1>6 DEF releaseNetnsForAttack
  <2>2. ~Claimed(t)'
    BY <1>6, <2>1 DEF Claimed, TypeOK, TrackerTypeOK
  <2>3. Cardinality(Holders(t)') = 0
    <3>1. active[t] \in Entry
      BY <1>1, <1>6 DEF Claimed, TypeOK, TrackerTypeOK
    <3> QED BY <1>1, <1>3, <1>6, <3>1 DEF LastClaim, Entry
  <2>4. Holders(t)' = {}
    <3>1. IsFiniteSet(Holders(t) \ {e})
      BY HoldersFinite, FS_Subset
    <3> QED BY <1>6, <2>3, <3>1, FS_EmptySet
  <2>5. RefCount'
    BY <1>2, <2>2, <2>4 DEF Claims, RefCount, Claimed
  <2>6. ClaimsAgree'
    BY <1>2, <2>4 DEF Claims, ClaimsAgree, attack
  <2> QED BY <1>4, <2>5, <2>6 DEF Claims
<1>7. CASE t \in Netns /\ ~LastClaim(t)
  <2>1. active[t] \in Entry
    BY <1>1, <1>7 DEF Claimed, TypeOK, TrackerTypeOK
  <2>2. active' = [active EXCEPT ![t].count = @ - 1]
    BY <1>0, <1>1, <1>7 DEF releaseNetnsForAttack
  <2>3. /\ active'[t] \in Entry
        /\ active'[t].count = active[t].count - 1
        /\ active'[t].opts = active[t].opts
    BY <1>7, <2>1, <2>2 DEF TypeOK, TrackerTypeOK, Entry, LastClaim
  <2>4. Claimed(t)'
    BY <1>7, <2>3, TrackerAssumption DEF Claimed
  <2>5. active'[t].count = Cardinality(Holders(t)')
    BY <1>1, <1>3, <1>7, <2>3
  <2>6. RefCount'
    BY <1>2, <2>4, <2>5 DEF Claims, RefCount, Claimed
  <2>7. ClaimsAgree'
    BY <1>2, <2>3 DEF Claims, ClaimsAgree, attack
  <2> QED BY <1>4, <2>6, <2>7 DEF Claims
<1> QED BY <1>5, <1>6, <1>7

\* Nobody holds anything at first.
LEMMA ClaimsInit == Init => FlagsOK /\ Claims
<1> SUFFICES ASSUME Init PROVE FlagsOK /\ Claims
  OBVIOUS
<1>1. \A n : Holders(n) = {}
  BY DEF Init, Holders
<1>2. \A n \in Netns : ~Claimed(n)
  BY DEF Init, TrackerInit, Claimed
<1> QED BY <1>1, <1>2 DEF Init, FlagsOK, Claims, RefCount, ClaimsAgree, SinglePrimary

\* Every step keeps the flags and the claims right.
LEMMA ClaimsStep ==
  ASSUME TypeOK, FlagsOK, Claims, [Next]_vars
  PROVE  Claims'
<1>1. ASSUME NEW e \in Exec, Step(e)
      PROVE  Claims'
  <2>1. CASE \/ Prepare(e) \/ PrepareRefused(e) \/ StartUndecodable(e)
             \/ StartAsPassthrough(e) \/ ApplySucceeds(e) \/ Stop(e) \/ Revert(e)
    <3>1. /\ UNCHANGED <<active, request, isShadow, netnsClaimed>>
          /\ \A f \in Exec : pc'[f] = "stopped" <=> pc[f] = "stopped"
      BY <2>1 DEF Prepare, PrepareRefused, StartUndecodable, StartAsPassthrough,
           ClaimPassthrough, ApplySucceeds, Stop, BeginStop, Stoppable, StopShadow,
           StopUndecodable, StopNetnsGone, StopReverts, Revert, RevertSucceeds,
           RevertFails, Goto, flags, TypeOK
    <3>2. \A n \in Netns : Holders(n)' = Holders(n)
      BY <3>1 DEF Holders, target
    <3> QED BY <3>1, <3>2, NobodyMoves
  <2>2. CASE StartAsShadow(e)
    BY <2>2, ShadowJoins
  <2>3. CASE StartAsPrimary(e)
    BY <2>3, PrimaryJoins
  <2>4. CASE ApplyFails(e) \/ DeferredRelease(e)
    <3>1. /\ ReleaseClaim(e) /\ pc[e] # "stopped" /\ UNCHANGED <<request, isShadow>>
          /\ \A n \in Netns : Holders(n)' = Holders(n) \ {e}
      BY <2>4 DEF ApplyFails, DeferredRelease, Goto, flags, Holders, target, TypeOK
    <3>2. CASE netnsClaimed[e]
      BY <3>1, <3>2, HolderLeaves DEF ReleaseClaim
    <3>3. CASE ~netnsClaimed[e]
      <4>1. \A n \in Netns : Holders(n)' = Holders(n)
        BY <3>1, <3>3 DEF Holders
      <4> QED BY <3>1, <3>3, <4>1, NobodyMoves DEF ReleaseClaim
    <3> QED BY <3>2, <3>3
  <2> QED BY <1>1, <2>1, <2>2, <2>3, <2>4 DEF Step, Start, Apply
<1>2. CASE (\E n \in Netns : NetnsGone(n)) \/ UNCHANGED vars
  <2>1. UNCHANGED <<active, request, isShadow, netnsClaimed, pc>>
    BY <1>2 DEF NetnsGone, vars, flags
  <2>2. \A n \in Netns : Holders(n)' = Holders(n)
    BY <2>1 DEF Holders, target
  <2> QED BY <2>1, <2>2, NobodyMoves
<1> QED BY <1>1, <1>2 DEF Next, Terminating

\* No path through Start and Stop leaks a claim or releases one twice.
THEOREM ClaimsCorrect == Spec => []ClaimsInv
<1>1. Init => ClaimsInv
  BY TypeInit, ClaimsInit DEF ClaimsInv, Claims
<1>2. ClaimsInv /\ [Next]_vars => ClaimsInv'
  BY TypeStep, FlagsStep, ClaimsStep DEF ClaimsInv, Claims
<1> QED BY <1>1, <1>2, PTL DEF Spec

\* The tracker's count is the number of executions that still release it.
THEOREM RefCountCorrect == Spec => []RefCount
<1>1. ClaimsInv => RefCount
  BY DEF ClaimsInv
<1> QED BY <1>1, ClaimsCorrect, PTL

\* Unrelated attacks and experiments never share a claim.
THEOREM ClaimsAgreeCorrect == Spec => []ClaimsAgree
<1>1. ClaimsInv => ClaimsAgree
  BY DEF ClaimsInv
<1> QED BY <1>1, ClaimsCorrect, PTL

\* Two primaries never meet on a namespace.
THEOREM SinglePrimaryCorrect == Spec => []SinglePrimary
<1>1. ClaimsInv => SinglePrimary
  BY DEF ClaimsInv
<1> QED BY <1>1, ClaimsCorrect, PTL

-----------------------------------------------------------------------------
(***************************************************************************)
(* The rules.                                                              *)
(***************************************************************************)

\* An excuse is never withdrawn.
LEMMA ExcuseStays ==
  ASSUME TypeOK, FlagsOK, [Next]_vars, NEW e \in Exec, Excused(e)
  PROVE  Excused(e)'
<1>1. PICK o \in Exec : /\ SameAttack(e, o) /\ ~netnsClaimed[o]
                       /\ pc[o] \in {"releasing", "stopped"}
  BY DEF Excused
<1>2. request' = request
  BY DEF Next, Step, Prepare, PrepareRefused, Start, StartUndecodable, StartAsShadow,
         StartAsPrimary, StartAsPassthrough, Apply, ApplySucceeds, ApplyFails, Stop,
         StopShadow, StopUndecodable, StopNetnsGone, StopReverts, Revert,
         RevertSucceeds, RevertFails, DeferredRelease, NetnsGone, Terminating, vars
<1>3. ~netnsClaimed'[o] /\ pc'[o] \in {"releasing", "stopped"}
  <2>1. ASSUME NEW f \in Exec, Step(f)
        PROVE  ~netnsClaimed'[o] /\ pc'[o] \in {"releasing", "stopped"}
    BY <1>1, <2>1
       DEF Step, Prepare, PrepareRefused, Start, StartUndecodable, StartAsShadow,
         StartAsPrimary, StartAsPassthrough, Apply, ApplySucceeds, ApplyFails, Stop,
         StopShadow, StopUndecodable, StopNetnsGone, StopReverts, Revert,
         RevertSucceeds, RevertFails, DeferredRelease, BeginStop, Stoppable, Goto,
         flags, TypeOK
  <2> QED BY <1>1, <2>1 DEF Next, NetnsGone, Terminating, vars, flags
<1> QED BY <1>1, <1>2, <1>3 DEF Excused, SameAttack, target, attack

\* No rules are installed at first.
LEMMA RulesInit == Init => RulesInv
BY DEF Init, RulesInv, AppliedIntact, OneApplier, DeadEmpty, RulesOwned, Applied,
       Targets

\* To attack the same target alike is symmetric, and settled once prepared.
LEMMA SameTargets ==
  ASSUME TypeOK, request' = request, NEW e \in Exec
  PROVE  /\ target(e) \in Targets /\ attack(e) \in Attacks
         /\ target(e)' = target(e) /\ attack(e)' = attack(e)
         /\ \A o \in Exec : SameAttack(e, o)' = SameAttack(e, o)
         /\ \A o \in Exec : SameAttack(e, o) <=> SameAttack(o, e)
BY RequestType DEF target, attack, SameAttack

\* What Apply adds is the rule of its execution.
LEMMA RuleAdded ==
  ASSUME TypeOK, request' = request, NEW e \in Exec,
         rules' = [rules EXCEPT ![target(e)] = @ \cup {attack(e)}],
         NEW o \in Exec
  PROVE  Installed(o)' <=> Installed(o) \/ SameAttack(e, o)
<1>1. rules \in [Targets -> SUBSET Attacks]
  BY DEF TypeOK
<1>2. Installed(o)' <=> attack(o) \in rules'[target(o)]
  BY DEF Installed, target, attack
<1>3. target(o) \in Targets /\ target(e) \in Targets
  BY RequestType
<1>4. CASE target(o) = target(e)
  BY <1>1, <1>2, <1>3, <1>4 DEF Installed, SameAttack
<1>5. CASE target(o) # target(e)
  BY <1>1, <1>2, <1>3, <1>5 DEF Installed, SameAttack
<1> QED BY <1>4, <1>5

\* What Revert removes is the rule of its execution.
LEMMA RuleRemoved ==
  ASSUME TypeOK, request' = request, NEW e \in Exec,
         rules' = [rules EXCEPT ![target(e)] = @ \ {attack(e)}],
         NEW o \in Exec
  PROVE  Installed(o)' <=> Installed(o) /\ ~SameAttack(e, o)
<1>1. rules \in [Targets -> SUBSET Attacks]
  BY DEF TypeOK
<1>2. Installed(o)' <=> attack(o) \in rules'[target(o)]
  BY DEF Installed, target, attack
<1>3. target(o) \in Targets /\ target(e) \in Targets
  BY RequestType
<1>4. CASE target(o) = target(e)
  BY <1>1, <1>2, <1>3, <1>4 DEF Installed, SameAttack
<1>5. CASE target(o) # target(e)
  BY <1>1, <1>2, <1>3, <1>5 DEF Installed, SameAttack
<1> QED BY <1>4, <1>5

(***************************************************************************)
(* A step after which nobody counts as having applied who did not before,  *)
(* and nobody's rules are gone unless that is excused.                     *)
(***************************************************************************)
LEMMA NothingApplied ==
  ASSUME TypeOK, FlagsOK, [Next]_vars, AppliedIntact, OneApplier, request' = request,
         \A o \in Exec : Applied(o)' => Applied(o),
         \A o \in Exec : NamespacesExists(o)' => NamespacesExists(o),
         \A o \in Exec : Applied(o)' /\ NamespacesExists(o)' /\ Installed(o) =>
                         Installed(o)' \/ Excused(o)'
  PROVE  (AppliedIntact /\ OneApplier)'
<1>1. \A e, o \in Exec : SameAttack(e, o)' = SameAttack(e, o)
  BY SameTargets
<1>2. \A e \in Exec : Excused(e) => Excused(e)'
  BY ExcuseStays
<1>3. AppliedIntact'
  BY <1>2 DEF AppliedIntact
<1>4. OneApplier'
  BY <1>1, <1>2 DEF OneApplier
<1> QED BY <1>3, <1>4

\* Apply keeps what others have applied.
LEMMA ApplyIntact ==
  ASSUME TypeOK, FlagsOK, [Next]_vars, AppliedIntact, OneApplier,
         NEW e \in Exec, ApplySucceeds(e)
  PROVE  (AppliedIntact /\ OneApplier)'
<1>1. /\ UNCHANGED <<request, alive, isShadow, netnsClaimed>>
      /\ \A o \in Exec : o # e => pc'[o] = pc[o]
      /\ NamespacesExists(e) /\ ~Installed(e)
      /\ rules' = [rules EXCEPT ![target(e)] = @ \cup {attack(e)}]
  BY DEF ApplySucceeds, Goto, NetfaultAccepts, NamespacesExists, flags, TypeOK
<1>2. \A o \in Exec : Installed(o)' <=> Installed(o) \/ SameAttack(e, o)
  BY <1>1, RuleAdded
<1>3. \A o \in Exec : NamespacesExists(o)' = NamespacesExists(o)
  BY <1>1 DEF NamespacesExists, target
<1>4. \A o \in Exec : o # e /\ Applied(o)' => Applied(o)
  BY <1>1 DEF Applied
<1>5. \A o \in Exec : SameAttack(e, o)' = SameAttack(e, o)
  BY <1>1, SameTargets
<1>6. \A o \in Exec : Excused(o) => Excused(o)'
  BY ExcuseStays
<1>7. SameAttack(e, e)
  BY DEF SameAttack
<1>8. AppliedIntact'
  BY <1>2, <1>3, <1>4, <1>6, <1>7 DEF AppliedIntact
<1>9. ASSUME NEW o \in Exec, o # e, Applied(o)', SameAttack(e, o)
      PROVE  Excused(e)' /\ Excused(o)'
  <2>1. ~Installed(o) /\ NamespacesExists(o)
    BY <1>1, <1>9 DEF SameAttack, Installed, NamespacesExists
  <2>2. Excused(o)
    BY <1>4, <1>9, <2>1 DEF AppliedIntact
  <2>3. Excused(e)
    BY <1>9, <2>2 DEF Excused, SameAttack
  <2> QED BY <1>6, <2>2, <2>3
<1>10. ASSUME NEW f \in Exec, NEW o \in Exec, Applied(f)', Applied(o)',
              SameAttack(f, o)', f # o
       PROVE  Excused(f)'
  <2>1. SameAttack(f, o) /\ SameAttack(o, f)
    BY <1>1, <1>10 DEF SameAttack, target, attack
  <2>2. CASE f = e
    BY <1>9, <1>10, <2>1, <2>2
  <2>3. CASE o = e
    BY <1>9, <1>10, <2>1, <2>3
  <2>4. CASE f # e /\ o # e
    BY <1>4, <1>6, <1>10, <2>1, <2>4 DEF OneApplier
  <2> QED BY <2>2, <2>3, <2>4
<1> QED BY <1>8, <1>10 DEF OneApplier

\* Revert leaves the rules of everybody still running, or is excused.
LEMMA RevertIntact ==
  ASSUME TypeOK, FlagsOK, [Next]_vars, AppliedIntact, OneApplier,
         NEW e \in Exec, RevertSucceeds(e)
  PROVE  (AppliedIntact /\ OneApplier)'
<1>1. /\ UNCHANGED <<request, alive, isShadow, netnsClaimed>>
      /\ pc[e] = "reverting" /\ pc'[e] = "releasing" /\ ~isShadow[e]
      /\ \A o \in Exec : o # e => pc'[o] = pc[o]
      /\ rules' = [rules EXCEPT ![target(e)] = @ \ {attack(e)}]
  BY DEF RevertSucceeds, Goto, FlagsOK, TypeOK
<1>2. \A o \in Exec : Applied(o)' => Applied(o) /\ o # e
  BY <1>1 DEF Applied
<1>3. \A o \in Exec : NamespacesExists(o)' = NamespacesExists(o)
  BY <1>1 DEF NamespacesExists, target
<1>4. ASSUME NEW o \in Exec, Applied(o)', NamespacesExists(o)', Installed(o)
      PROVE  Installed(o)' \/ Excused(o)'
  <2>1. Installed(o)' <=> Installed(o) /\ ~SameAttack(e, o)
    BY <1>1, RuleRemoved
  <2>2. SameAttack(e, o)' = SameAttack(e, o) /\ SameAttack(e, o) <=> SameAttack(o, e)
    BY <1>1, SameTargets
  <2>3. CASE SameAttack(e, o) /\ ~netnsClaimed[e]
    <3>1. (SameAttack(o, e) /\ ~netnsClaimed[e] /\ pc[e] \in {"releasing", "stopped"})'
      BY <1>1, <2>3 DEF SameAttack, target, attack
    <3> QED BY <3>1 DEF Excused
  <2>4. CASE SameAttack(e, o) /\ netnsClaimed[e]
    <3>1. Applied(e)
      BY <1>1, <2>4 DEF Applied
    <3>2. SameAttack(o, e)
      BY <2>4 DEF SameAttack
    <3>3. Excused(o)
      BY <1>2, <1>4, <3>1, <3>2 DEF OneApplier
    <3> QED BY <3>3, ExcuseStays
  <2> QED BY <1>4, <2>1, <2>3, <2>4
<1> QED BY <1>1, <1>2, <1>3, <1>4, NothingApplied

\* Every step keeps the rules of the running attacks.
LEMMA IntactStep ==
  ASSUME TypeOK, FlagsOK, [Next]_vars, AppliedIntact, OneApplier
  PROVE  (AppliedIntact /\ OneApplier)'
<1>1. ASSUME NEW e \in Exec, Step(e), ~ApplySucceeds(e), ~RevertSucceeds(e)
      PROVE  (AppliedIntact /\ OneApplier)'
  <2>1. UNCHANGED <<request, rules, alive>>
    BY <1>1 DEF Step, Prepare, PrepareRefused, Start, StartUndecodable,
         StartAsShadow, StartAsPrimary, StartAsPassthrough, Apply, ApplyFails, Stop,
         StopShadow, StopUndecodable, StopNetnsGone, StopReverts, Revert,
         RevertFails, DeferredRelease
  <2>2. \A o \in Exec : Applied(o)' => Applied(o)
    BY <1>1 DEF Step, Prepare, PrepareRefused, Start, StartUndecodable,
         StartAsShadow, StartAsPrimary, StartAsPassthrough, Apply, ApplyFails, Stop,
         StopShadow, StopUndecodable, StopNetnsGone, StopReverts, Revert,
         RevertFails, DeferredRelease, BeginStop, Stoppable, Goto, flags, TypeOK,
         FlagsOK, Applied
  <2>3. \A o \in Exec : /\ NamespacesExists(o)' = NamespacesExists(o)
                       /\ Installed(o)' = Installed(o)
    BY <2>1 DEF NamespacesExists, Installed, target, attack
  <2> QED BY <2>1, <2>2, <2>3, NothingApplied
<1>2. ASSUME NEW n \in Netns, NetnsGone(n)
      PROVE  (AppliedIntact /\ OneApplier)'
  <2>1. /\ UNCHANGED <<request, pc, isShadow, netnsClaimed>>
        /\ alive' = [alive EXCEPT ![n] = FALSE]
        /\ rules' = [rules EXCEPT ![n] = {}]
    BY <1>2 DEF NetnsGone, flags
  <2>2. \A o \in Exec : Applied(o)' => Applied(o)
    BY <2>1 DEF Applied
  <2>3. ASSUME NEW o \in Exec, NamespacesExists(o)'
        PROVE  NamespacesExists(o) /\ Installed(o)' = Installed(o)
    <3>1. target(o) \in Targets /\ target(o)' = target(o) /\ attack(o)' = attack(o)
      BY <2>1, SameTargets
    <3>2. alive'[target(o)]
      BY <2>1, <2>3 DEF NamespacesExists, target
    <3>3. target(o) # n
      BY <2>1, <3>1, <3>2 DEF TypeOK
    <3>4. alive[target(o)] /\ rules'[target(o)] = rules[target(o)]
      BY <2>1, <3>1, <3>2, <3>3 DEF TypeOK
    <3> QED BY <2>1, <3>4 DEF NamespacesExists, Installed, target, attack
  <2> QED BY <2>1, <2>2, <2>3, NothingApplied
<1>3. CASE UNCHANGED vars
  <2>1. \A o \in Exec : /\ Applied(o)' = Applied(o)
                       /\ NamespacesExists(o)' = NamespacesExists(o)
                       /\ Installed(o)' = Installed(o)
    BY <1>3 DEF vars, flags, Applied, NamespacesExists, Installed, target, attack
  <2> QED BY <1>3, <2>1, NothingApplied DEF vars
<1> QED BY <1>1, <1>2, <1>3, ApplyIntact, RevertIntact DEF Next, Terminating

\* A namespace that is gone stays without rules.
LEMMA DeadEmptyStep ==
  ASSUME TypeOK, DeadEmpty, [Next]_vars
  PROVE  DeadEmpty'
<1>1. ASSUME NEW e \in Exec, ApplySucceeds(e)
      PROVE  DeadEmpty'
  <2>1. alive[target(e)] /\ alive' = alive /\ target(e) \in Targets
        /\ rules' = [rules EXCEPT ![target(e)] = @ \cup {attack(e)}]
    BY <1>1, RequestType DEF ApplySucceeds, NetfaultAccepts
  <2> QED BY <2>1 DEF DeadEmpty, TypeOK
<1>2. ASSUME NEW e \in Exec, RevertSucceeds(e)
      PROVE  DeadEmpty'
  <2>1. alive' = alive /\ target(e) \in Targets
        /\ rules' = [rules EXCEPT ![target(e)] = @ \ {attack(e)}]
    BY <1>2, RequestType DEF RevertSucceeds
  <2> QED BY <2>1 DEF DeadEmpty, TypeOK
<1>3. ASSUME NEW e \in Exec, Step(e), ~ApplySucceeds(e), ~RevertSucceeds(e)
      PROVE  DeadEmpty'
  <2>1. UNCHANGED <<rules, alive>>
    BY <1>3 DEF Step, Prepare, PrepareRefused, Start, StartUndecodable,
         StartAsShadow, StartAsPrimary, StartAsPassthrough, Apply, ApplyFails, Stop,
         StopShadow, StopUndecodable, StopNetnsGone, StopReverts, Revert,
         RevertFails, DeferredRelease
  <2> QED BY <2>1 DEF DeadEmpty
<1>4. ASSUME NEW n \in Netns, NetnsGone(n)
      PROVE  DeadEmpty'
  BY <1>4 DEF NetnsGone, DeadEmpty, TypeOK
<1>5. CASE UNCHANGED vars
  BY <1>5 DEF vars, DeadEmpty
<1> QED BY <1>1, <1>2, <1>3, <1>4, <1>5 DEF Next, Terminating

(***************************************************************************)
(* RulesOwned.  Owns(e) is what it asks of the owner of a rule.            *)
(***************************************************************************)
Owns(e) == ~isShadow[e] /\ (pc[e] \in {"started", "reverting"} \/ stopError[e])

\* A step of one execution does not change who else owns rules.
LEMMA OwnersStay ==
  ASSUME TypeOK, FlagsOK, NEW e \in Exec, Step(e), ~RevertSucceeds(e),
         NEW o \in Exec, Owns(o)
  PROVE  Owns(o)' \/ (o = e /\ StopNetnsGone(e))
BY DEF Step, Prepare, PrepareRefused, Start, StartUndecodable, StartAsShadow,
       StartAsPrimary, StartAsPassthrough, Apply, ApplySucceeds, ApplyFails, Stop,
       StopShadow, StopUndecodable, StopNetnsGone, StopReverts, Revert,
       RevertFails, DeferredRelease, BeginStop, Stoppable, MustRevert, Goto, flags,
       TypeOK, FlagsOK, Owns

\* Every step keeps each rule owned.
LEMMA OwnedStep ==
  ASSUME TypeOK, FlagsOK, DeadEmpty, RulesOwned, [Next]_vars
  PROVE  RulesOwned'
<1> DEFINE OwnerOf(t, a) ==
             \E o \in Exec : target(o) = t /\ attack(o) = a /\ Owns(o)
<1>0. request' = request
  BY DEF Next, Step, Prepare, PrepareRefused, Start, StartUndecodable, StartAsShadow,
         StartAsPrimary, StartAsPassthrough, Apply, ApplySucceeds, ApplyFails, Stop,
         StopShadow, StopUndecodable, StopNetnsGone, StopReverts, Revert,
         RevertSucceeds, RevertFails, DeferredRelease, NetnsGone, Terminating, vars
<1>1. SUFFICES ASSUME NEW t \in Targets, NEW a \in rules'[t]
               PROVE  \E o \in Exec : target(o) = t /\ attack(o) = a /\ Owns(o)'
  BY <1>0 DEF RulesOwned, Owns, target, attack
<1>2. a \in rules[t] => OwnerOf(t, a)
  BY DEF RulesOwned, Owns
<1>3. ASSUME NEW e \in Exec, Step(e), ~ApplySucceeds(e), ~RevertSucceeds(e)
      PROVE  \E o \in Exec : target(o) = t /\ attack(o) = a /\ Owns(o)'
  <2>1. rules' = rules
    BY <1>3 DEF Step, Prepare, PrepareRefused, Start, StartUndecodable,
         StartAsShadow, StartAsPrimary, StartAsPassthrough, Apply, ApplyFails, Stop,
         StopShadow, StopUndecodable, StopNetnsGone, StopReverts, Revert,
         RevertFails, DeferredRelease
  <2>2. PICK o \in Exec : target(o) = t /\ attack(o) = a /\ Owns(o)
    BY <1>1, <1>2, <2>1
  <2>3. ~(o = e /\ StopNetnsGone(e))
    BY <1>1, <2>1, <2>2 DEF StopNetnsGone, NamespacesExists, DeadEmpty
  <2> QED BY <1>3, <2>2, <2>3, OwnersStay
<1>4. ASSUME NEW e \in Exec, ApplySucceeds(e)
      PROVE  \E o \in Exec : target(o) = t /\ attack(o) = a /\ Owns(o)'
  <2>1. CASE target(e) = t /\ attack(e) = a
    <3>1. Owns(e)'
      BY <1>4 DEF ApplySucceeds, Goto, flags, TypeOK, FlagsOK, Owns
    <3> QED BY <2>1, <3>1
  <2>2. CASE ~(target(e) = t /\ attack(e) = a)
    <3>1. rules' = [rules EXCEPT ![target(e)] = @ \cup {attack(e)}]
      BY <1>4 DEF ApplySucceeds
    <3>2. a \in rules[t]
      BY <1>1, <2>2, <3>1, RequestType DEF TypeOK
    <3>3. PICK o \in Exec : target(o) = t /\ attack(o) = a /\ Owns(o)
      BY <1>2, <3>2
    <3>4. Step(e) /\ ~RevertSucceeds(e) /\ ~StopNetnsGone(e)
      BY <1>4 DEF Step, Apply, ApplySucceeds, RevertSucceeds, StopNetnsGone,
                  BeginStop, Stoppable, Goto
    <3> QED BY <3>3, <3>4, OwnersStay
  <2> QED BY <2>1, <2>2
<1>5. ASSUME NEW e \in Exec, RevertSucceeds(e)
      PROVE  \E o \in Exec : target(o) = t /\ attack(o) = a /\ Owns(o)'
  <2>1. rules' = [rules EXCEPT ![target(e)] = @ \ {attack(e)}]
    BY <1>5 DEF RevertSucceeds
  <2>2. a \in rules[t] /\ ~(target(e) = t /\ attack(e) = a)
    BY <1>1, <2>1, RequestType DEF TypeOK
  <2>3. PICK o \in Exec : target(o) = t /\ attack(o) = a /\ Owns(o)
    BY <1>2, <2>2
  <2>4. Owns(o)'
    BY <1>5, <2>2, <2>3 DEF RevertSucceeds, Goto, Owns, TypeOK
  <2> QED BY <2>3, <2>4
<1>6. ASSUME NEW n \in Netns, NetnsGone(n)
      PROVE  \E o \in Exec : target(o) = t /\ attack(o) = a /\ Owns(o)'
  <2>1. a \in rules[t]
    BY <1>1, <1>6 DEF NetnsGone, TypeOK
  <2>2. PICK o \in Exec : target(o) = t /\ attack(o) = a /\ Owns(o)
    BY <1>2, <2>1
  <2> QED BY <1>6, <2>2 DEF NetnsGone, flags, Owns
<1>7. CASE UNCHANGED vars
  BY <1>1, <1>2, <1>7 DEF vars, flags, Owns
<1> QED BY <1>3, <1>4, <1>5, <1>6, <1>7 DEF Next, Terminating

\* The inductive invariant of the whole module.
IInv == ClaimsInv /\ RulesInv

\* IInv holds throughout: the theorems on rules below rest on it.
THEOREM IInvCorrect == Spec => []IInv
<1>1. Init => IInv
  BY TypeInit, ClaimsInit, RulesInit DEF IInv, ClaimsInv, Claims
<1>2. IInv /\ [Next]_vars => IInv'
  BY TypeStep, FlagsStep, ClaimsStep, IntactStep, DeadEmptyStep, OwnedStep
     DEF IInv, ClaimsInv, Claims, RulesInv
<1> QED BY <1>1, <1>2, PTL DEF Spec

(***************************************************************************)
(* An attack that is running is in place, unless an execution that never   *)
(* got a claim reverted it.                                                *)
(***************************************************************************)
THEOREM RunningIntactCorrect == Spec => []RunningIntact
<1>1. IInv => RunningIntact
  <2> SUFFICES ASSUME IInv, NEW e \in Exec, Running(e), alive[target(e)], ~Installed(e)
               PROVE  \E o \in Exec \ {e} : /\ target(o) = target(e)
                                            /\ attack(o) = attack(e)
                                            /\ ~netnsClaimed[o]
                                            /\ pc[o] \in {"releasing", "stopped"}
    BY DEF RunningIntact
  <2>1. Excused(e)
    BY DEF IInv, RulesInv, AppliedIntact, Applied, Running, NamespacesExists
  <2> QED BY <2>1 DEF Excused, SameAttack, Running
<1> QED BY <1>1, IInvCorrect, PTL

\* No rule outlives its owners.
THEOREM RulesOwnedCorrect == Spec => []RulesOwned
<1>1. IInv => RulesOwned
  BY DEF IInv, RulesInv
<1> QED BY <1>1, IInvCorrect, PTL

(***************************************************************************)
(* The host network is spared: every rule and every claim belongs to an    *)
(* execution that has passed Prepare's check.                              *)
(***************************************************************************)
THEOREM HostNetworkSparedCorrect == Spec => []HostNetworkSpared
<1>1. IInv => HostNetworkSpared
  <2> SUFFICES ASSUME IInv, NEW t \in {HostNetns, NoNetns}
               PROVE  /\ DisallowHostNetwork => rules[t] = {} /\ Holders(t) = {}
                      /\ \A e \in Holders(t) : ~request[e].failOnHostNetwork
    BY DEF HostNetworkSpared
  <2>1. ASSUME NEW e \in Exec, target(e) = t, pc[e] \notin {"idle", "refused"}
        PROVE  ~DisallowHostNetwork /\ ~request[e].failOnHostNetwork
    BY <2>1 DEF IInv, ClaimsInv, FlagsOK, MayAttack, isUsingHostNetwork
  <2>2. \A e \in Holders(t) : ~DisallowHostNetwork /\ ~request[e].failOnHostNetwork
    BY <2>1 DEF Holders, IInv, ClaimsInv, FlagsOK
  <2>3. rules[t] # {} => ~DisallowHostNetwork
    <3>1. t \in Targets
      BY NetworkAssumption DEF Targets
    <3>2. ASSUME NEW a \in rules[t]
          PROVE  \E e \in Exec : target(e) = t /\ pc[e] \notin {"idle", "refused"}
      BY <3>1 DEF IInv, ClaimsInv, FlagsOK, RulesInv, RulesOwned
    <3> QED BY <2>1, <3>2
  <2> QED BY <2>2, <2>3
<1> QED BY <1>1, IInvCorrect, PTL
-----------------------------------------------------------------------------
(***************************************************************************)
(* What is left of the two statements about shadows that the code does not *)
(* keep, ShadowsFollowAPrimary and OnlyOwnersRevert.                       *)
(***************************************************************************)

(***************************************************************************)
(* A shadow joins an execution with the same attack of the same experiment *)
(* that has yet to release its claim (netns_dedup.go:76-82).  It need not  *)
(* be the primary, nor be applying anything any more.                      *)
(***************************************************************************)
ShadowsFollowAHolder ==
  [][\A e \in Exec : isShadow'[e] /\ ~isShadow[e] =>
       \E o \in Holders(target(e)) :
         attack(o) = attack(e) /\ request[o].experiment = request[e].experiment]_vars

(***************************************************************************)
(* A Stop that tears down the attack of another, still running execution   *)
(* has no claim, or comes after one that had none: no Stop of a claim      *)
(* holder alone does (action_network.go:315-318).                          *)
(***************************************************************************)
ClaimHoldersSpareOthers ==
  [][\A e, o \in Exec :
       Running(o) /\ Running(o)' /\ o # e /\ Installed(o) /\ pc[e] = "reverting" =>
         Installed(o)' \/ pc'[e] = "reverting" \/ ~netnsClaimed[e] \/ Excused(o)]_vars

\* Nobody but a Start that finds a claim becomes a shadow.
LEMMA OnlyStartMakesShadows ==
  ASSUME TypeOK, [Next]_vars, NEW e \in Exec, isShadow'[e], ~isShadow[e]
  PROVE  StartAsShadow(e)
BY DEF TypeOK, Next, Step, Prepare, PrepareRefused, Start, StartUndecodable, StartAsShadow,
       StartAsPrimary, StartAsPassthrough, Apply, ApplySucceeds, ApplyFails, Stop,
       StopShadow, StopUndecodable, StopNetnsGone, StopReverts, Revert,
       RevertSucceeds, RevertFails, DeferredRelease, NetnsGone, Terminating, vars, flags

\* Every shadow follows an execution with its own options, for any number of them.
THEOREM ShadowsFollowAHolderCorrect == Spec => ShadowsFollowAHolder
<1> DEFINE Followed ==
             \A e \in Exec : isShadow'[e] /\ ~isShadow[e] =>
               \E o \in Holders(target(e)) :
                 attack(o) = attack(e) /\ request[o].experiment = request[e].experiment
<1>1. ClaimsInv /\ [Next]_vars => [Followed]_vars
  <2> SUFFICES ASSUME ClaimsInv, [Next]_vars, NEW e \in Exec, isShadow'[e], ~isShadow[e]
               PROVE  \E o \in Holders(target(e)) :
                        attack(o) = attack(e) /\ request[o].experiment = request[e].experiment
    OBVIOUS
  <2>1. PICK t \in Targets : t = target(e)
    BY RequestType DEF ClaimsInv
  <2>2. StartAsShadow(e)
    BY OnlyStartMakesShadows DEF ClaimsInv
  <2>3. /\ t \in Netns /\ Claimed(t)
        /\ active[t].opts = [attack |-> attack(e), experiment |-> request[e].experiment]
    BY <2>1, <2>2 DEF StartAsShadow, ClaimShadow, Claimed, NetworkOpts, normalizeOptsForDedup
  <2>4. PICK o \in Holders(t) : TRUE
    <3>1. active[t].count = Cardinality(Holders(t)) /\ active[t].count \in Nat \ {0}
      BY <2>3 DEF ClaimsInv, RefCount, TypeOK, TrackerTypeOK, Claimed, Entry
    <3>2. Cardinality({}) = 0
      BY FS_EmptySet
    <3> QED BY <3>1, <3>2
  <2>5. active[t].opts = [attack |-> attack(o), experiment |-> request[o].experiment]
    BY <2>3, <2>4 DEF ClaimsInv, ClaimsAgree
  <2>6. attack(o) = attack(e) /\ request[o].experiment = request[e].experiment
    BY <2>3, <2>5
  <2> QED BY <2>1, <2>4, <2>6
<1> QED BY <1>1, ClaimsCorrect, PTL DEF Spec, ShadowsFollowAHolder

\* An execution leaves "reverting" with the answer of its Revert only.
LEMMA OnlyRevertEnds ==
  ASSUME TypeOK, [Next]_vars, NEW e \in Exec, pc[e] = "reverting", pc'[e] # "reverting"
  PROVE  RevertSucceeds(e) \/ RevertFails(e)
<1>1. ASSUME NEW o \in Exec, Step(o), o # e
      PROVE  FALSE
  BY <1>1 DEF TypeOK, Step, Prepare, PrepareRefused, Start, StartUndecodable, StartAsShadow,
       StartAsPrimary, StartAsPassthrough, Apply, ApplySucceeds, ApplyFails, Stop,
       StopShadow, StopUndecodable, StopNetnsGone, StopReverts, Revert, BeginStop,
       RevertSucceeds, RevertFails, DeferredRelease, Goto
<1>2. CASE Step(e)
  BY <1>2 DEF Step, Prepare, PrepareRefused, Start, StartUndecodable, StartAsShadow,
       StartAsPrimary, StartAsPassthrough, Apply, ApplySucceeds, ApplyFails, Stop,
       StopShadow, StopUndecodable, StopNetnsGone, StopReverts, Revert, BeginStop,
       Stoppable, DeferredRelease, Goto
<1> QED BY <1>1, <1>2 DEF Next, NetnsGone, Terminating, vars

\* No Stop of claim holders alone tears down another's attack, for any number of them.
THEOREM ClaimHoldersSpareOthersCorrect == Spec => ClaimHoldersSpareOthers
<1> DEFINE Spared ==
             \A e, o \in Exec :
               Running(o) /\ Running(o)' /\ o # e /\ Installed(o) /\ pc[e] = "reverting" =>
                 Installed(o)' \/ pc'[e] = "reverting" \/ ~netnsClaimed[e] \/ Excused(o)
<1>1. IInv /\ [Next]_vars => [Spared]_vars
  <2> SUFFICES ASSUME IInv, [Next]_vars, NEW e \in Exec, NEW o \in Exec,
                      Running(o), Running(o)', o # e, Installed(o), pc[e] = "reverting",
                      pc'[e] # "reverting", netnsClaimed[e]
               PROVE  Installed(o)' \/ Excused(o)
    OBVIOUS
  <2>1. TypeOK /\ FlagsOK /\ OneApplier
    BY DEF IInv, ClaimsInv, RulesInv
  <2>2. CASE RevertFails(e)
    BY <2>2 DEF RevertFails, Installed, target, attack
  <2>3. CASE RevertSucceeds(e)
    <3>1. Installed(o)' <=> Installed(o) /\ ~SameAttack(e, o)
      BY <2>1, <2>3, RuleRemoved DEF RevertSucceeds
    <3>2. ASSUME SameAttack(e, o) PROVE Excused(o)
      <4>1. Applied(e) /\ Applied(o)
        BY <2>1 DEF Applied, Running, FlagsOK
      <4>2. SameAttack(o, e)
        BY <3>2 DEF SameAttack
      <4> QED BY <2>1, <4>1, <4>2 DEF OneApplier
    <3> QED BY <3>1, <3>2
  <2> QED BY <2>1, <2>2, <2>3, OnlyRevertEnds
<1> QED BY <1>1, IInvCorrect, PTL DEF Spec, ClaimHoldersSpareOthers

-----------------------------------------------------------------------------
(***************************************************************************)
(* The safety half of ClaimFreed.  Every claim has somebody who will       *)
(* release it, who is in a call or can be stopped, and each of the calls   *)
(* takes a bounded number of steps: what the fairness of NetworkAction     *)
(* adds is only that these steps are taken.                                *)
(***************************************************************************)
Progress == [idle |-> 0, prepared |-> 1, applying |-> 2, started |-> 3, failed |-> 3,
             reverting |-> 4, releasing |-> 5, stopped |-> 6, refused |-> 6]

\* A claim is never orphaned: who releases it is on its way to its release.
ClaimsEnding ==
  \A n \in Netns : Claimed(n) =>
    /\ Holders(n) # {}
    /\ \A e \in Holders(n) : pc[e] \in {"applying", "started", "reverting", "releasing"}

\* No execution goes back.
CallsAdvance ==
  [][\A e \in Exec : pc'[e] = pc[e] \/ Progress[pc'[e]] > Progress[pc[e]]]_vars

\* A claimed namespace has a holder, and every holder is on its way to the release.
THEOREM ClaimsEndingCorrect == Spec => []ClaimsEnding
<1>1. ClaimsInv => ClaimsEnding
  <2> SUFFICES ASSUME ClaimsInv, NEW n \in Netns, Claimed(n)
               PROVE  /\ Holders(n) # {}
                      /\ \A e \in Holders(n) :
                           pc[e] \in {"applying", "started", "reverting", "releasing"}
    BY DEF ClaimsEnding
  <2>1. active[n].count = Cardinality(Holders(n)) /\ active[n].count \in Nat \ {0}
    BY DEF ClaimsInv, RefCount, TypeOK, TrackerTypeOK, Claimed, Entry
  <2>2. Cardinality({}) = 0
    BY FS_EmptySet
  <2>3. \A e \in Holders(n) : pc[e] \in {"applying", "started", "reverting", "releasing"}
    BY DEF Holders, ClaimsInv, FlagsOK, TypeOK, PC
  <2> QED BY <2>1, <2>2, <2>3
<1> QED BY <1>1, ClaimsCorrect, PTL

\* Every step of a call takes its execution closer to its end.
THEOREM CallsAdvanceCorrect == Spec => CallsAdvance
<1> DEFINE Advance ==
             \A e \in Exec : pc'[e] = pc[e] \/ Progress[pc'[e]] > Progress[pc[e]]
<1>1. TypeOK /\ [Next]_vars => [Advance]_vars
  <2> SUFFICES ASSUME TypeOK, [Next]_vars, NEW o \in Exec
               PROVE  pc'[o] = pc[o] \/ Progress[pc'[o]] > Progress[pc[o]]
    OBVIOUS
  <2>1. ASSUME NEW e \in Exec, Step(e), o # e
        PROVE  pc'[o] = pc[o]
    BY <2>1 DEF TypeOK, Step, Prepare, PrepareRefused, Start, StartUndecodable, StartAsShadow,
       StartAsPrimary, StartAsPassthrough, Apply, ApplySucceeds, ApplyFails, Stop,
       StopShadow, StopUndecodable, StopNetnsGone, StopReverts, Revert, BeginStop,
       RevertSucceeds, RevertFails, DeferredRelease, Goto
  <2>2. ASSUME Step(o)
        PROVE  Progress[pc'[o]] > Progress[pc[o]]
    BY <2>2 DEF TypeOK, Step, Prepare, PrepareRefused, Start, StartUndecodable, StartAsShadow,
       StartAsPrimary, StartAsPassthrough, Apply, ApplySucceeds, ApplyFails, Stop,
       StopShadow, StopUndecodable, StopNetnsGone, StopReverts, Revert, BeginStop,
       RevertSucceeds, RevertFails, DeferredRelease, Goto, Stoppable, Progress
  <2> QED BY <2>1, <2>2 DEF Next, NetnsGone, Terminating, vars
<1> QED BY <1>1, TypeCorrect, PTL DEF Spec, CallsAdvance
=============================================================================

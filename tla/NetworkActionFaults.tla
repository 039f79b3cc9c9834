------------------------- MODULE NetworkActionFaults ------------------------
(***************************************************************************)
(* NetworkAction with the faults its environment adds.  NetworkActionState *)
(* is not kept by the extension: Prepare and Start return it, the platform *)
(* sends it with the next call.  The tracker lives in the process only.    *)
(* So the two can disagree after                                           *)
(*   restart       the extension's process ends and another one starts;    *)
(*   dupStop       Stop is delivered a second time;                        *)
(*   lostResponse  the answer to Start is lost, and Stop comes with the    *)
(*                 state Prepare had returned.                             *)
(***************************************************************************)
EXTENDS NetworkAction, FiniteSetsExt

CONSTANT
  MaxFaults   \* bound: how many faults happen

FaultKinds == {"restart", "dupStop", "lostResponse"}

ASSUME FaultsAssumption == MaxFaults \in Nat

VARIABLE faults   \* how many of each kind have happened

faultVars == <<vars, faults>>

Fault(kind) ==
  /\ MapThenSumSet(LAMBDA k : faults[k], FaultKinds) < MaxFaults
  /\ faults' = [faults EXCEPT ![kind] = @ + 1]

-----------------------------------------------------------------------------
(***************************************************************************)
(* The tracker is empty again.  A call in progress is never answered: the  *)
(* platform goes on with the state it has, of Prepare for an interrupted   *)
(* Start, of Start for an interrupted Stop.  netfault may have finished    *)
(* before the process ended, or not.                                       *)
(***************************************************************************)
InStart == {e \in Exec : pc[e] = "applying"}

InStop == {e \in Exec : pc[e] \in {"reverting", "releasing"}}

AttacksOn(E, t) == {attack(e) : e \in {f \in E : target(f) = t}}

Restart ==
  /\ Fault("restart")
  /\ active' = [n \in Netns |-> NoEntry]
  /\ pc' = [e \in Exec |-> IF e \in InStart \cup InStop THEN "failed" ELSE pc[e]]
  /\ netnsClaimed' = [e \in Exec |-> netnsClaimed[e] /\ e \notin InStart]
  /\ \E applied \in SUBSET {e \in InStart : NetfaultAccepts(e)},
        reverted \in SUBSET {e \in InStop : pc[e] = "reverting"} :
       rules' = [t \in Targets |->
                   (rules[t] \cup AttacksOn(applied, t)) \ AttacksOn(reverted, t)]
  /\ UNCHANGED <<request, isShadow, stopError, alive>>

\* Stop arrives again; the state it comes with still has its flags.
StopAgain(e) ==
  /\ Fault("dupStop")
  /\ Goto(e, "stopped", "failed")
  /\ UNCHANGED <<active, request, flags, rules, alive>>

\* Start is done here, but the platform only has the state of Prepare.
LoseStartResponse(e) ==
  /\ Fault("lostResponse")
  /\ Goto(e, "started", "failed")
  /\ isShadow' = [isShadow EXCEPT ![e] = FALSE]
  /\ netnsClaimed' = [netnsClaimed EXCEPT ![e] = FALSE]
  /\ UNCHANGED <<active, request, stopError, rules, alive>>

FaultNext == \/ Next /\ UNCHANGED faults
             \/ Restart
             \/ \E e \in Exec : StopAgain(e) \/ LoseStartResponse(e)

FaultInit == Init /\ faults = [k \in FaultKinds |-> 0]

FaultSpec == FaultInit /\ [][FaultNext]_faultVars

-----------------------------------------------------------------------------
(***************************************************************************)
(* Neither a restart nor a repeated Stop leaks a claim: the tracker never  *)
(* counts more claims than there are executions that will release one      *)
(* (netns_dedup.go:196-200).  It may count fewer, when one that claimed    *)
(* before the restart releases what another claimed after it.              *)
(***************************************************************************)
NoLeak ==
  \A n \in Netns : Claimed(n) /\ faults["lostResponse"] = 0 =>
    Holders(n) # {} /\ active[n].count <= Cardinality(Holders(n))

(***************************************************************************)
(* After a restart, too, an attack in a namespace belongs to an execution  *)
(* that is no shadow and whose Stop will revert it, or has told the        *)
(* platform that it failed: the flags in NetworkActionState route Stop     *)
(* without the tracker (netns_dedup.go:40-42).                             *)
(***************************************************************************)
RulesStillOwned ==
  \A t \in Targets : \A a \in rules[t] :
    \E e \in Exec : /\ target(e) = t
                    /\ attack(e) = a
                    /\ ~isShadow[e]
                    /\ pc[e] \in {"started", "failed", "reverting"} \/ stopError[e]

(***************************************************************************)
(* Whatever answer of Start is lost, no Stop releases a claim that is not  *)
(* its own: every execution that will release is still counted             *)
(* (action_network.go:63-66, 304-308).                                     *)
(***************************************************************************)
NoForeignRelease ==
  \A n \in Netns : Holders(n) # {} /\ faults["restart"] + faults["dupStop"] = 0 =>
    Claimed(n) /\ active[n].count >= Cardinality(Holders(n))

\* No fault but lost answers of Start.
OnlyLost == faults["restart"] = 0 /\ faults["dupStop"] = 0

(***************************************************************************)
(* Whatever answers of Start are lost, the claims that are still to be     *)
(* released are of the one attack and experiment the entry records, and at *)
(* most one of them is a primary's: a lost answer costs a count that       *)
(* nobody takes back, so the namespace never looks free too early and no   *)
(* Start installs over a claim (netns_dedup.go:76-82,                      *)
(* action_network.go:304-308).  Of the rules it says nothing: a shadow     *)
(* whose answer was lost comes to Stop with IsShadow false and reverts the *)
(* primary's attack, see MCLostShadow.                                     *)
(***************************************************************************)
LossContained == OnlyLost => ClaimsAgree /\ SinglePrimary
=============================================================================

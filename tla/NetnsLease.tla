----------------------------- MODULE NetnsLease -----------------------------
(***************************************************************************)
(* What the netns tracker promises: a lease on every network namespace.    *)
(* Whoever finds a namespace unleased becomes its primary and sets the     *)
(* terms of the lease.  Others may follow as shadows, on the same terms    *)
(* only.  The lease ends, and the terms with it, when the last one leaves. *)
(***************************************************************************)
CONSTANTS Netns, Exec, Terms,
          NoTerms   \* not one of Terms: the namespace is unleased

VARIABLES
  wanted,     \* the terms each execution asks for
  primaries,  \* who set the terms of each namespace, if still there
  shadows,    \* who joined on those terms
  terms       \* the terms of each lease

leaseVars == <<wanted, primaries, shadows, terms>>

LeaseTypeOK ==
  /\ wanted \in [Exec -> Terms]
  /\ primaries \in [Netns -> SUBSET Exec]
  /\ shadows \in [Netns -> SUBSET Exec]
  /\ terms \in [Netns -> Terms \cup {NoTerms}]

LeaseInit ==
  /\ wanted \in [Exec -> Terms]
  /\ primaries = [n \in Netns |-> {}]
  /\ shadows = [n \in Netns |-> {}]
  /\ terms = [n \in Netns |-> NoTerms]

Holds(e, n) == e \in primaries[n] \cup shadows[n]

Acquire(e, n) ==
  /\ terms[n] = NoTerms
  /\ primaries' = [primaries EXCEPT ![n] = {e}]
  /\ terms' = [terms EXCEPT ![n] = wanted[e]]
  /\ UNCHANGED <<wanted, shadows>>

Follow(e, n) ==
  /\ terms[n] = wanted[e]
  /\ ~Holds(e, n)
  /\ shadows' = [shadows EXCEPT ![n] = @ \cup {e}]
  /\ UNCHANGED <<wanted, primaries, terms>>

Leave(e, n) ==
  /\ Holds(e, n)
  /\ primaries' = [primaries EXCEPT ![n] = @ \ {e}]
  /\ shadows' = [shadows EXCEPT ![n] = @ \ {e}]
  /\ terms' = [terms EXCEPT ![n] =
                 IF primaries[n] \cup shadows[n] = {e} THEN NoTerms ELSE @]
  /\ UNCHANGED wanted

LeaseNext == \E e \in Exec, n \in Netns : Acquire(e, n) \/ Follow(e, n) \/ Leave(e, n)

LeaseSpec == LeaseInit /\ [][LeaseNext]_leaseVars

-----------------------------------------------------------------------------
(***************************************************************************)
(* What the containers of a pod rely on (netns_dedup.go:25-30): a lease    *)
(* has terms as long as somebody holds it, everybody holds it on these     *)
(* terms, and one at most is there to take the attack down.                *)
(***************************************************************************)
LeasePromise ==
  \A n \in Netns :
    /\ terms[n] # NoTerms <=> primaries[n] \cup shadows[n] # {}
    /\ \A e \in primaries[n] \cup shadows[n] : wanted[e] = terms[n]
    /\ \A e, f \in primaries[n] : e = f
    /\ primaries[n] \cap shadows[n] = {}

(***************************************************************************)
(* Nobody changes the terms of a lease, or takes its primary's part, as    *)
(* long as it lasts: to go from one attack to another a namespace has to   *)
(* be free in between (netns_dedup.go:139-151).                            *)
(***************************************************************************)
LeaseSettled ==
  [][\A n \in Netns : terms[n] # NoTerms =>
       /\ terms'[n] \in {terms[n], NoTerms}
       /\ primaries'[n] \subseteq primaries[n]]_leaseVars
=============================================================================

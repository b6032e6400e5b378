--------------------------- MODULE RunLease_proofs ---------------------------
(* What the abstract lease itself guarantees, for every set of attempts.   *)
EXTENDS RunLease, TLAPS

LEMMA LeaseStart == LeaseInit => Honest
BY DEF LeaseInit, Honest

LEMMA LeaseStep ==
    ASSUME NoToken \notin Tokens, Honest, [LeaseNext]_leaseVars
    PROVE  Honest'
<1> USE DEF Honest
<1>1. ASSUME NEW t \in Tokens, Start(t) \/ Claim(t) PROVE Honest'
  BY <1>1 DEF Start, Claim
<1>2. ASSUME NEW t \in Tokens, Settle(t) \/ End(t) PROVE Honest'
  BY <1>2 DEF Settle, End
<1>3. CASE Enqueue \/ Revoke \/ Close \/ Reopen \/ Forget
  BY <1>3 DEF Enqueue, Revoke, Close, Reopen, Forget
<1>4. CASE UNCHANGED leaseVars
  BY <1>4 DEF leaseVars
<1> QED BY <1>1, <1>2, <1>3, <1>4 DEF LeaseNext

(* A shown success is a completed run, a shown wait one that waits, and a  *)
(* run has an owner exactly while it is owned.  RunLedger implements       *)
(* LeaseSpec while commits do not overlap, so this holds of its rows then. *)
THEOREM LeaseHonest ==
    ASSUME NoToken \notin Tokens
    PROVE  LeaseSpec => []Honest
BY LeaseStart, LeaseStep, PTL DEF LeaseSpec

(* A completed run stays completed, and no attempt takes a run from        *)
(* another one.  This, too, holds of the ledger's rows while commits do    *)
(* not overlap.                                                            *)
THEOREM LeaseHistory ==
    ASSUME NoToken \notin Tokens
    PROVE  LeaseSpec => History
<1>1. ASSUME Honest, [LeaseNext]_leaseVars
      PROVE  /\ phase = "completed" => phase' = "completed"
             /\ owner # NoToken /\ owner' # NoToken => owner' = owner
  BY <1>1 DEF LeaseNext, Honest, leaseVars, Start, Claim, Settle, End, Enqueue, Revoke,
              Close, Reopen, Forget
<1> QED BY <1>1, LeaseHonest, PTL DEF LeaseSpec, History

==============================================================================

------------------------------ MODULE RunLease ------------------------------
(* What the durable queue promises about ONE run, whatever transactions,   *)
(* heartbeats, sweeps and operators it is made of: the run is in one phase *)
(* at a time; it passes to an attempt only from the queue; only the owner, *)
(* in its last step, settles it; an operator may close or reopen it, but a *)
(* completed run is never touched again; and what a user is shown as a     *)
(* success or a wait is backed by the phase.                               *)
(* Sources: services/queue.py and services/runner.py of apps/api/app.      *)

CONSTANTS
    Tokens,   \* execution attempts
    NoToken   \* nobody

VARIABLES
    phase,  \* what the queue row says of the run
    owner,  \* the attempt that owns it
    shown,  \* what the Run row tells the user, as far as it binds the queue
    work    \* work[t]: has attempt t started, is it over

leaseVars == <<phase, owner, shown, work>>

Phases == {"absent", "queued", "owned", "waiting", "completed", "closed"}

LeaseInit ==
    /\ phase = "absent"
    /\ owner = NoToken
    /\ shown = "other"
    /\ work = [t \in Tokens |-> "unused"]

Begin(t) == work' = [work EXCEPT ![t] = "active"]

Over(t) == work' = [work EXCEPT ![t] = "over"]

(* The trigger executes the run at once ...                                *)
Start(t) ==
    /\ phase = "absent"
    /\ work[t] = "unused"
    /\ phase' = "owned" /\ owner' = t
    /\ Begin(t)
    /\ UNCHANGED shown

(* ... or leaves it to a worker.                                           *)
Enqueue ==
    /\ phase = "absent"
    /\ phase' = "queued"
    /\ UNCHANGED <<owner, shown, work>>

(* An attempt takes a queued run: a new one, or one that lost it while it  *)
(* was preparing.                                                          *)
Claim(t) ==
    /\ phase = "queued"
    /\ work[t] \in {"unused", "active"}
    /\ phase' = "owned" /\ owner' = t
    /\ Begin(t)
    /\ UNCHANGED shown

(* The owner settles the run, and is over: its success is what is shown;   *)
(* a wait is shown unless the Run was settled behind the owner's back; any *)
(* other end closes the run or puts it back.                               *)
Settle(t) ==
    /\ owner = t
    /\ work[t] = "active"
    /\ \/ phase' = "completed" /\ shown' = "success"
       \/ phase' = "waiting" /\ shown' \in {"waiting", "other"}
       \/ phase' \in {"queued", "closed"} /\ shown' = "other"
    /\ owner' = NoToken
    /\ Over(t)

(* The sweep or an operator takes the run from its owner.                  *)
Revoke ==
    /\ phase = "owned"
    /\ phase' \in {"queued", "closed"}
    /\ owner' = NoToken
    /\ shown' = "other"
    /\ UNCHANGED work

(* An operator cancels a run nobody owns.                                  *)
Close ==
    /\ phase \in {"queued", "waiting"}
    /\ phase' = "closed"
    /\ shown' = "other"
    /\ UNCHANGED <<owner, work>>

(* A replay, an approval, or a silent agent's run put back.                *)
Reopen ==
    /\ phase \in {"closed", "waiting"}
    /\ phase' = "queued"
    /\ shown' = "other"
    /\ UNCHANGED <<owner, work>>

(* An attempt ends without settling: it crashed, was fenced or refused.    *)
(* The writers that skip the fence (a run without a runner, a stale park)  *)
(* can hide a verdict from the user; they can never invent one.            *)
End(t) ==
    /\ work[t] = "active"
    /\ Over(t)
    /\ shown' \in {shown, "other"}
    /\ UNCHANGED <<phase, owner>>

Forget ==
    /\ shown' = "other"
    /\ UNCHANGED <<phase, owner, work>>

LeaseNext ==
    \/ \E t \in Tokens : Start(t) \/ Claim(t) \/ Settle(t) \/ End(t)
    \/ Enqueue \/ Revoke \/ Close \/ Reopen \/ Forget

LeaseSpec == LeaseInit /\ [][LeaseNext]_leaseVars

---------------------------------------------------------------------------
(* A verdict shown to the user is the queue's own, and the run has an      *)
(* owner exactly while it is owned: the invariant of the abstract lease.   *)
Honest ==
    /\ shown \in {"success", "waiting", "other"}
    /\ shown = "success" => phase = "completed"
    /\ shown = "waiting" => phase = "waiting"
    /\ owner # NoToken <=> phase = "owned"

(* Finished work is never queued, owned or closed again, and an attempt    *)
(* never takes a run from another: it takes it from the queue.             *)
History ==
    [][ /\ phase = "completed" => phase' = "completed"
        /\ owner # NoToken /\ owner' # NoToken => owner' = owner ]_leaseVars

=============================================================================

------------------------ MODULE RunLedgerRows_proofs -----------------------
(* More theorems about RunLedger: what the two ledgers say of one run, its *)
(* attempts, its deadline and its owner.  Each names what it excludes,     *)
(* overlapping commits among it: that is what breaks it (README,           *)
(* section 9).                                                             *)
EXTENDS RunLedger_proofs

USE TokenAssumption, BoundAssumption

---------------------------------------------------------------------------
(* The invariants of the rows, each against the moves                      *)

(* A row that can be leased has an attempt left.                           *)
Budgeted ==
    /\ AttemptBudget
    /\ entry.status = "queued" => entry.attempts < MaxAttempts

(* Whoever puts the row back into the queue has looked at the budget, or   *)
(* starts a new one.                                                       *)
LEMMA BudgetStep ==
    ASSUME {"approval", "runner_offline"} \cap Events = {},
           LedgerInv, Budgeted, RowMove
    PROVE  Budgeted'
<1>1. entry.attempts \in Nat /\ MaxAttempts \in Nat \ {0}
  BY DEF LedgerInv, TypeOK, EntryRows
<1> USE DEF Budgeted, AttemptBudget
<1>2. CASE UNCHANGED <<entry, run>> \/ Timed \/ Created \/ Unfenced \/ Checkpointed
  BY <1>1, <1>2 DEF Timed, Created, Unfenced, Checkpointed
<1>3. ASSUME NEW t \in Tokens, Leased(t) \/ Begun(t) \/ Claimed(t) PROVE Budgeted'
  BY <1>1, <1>3 DEF Leased, Begun, Claimed
<1>4. ASSUME NEW t \in Tokens, Parked(t) \/ Settled(t) PROVE Budgeted'
  BY <1>1, <1>4 DEF Parked, Settled, Released
<1>5. CASE Swept \/ Cancelled
  BY <1>1, <1>5 DEF Swept, Cancelled, Released
<1>6. ASSUME NEW r \in Requests, Replayed(r) PROVE Budgeted'
  BY <1>1, <1>6 DEF Replayed
<1>7. ~SentBack /\ ~Resumed
  BY DEF SentBack, Resumed
<1> QED BY <1>2, <1>3, <1>4, <1>5, <1>6, <1>7 DEF RowMove

(* Retries are bounded as long as no commit overlaps another transaction:  *)
(* crashes, parks, expiries and replays never lease a row more often than  *)
(* its max_attempts.  At READ COMMITTED a park that read the row before a  *)
(* sweep and a new lease queues it again with its budget used up           *)
(* (README, section 9); approvals and offline sweeps queue a row whatever  *)
(* it has used up.                                                         *)
THEOREM RetriesBounded ==
    ASSUME ~Overlap, {"approval", "runner_offline"} \cap Events = {}
    PROVE  Spec => []AttemptBudget
<1>1. Init => Budgeted
  BY DEF Init, Budgeted, AttemptBudget, NoEntry
<1>2. LedgerInv /\ RequestsAdmitted /\ Budgeted /\ [Next]_vars => Budgeted'
  BY RowMoves, BudgetStep
<1>3. Budgeted => AttemptBudget
  BY DEF Budgeted
<1> QED BY <1>1, <1>2, <1>3, AdmittedInvariant, PTL DEF Spec

(* A token stays with a deadline: only a claim makes an attempt work, and  *)
(* what takes the deadline takes the token.                                *)
LEMMA DeadlineStep ==
    ASSUME ~Overlap, LedgerInv, RequestsAdmitted, DeadlineBeforeWork, [Next]_vars
    PROVE  DeadlineBeforeWork'
<1> SUFFICES ASSUME NEW t \in Tokens, Working(t)', entry'.token = t
             PROVE  entry'.lease # "none"
  BY DEF DeadlineBeforeWork
<1>1. RowMove /\ Advances(t) /\ t # NoToken
  BY RowMoves, PcMoves DEF LedgerInv
<1>2. CASE ClaimCommit(t)
  BY <1>2, ClaimEffect DEF Claimed
<1>3. CASE ~ClaimCommit(t)
  <2>1. Working(t)
    BY <1>1, <1>3 DEF Advances, Working
  <2>2. entry.token = t => entry.lease # "none"
    BY <2>1 DEF DeadlineBeforeWork
  <2>3. CASE UNCHANGED <<entry, run>> \/ Timed \/ Unfenced \/ Checkpointed
    BY <2>2, <2>3 DEF Timed, Unfenced, Checkpointed
  <2>4. CASE Created
    BY <1>1, <2>4 DEF Created
  <2>5. ASSUME NEW u \in Tokens, Leased(u) \/ Begun(u) \/ Claimed(u) PROVE entry'.lease # "none"
    BY <2>1, <2>5 DEF Leased, Begun, Claimed, Working
  <2>6. ASSUME NEW u \in Tokens, Parked(u) \/ Settled(u) PROVE entry'.lease # "none"
    BY <1>1, <2>2, <2>6 DEF Parked, Settled, Released
  <2>7. CASE Swept \/ Cancelled \/ SentBack \/ Resumed \/ \E r \in Requests : Replayed(r)
    BY <1>1, <2>2, <2>7 DEF Swept, Cancelled, Replayed, SentBack, Resumed, Released, Requeued
  <2> QED BY <1>1, <2>3, <2>4, <2>5, <2>6, <2>7 DEF RowMove
<1> QED BY <1>2, <1>3

(* An attempt that runs user code and owns its row has a lease deadline,   *)
(* whatever crashes, parks, replays or sweeps came before, as long as no   *)
(* commit overlaps another transaction: the sweep will find the row should *)
(* the worker die.                                                         *)
THEOREM DeadlineHeld ==
    ASSUME ~Overlap
    PROVE  Spec => []DeadlineBeforeWork
<1>1. Init => DeadlineBeforeWork
  BY DEF Init, DeadlineBeforeWork, Working, NoAttempt
<1>2. LedgerInv /\ RequestsAdmitted /\ DeadlineBeforeWork /\ [Next]_vars => DeadlineBeforeWork'
  BY DeadlineStep
<1> QED BY <1>1, <1>2, AdmittedInvariant, PTL DEF Spec

(* The row of a cancelled Run is settled, so that no attempt owns it.      *)
CancelledIsSettled ==
    run.status = "cancelled" => entry.status \notin ACTIVE_STATUSES /\ run.checkpoint = 0

(* What would take up a settled row also changes the Run's status; only    *)
(* the bulk replay does not.                                               *)
LEMMA CancelledStep ==
    ASSUME "bulk_replay" \notin Events, RequestsAdmitted, LedgerInv, CancelledIsSettled, RowMove
    PROVE  CancelledIsSettled'
<1> USE DEF CancelledIsSettled, ACTIVE_STATUSES
<1>1. CASE UNCHANGED <<entry, run>> \/ Timed \/ Created \/ Unfenced \/ Checkpointed
  BY <1>1 DEF Timed, Created, Unfenced, Checkpointed
<1>2. ASSUME NEW t \in Tokens, Leased(t) \/ Begun(t) \/ Claimed(t) PROVE CancelledIsSettled'
  BY <1>2 DEF Leased, Begun, Claimed
<1>3. ASSUME NEW t \in Tokens, Parked(t) \/ Settled(t) PROVE CancelledIsSettled'
  BY <1>3 DEF Parked, Settled, Released
<1>4. CASE Swept \/ SentBack \/ Resumed
  BY <1>4 DEF Swept, SentBack, Resumed, Released
<1>5. CASE Cancelled
  BY <1>5 DEF Cancelled
<1>6. ASSUME NEW r \in Requests, Replayed(r) PROVE CancelledIsSettled'
  BY <1>6 DEF Replayed, RequestsAdmitted
<1> QED BY <1>1, <1>2, <1>3, <1>4, <1>5, <1>6 DEF RowMove

(* As long as no commit overlaps another transaction, a cancelled Run has  *)
(* no checkpoint: one is saved by the owner of a running row only.  At     *)
(* READ COMMITTED an UPDATE that looked at its fence before the            *)
(* cancellation and waited for it writes one (README, section 9).          *)
THEOREM CancelledStaysEmpty ==
    ASSUME ~Overlap, "bulk_replay" \notin Events
    PROVE  Spec => []CancelledHasNoCheckpoint
<1>1. Init => CancelledIsSettled
  BY DEF Init, CancelledIsSettled, NoRun
<1>2. LedgerInv /\ RequestsAdmitted /\ CancelledIsSettled /\ [Next]_vars => CancelledIsSettled'
  BY RowMoves, CancelledStep
<1>3. CancelledIsSettled => CancelledHasNoCheckpoint
  BY DEF CancelledIsSettled, CancelledHasNoCheckpoint
<1> QED BY <1>1, <1>2, <1>3, AdmittedInvariant, PTL DEF Spec

(* What does not agree with the queue are the writes of Run.status that do *)
(* not look at it, and the bulk replay, which leaves Run.status alone.     *)
Aligning == {"park", "missing_graph", "stuck", "bulk_replay"} \cap Events = {}

(* The Run of an open row is open, that of a failed one has failed, and    *)
(* nobody parks.                                                           *)
Aligned ==
    /\ Agreement
    /\ entry.status \in {"queued", "leased", "running"} =>
          run.status \in {"pending", "queued", "running"}
    /\ entry.status = "failed" => run.status \in {"error", "timed_out"}
    /\ entry.status = "absent" => run.status = "absent"
    /\ NoPark

(* Every step keeps the two rows aligned.                                  *)
LEMMA AlignedStep ==
    ASSUME ~Overlap, Aligning, LedgerInv, RequestsAdmitted, Aligned, [Next]_vars
    PROVE  Aligned'
<1>1. NoPark'
  BY PcMoves DEF Aligning, Aligned, NoPark, Advances, LedgerInv
<1> DEFINE Rows ==
      /\ Agreement
      /\ entry.status \in {"queued", "leased", "running"} =>
            run.status \in {"pending", "queued", "running"}
      /\ entry.status = "failed" => run.status \in {"error", "timed_out"}
      /\ entry.status = "absent" => run.status = "absent"
<1>2. /\ Rows /\ RowMove
      /\ entry.status \in ACTIVE_STATUSES \cup TERMINAL_STATUSES \cup {"absent"}
  BY RowMoves DEF Aligned, LedgerInv, TypeOK, EntryRows
<1> SUFFICES Rows'
  BY <1>1 DEF Aligned
<1> USE DEF Agreement
<1>3. CASE UNCHANGED <<entry, run>> \/ Timed \/ Created \/ Checkpointed
  BY <1>2, <1>3 DEF Timed, Created, Checkpointed
<1>4. CASE Unfenced
  BY <1>2, <1>4 DEF Unfenced, Aligning
<1>5. ASSUME NEW t \in Tokens, Leased(t) \/ Begun(t) \/ Claimed(t) PROVE Rows'
  BY <1>2, <1>5 DEF Leased, Begun, Claimed
<1>6. ASSUME NEW t \in Tokens PROVE ~Parked(t)
  BY DEF Parked, Aligned, NoPark
<1>7. CASE Swept
  BY <1>2, <1>7 DEF Swept, Released
<1>8. ASSUME NEW t \in Tokens, Settled(t) PROVE Rows'
  BY <1>2, <1>8 DEF Settled, Released, TERMINAL_RUN_STATES
<1>9. CASE Cancelled
  BY <1>2, <1>9 DEF Cancelled, ACTIVE_STATUSES, TERMINAL_STATUSES
<1>10. ASSUME NEW r \in Requests, Replayed(r) PROVE Rows'
  BY <1>10 DEF Replayed, Requeued, RequestsAdmitted, Aligning
<1>11. CASE SentBack \/ Resumed
  BY <1>11 DEF SentBack, Resumed, Requeued
<1> QED BY <1>2, <1>3, <1>4, <1>5, <1>6, <1>7, <1>8, <1>9, <1>10, <1>11 DEF RowMove

(* The two ledgers agree on the verdicts the user acts upon: a completed   *)
(* row is a successful Run, a waiting row a waiting Run, a cancelled row a *)
(* cancelled Run.  A database that fails in the middle of an outcome, its  *)
(* fallback, crashes, cancellations, replays, approvals and offline sweeps *)
(* do not break it, as long as no commit overlaps another transaction.     *)
THEOREM LedgersAgree ==
    ASSUME ~Overlap, Aligning
    PROVE  Spec => []Agreement
<1>1. Init => Aligned
  BY DEF Init, Aligned, NoPark, Agreement, NoEntry, NoRun, NoAttempt
<1>2. LedgerInv /\ RequestsAdmitted /\ Aligned /\ [Next]_vars => Aligned'
  BY AlignedStep
<1>3. Aligned => Agreement
  BY DEF Aligned
<1> QED BY <1>1, <1>2, <1>3, AdmittedInvariant, PTL DEF Spec

(* A row that can be leased has a Run that is queued, one that is owned    *)
(* has a Run that its attempt may begin or has begun; and a sweep that     *)
(* will queue a row without a look back at its Run has not seen it running.*)
SweptRun == sweep = "keep" /\ entry.attempts < MaxAttempts => run.status # "running"

Dispatchable ==
    /\ LeaseableIsDispatchable
    /\ entry.status \in {"leased", "running"} => run.status \in {"queued", "running"}
    /\ SweptRun
    /\ NoPark

(* While the sweep holds the row nobody makes its Run running.             *)
LEMMA SweptRunStep ==
    ASSUME TypeOK, LocksHeld, NoPark, SweptRun, [Next]_vars
    PROVE  SweptRun'
<1> SUFFICES ASSUME sweep' = "keep", entry'.attempts < MaxAttempts
             PROVE  run'.status # "running"
  BY DEF SweptRun
<1>1. CASE SweepStep
  BY <1>1 DEF SweepStep, SweepRead, SweepCommit, SweepFails
<1>2. CASE sweep' = sweep
  <2>1. sweep = "keep" /\ ~Unlocked /\ entry # NoEntry
    BY <1>2 DEF Unlocked, LocksHeld, NoEntry
  <2>2. ~SweepCommit /\ \A t \in Tokens : ~PersistCommit(t) /\ ~FallbackCommit(t)
    BY <1>2, <2>1 DEF SweepCommit, PersistCommit, FallbackCommit, LocksHeld
  <2>3. run.status # "running"
    BY <2>1, <2>2, LockedEntry DEF SweptRun
  <2>4. CASE run' = run
    BY <2>3, <2>4
  <2>5. ~StartParked /\ ~cancel_run
    BY <2>1 DEF StartParked, cancel_run
  <2>6. ASSUME NEW t \in Tokens
        PROVE  ~StartInline(t) /\ ~_mark_queued_run_started(t) /\ ~ParkCommit(t)
    BY <2>1 DEF StartInline, _mark_queued_run_started, ParkCommit, NoPark
  <2>7. ASSUME NEW t \in Tokens, MissingGraph(t) \/ Dispatch(t) \/ SaveCommit(t) \/ queue_run(t)
        PROVE  run'.status # "running"
    BY <2>3, <2>7 DEF MissingGraph, Dispatch, SaveCommit, queue_run, TypeOK, RunRows
  <2>8. CASE detect_stuck_runs
    BY <2>8 DEF detect_stuck_runs, TypeOK, RunRows
  <2>9. ASSUME NEW r \in Requests PROVE ~ReplayCommit(r) /\ ~OfflineCommit(r) /\ ~ApprovalCommit(r)
    BY <2>1 DEF ReplayCommit, OfflineCommit, ApprovalCommit
  <2> QED BY <2>2, <2>4, <2>5, <2>6, <2>7, <2>8, <2>9, RunFrame DEF RunWrites
<1> QED BY <1>1, <1>2, RequestFrame

(* Every step keeps it: without a runner-offline sweep nothing makes a Run *)
(* pending.                                                                *)
LEMMA DispatchableStep ==
    ASSUME ~Overlap, Aligning, "runner_offline" \notin Events,
           LedgerInv, RequestsAdmitted, Dispatchable, [Next]_vars
    PROVE  Dispatchable'
<1>1. NoPark' /\ SweptRun'
  BY PcMoves, SweptRunStep DEF Aligning, Dispatchable, NoPark, Advances, LedgerInv
<1> DEFINE Rows ==
      /\ LeaseableIsDispatchable
      /\ entry.status \in {"leased", "running"} => run.status \in {"queued", "running"}
<1>2. Rows /\ RowMove
  BY RowMoves DEF Dispatchable
<1> SUFFICES Rows'
  BY <1>1 DEF Dispatchable
<1> USE DEF LeaseableIsDispatchable
<1>3. CASE UNCHANGED <<entry, run>> \/ Timed \/ Created \/ Checkpointed
  BY <1>2, <1>3 DEF Timed, Created, Checkpointed
<1>4. CASE Unfenced
  BY <1>2, <1>4 DEF Unfenced, Aligning
<1>5. ASSUME NEW t \in Tokens, Leased(t) \/ Begun(t) \/ Claimed(t) PROVE Rows'
  BY <1>2, <1>5 DEF Leased, Begun, Claimed
<1>6. ASSUME NEW t \in Tokens PROVE ~Parked(t)
  BY DEF Parked, Dispatchable, NoPark
<1>7. CASE Swept
  BY <1>2, <1>7 DEF Swept, Released, Dispatchable, SweptRun
<1>8. ASSUME NEW t \in Tokens, Settled(t) PROVE Rows'
  BY <1>2, <1>8 DEF Settled, Released
<1>9. CASE Cancelled
  BY <1>2, <1>9 DEF Cancelled, ACTIVE_STATUSES
<1>10. ASSUME NEW r \in Requests, Replayed(r) PROVE Rows'
  BY <1>10 DEF Replayed, Requeued, RequestsAdmitted, Aligning
<1>11. CASE SentBack \/ Resumed
  BY <1>11 DEF SentBack, Resumed, Requeued
<1> QED BY <1>2, <1>3, <1>4, <1>5, <1>6, <1>7, <1>8, <1>9, <1>10, <1>11 DEF RowMove

(* A row a worker may lease belongs to a Run its task will dispatch: no    *)
(* attempt is used up on a row that the task then leaves alone.  Parks,    *)
(* missing graphs, the stuck-run detector, bulk replays, runner-offline    *)
(* sweeps and overlapping commits are excluded: each breaks it.            *)
THEOREM LeasedIsDispatched ==
    ASSUME ~Overlap, Aligning, "runner_offline" \notin Events
    PROVE  Spec => []LeaseableIsDispatchable
<1>1. Init => Dispatchable
  BY DEF Init, Dispatchable, SweptRun, NoPark, LeaseableIsDispatchable, NoEntry, NoAttempt
<1>2. LedgerInv /\ RequestsAdmitted /\ Dispatchable /\ [Next]_vars => Dispatchable'
  BY DispatchableStep
<1>3. Dispatchable => LeaseableIsDispatchable
  BY DEF Dispatchable
<1> QED BY <1>1, <1>2, <1>3, AdmittedInvariant, PTL DEF Spec

---------------------------------------------------------------------------
(* The token when unlocked claims, parks and renewals overlap other        *)
(* transactions                                                            *)

(* Operators' rewrites read a settled or a waiting row without a lock.     *)
NoRewrites == {"replay", "bulk_replay", "runner_offline", "approval"} \cap Events = {}

(* A claim that overlaps another transaction writes the columns in which   *)
(* its snapshot differs: both status and token of a queued row, neither of *)
(* a running row of its own.  A leased row would be written by half, so it *)
(* matters that the task has begun the row it claims.                      *)
LeasedIsAwaited ==
    entry.status = "leased" => att[entry.token].pc \in {"leased", "loading", "ended"}

SnapshotsOwned ==
    \A t \in Tokens :
      /\ att[t].pc \in {"claiming", "parking"} =>
            (att[t].snap.token # NoToken <=> att[t].snap.status \in {"leased", "running"})
      /\ att[t].pc = "claiming" =>
            att[t].snap.status # "leased" /\ Claimable(att[t].snap, t)

NoRequest == \A r \in Requests : req[r].pc # "read"

OverlapInv ==
    /\ TypeOK /\ OutcomeDecided /\ TokenIsLease
    /\ LeasedIsAwaited /\ SnapshotsOwned /\ NoRequest

(* A claim that overlaps: it takes the row it saw free, whoever has it by  *)
(* then, or leaves the owner of its own row alone.                         *)
LEMMA OverlappingClaim ==
    ASSUME OverlapInv, NEW t \in Tokens, ClaimCommit(t)
    PROVE  \/ /\ entry'.status = "running" /\ entry'.token = t
              /\ att[t].snap.status = "queued" /\ att[t].snap.token = NoToken
           \/ entry'.status = entry.status /\ entry'.token = entry.token
<1> DEFINE old == att[t].snap
           new == mark_running(old, t)
<1>1. /\ entry \in EntryRows /\ old \in EntryRows
      /\ old.token # NoToken <=> old.status \in {"leased", "running"}
      /\ old.status # "leased" /\ Claimable(old, t)
  BY DEF ClaimCommit, OverlapInv, TypeOK, Attempts, SnapshotsOwned
<1>2. /\ new.status = "running" /\ new.token = t
      /\ \/ old.status = "queued" /\ old.token = NoToken
         \/ old.status = "running" /\ old.token = t
  BY <1>1 DEF mark_running, EntryRows, Claimable, _lease_matches
<1>3. entry' = [Flush(entry, old, new) EXCEPT !.lease = "live"]
  BY DEF ClaimCommit
<1>4. /\ entry'.status = Dirty(entry.status, old.status, new.status)
      /\ entry'.token = Dirty(entry.token, old.token, new.token)
  <2> HIDE DEF old, new
  <2> QED BY <1>3 DEF Flush
<1>5. CASE old.status = "queued" /\ old.token = NoToken
  <2>1. entry'.status = "running" /\ entry'.token = t
    <3> HIDE DEF old, new
    <3> QED BY <1>2, <1>4, <1>5 DEF Dirty
  <2> QED BY <1>5, <2>1
<1>6. CASE old.status = "running" /\ old.token = t
  <2> HIDE DEF old, new
  <2> QED BY <1>2, <1>4, <1>6 DEF Dirty
<1> QED BY <1>2, <1>5, <1>6

(* A park that overlaps writes both columns of a row that was its own.     *)
LEMMA OverlappingPark ==
    ASSUME OverlapInv, NEW t \in Tokens, ParkCommit(t)
    PROVE  \/ entry'.status \in {"queued", "dead_lettered"} /\ entry'.token = NoToken
           \/ entry' = entry
<1> DEFINE old == att[t].snap
           new == fail(old, TRUE)
<1>1. /\ entry \in EntryRows /\ old \in EntryRows
      /\ old.token # NoToken <=> old.status \in {"leased", "running"}
  BY DEF ParkCommit, OverlapInv, TypeOK, Attempts, SnapshotsOwned
<1>2. CASE old.token # t
  BY <1>2 DEF ParkCommit, _lease_matches
<1>3. CASE old.token = t
  <2>1. new.token = NoToken /\ new.status \in {"queued", "dead_lettered"}
    BY <1>1, RetryEffect
  <2>2. entry' = [Flush(entry, old, new) EXCEPT
                    !.due = IF new.status = "queued" THEN FALSE ELSE @]
    BY <1>3 DEF ParkCommit, _lease_matches
  <2>3. /\ entry'.status = Dirty(entry.status, old.status, new.status)
        /\ entry'.token = Dirty(entry.token, old.token, new.token)
    <3> HIDE DEF old, new
    <3> QED BY <2>2 DEF Flush
  <2> HIDE DEF old, new
  <2> QED BY <1>1, <1>3, <2>1, <2>3 DEF Dirty
<1> QED BY <1>2, <1>3

(* A claim that commits on the word of a snapshot of a free row.           *)
LateClaim(t) ==
    /\ ClaimCommit(t)
    /\ att[t].snap.status = "queued" /\ att[t].snap.token = NoToken

(* What a step may do to status and token, commits overlapping or not.     *)
TokenMove ==
    \/ entry'.status = entry.status /\ entry'.token = entry.token
    \/ entry'.status \notin {"leased", "running"} /\ entry'.token = NoToken
    \/ \E t \in Tokens : /\ entry'.status = "running" /\ entry'.token = t
                         /\ entry.token \in {NoToken, t} \/ LateClaim(t)
    \/ \E t \in Tokens : /\ entry.status = "queued"
                         /\ entry'.status = "leased" /\ entry'.token = t
                         /\ att'[t].pc = "leased"

(* Every step is one of these.                                             *)
LEMMA TokenMoves ==
    ASSUME OverlapInv, [Next]_vars
    PROVE  TokenMove
<1>1. entry \in EntryRows /\ run \in RunRows /\ att \in [Tokens -> Attempts]
  BY DEF OverlapInv, TypeOK
<1> USE DEF TokenMove
<1>2. CASE entry' = entry
  BY <1>2
<1>3. CASE StartParked
  BY <1>3 DEF StartParked, NoEntry
<1>4. ASSUME NEW t \in Tokens, StartInline(t) PROVE TokenMove
  BY <1>4 DEF StartInline, NoEntry
<1>5. ASSUME NEW t \in Tokens, lease(t) PROVE TokenMove
  <2>1. /\ entry.status = "queued" /\ entry'.status = "leased" /\ entry'.token = t
    BY <1>1, <1>5 DEF lease, EntryRows
  <2>2. att'[t].pc = "leased"
    BY <1>1, <1>5 DEF lease, NoAttempt
  <2> QED BY <2>1, <2>2
<1>6. CASE SweepCommit \/ cancel_run
  BY <1>1, <1>6 DEF SweepCommit, cancel_run, _clear_lease, EntryRows
<1>7. ASSUME NEW t \in Tokens, _mark_queued_run_started(t) PROVE TokenMove
  BY <1>1, <1>7 DEF _mark_queued_run_started, EntryRows
<1>8. ASSUME NEW t \in Tokens, ClaimCommit(t) PROVE TokenMove
  BY <1>8, OverlappingClaim DEF LateClaim
<1>9. ASSUME NEW t \in Tokens, ParkCommit(t) PROVE TokenMove
  BY <1>9, OverlappingPark
<1>10. ASSUME NEW t \in Tokens, PersistCommit(t) \/ FallbackCommit(t) PROVE TokenMove
  <2>1. /\ StatusOf(att[t].outcome) \in RUN_STATES
        /\ FallbackOf(att[t].outcome) \in RUN_STATES
    BY <1>1, <1>10 DEF PersistCommit, FallbackCommit, FallbackOf, StatusOf, Attempts, Outcomes,
       RUN_STATES, TERMINAL_RUN_STATES, OverlapInv, OutcomeDecided
  <2>2. \E s \in RUN_STATES : entry' = Mirror(entry, s)
    BY <1>10, <2>1 DEF PersistCommit, FallbackCommit
  <2> QED BY <1>1, <2>2, MirrorEffect
<1>11. CASE \/ LeaseElapses \/ BackoffElapses \/ \E t \in Tokens : HeartbeatCommit(t)
  BY <1>1, <1>11 DEF LeaseElapses, BackoffElapses, HeartbeatCommit, EntryRows
<1>12. ASSUME NEW r \in Requests PROVE ~ReplayCommit(r) /\ ~OfflineCommit(r) /\ ~ApprovalCommit(r)
  BY DEF ReplayCommit, OfflineCommit, ApprovalCommit, OverlapInv, NoRequest
<1> QED BY <1>2, <1>3, <1>4, <1>5, <1>6, <1>7, <1>8, <1>9, <1>10, <1>11, <1>12, EntryFrame
        DEF EntryWrites

(* Every step keeps the invariant, overlapping commits included.           *)
LEMMA OverlapStep ==
    ASSUME NoRewrites, OverlapInv, [Next]_vars
    PROVE  OverlapInv'
<1>1. /\ entry \in EntryRows /\ att \in [Tokens -> Attempts]
      /\ TypeOK /\ OutcomeDecided /\ TokenIsLease
      /\ LeasedIsAwaited /\ SnapshotsOwned /\ NoRequest
  BY DEF OverlapInv, TypeOK
<1>2. TypeOK' /\ OutcomeDecided'
  BY <1>1, TypeStep, OutcomeStep
<1>3. TokenMove /\ \A t \in Tokens : Advances(t)
  BY <1>1, TokenMoves, PcMoves
<1>4. TokenIsLease'
  BY <1>1, <1>3 DEF TokenIsLease, TokenMove
<1>5. LeasedIsAwaited'
  <2> SUFFICES ASSUME entry'.status = "leased"
               PROVE  att'[entry'.token].pc \in {"leased", "loading", "ended"}
    BY DEF LeasedIsAwaited
  <2>1. CASE entry'.status = entry.status /\ entry'.token = entry.token
    <3>1. entry.token \in Tokens /\ att[entry.token].pc \in {"leased", "loading", "ended"}
      BY <1>1, <2>1 DEF TokenIsLease, LeasedIsAwaited, EntryRows
    <3>2. ~(_mark_queued_run_started(entry.token) /\ att'[entry.token].pc = "started")
      <4> SUFFICES ASSUME _mark_queued_run_started(entry.token),
                          att'[entry.token].pc = "started"
                   PROVE  FALSE
        OBVIOUS
      <4>1. ~End(entry.token)
        BY <1>1, <3>1 DEF End, Ended, NoAttempt
      <4>2. entry' = [entry EXCEPT !.status = "running", !.token = entry.token, !.seed = FALSE]
        BY <4>1 DEF _mark_queued_run_started
      <4> QED BY <4>2, <1>1 DEF EntryRows
    <3>3. Advances(entry.token)
      BY <1>3, <3>1
    <3> QED BY <2>1, <3>1, <3>2, <3>3 DEF Advances, Working, ClaimCommit
  <2>2. ASSUME NEW t \in Tokens, att'[t].pc = "leased", entry'.token = t
        PROVE  att'[entry'.token].pc \in {"leased", "loading", "ended"}
    BY <2>2
  <2> QED BY <1>3, <2>1, <2>2 DEF TokenMove
<1>6. SnapshotsOwned'
  <2> SUFFICES ASSUME NEW t \in Tokens, att'[t].pc \in {"claiming", "parking"}
               PROVE  /\ att'[t].snap.token # NoToken
                           <=> att'[t].snap.status \in {"leased", "running"}
                      /\ att'[t].pc = "claiming" =>
                           att'[t].snap.status # "leased" /\ Claimable(att'[t].snap, t)
    BY DEF SnapshotsOwned, Claimable, _lease_matches
  <2>1. CASE att'[t].pc = att[t].pc /\ att'[t].snap = att[t].snap
    BY <1>1, <2>1 DEF SnapshotsOwned
  <2>2. CASE ClaimRead(t) /\ att'[t].pc = "claiming"
    <3>1. ~End(t)
      BY <1>1, <2>2 DEF End, Ended, NoAttempt
    <3>2. att'[t].snap = entry /\ Claimable(entry, t) /\ att[t].pc = "started"
      BY <1>1, <2>2, <3>1 DEF ClaimRead, Attempts
    <3>3. entry.status # "leased"
      BY <1>1, <3>2 DEF Claimable, _lease_matches, TokenIsLease, LeasedIsAwaited
    <3> QED BY <1>1, <3>2, <3>3 DEF TokenIsLease
  <2>3. CASE ParkRead(t) /\ att'[t].pc = "parking"
    <3>1. att'[t].snap = entry
      BY <1>1, <2>3 DEF ParkRead, Attempts
    <3> QED BY <1>1, <2>3, <3>1 DEF TokenIsLease
  <2>4. Advances(t)
    BY <1>3
  <2> QED BY <2>1, <2>2, <2>3, <2>4 DEF Advances
<1>7. NoRequest'
  <2>1. ASSUME NEW r \in Requests PROVE ~RequestStep(r)
    BY <1>1 DEF RequestStep, ReplayRead, OfflineRead, ApprovalRead, ReplayCommit, OfflineCommit,
       ApprovalCommit, RewriteFails, NoRequest, NoRewrites
  <2> QED BY <1>1, <2>1, RequestFrame DEF NoRequest
<1> QED BY <1>2, <1>4, <1>5, <1>6, <1>7 DEF OverlapInv

(* It holds of every reachable state.                                      *)
LEMMA OverlapInvariant ==
    ASSUME NoRewrites
    PROVE  Spec => []OverlapInv
<1>1. Init => OverlapInv
  <2> SUFFICES ASSUME Init PROVE OverlapInv
    OBVIOUS
  <2>1. TypeOK
    BY ConstantRows DEF Init, TypeOK, RewriteRequests, ReplayKinds, Sweeps
  <2>2. OutcomeDecided /\ SnapshotsOwned /\ NoRequest
    BY DEF Init, OutcomeDecided, SnapshotsOwned, NoRequest, NoAttempt
  <2>3. TokenIsLease /\ LeasedIsAwaited
    BY DEF Init, TokenIsLease, LeasedIsAwaited, NoEntry
  <2> QED BY <2>1, <2>2, <2>3 DEF OverlapInv
<1>2. OverlapInv /\ [Next]_vars => OverlapInv'
  BY OverlapStep
<1> QED BY <1>1, <1>2, PTL DEF Spec

(* At READ COMMITTED, with unlocked claims, parks and renewals committed   *)
(* over whatever happened since their reads, a token is still on the row   *)
(* exactly while it is leased or running.  The operators' rewrites         *)
(* (replays, approvals, offline sweeps) are excluded.                      *)
THEOREM TokenLeaseReadCommitted ==
    ASSUME NoRewrites
    PROVE  Spec => []TokenIsLease
<1>1. OverlapInv => TokenIsLease
  BY DEF OverlapInv
<1> QED BY <1>1, OverlapInvariant, PTL

(* The token of one attempt gives way to another's only through NoToken,   *)
(* except in the one race StaleClaim names: at READ COMMITTED a claim that *)
(* read the row free commits over a lease taken since.  With commits that  *)
(* never overlap (whatever the operators do), or at READ COMMITTED without *)
(* the operators' rewrites, nothing else takes a row from its owner.       *)
THEOREM OwnershipOnlyThroughQueue ==
    ASSUME ~Overlap \/ NoRewrites
    PROVE  Spec => OwnershipThroughQueue
<1> DEFINE Passed == entry.token # NoToken /\ entry'.token # NoToken /\ entry'.token # entry.token
                       => \E t \in Tokens : StaleClaim(t)
<1>1. ASSUME ~Overlap PROVE Spec => [][Passed]_vars
  <2>1. ASSUME LedgerInv, RequestsAdmitted, [Next]_vars PROVE Passed
    <3>1. RowMove /\ TokenIsLease
      BY <1>1, <2>1, RowMoves DEF LedgerInv
    <3>2. CASE UNCHANGED <<entry, run>> \/ Timed \/ Created \/ Unfenced \/ Checkpointed
      BY <3>2 DEF Timed, Created, Unfenced, Checkpointed
    <3>3. ASSUME NEW t \in Tokens, Leased(t) \/ Begun(t) \/ Claimed(t) PROVE Passed
      BY <3>1, <3>3 DEF Leased, Begun, Claimed, TokenIsLease
    <3>4. ASSUME NEW t \in Tokens, Parked(t) \/ Settled(t) PROVE Passed
      BY <3>4 DEF Parked, Settled, Released
    <3>5. CASE Swept \/ Cancelled \/ SentBack \/ Resumed \/ \E r \in Requests : Replayed(r)
      BY <3>5 DEF Swept, Cancelled, SentBack, Resumed, Replayed, Released, Requeued
    <3> QED BY <3>1, <3>2, <3>3, <3>4, <3>5 DEF RowMove
  <2>2. LedgerInv /\ RequestsAdmitted /\ [Next]_vars => [Passed]_vars
    BY <2>1
  <2>3. Spec => [](LedgerInv /\ RequestsAdmitted)
    BY <1>1, AdmittedInvariant
  <2> HIDE DEF Passed
  <2> QED BY <2>2, <2>3, PTL DEF Spec
<1>2. ASSUME NoRewrites, Overlap PROVE Spec => [][Passed]_vars
  <2>1. ASSUME OverlapInv, [Next]_vars PROVE Passed
    <3>1. TokenMove /\ TokenIsLease /\ att \in [Tokens -> Attempts]
      BY <2>1, TokenMoves DEF OverlapInv, TypeOK
    <3>2. ASSUME NEW t \in Tokens, LateClaim(t), entry'.token = t PROVE StaleClaim(t)
      BY <1>2, <3>1, <3>2 DEF LateClaim, StaleClaim, ClaimCommit, Attempts
    <3> QED BY <3>1, <3>2 DEF TokenMove, TokenIsLease
  <2>2. OverlapInv /\ [Next]_vars => [Passed]_vars
    BY <2>1
  <2>3. Spec => []OverlapInv
    BY <1>2, OverlapInvariant
  <2> HIDE DEF Passed
  <2> QED BY <2>2, <2>3, PTL DEF Spec
<1>3. Spec => [][Passed]_vars
  <2> HIDE DEF Passed
  <2> QED BY <1>1, <1>2, BoundAssumption
<1> QED BY <1>3, PTL DEF OwnershipThroughQueue

============================================================================

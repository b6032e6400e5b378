-------------------------- MODULE RunLedger_proofs -------------------------
(* Theorems about RunLedger, for every set of tokens and requests and      *)
(* every bound.                                                            *)
EXTENDS RunLedger, TLAPS

USE TokenAssumption, BoundAssumption

(* Rows and attempts as created, and answered requests, have their type.   *)
LEMMA ConstantRows ==
    /\ NoEntry \in EntryRows
    /\ NoRun \in RunRows
    /\ NoAttempt \in Attempts
    /\ Ended \in Attempts
    /\ Answered \in RewriteRequests
<1>1. NoEntry \in EntryRows
  BY DEF NoEntry, EntryRows
<1>2. NoRun \in RunRows
  BY DEF NoRun, RunRows
<1>3. NoAttempt \in Attempts
  BY <1>1, <1>2 DEF NoAttempt, Attempts, Pcs, Outcomes
<1>4. Ended \in Attempts
  BY <1>3 DEF Ended, Attempts, Pcs
<1>5. Answered \in RewriteRequests
  BY <1>1, <1>2 DEF Answered, RewriteRequests, ReplayKinds
<1> QED BY <1>1, <1>2, <1>3, <1>4, <1>5

(* Clearing a lease, failing, mirroring and flushing yield queue rows.     *)
LEMMA ClearLeaseType ==
    ASSUME NEW row \in EntryRows
    PROVE  _clear_lease(row) \in EntryRows
BY DEF _clear_lease, EntryRows

(* ... fail(), for either kind of failure.                                 *)
LEMMA FailType ==
    ASSUME NEW row \in EntryRows, NEW retryable \in BOOLEAN
    PROVE  fail(row, retryable) \in EntryRows
BY DEF fail, _clear_lease, EntryRows, ACTIVE_STATUSES, TERMINAL_STATUSES

(* ... the queue's mirror of any run status.                               *)
LEMMA MirrorType ==
    ASSUME NEW row \in EntryRows, NEW status
    PROVE  Mirror(row, status) \in EntryRows
BY FailType DEF Mirror, _clear_lease, EntryRows, ACTIVE_STATUSES, TERMINAL_STATUSES

(* ... and a flush of any snapshot over any current row.                   *)
LEMMA FlushType ==
    ASSUME NEW now \in EntryRows, NEW old \in EntryRows, NEW new \in EntryRows
    PROVE  Flush(now, old, new) \in EntryRows
BY DEF Flush, Dirty, EntryRows

(* A task cancelled at any of its await points stays an attempt.           *)
LEMMA InterruptionsType ==
    ASSUME NEW a \in Attempts, NEW o \in Outcomes, NEW b \in Interruptions(a, o)
    PROVE  b \in Attempts
<1> DEFINE caught == [a EXCEPT !.pc = "finishing", !.outcome = o,
                               !.renewing = FALSE, !.snap = NoEntry]
<1>1. caught \in Attempts
  BY ConstantRows DEF Attempts, Pcs
<1>2. b = caught \/ b = Ended
  BY DEF Interruptions
<1> QED BY <1>1, <1>2, ConstantRows

(* The same for the task table after cancel_run or a shutdown.             *)
LEMMA InterruptType ==
    ASSUME TypeOK, NEW t \in Tokens, NEW o \in Outcomes, Interrupt(t, o)
    PROVE  att' \in [Tokens -> Attempts]
BY InterruptionsType DEF Interrupt, TypeOK

(* Every action keeps the type invariant: one case per action.             *)
LEMMA TypeStep ==
    ASSUME TypeOK, OutcomeDecided, [Next]_vars
    PROVE  TypeOK'
<1> USE DEF TypeOK
<1>1. CASE StartParked
  BY <1>1, ConstantRows DEF StartParked, EntryRows, RunRows, RUN_STATES, ACTIVE_STATUSES
<1>2. ASSUME NEW t \in Tokens, StartInline(t) PROVE TypeOK'
  <2>1. entry' \in EntryRows
    BY <1>2, ConstantRows DEF StartInline, EntryRows, ACTIVE_STATUSES
  <2>2. run' \in RunRows
    BY <1>2, ConstantRows DEF StartInline, RunRows, RUN_STATES
  <2>3. [NoAttempt EXCEPT !.pc = "started", !.inline = TRUE, !.input = TRUE] \in Attempts
    BY ConstantRows DEF Attempts, Pcs
  <2> QED BY <1>2, <2>1, <2>2, <2>3 DEF StartInline
<1>3. ASSUME NEW t \in Tokens, lease(t) PROVE TypeOK'
  <2>1. entry' \in EntryRows
    <3>1. entry.attempts + 1 \in Nat
      BY DEF EntryRows
    <3> QED BY <1>3, <3>1 DEF lease, EntryRows, ACTIVE_STATUSES
  <2>2. [NoAttempt EXCEPT !.pc = "leased"] \in Attempts
    BY ConstantRows DEF Attempts, Pcs
  <2> QED BY <1>3, <2>1, <2>2 DEF lease
<1>4. CASE SweepRead \/ SweepFails
  BY <1>4 DEF SweepRead, SweepFails, Sweeps
<1>12. CASE SweepCommit
  <2>1. _clear_lease(entry) \in EntryRows
    BY ClearLeaseType
  <2>2. entry' \in EntryRows
    BY <1>12, <2>1, ZenonT(30) DEF SweepCommit, EntryRows, ACTIVE_STATUSES, TERMINAL_STATUSES
  <2>3. run' \in RunRows
    BY <1>12 DEF SweepCommit, RunRows, RUN_STATES
  <2> QED BY <1>12, <2>2, <2>3 DEF SweepCommit, Sweeps
<1>5. ASSUME NEW t \in Tokens, AttemptStep(t) PROVE TypeOK'
  <2>1. CASE LoadRun(t)
    BY <2>1, ConstantRows DEF LoadRun, Goto, End, Attempts, Pcs
  <2>2. CASE MissingGraph(t)
    BY <2>2, ConstantRows DEF MissingGraph, End, RunRows, RUN_STATES, TERMINAL_RUN_STATES
  <2>3. CASE _mark_queued_run_started(t)
    <3>1. entry' \in EntryRows
      BY <2>3, ZenonT(30) DEF _mark_queued_run_started, EntryRows, ACTIVE_STATUSES
    <3>2. run' \in RunRows
      BY <2>3 DEF _mark_queued_run_started, RunRows, RUN_STATES
    <3>3. (entry.seed \/ run.checkpoint > 0 \/ run.rows) \in BOOLEAN
      BY DEF EntryRows, RunRows
    <3>4. att' \in [Tokens -> Attempts]
      <4> DEFINE input == entry.seed \/ run.checkpoint > 0 \/ run.rows
                 next == [att[t] EXCEPT !.pc = "started", !.input = input,
                                        !.done = run.checkpoint]
      <4>1. run.checkpoint \in 0..Nodes
        BY DEF RunRows
      <4>2. input \in BOOLEAN
        BY <3>3
      <4> HIDE DEF input
      <4>3. next \in Attempts
        BY <4>1, <4>2, ZenonT(30) DEF Attempts, Pcs
      <4>4. att' = [att EXCEPT ![t] = next] \/ att' = [att EXCEPT ![t] = Ended]
        BY <2>3 DEF _mark_queued_run_started, End, input
      <4> QED BY <4>3, <4>4, ConstantRows
    <3> QED BY <2>3, <3>1, <3>2, <3>4 DEF _mark_queued_run_started
  <2>4. CASE ClaimRead(t)
    BY <2>4, ConstantRows DEF ClaimRead, End, Attempts, Pcs
  <2>5. CASE ClaimCommit(t)
    <3>1. att[t].snap \in EntryRows
      BY DEF Attempts
    <3>2. mark_running(att[t].snap, t) \in EntryRows
      BY <3>1 DEF mark_running, EntryRows, ACTIVE_STATUSES
    <3>3. entry' \in EntryRows
      BY <2>5, <3>1, <3>2, FlushType DEF ClaimCommit, EntryRows
    <3> QED BY <2>5, <3>3, ConstantRows, ZenonT(30) DEF ClaimCommit, Attempts, Pcs
  <2>6. CASE ClaimFails(t)
    BY <2>6, ConstantRows DEF ClaimFails, End
  <2>7. CASE Dispatch(t)
    <3>1. att' \in [Tokens -> Attempts]
      BY <2>7 DEF Dispatch, Goto, Attempts, Pcs
    <3>2. run' \in RunRows
      BY <2>7 DEF Dispatch, RunRows
    <3> QED BY <2>7, <3>1, <3>2 DEF Dispatch
  <2>8. CASE ExecuteNode(t)
    <3> DEFINE a == [att[t] EXCEPT !.done = att[t].done + 1, !.deferred = TRUE]
    <3>1. att[t].done + 1 \in 0..Nodes
      BY <2>8 DEF ExecuteNode, Attempts
    <3>2. a \in Attempts
      BY <3>1 DEF Attempts
    <3>3. att' = [att EXCEPT ![t] = a]
      BY <2>8 DEF ExecuteNode
    <3> QED BY <2>8, <3>2, <3>3 DEF ExecuteNode
  <2>9. CASE SaveRead(t) \/ SaveCommit(t) \/ SaveFails(t)
    <3>1. att[t].done \in 0..Nodes
      BY DEF Attempts
    <3>2. run' \in RunRows
      BY <2>9, <3>1 DEF SaveRead, SaveCommit, SaveFails, RunRows
    <3>3. CASE SaveRead(t)
      <4>1. \A pc \in Pcs : [att[t] EXCEPT !.deferred = FALSE, !.pc = pc] \in Attempts
        BY DEF Attempts
      <4>2. \E pc \in Pcs : att' = [att EXCEPT ![t] = [att[t] EXCEPT !.deferred = FALSE, !.pc = pc]]
        BY <3>3 DEF SaveRead, Attempts, Pcs
      <4> QED BY <3>2, <3>3, <4>1, <4>2 DEF SaveRead
    <3>4. CASE SaveCommit(t) \/ SaveFails(t)
      BY <3>2, <3>4 DEF SaveCommit, SaveFails, Saved, Attempts, Pcs
    <3> QED BY <2>9, <3>3, <3>4
  <2>10. ASSUME NEW o \in Outcomes, Finish(t, o) PROVE TypeOK'
    <3>1. [att[t] EXCEPT !.pc = "finishing", !.outcome = o] \in Attempts
      BY ZenonT(30) DEF Attempts, Pcs
    <3> QED BY <2>10, <3>1 DEF Finish
  <2>11. CASE queue_run(t)
    BY <2>11 DEF queue_run, Goto, Attempts, Pcs, RunRows, RUN_STATES
  <2>12. CASE ParkRead(t)
    <3>1. [att[t] EXCEPT !.pc = "parking", !.snap = entry] \in Attempts
      BY ZenonT(30) DEF Attempts, Pcs
    <3> QED BY <2>12, <3>1 DEF ParkRead
  <2>13. CASE ParkCommit(t)
    <3>1. att[t].snap \in EntryRows
      BY DEF Attempts
    <3>2. fail(att[t].snap, TRUE) \in EntryRows
      BY <3>1, FailType
    <3>3. Flush(entry, att[t].snap, fail(att[t].snap, TRUE)) \in EntryRows
      BY <3>1, <3>2, FlushType
    <3>4. entry' \in EntryRows
      BY <2>13, <3>3, ZenonT(30) DEF ParkCommit, EntryRows
    <3> QED BY <2>13, <3>4, ConstantRows DEF ParkCommit, End, RunRows, RUN_STATES, TERMINAL_RUN_STATES
  <2>14. CASE ParkFails(t)
    BY <2>14, ConstantRows DEF ParkFails, End, Attempts, Pcs, Outcomes
  <2>15. CASE PersistRead(t) \/ FallbackRead(t) \/ PersistFails(t)
    <3>1. \A pc \in Pcs, row \in RunRows : [att[t] EXCEPT !.pc = pc, !.seen = row] \in Attempts
      BY DEF Attempts
    <3>2. \/ \E pc \in Pcs, row \in RunRows :
               att' = [att EXCEPT ![t] = [att[t] EXCEPT !.pc = pc, !.seen = row]]
          \/ att' = [att EXCEPT ![t] = Ended]
          \/ att' = Goto(t, "fallback")
      <4>1. CASE PersistRead(t)
        <5>1. \/ att' = [att EXCEPT ![t] = [att[t] EXCEPT !.pc = "persisting", !.seen = run]]
              \/ att' = [att EXCEPT ![t] = Ended]
              \/ att' = Goto(t, "fallback")
          BY <4>1 DEF PersistRead, End
        <5> QED BY <5>1 DEF Pcs
      <4>2. CASE FallbackRead(t)
        <5>1. \/ att' = [att EXCEPT ![t] = [att[t] EXCEPT !.pc = "salvaging", !.seen = run]]
              \/ att' = [att EXCEPT ![t] = Ended]
          BY <4>2 DEF FallbackRead, End
        <5> QED BY <5>1 DEF Pcs
      <4>3. CASE PersistFails(t)
        <5>1. \/ att' = [att EXCEPT ![t] = [att[t] EXCEPT !.pc = "fallback", !.seen = NoRun]]
              \/ att' = [att EXCEPT ![t] = Ended]
          BY <4>3 DEF PersistFails, End
        <5> QED BY <5>1, ConstantRows DEF Pcs
      <4> QED BY <2>15, <4>1, <4>2, <4>3
    <3>3. Goto(t, "fallback") \in [Tokens -> Attempts]
      BY DEF Goto, Attempts, Pcs
    <3>4. ASSUME NEW a \in Attempts, att' = [att EXCEPT ![t] = a]
          PROVE  att' \in [Tokens -> Attempts]
      BY <3>4
    <3>5. att' \in [Tokens -> Attempts]
      <4>1. CASE \E pc \in Pcs, row \in RunRows :
                   att' = [att EXCEPT ![t] = [att[t] EXCEPT !.pc = pc, !.seen = row]]
        BY <3>1, <3>4, <4>1
      <4>2. CASE att' = [att EXCEPT ![t] = Ended]
        BY <3>4, <4>2, ConstantRows
      <4> QED BY <3>2, <3>3, <4>1, <4>2
    <3> QED BY <2>15, <3>5 DEF PersistRead, FallbackRead, PersistFails
  <2>16. CASE PersistCommit(t) \/ FallbackCommit(t)
    <3>1. entry' \in EntryRows
      BY <2>16, MirrorType DEF PersistCommit, FallbackCommit
    <3>2. /\ StatusOf(att[t].outcome) \in RUN_STATES
          /\ FallbackOf(att[t].outcome) \in RUN_STATES
      BY <2>16 DEF PersistCommit, FallbackCommit, FallbackOf, StatusOf, Attempts, Outcomes,
         RUN_STATES, TERMINAL_RUN_STATES, OutcomeDecided
    <3> DEFINE rows == run.rows \/ att[t].done > 0
    <3>3. /\ rows \in BOOLEAN
          /\ run.checkpoint \in 0..Nodes
          /\ run.status \in RUN_STATES \cup {"absent"}
          /\ 0 \in 0..Nodes
      BY DEF RunRows
    <3> HIDE DEF rows
    <3>4. \E st \in RUN_STATES \cup {"absent"}, cp \in 0..Nodes, rw \in {run.rows, rows} :
             run' = [run EXCEPT !.status = st, !.checkpoint = cp, !.rows = rw]
      <4>1. CASE PersistCommit(t)
        <5> DEFINE status == StatusOf(att[t].outcome)
                   st == Dirty(run.status, att[t].seen.status, status)
                   cp == IF status = "waiting" THEN run.checkpoint
                         ELSE Dirty(run.checkpoint, att[t].seen.checkpoint, 0)
        <5>1. st \in RUN_STATES \cup {"absent"} /\ cp \in 0..Nodes
          BY <3>2, <3>3 DEF Dirty
        <5>2. run' = [run EXCEPT !.status = st, !.checkpoint = cp, !.rows = rows]
          BY <4>1 DEF PersistCommit, rows
        <5> HIDE DEF st, cp
        <5> QED BY <5>1, <5>2
      <4>2. CASE FallbackCommit(t)
        <5> DEFINE st == Dirty(run.status, att[t].seen.status, FallbackOf(att[t].outcome))
                   cp == Dirty(run.checkpoint, att[t].seen.checkpoint, 0)
        <5>1. st \in RUN_STATES \cup {"absent"} /\ cp \in 0..Nodes
          BY <3>2, <3>3 DEF Dirty
        <5>2. run' = run \/ run' = [run EXCEPT !.status = st, !.checkpoint = cp, !.rows = run.rows]
          BY <4>2 DEF FallbackCommit, RunRows
        <5>3. run = [run EXCEPT !.status = run.status, !.checkpoint = run.checkpoint,
                                !.rows = run.rows]
          BY DEF RunRows
        <5> HIDE DEF st, cp
        <5> QED BY <3>3, <5>1, <5>2, <5>3
      <4> QED BY <2>16, <4>1, <4>2
    <3>5. run' \in RunRows
      BY <3>3, <3>4 DEF RunRows
    <3> QED BY <2>16, <3>1, <3>5, ConstantRows DEF PersistCommit, FallbackCommit, End
  <2> QED BY <1>5, <2>1, <2>2, <2>3, <2>4, <2>5, <2>6, <2>7, <2>8, <2>9, <2>10, <2>12,
             <2>13, <2>14, <2>15, <2>16, <2>11 DEF AttemptStep
<1>6. ASSUME NEW t \in Tokens, HeartbeatStep(t) PROVE TypeOK'
  <2>1. Interrupt(t, "lost") => att' \in [Tokens -> Attempts]
    BY InterruptType DEF Outcomes
  <2>2. \A b \in BOOLEAN : [att[t] EXCEPT !.renewing = b] \in Attempts
    BY DEF Attempts
  <2>3. [entry EXCEPT !.lease = "live"] \in EntryRows
    BY DEF EntryRows
  <2>4. att' \in [Tokens -> Attempts]
    BY <1>6, <2>1, <2>2 DEF HeartbeatStep, HeartbeatRead, HeartbeatCommit, HeartbeatFails,
       HeartbeatDeadline
  <2> QED BY <1>6, <2>3, <2>4 DEF HeartbeatStep, HeartbeatRead, HeartbeatCommit,
             HeartbeatFails, HeartbeatDeadline
<1>7. ASSUME NEW t \in Tokens, CancelTask(t) \/ Crash(t) PROVE TypeOK'
  <2>1. Interrupt(t, "cancelled") => att' \in [Tokens -> Attempts]
    BY InterruptType DEF Outcomes
  <2> QED BY <1>7, <2>1, ConstantRows DEF CancelTask, Crash, End
<1>8. CASE OperatorStep
  <2>1. CASE cancel_run
    <3>2. _clear_lease(entry) \in EntryRows
      BY ClearLeaseType
    <3>3. entry' \in EntryRows
      BY <2>1, <3>2 DEF cancel_run, EntryRows, TERMINAL_STATUSES
    <3>4. run' \in RunRows
      <4>1. 0 \in 0..Nodes
        OBVIOUS
      <4> QED BY <2>1, <4>1 DEF cancel_run, RunRows, RUN_STATES, TERMINAL_RUN_STATES
    <3> QED BY <2>1, <3>3, <3>4 DEF cancel_run
  <2>2. ASSUME NEW r \in Requests, ReplayCommit(r) PROVE TypeOK'
    <3> DEFINE seed == req[r].kind = "from_node" /\ run.rows
    <3>1. /\ req[r].entry \in EntryRows
          /\ seed \in BOOLEAN
      BY DEF RewriteRequests, RunRows
    <3>2. replay(req[r].entry, seed) \in EntryRows
      BY <3>1 DEF replay, _clear_lease, EntryRows, ACTIVE_STATUSES
    <3>3. Flush(entry, req[r].entry, replay(req[r].entry, seed)) \in EntryRows
      BY <3>1, <3>2, FlushType
    <3>4. entry' \in EntryRows
      BY <2>2, <3>3 DEF ReplayCommit, EntryRows
    <3> QED BY <2>2, <3>4, ConstantRows DEF ReplayCommit, Dirty, RunRows, RUN_STATES
  <2>3. ASSUME NEW r \in Requests, RewriteFails(r) PROVE TypeOK'
    BY <2>3, ConstantRows DEF RewriteFails
  <2>4. ASSUME NEW r \in Requests, NEW k \in ReplayKinds, ReplayRead(r, k) PROVE TypeOK'
    BY <2>4 DEF ReplayRead, RewriteRequests
  <2>6. ASSUME NEW r \in Requests, OfflineRead(r) PROVE TypeOK'
    BY <2>6 DEF OfflineRead, RewriteRequests
  <2>7. ASSUME NEW r \in Requests, OfflineCommit(r) PROVE TypeOK'
    <3> DEFINE new == [_clear_lease(req[r].entry) EXCEPT !.status = "queued"]
    <3>1. req[r].entry \in EntryRows
      BY DEF RewriteRequests
    <3>2. new \in EntryRows
      BY <3>1 DEF _clear_lease, EntryRows, ACTIVE_STATUSES
    <3>3. Flush(entry, req[r].entry, new) \in EntryRows
      BY <3>1, <3>2, FlushType
    <3>4. entry' \in EntryRows
      BY <2>7, <3>3 DEF OfflineCommit, EntryRows
    <3>5. run' \in RunRows
      BY <2>7 DEF OfflineCommit, Dirty, RunRows, RUN_STATES
    <3> QED BY <2>7, <3>4, <3>5, ConstantRows DEF OfflineCommit
  <2>5. ASSUME NEW r \in Requests, ApprovalRead(r) PROVE TypeOK'
    BY <2>5 DEF ApprovalRead, RewriteRequests
  <2>8. ASSUME NEW r \in Requests, ApprovalCommit(r) PROVE TypeOK'
    <3>1. req[r].entry \in EntryRows
      BY DEF RewriteRequests
    <3>2. resume_waiting(req[r].entry) \in EntryRows
      BY <3>1 DEF resume_waiting, _clear_lease, EntryRows, ACTIVE_STATUSES
    <3>3. Flush(entry, req[r].entry, resume_waiting(req[r].entry)) \in EntryRows
      BY <3>1, <3>2, FlushType
    <3>4. entry' \in EntryRows
      BY <2>8, <3>3 DEF ApprovalCommit, EntryRows
    <3>5. run' \in RunRows
      BY <2>8 DEF ApprovalCommit, Dirty, RunRows, RUN_STATES
    <3> QED BY <2>8, <3>4, <3>5, ConstantRows DEF ApprovalCommit
  <2> QED BY <1>8, <2>1, <2>2, <2>3, <2>4, <2>5, <2>6, <2>7, <2>8 DEF OperatorStep
<1>9. CASE detect_stuck_runs
  BY <1>9 DEF detect_stuck_runs, RunRows, RUN_STATES, TERMINAL_RUN_STATES
<1>10. CASE LeaseElapses \/ BackoffElapses
  BY <1>10 DEF LeaseElapses, BackoffElapses, EntryRows
<1>11. CASE UNCHANGED vars
  BY <1>11 DEF vars
<1> QED BY <1>1, <1>2, <1>3, <1>4, <1>5, <1>6, <1>7, <1>8, <1>9, <1>10, <1>11, <1>12 DEF Next

---------------------------------------------------------------------------
(* An outcome is decided before it is persisted.                           *)
LEMMA OutcomeStep ==
    ASSUME TypeOK, OutcomeDecided, [Next]_vars
    PROVE  OutcomeDecided'
<1> USE DEF TypeOK, OutcomeDecided
<1>1. ASSUME NEW t \in Tokens, NEW o \in Outcomes \ {"none"}, Interrupt(t, o)
      PROVE  OutcomeDecided'
  <2>1. PICK a \in Interruptions(att[t], o) : att' = [att EXCEPT ![t] = a]
    BY <1>1 DEF Interrupt
  <2>2. a.pc = "ended" \/ a.outcome = o
    BY DEF Interruptions, Ended, NoAttempt, Attempts
  <2> QED BY <2>1, <2>2
<1>3. ASSUME NEW t \in Tokens, AttemptStep(t) PROVE OutcomeDecided'
  <2>1. CASE \/ LoadRun(t) \/ MissingGraph(t) \/ _mark_queued_run_started(t)
            \/ ClaimRead(t) \/ ClaimCommit(t) \/ ClaimFails(t)
    BY <2>1 DEF LoadRun, MissingGraph, _mark_queued_run_started, ClaimRead, ClaimCommit,
       ClaimFails, Goto, End, Ended, NoAttempt, Attempts
  <2>2. CASE Dispatch(t) \/ ExecuteNode(t) \/ queue_run(t)
    BY <2>2 DEF Dispatch, ExecuteNode, queue_run, Goto, Attempts
  <2>6. CASE SaveRead(t)
    BY <2>6 DEF SaveRead, Attempts
  <2>8. CASE SaveCommit(t) \/ SaveFails(t)
    <3>1. \/ att[t].pc = "saving" /\ att' = [att EXCEPT ![t].pc = "executing"]
          \/ att[t].pc = "flushing" /\ att' = [att EXCEPT ![t].pc = "finishing"]
      <4>1. att[t].pc \in {"saving", "flushing"} /\ Saved(t)
        BY <2>8 DEF SaveCommit, SaveFails
      <4>2. CASE att[t].pc = "saving"
        <5>1. att' = [att EXCEPT ![t].pc = "executing"]
          BY <4>1, <4>2 DEF Saved
        <5> QED BY <4>2, <5>1
      <4>3. CASE att[t].pc = "flushing"
        BY <4>1, <4>3 DEF Saved
      <4> QED BY <4>1, <4>2, <4>3
    <3> QED BY <3>1 DEF Attempts
  <2>3. CASE ParkRead(t) \/ ParkCommit(t) \/ ParkFails(t)
    BY <2>3, ZenonT(30) DEF ParkRead, ParkCommit, ParkFails, End, Ended, NoAttempt, Attempts
  <2>4. ASSUME NEW o \in Outcomes, Finish(t, o) PROVE OutcomeDecided'
    BY <2>4 DEF Finish, Attempts
  <2>5. CASE PersistRead(t) \/ FallbackRead(t) \/ PersistFails(t)
    BY <2>5 DEF PersistRead, FallbackRead, PersistFails, Goto, End, Ended, NoAttempt, Attempts
  <2>7. CASE PersistCommit(t) \/ FallbackCommit(t)
    BY <2>7 DEF PersistCommit, FallbackCommit, End, Ended, NoAttempt, Attempts
  <2> QED BY <1>3, <2>1, <2>2, <2>4, <2>5, <2>3, <2>6, <2>7, <2>8 DEF AttemptStep
<1>4. ASSUME NEW t \in Tokens, HeartbeatStep(t) PROVE OutcomeDecided'
  <2>1. CASE Interrupt(t, "lost")
    BY <2>1, <1>1 DEF Outcomes
  <2>2. CASE \E b \in BOOLEAN : att' = [att EXCEPT ![t].renewing = b]
    BY <2>2 DEF Attempts
  <2> QED BY <1>4, <2>1, <2>2 DEF HeartbeatStep, HeartbeatRead, HeartbeatCommit,
             HeartbeatFails, HeartbeatDeadline
<1>5. ASSUME NEW t \in Tokens, CancelTask(t) \/ Crash(t) PROVE OutcomeDecided'
  <2>1. CASE Interrupt(t, "cancelled")
    BY <2>1, <1>1 DEF Outcomes
  <2>2. CASE End(t)
    BY <2>2 DEF End, Ended, NoAttempt
  <2> QED BY <1>5, <2>1, <2>2 DEF CancelTask, Crash
<1>6. ASSUME NEW t \in Tokens, StartInline(t) \/ lease(t) PROVE OutcomeDecided'
  <2>1. CASE StartInline(t)
    <3>1. [NoAttempt EXCEPT !.pc = "started", !.inline = TRUE, !.input = TRUE].pc = "started"
      BY DEF NoAttempt
    <3> QED BY <2>1, <3>1 DEF StartInline
  <2>2. CASE lease(t)
    <3>1. [NoAttempt EXCEPT !.pc = "leased"].pc = "leased"
      BY DEF NoAttempt
    <3> QED BY <2>2, <3>1 DEF lease
  <2> QED BY <1>6, <2>1, <2>2
<1>7. CASE OperatorStep
  BY <1>7 DEF OperatorStep, cancel_run, ReplayRead, ReplayCommit, RewriteFails,
     OfflineRead, OfflineCommit, ApprovalRead, ApprovalCommit
<1>8. CASE StartParked \/ SweepRead \/ SweepCommit \/ SweepFails \/ detect_stuck_runs
           \/ LeaseElapses \/ BackoffElapses \/ UNCHANGED vars
  BY <1>8 DEF StartParked, SweepRead, SweepCommit, SweepFails, detect_stuck_runs,
     LeaseElapses, BackoffElapses, vars
<1> QED BY <1>3, <1>4, <1>5, <1>6, <1>7, <1>8 DEF Next

(* Type correctness of the whole protocol, with every disturbance.         *)
THEOREM TypeCorrect == Spec => []TypeOK
<1>1. Init => TypeOK /\ OutcomeDecided
  BY ConstantRows DEF Init, TypeOK, OutcomeDecided, RewriteRequests, ReplayKinds, NoAttempt, Sweeps
<1>2. TypeOK /\ OutcomeDecided /\ [Next]_vars => TypeOK' /\ OutcomeDecided'
  BY TypeStep, OutcomeStep
<1> QED BY <1>1, <1>2, PTL DEF Spec

---------------------------------------------------------------------------
(* Which actions write which variable: a step that is none of them leaves  *)
(* the variable alone.                                                     *)
EntryWrites ==
    \/ StartParked \/ SweepCommit \/ cancel_run \/ LeaseElapses \/ BackoffElapses
    \/ \E t \in Tokens : \/ StartInline(t) \/ lease(t) \/ _mark_queued_run_started(t)
                         \/ ClaimCommit(t) \/ HeartbeatCommit(t) \/ ParkCommit(t)
                         \/ PersistCommit(t) \/ FallbackCommit(t)
    \/ \E r \in Requests : ReplayCommit(r) \/ OfflineCommit(r) \/ ApprovalCommit(r)

RunWrites ==
    \/ StartParked \/ SweepCommit \/ cancel_run \/ detect_stuck_runs
    \/ \E t \in Tokens : \/ StartInline(t) \/ MissingGraph(t) \/ _mark_queued_run_started(t)
                         \/ Dispatch(t) \/ SaveCommit(t) \/ queue_run(t) \/ ParkCommit(t)
                         \/ PersistCommit(t) \/ FallbackCommit(t)
    \/ \E r \in Requests : ReplayCommit(r) \/ OfflineCommit(r) \/ ApprovalCommit(r)

RequestStep(r) ==
    \/ \E k \in ReplayKinds : ReplayRead(r, k)
    \/ ReplayCommit(r) \/ RewriteFails(r)
    \/ OfflineRead(r) \/ OfflineCommit(r)
    \/ ApprovalRead(r) \/ ApprovalCommit(r)

SweepStep == SweepRead \/ SweepCommit \/ SweepFails

(* The queue row.                                                          *)
LEMMA EntryFrame ==
    ASSUME [Next]_vars, entry' # entry
    PROVE  EntryWrites
<1> USE DEF EntryWrites
<1>1. CASE StartParked \/ SweepStep \/ detect_stuck_runs \/ LeaseElapses \/ BackoffElapses
           \/ UNCHANGED vars
  BY <1>1 DEF SweepStep, SweepRead, SweepFails, detect_stuck_runs, vars
<1>2. ASSUME NEW t \in Tokens, AttemptStep(t) PROVE EntryWrites
  BY <1>2 DEF AttemptStep, LoadRun, MissingGraph, ClaimRead, ClaimFails, Dispatch, ExecuteNode,
     SaveRead, SaveCommit, SaveFails, Finish, queue_run, ParkRead, ParkFails, PersistRead,
     PersistFails, FallbackRead
<1>3. ASSUME NEW t \in Tokens, HeartbeatStep(t) PROVE EntryWrites
  BY <1>3 DEF HeartbeatStep, HeartbeatRead, HeartbeatFails, HeartbeatDeadline
<1>4. ASSUME NEW t \in Tokens, StartInline(t) \/ lease(t) \/ CancelTask(t) \/ Crash(t)
      PROVE  EntryWrites
  BY <1>4 DEF CancelTask, Crash
<1>5. CASE OperatorStep
  BY <1>5 DEF OperatorStep, ReplayRead, RewriteFails, OfflineRead, ApprovalRead
<1> QED BY <1>1, <1>2, <1>3, <1>4, <1>5 DEF Next, SweepStep

(* The Run row.                                                            *)
LEMMA RunFrame ==
    ASSUME [Next]_vars, run' # run
    PROVE  RunWrites
<1> USE DEF RunWrites
<1>1. CASE StartParked \/ SweepStep \/ detect_stuck_runs \/ LeaseElapses \/ BackoffElapses
           \/ UNCHANGED vars
  BY <1>1 DEF SweepStep, SweepRead, SweepFails, LeaseElapses, BackoffElapses, vars
<1>2. ASSUME NEW t \in Tokens, AttemptStep(t) PROVE RunWrites
  BY <1>2 DEF AttemptStep, LoadRun, ClaimRead, ClaimCommit, ClaimFails, ExecuteNode,
     SaveRead, SaveFails, Finish, ParkRead, ParkFails, PersistRead, PersistFails, FallbackRead
<1>3. ASSUME NEW t \in Tokens, HeartbeatStep(t) PROVE RunWrites
  BY <1>3 DEF HeartbeatStep, HeartbeatRead, HeartbeatCommit, HeartbeatFails, HeartbeatDeadline
<1>4. ASSUME NEW t \in Tokens, StartInline(t) \/ lease(t) \/ CancelTask(t) \/ Crash(t)
      PROVE  RunWrites
  BY <1>4 DEF lease, CancelTask, Crash
<1>5. CASE OperatorStep
  BY <1>5 DEF OperatorStep, ReplayRead, RewriteFails, OfflineRead, ApprovalRead
<1> QED BY <1>1, <1>2, <1>3, <1>4, <1>5 DEF Next, SweepStep

(* The requests, and the sweep's transaction.                              *)
LEMMA RequestFrame ==
    ASSUME [Next]_vars
    PROVE  /\ req' # req => \E r \in Requests : RequestStep(r)
           /\ sweep' # sweep => SweepStep
<1>1. CASE StartParked \/ SweepStep \/ detect_stuck_runs \/ LeaseElapses \/ BackoffElapses
           \/ UNCHANGED vars
  BY <1>1 DEF SweepStep, StartParked, SweepRead, SweepCommit, SweepFails, detect_stuck_runs,
     LeaseElapses, BackoffElapses, vars
<1>2. ASSUME NEW t \in Tokens, AttemptStep(t) PROVE req' = req /\ sweep' = sweep
  BY <1>2 DEF AttemptStep, LoadRun, MissingGraph, _mark_queued_run_started, ClaimRead,
     ClaimCommit, ClaimFails, Dispatch, ExecuteNode, SaveRead, SaveCommit, SaveFails, Finish,
     queue_run, ParkRead, ParkCommit, ParkFails, PersistRead, PersistCommit, PersistFails,
     FallbackRead, FallbackCommit
<1>3. ASSUME NEW t \in Tokens, HeartbeatStep(t) PROVE req' = req /\ sweep' = sweep
  BY <1>3 DEF HeartbeatStep, HeartbeatRead, HeartbeatCommit, HeartbeatFails, HeartbeatDeadline
<1>4. ASSUME NEW t \in Tokens, StartInline(t) \/ lease(t) \/ CancelTask(t) \/ Crash(t)
      PROVE  req' = req /\ sweep' = sweep
  BY <1>4 DEF StartInline, lease, CancelTask, Crash
<1>5. CASE cancel_run
  BY <1>5 DEF cancel_run
<1>6. ASSUME NEW r \in Requests, RequestStep(r)
      PROVE  sweep' = sweep /\ \E q \in Requests : RequestStep(q)
  BY <1>6 DEF RequestStep, ReplayRead, ReplayCommit, RewriteFails, OfflineRead, OfflineCommit,
     ApprovalRead, ApprovalCommit
<1>7. OperatorStep => cancel_run \/ \E r \in Requests : RequestStep(r)
  BY DEF OperatorStep, RequestStep
<1> QED BY <1>1, <1>2, <1>3, <1>4, <1>5, <1>6, <1>7 DEF Next, SweepStep

(* The await points of one attempt: where it can go from where it is.  Its *)
(* snapshots and its outcome are kept while it stays.                      *)
Advances(t) ==
    \/ /\ att'[t].pc = att[t].pc /\ att'[t].snap = att[t].snap
       /\ att'[t].seen = att[t].seen /\ att'[t].outcome = att[t].outcome
    \/ att'[t].pc = "ended"
    \/ att[t].pc = "unused" /\ att'[t].pc \in {"leased", "started"}
    \/ att[t].pc = "leased" /\ att'[t].pc = "loading"
    \/ att[t].pc = "loading" /\ att'[t].pc = "started" /\ _mark_queued_run_started(t)
    \/ att[t].pc = "started" /\ att'[t].pc = "claiming" /\ ClaimRead(t)
    \/ ClaimCommit(t) /\ att'[t].pc = "dispatching"
    \/ Working(t) /\ att'[t].pc \in {"executing", "saving", "finishing", "flushing", "fallback"}
    \/ Working(t) /\ att'[t].pc = "persisting" /\ PersistRead(t)
    \/ Working(t) /\ att'[t].pc = "salvaging" /\ FallbackRead(t)
    \/ Working(t) /\ att'[t].pc = "refused" /\ "park" \in Events
    \/ Working(t) /\ att'[t].pc = "parking" /\ "park" \in Events /\ ParkRead(t)

(* Every step moves an attempt along this graph.                           *)
LEMMA PcMoves ==
    ASSUME TypeOK, [Next]_vars, NEW t \in Tokens
    PROVE  Advances(t)
<1> USE DEF Advances
<1>0. att \in [Tokens -> Attempts]
  BY DEF TypeOK
<1>1. ASSUME att'[t] = att[t] PROVE Advances(t)
  BY <1>1
<1>2. ASSUME NEW u \in Tokens, NEW a, att' = [att EXCEPT ![u] = a], u # t PROVE Advances(t)
  BY <1>0, <1>2
<1>3. ASSUME NEW u \in Tokens, End(u) PROVE Advances(t)
  <2>1. Ended.pc = "ended"
    BY DEF Ended, NoAttempt
  <2> QED BY <1>0, <1>3, <2>1 DEF End
<1>4. ASSUME NEW o \in Outcomes, NEW u \in Tokens, Interrupt(u, o) PROVE Advances(t)
  <2>1. PICK a \in Interruptions(att[u], o) : att' = [att EXCEPT ![u] = a]
    BY <1>4 DEF Interrupt
  <2>2. a.pc = "ended" \/ (a.pc = "finishing" /\ Working(u))
    BY <1>0 DEF Interruptions, Ended, NoAttempt, Attempts, Working
  <2> QED BY <1>0, <2>1, <2>2
<1>5. ASSUME NEW u \in Tokens, AttemptStep(u) PROVE Advances(t)
  <2>1. CASE u # t
    <3>1. att' = [att EXCEPT ![u] = att'[u]]
      BY <1>0, <1>5 DEF AttemptStep, LoadRun, MissingGraph, _mark_queued_run_started, ClaimRead,
         ClaimCommit, ClaimFails, Dispatch, ExecuteNode, SaveRead, SaveCommit, SaveFails, Saved,
         Finish, queue_run, ParkRead, ParkCommit, ParkFails, PersistRead, PersistCommit,
         PersistFails, FallbackRead, FallbackCommit, Goto, End
    <3> QED BY <1>2, <2>1, <3>1
  <2>2. CASE u = t
    <3>1. CASE LoadRun(t) \/ MissingGraph(t) \/ ClaimFails(t)
      BY <1>0, <1>3, <3>1 DEF LoadRun, MissingGraph, ClaimFails, Goto, Attempts
    <3>2. CASE _mark_queued_run_started(t)
      BY <1>0, <1>3, <3>2 DEF _mark_queued_run_started, Attempts
    <3>3. CASE ClaimRead(t)
      BY <1>0, <1>3, <3>3 DEF ClaimRead, Attempts
    <3>4. CASE ClaimCommit(t)
      BY <1>0, <3>4 DEF ClaimCommit, Attempts
    <3>5. CASE Dispatch(t) \/ queue_run(t)
      BY <1>0, <3>5 DEF Dispatch, queue_run, Goto, Working, Attempts
    <3>6. ASSUME NEW o \in Outcomes, Finish(t, o) PROVE Advances(t)
      BY <1>0, <3>6 DEF Finish, Working, Attempts
    <3>7. CASE ParkRead(t) \/ ParkCommit(t) \/ ParkFails(t)
      <4>1. CASE ParkRead(t)
        BY <1>0, <4>1 DEF ParkRead, Working, Attempts
      <4>2. CASE att' = [att EXCEPT ![t].pc = "finishing", ![t].outcome = "error",
                                    ![t].snap = NoEntry] /\ att[t].pc = "parking"
        BY <1>0, <4>2 DEF Working, Attempts
      <4> QED BY <1>3, <3>7, <4>1, <4>2 DEF ParkCommit, ParkFails
    <3>8. CASE ExecuteNode(t)
      BY <1>0, <3>8 DEF ExecuteNode, Attempts
    <3>9. CASE SaveRead(t) \/ SaveCommit(t) \/ SaveFails(t)
      <4>1. CASE SaveRead(t)
        BY <1>0, <4>1 DEF SaveRead, Working, Attempts
      <4>2. CASE SaveCommit(t) \/ SaveFails(t)
        <5>1. Working(t) /\ att'[t].pc \in {"executing", "finishing"}
          BY <1>0, <4>2 DEF SaveCommit, SaveFails, Saved, Working, Attempts
        <5> QED BY <5>1
      <4> QED BY <3>9, <4>1, <4>2
    <3>10. CASE PersistRead(t) \/ FallbackRead(t)
      BY <1>0, <1>3, <3>10 DEF PersistRead, FallbackRead, Goto, Working, Attempts
    <3>11. CASE PersistFails(t) \/ PersistCommit(t) \/ FallbackCommit(t)
      BY <1>0, <1>3, <3>11 DEF PersistFails, PersistCommit, FallbackCommit, Working, Attempts
    <3> QED BY <1>5, <2>2, <3>1, <3>2, <3>3, <3>4, <3>5, <3>6, <3>7, <3>8, <3>9, <3>10, <3>11
            DEF AttemptStep
  <2> QED BY <2>1, <2>2
<1>6. ASSUME NEW u \in Tokens, HeartbeatStep(u) PROVE Advances(t)
  <2>1. CASE Interrupt(u, "lost")
    BY <2>1, <1>4 DEF Outcomes
  <2>2. CASE \E b \in BOOLEAN : att' = [att EXCEPT ![u].renewing = b]
    BY <1>0, <2>2 DEF Attempts
  <2> QED BY <1>6, <2>1, <2>2 DEF HeartbeatStep, HeartbeatRead, HeartbeatCommit,
             HeartbeatFails, HeartbeatDeadline
<1>7. ASSUME NEW u \in Tokens, CancelTask(u) \/ Crash(u) PROVE Advances(t)
  BY <1>7, <1>3, <1>4 DEF CancelTask, Crash, Outcomes
<1>8. ASSUME NEW u \in Tokens, StartInline(u) \/ lease(u) PROVE Advances(t)
  <2>1. CASE StartInline(u)
    BY <1>0, <2>1 DEF StartInline, NoAttempt
  <2>2. CASE lease(u)
    BY <1>0, <2>2 DEF lease, NoAttempt
  <2> QED BY <1>8, <2>1, <2>2
<1>9. CASE UNCHANGED att
  BY <1>9
<1> QED BY <1>5, <1>6, <1>7, <1>8, <1>9 DEF Next, OperatorStep, StartParked, SweepRead,
        SweepCommit, SweepFails, cancel_run, ReplayRead, ReplayCommit, RewriteFails,
        OfflineRead, OfflineCommit, ApprovalRead, ApprovalCommit, detect_stuck_runs,
        LeaseElapses, BackoffElapses, vars

---------------------------------------------------------------------------
(* What the row updates leave behind                                       *)

(* The queue's mirror, field by field.                                     *)
LEMMA MirrorEffect ==
    ASSUME NEW row \in EntryRows, NEW status \in RUN_STATES
    PROVE  /\ Mirror(row, status).token = NoToken
           /\ Mirror(row, status).lease = "none"
           /\ Mirror(row, status).attempts = row.attempts
           /\ Mirror(row, status).status =
                 IF status = "success" THEN "completed"
                 ELSE IF status = "waiting" THEN "waiting"
                 ELSE IF status = "cancelled" THEN "cancelled" ELSE "failed"
<1>1. CASE status \in {"success", "waiting", "cancelled"}
  BY <1>1 DEF Mirror, _clear_lease, EntryRows
<1>2. CASE status \notin {"success", "waiting", "cancelled"}
  <2>1. Mirror(row, status) = fail(row, FALSE)
    BY <1>2 DEF Mirror
  <2> QED BY <1>2, <2>1 DEF fail, _clear_lease, EntryRows
<1> QED BY <1>1, <1>2

(* A retryable failure, field by field.                                    *)
LEMMA RetryEffect ==
    ASSUME NEW row \in EntryRows
    PROVE  /\ fail(row, TRUE) \in EntryRows
           /\ fail(row, TRUE).token = NoToken /\ fail(row, TRUE).lease = "none"
           /\ fail(row, TRUE).attempts = row.attempts
           /\ \/ fail(row, TRUE).status = "queued" /\ row.attempts < MaxAttempts
              \/ fail(row, TRUE).status = "dead_lettered"
<1>1. fail(row, TRUE) \in EntryRows
  BY FailType
<1>2. fail(row, TRUE) =
        [_clear_lease(row) EXCEPT
           !.status = IF row.attempts < MaxAttempts THEN "queued" ELSE "dead_lettered",
           !.due = IF row.attempts < MaxAttempts THEN FALSE ELSE row.due]
  BY DEF fail, _clear_lease, EntryRows
<1> QED BY <1>1, <1>2 DEF _clear_lease, EntryRows

(* A flush of a current snapshot writes exactly the new row.               *)
LEMMA FlushCurrent ==
    ASSUME NEW old \in EntryRows, NEW new \in EntryRows
    PROVE  Flush(old, old, new) = new
BY DEF Flush, Dirty, EntryRows

---------------------------------------------------------------------------
(* The ownership and mirror invariants when no commit overlaps another     *)
(* transaction.                                                            *)

(* A snapshot is taken only of rows that pass the transaction's checks.    *)
LEMMA SnapshotsStep ==
    ASSUME TypeOK, SnapshotsChecked, [Next]_vars
    PROVE  SnapshotsChecked'
<1> DEFINE Claims == \A t \in Tokens : att[t].pc = "claiming" => Claimable(att[t].snap, t)
           Checked(r) ==
             /\ req[r].kind \in ReplayKinds => req[r].entry.status \in REPLAYABLE
             /\ req[r].kind = "offline" =>
                  /\ req[r].run.status \in {"running", "queued", "pending"}
                  /\ req[r].entry.status \in ACTIVE_STATUSES
             /\ req[r].kind = "approval" => req[r].entry.status = "waiting"
           Rewrites == \A r \in Requests : req[r].pc = "read" => Checked(r)
<1>1. Claims /\ Rewrites
  BY DEF SnapshotsChecked
<1>2. Claims'
  <2> SUFFICES ASSUME NEW t \in Tokens, att'[t].pc = "claiming"
               PROVE  Claimable(att'[t].snap, t)
    BY DEF Claimable, _lease_matches
  <2>1. Advances(t)
    BY PcMoves
  <2>2. CASE att'[t].pc = att[t].pc /\ att'[t].snap = att[t].snap
    BY <1>1, <2>2
  <2>3. CASE ClaimRead(t)
    <3>1. ~End(t)
      BY DEF End, Ended, NoAttempt, TypeOK
    <3> QED BY <2>3, <3>1 DEF ClaimRead, TypeOK, Attempts
  <2> QED BY <2>1, <2>2, <2>3 DEF Advances
<1>3. Rewrites'
  <2>1. CASE UNCHANGED req
    BY <2>1, <1>1
  <2>2. ASSUME NEW r \in Requests, RequestStep(r) PROVE Rewrites'
    <3>1. ASSUME NEW k \in ReplayKinds, ReplayRead(r, k) PROVE Rewrites'
      BY <3>1, <1>1 DEF ReplayRead, ReplayKinds, REPLAYABLE, TypeOK
    <3>2. CASE OfflineRead(r)
      BY <3>2, <1>1 DEF OfflineRead, ReplayKinds, EntryRows, TypeOK
    <3>3. CASE ApprovalRead(r)
      BY <3>3, <1>1 DEF ApprovalRead, ReplayKinds, TypeOK
    <3>4. CASE ReplayCommit(r) \/ RewriteFails(r) \/ OfflineCommit(r) \/ ApprovalCommit(r)
      BY <3>4, <1>1 DEF ReplayCommit, RewriteFails, OfflineCommit, ApprovalCommit, Answered, TypeOK
    <3> QED BY <2>2, <3>1, <3>2, <3>3, <3>4 DEF RequestStep
  <2> QED BY <2>1, <2>2, RequestFrame
<1>4. SnapshotsChecked'
  <2> HIDE DEF Claims
  <2>1. \A t \in Tokens : att'[t].pc = "claiming" => Claimable(att[t].snap, t)'
    BY <1>2 DEF Claims
  <2> QED BY <2>1, <1>3 DEF SnapshotsChecked
<1> QED BY <1>4

(* While a transaction holds the entry's lock, only the holder changes who *)
(* owns it and how often it was leased.                                    *)
LEMMA LockedEntry ==
    ASSUME TypeOK, LocksHeld, [Next]_vars, ~Unlocked
    PROVE  \/ /\ entry'.status = entry.status /\ entry'.token = entry.token
              /\ entry'.attempts = entry.attempts
           \/ SweepCommit
           \/ \E t \in Tokens : PersistCommit(t) \/ FallbackCommit(t)
<1>1. entry # NoEntry
  BY TokenAssumption DEF Unlocked, LocksHeld, NoEntry
<1>2. CASE entry' = entry
  BY <1>2
<1>3. CASE LeaseElapses \/ BackoffElapses
  BY <1>3 DEF LeaseElapses, BackoffElapses, TypeOK, EntryRows
<1>4. ~StartParked /\ ~cancel_run
  BY <1>1 DEF StartParked, cancel_run
<1>5. ASSUME NEW t \in Tokens
      PROVE  /\ ~StartInline(t) /\ ~lease(t) /\ ~_mark_queued_run_started(t)
             /\ ~ClaimCommit(t) /\ ~HeartbeatCommit(t)
  BY <1>1 DEF StartInline, lease, _mark_queued_run_started, ClaimCommit, HeartbeatCommit
<1>6. ASSUME NEW t \in Tokens, ParkCommit(t) PROVE entry' = entry
  BY <1>6 DEF ParkCommit
<1>7. ASSUME NEW r \in Requests PROVE ~ReplayCommit(r) /\ ~OfflineCommit(r) /\ ~ApprovalCommit(r)
  BY DEF ReplayCommit, OfflineCommit, ApprovalCommit
<1> QED BY <1>2, <1>3, <1>4, <1>5, <1>6, <1>7, EntryFrame DEF EntryWrites

(* Locks are taken of rows nobody has locked, and end with their holder.   *)
LEMMA LocksStep ==
    ASSUME TypeOK, LocksHeld, [Next]_vars
    PROVE  LocksHeld'
<1>1. \A t \in Tokens : att[t].pc \in {"persisting", "salvaging"}
                            => entry.token = t /\ sweep = "idle" /\ ~Unlocked
  BY DEF LocksHeld, Unlocked
<1>2. ASSUME NEW t \in Tokens, PersistCommit(t) \/ FallbackCommit(t)
      PROVE  att[t].pc \in {"persisting", "salvaging"} /\ att'[t].pc = "ended"
  BY <1>2 DEF PersistCommit, FallbackCommit, End, Ended, NoAttempt, TypeOK
<1>3. ASSUME NEW t \in Tokens, att'[t].pc \in {"persisting", "salvaging"}
      PROVE  entry'.token = t /\ sweep' = "idle"
  <2>1. Advances(t)
    BY PcMoves
  <2>2. CASE att'[t].pc = att[t].pc
    <3>1. entry.token = t /\ sweep = "idle" /\ ~Unlocked
      BY <1>1, <1>3, <2>2
    <3>2. ~SweepCommit
      BY <3>1 DEF SweepCommit
    <3>3. ASSUME NEW u \in Tokens PROVE ~PersistCommit(u) /\ ~FallbackCommit(u)
      BY <1>1, <1>2, <1>3, <3>1
    <3>4. entry'.token = t
      BY <3>1, <3>2, <3>3, LockedEntry
    <3>5. sweep' = "idle"
      BY <3>1, RequestFrame DEF SweepStep, SweepRead, SweepCommit, SweepFails
    <3> QED BY <3>4, <3>5
  <2>3. CASE PersistRead(t) \/ FallbackRead(t)
    <3>1. ~End(t)
      BY <1>3 DEF End, Ended, NoAttempt, TypeOK
    <3> QED BY <2>3, <3>1 DEF PersistRead, FallbackRead, _lease_matches, Unlocked
  <2> QED BY <1>3, <2>1, <2>2, <2>3 DEF Advances
<1>4. ASSUME sweep' # "idle" PROVE entry'.status \in {"leased", "running"}
  <2>1. CASE sweep' = sweep
    <3>1. ~Unlocked /\ entry.status \in {"leased", "running"}
      BY <1>4, <2>1 DEF Unlocked, LocksHeld
    <3>2. ~SweepCommit
      BY <1>4 DEF SweepCommit
    <3>3. ASSUME NEW u \in Tokens PROVE ~PersistCommit(u) /\ ~FallbackCommit(u)
      BY <1>1, <1>2, <1>4, <2>1
    <3> QED BY <3>1, <3>2, <3>3, LockedEntry
  <2>2. CASE SweepStep
    BY <1>4, <2>2 DEF SweepStep, SweepRead, SweepCommit, SweepFails
  <2> QED BY <2>1, <2>2, RequestFrame
<1> QED BY <1>3, <1>4 DEF LocksHeld

---------------------------------------------------------------------------
(* What one step does to the two rows when no commit overlaps another      *)
(* transaction: the moves the invariants are checked against.              *)

(* A renewal, a deadline that passes, a back-off that ends.                *)
Timed ==
    /\ entry'.status = entry.status /\ entry'.token = entry.token
    /\ entry'.attempts = entry.attempts
    /\ entry'.lease = "none" => entry.lease = "none"
    /\ run' = run

Created ==
    /\ entry.status = "absent" /\ entry.token = NoToken /\ run.status = "absent"
    /\ entry'.attempts = 0 /\ run'.checkpoint = 0
    /\ \/ /\ entry'.status = "running" /\ entry'.lease = "live" /\ run'.status = "running"
          /\ \E t \in Tokens : entry'.token = t /\ att[t].pc = "unused"
       \/ /\ entry'.status = "queued" /\ entry'.token = NoToken
          /\ entry'.lease = "none" /\ run'.status = "queued"

Leased(t) ==
    /\ entry.status = "queued" /\ att[t].pc = "unused"
    /\ entry'.status = "leased" /\ entry'.token = t /\ entry'.lease = "live"
    /\ entry'.attempts = entry.attempts + 1
    /\ run' = run

(* The row leaves its owner: the lease is cleared.                         *)
Released ==
    /\ entry.status \in {"leased", "running"}
    /\ entry'.token = NoToken /\ entry'.lease = "none"
    /\ entry'.attempts = entry.attempts

Swept ==
    /\ Released
    /\ sweep \in {"reset", "keep"} /\ sweep' = "idle"
    /\ sweep = "reset" => run.status = "running"
    /\ run'.checkpoint = run.checkpoint
    /\ run'.status = IF sweep = "reset" THEN "queued" ELSE run.status
    /\ \/ entry'.status = "queued" /\ entry.attempts < MaxAttempts
       \/ entry'.status = "dead_lettered"

Begun(t) ==
    /\ att[t].pc = "loading" /\ run.status = "queued"
    /\ entry.status \in {"queued", "leased"} /\ entry.token \in {NoToken, t}
    /\ entry'.status = "running" /\ entry'.token = t
    /\ entry'.attempts = entry.attempts
    /\ run'.status = "running" /\ run'.checkpoint = run.checkpoint

Claimed(t) ==
    /\ att[t].pc = "claiming"
    /\ entry.status \in {"queued", "leased", "running"} /\ entry.token \in {NoToken, t}
    /\ entry'.status = "running" /\ entry'.token = t /\ entry'.lease = "live"
    /\ entry'.attempts = entry.attempts
    /\ run' = run

(* The Run row is written without a look at the queue.                     *)
Unfenced ==
    /\ entry' = entry /\ run'.checkpoint = run.checkpoint
    /\ \/ run'.status = run.status
       \/ "missing_graph" \in Events /\ run'.status = "error"
       \/ "park" \in Events /\ run'.status = "queued"
       \/ "stuck" \in Events /\ run'.status = "error"

Checkpointed == entry' = entry /\ entry.status = "running" /\ run'.status = run.status

Parked(t) ==
    /\ att[t].pc = "parking"
    /\ run'.checkpoint = run.checkpoint
    /\ \/ entry' = entry /\ run'.status = "error"
       \/ /\ Released /\ entry.token = t
          /\ \/ entry'.status = "queued" /\ entry.attempts < MaxAttempts /\ run'.status = "queued"
             \/ entry'.status = "dead_lettered" /\ run'.status = "error"

Settled(t) ==
    /\ Released /\ entry.token = t /\ sweep = "idle"
    /\ \/ run'.status \in {"error", "timed_out"} /\ run'.checkpoint = 0
          /\ entry'.status = "failed"
       \/ run'.status = "cancelled" /\ run'.checkpoint = 0 /\ entry'.status = "cancelled"
       \/ run'.status = "success" /\ run'.checkpoint = 0 /\ entry'.status = "completed"
       \/ run'.status = "waiting" /\ entry'.status = "waiting"
       \/ run' = run /\ run.status \in TERMINAL_RUN_STATES \cup {"waiting"}
          /\ entry'.status \in {"failed", "cancelled", "waiting"}

Cancelled ==
    /\ run.status \in {"running", "queued", "waiting"}
    /\ run'.status = "cancelled" /\ run'.checkpoint = 0
    /\ \/ entry' = entry /\ entry.status \notin ACTIVE_STATUSES
       \/ /\ entry.status \in ACTIVE_STATUSES /\ entry'.status = "cancelled"
          /\ entry'.token = NoToken /\ entry'.lease = "none"
          /\ entry'.attempts = entry.attempts

Requeued == entry'.status = "queued" /\ entry'.token = NoToken /\ entry'.lease = "none"

Replayed(r) ==
    /\ entry.status \in REPLAYABLE /\ req[r].pc = "read"
    /\ Requeued /\ entry'.attempts = 0
    /\ run'.checkpoint = run.checkpoint
    /\ run'.status = IF req[r].kind = "bulk" THEN run.status ELSE "queued"

SentBack ==
    /\ "runner_offline" \in Events
    /\ run.status \in {"running", "queued", "pending"}
    /\ entry.status \in ACTIVE_STATUSES
    /\ Requeued /\ run'.status = "pending" /\ run'.checkpoint = run.checkpoint

Resumed ==
    /\ "approval" \in Events
    /\ entry.status = "waiting"
    /\ Requeued /\ run'.status = "queued" /\ run'.checkpoint = run.checkpoint

RowMove ==
    \/ UNCHANGED <<entry, run>> \/ Timed \/ Created
    \/ \E t \in Tokens : Leased(t) \/ Begun(t) \/ Claimed(t) \/ Parked(t) \/ Settled(t)
    \/ Swept \/ Unfenced \/ Checkpointed \/ Cancelled
    \/ \E r \in Requests : Replayed(r)
    \/ SentBack \/ Resumed

(* A sweep that is still current.                                          *)
LEMMA SweepEffect ==
    ASSUME ~Overlap, LedgerInv, SweepCommit
    PROVE  Swept
<1>1. entry \in EntryRows /\ run \in RunRows /\ sweep \in Sweeps
  BY DEF LedgerInv, TypeOK
<1>2. /\ Released /\ sweep \in {"reset", "keep"} /\ sweep' = "idle"
      /\ sweep = "reset" => run.status = "running"
  BY <1>1 DEF SweepCommit, Released, LedgerInv, LocksHeld, Sweeps, _clear_lease, EntryRows
<1>3. /\ run'.checkpoint = run.checkpoint
      /\ run'.status = IF sweep = "reset" THEN "queued" ELSE run.status
  BY <1>1 DEF SweepCommit, RunRows
<1>4. \/ entry'.status = "queued" /\ entry.attempts < MaxAttempts
      \/ entry'.status = "dead_lettered"
  BY <1>1 DEF SweepCommit, _clear_lease, EntryRows
<1> QED BY <1>2, <1>3, <1>4 DEF Swept

(* A claim that is still current.                                          *)
LEMMA ClaimEffect ==
    ASSUME ~Overlap, LedgerInv, NEW t \in Tokens, ClaimCommit(t)
    PROVE  Claimed(t)
<1>1. entry \in EntryRows /\ att[t].snap = entry /\ Claimable(entry, t)
  BY DEF ClaimCommit, LedgerInv, TypeOK, SnapshotsChecked
<1>2. mark_running(entry, t) \in EntryRows
  BY <1>1 DEF mark_running, EntryRows, ACTIVE_STATUSES
<1>3. entry' = [mark_running(entry, t) EXCEPT !.lease = "live"]
  BY <1>1, <1>2, FlushCurrent DEF ClaimCommit
<1> QED BY <1>1, <1>3 DEF ClaimCommit, Claimable, _lease_matches, Claimed, mark_running, EntryRows

(* A park that is still current.                                           *)
LEMMA ParkEffect ==
    ASSUME ~Overlap, LedgerInv, NEW t \in Tokens, ParkCommit(t)
    PROVE  Parked(t)
<1>1. /\ entry \in EntryRows /\ run \in RunRows /\ att[t].snap = entry /\ att[t].pc = "parking"
      /\ entry.token = t => entry.status \in {"leased", "running"}
  BY DEF ParkCommit, LedgerInv, TypeOK, TokenIsLease
<1>2. CASE entry.token = t
  <2> DEFINE new == fail(entry, TRUE)
  <2>1. /\ new \in EntryRows /\ new.token = NoToken /\ new.lease = "none"
        /\ new.attempts = entry.attempts
        /\ \/ new.status = "queued" /\ entry.attempts < MaxAttempts
           \/ new.status = "dead_lettered"
    BY <1>1, RetryEffect
  <2>2. /\ entry' = [Flush(entry, entry, new) EXCEPT
                       !.due = IF new.status = "queued" THEN FALSE ELSE @]
        /\ run' = [run EXCEPT !.status = IF new.status = "queued" THEN "queued" ELSE "error"]
    BY <1>1, <1>2 DEF ParkCommit, _lease_matches
  <2> HIDE DEF new
  <2>3. /\ entry'.token = NoToken /\ entry'.lease = "none"
        /\ entry'.attempts = entry.attempts /\ entry'.status = new.status
    BY <1>1, <2>1, <2>2, FlushCurrent DEF EntryRows
  <2>4. run'.status = (IF new.status = "queued" THEN "queued" ELSE "error")
        /\ run'.checkpoint = run.checkpoint
    BY <1>1, <2>2 DEF RunRows
  <2> QED BY <1>1, <1>2, <2>1, <2>3, <2>4 DEF Parked, Released
<1>3. CASE entry.token # t
  <2>1. entry' = entry /\ run' = [run EXCEPT !.status = "error"]
    BY <1>1, <1>3 DEF ParkCommit, _lease_matches
  <2> QED BY <1>1, <2>1 DEF Parked, RunRows
<1> QED BY <1>2, <1>3

(* An outcome, persisted by the transaction that holds the row or by its   *)
(* fallback.                                                               *)
LEMMA PersistEffect ==
    ASSUME ~Overlap, LedgerInv, NEW t \in Tokens, PersistCommit(t) \/ FallbackCommit(t)
    PROVE  Settled(t)
<1>1. entry \in EntryRows /\ run \in RunRows /\ TokenIsLease /\ NoToken \notin Tokens
  BY DEF LedgerInv, TypeOK
<1>2. entry.token = t /\ sweep = "idle" /\ entry.status \in {"leased", "running"}
      /\ att[t].seen = run
  BY <1>1 DEF PersistCommit, FallbackCommit, LedgerInv, LocksHeld, TokenIsLease
<1> DEFINE computed == StatusOf(att[t].outcome)
           fallback == FallbackOf(att[t].outcome)
<1>3. /\ computed \in TERMINAL_RUN_STATES \cup {"waiting"}
      /\ fallback \in (TERMINAL_RUN_STATES \cup {"waiting"}) \ {"success"}
  BY DEF PersistCommit, FallbackCommit, FallbackOf, StatusOf, TypeOK, Attempts, Outcomes,
     TERMINAL_RUN_STATES, LedgerInv, OutcomeDecided
<1>4. \/ /\ entry' = Mirror(entry, computed)
         /\ run'.status = computed /\ (computed = "waiting" \/ run'.checkpoint = 0)
      \/ /\ entry' = Mirror(entry, fallback)
         /\ \/ run'.status = fallback /\ run'.checkpoint = 0
            \/ run' = run /\ run.status \in TERMINAL_RUN_STATES \cup {"waiting"}
  <2> HIDE DEF computed, fallback
  <2>1. CASE PersistCommit(t)
    BY <1>1, <1>2, <2>1 DEF PersistCommit, Dirty, RunRows, computed
  <2>2. CASE FallbackCommit(t)
    BY <1>1, <1>2, <2>2 DEF FallbackCommit, Dirty, RunRows, fallback
  <2> QED BY <2>1, <2>2
<1> HIDE DEF computed, fallback
<1>5. \A st \in TERMINAL_RUN_STATES \cup {"waiting"} :
         /\ Mirror(entry, st).token = NoToken /\ Mirror(entry, st).lease = "none"
         /\ Mirror(entry, st).attempts = entry.attempts
         /\ Mirror(entry, st).status = IF st = "success" THEN "completed"
                                       ELSE IF st = "waiting" THEN "waiting"
                                       ELSE IF st = "cancelled" THEN "cancelled" ELSE "failed"
  BY <1>1, MirrorEffect DEF RUN_STATES
<1>6. CASE /\ entry' = Mirror(entry, computed)
           /\ run'.status = computed /\ (computed = "waiting" \/ run'.checkpoint = 0)
  BY <1>2, <1>3, <1>5, <1>6 DEF Settled, Released, TERMINAL_RUN_STATES
<1>7. CASE /\ entry' = Mirror(entry, fallback)
           /\ \/ run'.status = fallback /\ run'.checkpoint = 0
              \/ run' = run /\ run.status \in TERMINAL_RUN_STATES \cup {"waiting"}
  BY <1>2, <1>3, <1>5, <1>7 DEF Settled, Released, TERMINAL_RUN_STATES
<1> QED BY <1>4, <1>6, <1>7

(* A replay that is still current.                                         *)
LEMMA ReplayEffect ==
    ASSUME ~Overlap, LedgerInv, NEW r \in Requests, ReplayCommit(r)
    PROVE  Replayed(r)
<1> DEFINE seed == req[r].kind = "from_node" /\ run.rows
<1>1. /\ entry \in EntryRows /\ run \in RunRows
      /\ req[r].entry = entry /\ req[r].run = run /\ req[r].pc = "read"
      /\ entry.status \in REPLAYABLE
  BY DEF ReplayCommit, LedgerInv, TypeOK, SnapshotsChecked
<1>2. seed \in BOOLEAN
  BY <1>1 DEF RunRows
<1>3. /\ entry' = [Flush(entry, entry, replay(entry, seed)) EXCEPT !.due = TRUE]
      /\ run' = IF req[r].kind = "bulk" THEN run
                ELSE [run EXCEPT !.status = Dirty(@, run.status, "queued")]
  BY <1>1 DEF ReplayCommit
<1> HIDE DEF seed
<1>4. /\ replay(entry, seed) \in EntryRows
      /\ replay(entry, seed).token = NoToken /\ replay(entry, seed).lease = "none"
      /\ replay(entry, seed).status = "queued" /\ replay(entry, seed).attempts = 0
  BY <1>1, <1>2 DEF replay, _clear_lease, EntryRows, ACTIVE_STATUSES
<1>5. Requeued /\ entry'.attempts = 0
  BY <1>1, <1>3, <1>4, FlushCurrent DEF Requeued, EntryRows
<1>6. /\ run'.checkpoint = run.checkpoint
      /\ run'.status = IF req[r].kind = "bulk" THEN run.status ELSE "queued"
  BY <1>1, <1>3 DEF Dirty, RunRows
<1> QED BY <1>1, <1>5, <1>6 DEF Replayed

(* Requests are of kinds the instance admits.                              *)
RequestsAdmitted ==
    \A r \in Requests : req[r].pc = "read" =>
        /\ req[r].kind = "offline" => "runner_offline" \in Events
        /\ req[r].kind = "approval" => "approval" \in Events
        /\ req[r].kind = "bulk" => "bulk_replay" \in Events

(* Only the reads open a request.                                          *)
LEMMA RequestsStep ==
    ASSUME TypeOK, RequestsAdmitted, [Next]_vars
    PROVE  RequestsAdmitted'
<1> USE DEF RequestsAdmitted
<1>1. CASE UNCHANGED req
  BY <1>1
<1>2. ASSUME NEW r \in Requests, RequestStep(r) PROVE RequestsAdmitted'
  <2>1. ASSUME NEW k \in ReplayKinds, ReplayRead(r, k) PROVE RequestsAdmitted'
    BY <2>1 DEF ReplayRead, ReplayKinds, TypeOK
  <2>2. CASE OfflineRead(r) \/ ApprovalRead(r)
    BY <2>2 DEF OfflineRead, ApprovalRead, TypeOK
  <2>3. CASE ReplayCommit(r) \/ RewriteFails(r) \/ OfflineCommit(r) \/ ApprovalCommit(r)
    BY <2>3 DEF ReplayCommit, RewriteFails, OfflineCommit, ApprovalCommit, Answered, TypeOK
  <2> QED BY <1>2, <2>1, <2>2, <2>3 DEF RequestStep
<1> QED BY <1>1, <1>2, RequestFrame

(* A runner-offline sweep that is still current.                           *)
LEMMA OfflineEffect ==
    ASSUME ~Overlap, LedgerInv, RequestsAdmitted, NEW r \in Requests, OfflineCommit(r)
    PROVE  SentBack
<1> DEFINE new == [_clear_lease(entry) EXCEPT !.status = "queued"]
<1>1. /\ entry \in EntryRows /\ run \in RunRows /\ "runner_offline" \in Events
      /\ req[r].entry = entry /\ req[r].run = run
      /\ run.status \in {"running", "queued", "pending"} /\ entry.status \in ACTIVE_STATUSES
  BY DEF OfflineCommit, LedgerInv, TypeOK, SnapshotsChecked, RequestsAdmitted
<1>2. new \in EntryRows /\ new.token = NoToken /\ new.status = "queued" /\ new.lease = "none"
  BY <1>1 DEF _clear_lease, EntryRows, ACTIVE_STATUSES
<1>3. Requeued
  BY <1>1, <1>2, FlushCurrent DEF OfflineCommit, Requeued, EntryRows
<1>4. run'.status = "pending" /\ run'.checkpoint = run.checkpoint
  BY <1>1 DEF OfflineCommit, Dirty, RunRows
<1> QED BY <1>1, <1>3, <1>4 DEF SentBack

(* An approval that is still current.                                      *)
LEMMA ApprovalEffect ==
    ASSUME ~Overlap, LedgerInv, RequestsAdmitted, NEW r \in Requests, ApprovalCommit(r)
    PROVE  Resumed
<1>1. /\ entry \in EntryRows /\ run \in RunRows /\ "approval" \in Events
      /\ req[r].entry = entry /\ req[r].run = run /\ entry.status = "waiting"
  BY DEF ApprovalCommit, LedgerInv, TypeOK, SnapshotsChecked, RequestsAdmitted
<1>2. /\ resume_waiting(entry) \in EntryRows
      /\ resume_waiting(entry).token = NoToken /\ resume_waiting(entry).lease = "none"
      /\ resume_waiting(entry).status = "queued"
  BY <1>1 DEF resume_waiting, _clear_lease, EntryRows, ACTIVE_STATUSES
<1>3. Requeued
  BY <1>1, <1>2, FlushCurrent DEF ApprovalCommit, Requeued, EntryRows
<1>4. run'.status = "queued" /\ run'.checkpoint = run.checkpoint
  BY <1>1 DEF ApprovalCommit, Dirty, RunRows
<1> QED BY <1>1, <1>3, <1>4 DEF Resumed

(* Every step is one of the moves.                                         *)
LEMMA RowMoves ==
    ASSUME ~Overlap, LedgerInv, RequestsAdmitted, [Next]_vars
    PROVE  RowMove
<1>1. entry \in EntryRows /\ run \in RunRows /\ TypeOK
  BY DEF LedgerInv, TypeOK
<1> USE DEF RowMove
<1>2. CASE StartParked
  BY <1>2 DEF StartParked, NoEntry, NoRun, Created
<1>12. ASSUME NEW t \in Tokens, StartInline(t) PROVE RowMove
  BY <1>12 DEF StartInline, NoEntry, NoRun, Created
<1>3. ASSUME NEW t \in Tokens, lease(t) PROVE RowMove
  BY <1>1, <1>3 DEF lease, Leased, EntryRows
<1>4. CASE SweepCommit
  BY <1>4, SweepEffect
<1>5. ASSUME NEW t \in Tokens, MissingGraph(t) \/ queue_run(t) \/ Dispatch(t) PROVE RowMove
  BY <1>1, <1>5 DEF MissingGraph, queue_run, Dispatch, Unfenced, RunRows
<1>6. ASSUME NEW t \in Tokens, _mark_queued_run_started(t) PROVE RowMove
  BY <1>1, <1>6 DEF _mark_queued_run_started, Begun, EntryRows, RunRows
<1>7. ASSUME NEW t \in Tokens, SaveCommit(t) PROVE RowMove
  BY <1>1, <1>7 DEF SaveCommit, Fence, Checkpointed, RunRows
<1>8. ASSUME NEW t \in Tokens, HeartbeatCommit(t) PROVE RowMove
  BY <1>1, <1>8 DEF HeartbeatCommit, Timed, EntryRows
<1>9. CASE cancel_run
  BY <1>1, <1>9 DEF cancel_run, Cancelled, _clear_lease, EntryRows, RunRows
<1>10. CASE detect_stuck_runs
  BY <1>1, <1>10 DEF detect_stuck_runs, Unfenced, RunRows
<1>11. CASE LeaseElapses \/ BackoffElapses
  BY <1>1, <1>11 DEF LeaseElapses, BackoffElapses, Timed, EntryRows
<1> QED BY <1>2, <1>3, <1>4, <1>5, <1>6, <1>7, <1>8, <1>9, <1>10, <1>11, <1>12, EntryFrame,
           RunFrame, ClaimEffect, ParkEffect, PersistEffect, ReplayEffect, OfflineEffect, ApprovalEffect
        DEF EntryWrites, RunWrites

(* What the moves leave in the two rows.                                   *)
LEMMA RowsStep ==
    ASSUME ~Overlap, LedgerInv, RequestsAdmitted, [Next]_vars
    PROVE  TokenIsLease' /\ SuccessIsMirrored' /\ WaitingIsMirrored'
<1> DEFINE Rows == TokenIsLease /\ SuccessIsMirrored /\ WaitingIsMirrored
<1>1. RowMove /\ Rows
  BY RowMoves DEF LedgerInv
<1> SUFFICES Rows'
  OBVIOUS
<1> USE DEF TokenIsLease, SuccessIsMirrored, WaitingIsMirrored
<1>2. CASE UNCHANGED <<entry, run>> \/ Timed \/ Created \/ Unfenced \/ Checkpointed
  BY <1>1, <1>2 DEF Timed, Created, Unfenced, Checkpointed
<1>3. ASSUME NEW t \in Tokens, Leased(t) \/ Begun(t) \/ Claimed(t) PROVE Rows'
  BY <1>1, <1>3 DEF Leased, Begun, Claimed
<1>4. ASSUME NEW t \in Tokens, Parked(t) \/ Settled(t) PROVE Rows'
  BY <1>1, <1>4 DEF Parked, Settled, Released, TERMINAL_RUN_STATES
<1>5. CASE Swept \/ Cancelled
  BY <1>1, <1>5 DEF Swept, Cancelled, Released, ACTIVE_STATUSES
<1>6. CASE SentBack \/ Resumed \/ \E r \in Requests : Replayed(r)
  BY <1>1, <1>6 DEF SentBack, Resumed, Replayed, Requeued, REPLAYABLE
<1> QED BY <1>1, <1>2, <1>3, <1>4, <1>5, <1>6 DEF RowMove

(* The inductive invariant holds when a commit needs a current snapshot:   *)
(* all of it, with requests of admitted kinds only.                        *)
LEMMA AdmittedInvariant ==
    ASSUME ~Overlap
    PROVE  Spec => [](LedgerInv /\ RequestsAdmitted)
<1>1. Init => LedgerInv /\ RequestsAdmitted
  <2> SUFFICES ASSUME Init PROVE LedgerInv /\ RequestsAdmitted
    OBVIOUS
  <2>1. TypeOK
    BY ConstantRows DEF Init, TypeOK, RewriteRequests, ReplayKinds, Sweeps
  <2>2. OutcomeDecided /\ SnapshotsChecked /\ LocksHeld /\ RequestsAdmitted
    BY DEF Init, OutcomeDecided, SnapshotsChecked, LocksHeld, RequestsAdmitted, NoAttempt
  <2>3. TokenIsLease /\ SuccessIsMirrored /\ WaitingIsMirrored
    BY DEF Init, TokenIsLease, SuccessIsMirrored, WaitingIsMirrored, NoEntry, NoRun
  <2> QED BY <2>1, <2>2, <2>3 DEF LedgerInv
<1>2. LedgerInv /\ RequestsAdmitted /\ [Next]_vars => LedgerInv' /\ RequestsAdmitted'
  BY TypeStep, OutcomeStep, SnapshotsStep, LocksStep, RowsStep, RequestsStep DEF LedgerInv
<1> QED BY <1>1, <1>2, PTL DEF Spec

(* The inductive invariant of the rows, the snapshots and the locks, when  *)
(* no commit overlaps another transaction.                                 *)
THEOREM LedgerInvariant ==
    ASSUME ~Overlap
    PROVE  Spec => []LedgerInv
BY AdmittedInvariant, PTL

(* A Run shown as success is completed in the queue, as long as no commit  *)
(* overlaps another transaction: no worker, sweep, approval or replay can  *)
(* take it up again.                                                       *)
THEOREM SuccessMirrored ==
    ASSUME ~Overlap
    PROVE  Spec => []SuccessIsMirrored
<1>1. LedgerInv => SuccessIsMirrored
  BY DEF LedgerInv
<1> QED BY <1>1, LedgerInvariant, PTL

(* A Run that waits for an approval has a queue row the approval finds, as *)
(* long as no commit overlaps another transaction: the decision is never   *)
(* refused for want of one.                                                *)
THEOREM WaitingMirrored ==
    ASSUME ~Overlap
    PROVE  Spec => []WaitingIsMirrored
<1>1. LedgerInv => WaitingIsMirrored
  BY DEF LedgerInv
<1> QED BY <1>1, LedgerInvariant, PTL

(* A lease token is on the row exactly while the row is in flight, whoever *)
(* replays, approves or reports a runner offline, as long as no commit     *)
(* overlaps another transaction (TokenLeaseReadCommitted covers those that *)
(* do).                                                                    *)
THEOREM TokenLease ==
    ASSUME ~Overlap
    PROVE  Spec => []TokenIsLease
<1>1. LedgerInv => TokenIsLease
  BY DEF LedgerInv
<1> QED BY <1>1, LedgerInvariant, PTL

---------------------------------------------------------------------------
(* The ledger implements the abstract lease of RunLease.                   *)

(* The three faces of a queue row.                                         *)
LEMMA PhaseOf ==
    /\ TokenIsLease /\ TypeOK => (entry.token # NoToken <=> Phase = "owned")
    /\ entry.status \in {"leased", "running"} => Phase = "owned"
    /\ entry.status \in {"failed", "cancelled", "dead_lettered"} => Phase = "closed"
    /\ entry.status \in {"absent", "queued", "waiting", "completed"} => Phase = entry.status
BY DEF Phase, TokenIsLease, TERMINAL_STATUSES, TypeOK, EntryRows, ACTIVE_STATUSES

(* The faces of the next state are those of the primed rows.               *)
LEMMA PhaseNext ==
    /\ entry'.status \in {"leased", "running"} => Phase' = "owned"
    /\ entry'.status \in {"failed", "cancelled", "dead_lettered"} => Phase' = "closed"
    /\ entry'.status \in {"absent", "queued", "waiting", "completed"} => Phase' = entry'.status
    /\ entry'.status = entry.status => Phase' = Phase
    /\ run'.status = run.status => Shown' = Shown
    /\ run'.status \notin {"success", "waiting"} => Shown' = "other"
    /\ run'.status \in {"success", "waiting"} => Shown' = run'.status
    /\ run.status \notin {"success", "waiting"} => Shown = "other"
BY DEF Phase, Shown, TERMINAL_STATUSES

(* What a change of one attempt's program counter is in the lease.         *)
LEMMA WorkNext ==
    ASSUME TypeOK, NEW t \in Tokens, NEW a, att' = [att EXCEPT ![t] = a]
    PROVE  /\ a.pc = "ended" => Work' = [Work EXCEPT ![t] = "over"]
           /\ a.pc \notin {"unused", "ended"} => Work' = [Work EXCEPT ![t] = "active"]
           /\ a.pc = att[t].pc => Work' = Work
           /\ /\ a.pc \notin {"unused", "ended"}
              /\ att[t].pc \notin {"unused", "ended"}
              => Work' = Work
BY DEF Work, TypeOK

(* An attempt that moves on, or ends, without touching its row stutters,   *)
(* ends or hides a verdict.                                                *)
LEMMA QuietStep ==
    ASSUME TypeOK, NEW t \in Tokens, Live(t),
           att' = [att EXCEPT ![t] = att'[t]], att'[t].pc # "unused",
           Phase' = Phase, entry'.token = entry.token, Shown' \in {Shown, "other"}
    PROVE  Lease!LeaseNext \/ UNCHANGED Lease!leaseVars
<1>1. att[t].pc \notin {"unused", "ended"}
  BY DEF Live
<1>2. CASE att'[t].pc = "ended"
  <2>1. Work' = [Work EXCEPT ![t] = "over"]
    BY <1>2, WorkNext
  <2>2. Work[t] = "active"
    BY <1>1 DEF Work
  <2>3. Lease!End(t)
    BY <2>1, <2>2 DEF Lease!End, Lease!Over
  <2> QED BY <2>3 DEF Lease!LeaseNext
<1>3. CASE att'[t].pc # "ended"
  <2>1. Work' = Work
    BY <1>1, <1>3, WorkNext
  <2>2. Lease!Forget \/ UNCHANGED Lease!leaseVars
    BY <2>1 DEF Lease!Forget, Lease!leaseVars
  <2> QED BY <2>2 DEF Lease!LeaseNext
<1> QED BY <1>2, <1>3

(* An operator, a sweep or a clock that leaves the attempts alone.         *)
LEMMA QuietRows ==
    ASSUME att' = att, Phase' = Phase, entry'.token = entry.token,
           Shown' \in {Shown, "other"}
    PROVE  Lease!LeaseNext \/ UNCHANGED Lease!leaseVars
<1>1. Work' = Work
  BY DEF Work
<1> QED BY <1>1 DEF Lease!Forget, Lease!LeaseNext, Lease!leaseVars

(* An interrupted task moves to its outcome or ends.                       *)
LEMMA InterruptMoves ==
    ASSUME TypeOK, NEW t \in Tokens, NEW o \in Outcomes, Interrupt(t, o)
    PROVE  att' = [att EXCEPT ![t] = att'[t]] /\ att'[t].pc # "unused"
<1>1. PICK a \in Interruptions(att[t], o) : att' = [att EXCEPT ![t] = a]
  BY DEF Interrupt
<1>2. a.pc \in {"finishing", "ended"}
  BY DEF Interruptions, Ended, NoAttempt, TypeOK, Attempts
<1> QED BY <1>1, <1>2 DEF TypeOK

(* An attempt's own steps that leave both rows alone.                      *)
LEMMA MovesOnly ==
    ASSUME TypeOK, NEW t \in Tokens, UNCHANGED <<entry, run>>, Live(t),
           att' = [att EXCEPT ![t] = att'[t]], att'[t].pc # "unused"
    PROVE  Lease!LeaseNext \/ UNCHANGED Lease!leaseVars
BY QuietStep DEF Phase, Shown

(* An attempt that owns a row in flight settles it and is over.            *)
LEMMA SettleStep ==
    ASSUME LedgerInv, NEW t \in Tokens, Live(t), entry.token = t,
           att' = [att EXCEPT ![t] = Ended], entry'.token = NoToken,
           \/ entry'.status = "completed" /\ run'.status = "success"
           \/ entry'.status = "waiting" /\ run'.status # "success"
           \/ /\ entry'.status \in {"queued", "failed", "cancelled", "dead_lettered"}
              /\ run'.status \notin {"success", "waiting"}
    PROVE  Lease!LeaseNext
<1>1. TypeOK
  BY DEF LedgerInv
<1>2. Work[t] = "active"
  BY DEF Work, Live
<1>3. Work' = [Work EXCEPT ![t] = "over"]
  <2>1. Ended.pc = "ended"
    BY DEF Ended, NoAttempt
  <2> QED BY <1>1, <2>1, WorkNext
<1>4. \/ Phase' = "completed" /\ Shown' = "success"
      \/ Phase' = "waiting" /\ Shown' \in {"waiting", "other"}
      \/ Phase' \in {"queued", "closed"} /\ Shown' = "other"
  BY PhaseNext
<1>5. Lease!Settle(t)
  BY <1>2, <1>3, <1>4 DEF Lease!Settle, Lease!Over
<1> QED BY <1>5 DEF Lease!LeaseNext

(* A row taken from whoever had it, or from nobody, and put back or closed *)
(* while no attempt moves.                                                 *)
LEMMA TakenStep ==
    ASSUME LedgerInv, att' = att, entry'.token = NoToken,
           run'.status \notin {"success", "waiting"},
           \/ entry.status \in {"leased", "running"}
                /\ entry'.status \in {"queued", "failed", "cancelled", "dead_lettered"}
           \/ entry.status \in {"queued", "waiting"} /\ entry'.status = "cancelled"
           \/ entry.status \in {"failed", "cancelled", "dead_lettered", "waiting"}
                /\ entry'.status = "queued"
           \/ entry.status = "queued" /\ entry'.status = "queued"
    PROVE  Lease!LeaseNext
<1>1. Work' = Work /\ Shown' = "other"
  BY PhaseNext DEF Work
<1>2. CASE entry.status \in {"leased", "running"}
  <2>1. Phase = "owned" /\ Phase' \in {"queued", "closed"}
    BY <1>2, PhaseOf, PhaseNext
  <2>2. Lease!Revoke
    BY <1>1, <2>1 DEF Lease!Revoke
  <2> QED BY <2>2 DEF Lease!LeaseNext
<1>3. CASE entry.status \notin {"leased", "running"}
  <2>1. entry.token = NoToken
    BY <1>3 DEF LedgerInv, TokenIsLease
  <2>2. \/ Phase \in {"queued", "waiting"} /\ Phase' = "closed"
        \/ Phase \in {"closed", "waiting"} /\ Phase' = "queued"
        \/ Phase' = Phase
    BY <1>3, PhaseOf, PhaseNext
  <2>3. Lease!Close \/ Lease!Reopen \/ Lease!Forget
    BY <1>1, <2>1, <2>2 DEF Lease!Close, Lease!Reopen, Lease!Forget
  <2> QED BY <2>3 DEF Lease!LeaseNext
<1> QED BY <1>2, <1>3

(* An attempt, new or still preparing, takes a row nobody owns, or keeps   *)
(* one it owns already.                                                    *)
LEMMA ClaimStep ==
    ASSUME LedgerInv, NEW t \in Tokens, att[t].pc # "ended",
           att' = [att EXCEPT ![t] = att'[t]], att'[t].pc \notin {"unused", "ended"},
           entry.status = "queued" \/ (entry.token = t /\ Live(t)),
           entry'.token = t, entry'.status \in {"leased", "running"},
           run'.status = run.status \/ (run'.status = "running" /\ run.status = "queued")
    PROVE  Lease!LeaseNext \/ UNCHANGED Lease!leaseVars
<1>1. TypeOK
  BY DEF LedgerInv
<1>2. Work' = [Work EXCEPT ![t] = "active"] /\ Phase' = "owned" /\ Shown' = Shown
  BY <1>1, WorkNext, PhaseNext
<1>3. CASE entry.status = "queued"
  <2>1. Phase = "queued" /\ Work[t] \in {"unused", "active"}
    BY <1>3, PhaseOf DEF Work
  <2>2. Lease!Claim(t)
    BY <1>2, <2>1 DEF Lease!Claim, Lease!Begin
  <2> QED BY <2>2 DEF Lease!LeaseNext
<1>4. CASE entry.token = t /\ Live(t)
  <2>1. Phase = "owned"
    BY <1>1, <1>4, PhaseOf, TokenAssumption DEF LedgerInv
  <2>2. Work' = Work
    BY <1>1, <1>4, WorkNext DEF Live
  <2> QED BY <1>2, <1>4, <2>1, <2>2 DEF Lease!leaseVars
<1> QED BY <1>3, <1>4

(* One case per action: what it is in the abstract lease.                  *)
LEMMA LeaseStep ==
    ASSUME ~Overlap, LedgerInv, RequestsAdmitted, [Next]_vars
    PROVE  Lease!LeaseNext \/ UNCHANGED Lease!leaseVars
<1> DEFINE Goal == Lease!LeaseNext \/ UNCHANGED Lease!leaseVars
<1> SUFFICES Goal
  OBVIOUS
<1>1. /\ TypeOK
      /\ entry \in EntryRows
      /\ run \in RunRows
      /\ att \in [Tokens -> Attempts]
      /\ TokenIsLease
      /\ SuccessIsMirrored
      /\ WaitingIsMirrored
  BY DEF LedgerInv, TypeOK
<1>2. Ended.pc = "ended"
  BY DEF Ended, NoAttempt
<1>3. CASE StartParked
  <2>1. /\ Phase = "absent" /\ Phase' = "queued"
        /\ Shown = "other" /\ Shown' = "other"
        /\ Work' = Work
        /\ entry'.token = entry.token
    BY <1>3, <1>1, PhaseOf, PhaseNext DEF StartParked, NoEntry, NoRun, Work, TokenIsLease
  <2>2. Lease!Enqueue
    BY <2>1 DEF Lease!Enqueue
  <2> QED BY <2>2 DEF Lease!LeaseNext
<1>4. ASSUME NEW t \in Tokens, StartInline(t) PROVE Goal
  <2> DEFINE a == [NoAttempt EXCEPT !.pc = "started", !.inline = TRUE, !.input = TRUE]
  <2>1. a.pc = "started" /\ att' = [att EXCEPT ![t] = a]
    BY <1>4 DEF StartInline, NoAttempt
  <2> HIDE DEF a
  <2>2. Work' = [Work EXCEPT ![t] = "active"] /\ Work[t] = "unused"
    BY <1>1, <1>4, <2>1, WorkNext DEF StartInline, Work
  <2>3. /\ Phase = "absent" /\ Phase' = "owned"
        /\ Shown = "other" /\ Shown' = "other"
        /\ entry'.token = t
    BY <1>4, PhaseOf, PhaseNext DEF StartInline, NoEntry, NoRun
  <2>4. Lease!Start(t)
    BY <2>2, <2>3 DEF Lease!Start, Lease!Begin
  <2> QED BY <2>4 DEF Lease!LeaseNext
<1>5. ASSUME NEW t \in Tokens, lease(t) PROVE Goal
  <2> DEFINE a == [NoAttempt EXCEPT !.pc = "leased"]
  <2>1. a.pc = "leased" /\ att' = [att EXCEPT ![t] = a]
    BY <1>5 DEF lease, NoAttempt
  <2> HIDE DEF a
  <2>2. att' = [att EXCEPT ![t] = att'[t]] /\ att'[t].pc = "leased"
    BY <2>1, <1>1
  <2>3. entry.status = "queued" /\ att[t].pc = "unused" /\ run'.status = run.status
    BY <1>5 DEF lease
  <2>4. entry'.token = t /\ entry'.status = "leased"
    BY <1>5, <1>1 DEF lease, EntryRows
  <2> QED BY <2>2, <2>3, <2>4, ClaimStep
(* The sweep takes the row from its owner; its reads move nothing.         *)
<1>6. CASE SweepStep
  <2>1. CASE SweepRead \/ SweepFails
    <3>1. att' = att /\ entry' = entry /\ run' = run
      BY <2>1 DEF SweepRead, SweepFails
    <3> QED BY <3>1, PhaseNext, QuietRows
  <2>2. CASE SweepCommit
    <3>1. Swept /\ att' = att
      BY <2>2, SweepEffect DEF SweepCommit
    <3>2. run'.status \notin {"success", "waiting"}
      BY <1>1, <3>1 DEF Swept, Released, SuccessIsMirrored, WaitingIsMirrored
    <3> QED BY <3>1, <3>2, TakenStep DEF Swept, Released
  <2> QED BY <1>6, <2>1, <2>2 DEF SweepStep
<1>7. ASSUME NEW t \in Tokens, AttemptStep(t) PROVE Goal
(* Steps that leave both rows alone.                                       *)
  <2>1. CASE \/ LoadRun(t) \/ ClaimRead(t) \/ ClaimFails(t) \/ ExecuteNode(t)
             \/ SaveRead(t) \/ SaveFails(t) \/ ParkRead(t) \/ ParkFails(t)
             \/ PersistRead(t) \/ PersistFails(t) \/ FallbackRead(t)
             \/ \E o \in Outcomes : Finish(t, o)
    <3>1. UNCHANGED <<entry, run>> /\ Live(t)
      BY <2>1 DEF LoadRun, ClaimRead, ClaimFails, ExecuteNode, SaveRead, SaveFails, ParkRead,
         ParkFails, PersistRead, PersistFails, FallbackRead, Finish, Live
    <3>2. att' = [att EXCEPT ![t] = att'[t]]
      BY <2>1, <1>1 DEF LoadRun, ClaimRead, ClaimFails, ExecuteNode, SaveRead, SaveFails, Saved,
         ParkRead, ParkFails, PersistRead, PersistFails, FallbackRead, Finish, Goto, End
    <3>3. att'[t].pc # "unused"
      BY <1>1, <3>1, PcMoves DEF Advances, Live
    <3> QED BY <1>1, <3>1, <3>2, <3>3, MovesOnly
(* Unfenced writes of the Run row.                                         *)
  <2>2. CASE MissingGraph(t) \/ queue_run(t) \/ Dispatch(t) \/ SaveCommit(t)
    <3>1. entry' = entry /\ Live(t)
      BY <2>2 DEF MissingGraph, queue_run, Dispatch, SaveCommit, Live
    <3>2. att' = [att EXCEPT ![t] = att'[t]]
      BY <2>2, <1>1 DEF MissingGraph, queue_run, Dispatch, SaveCommit, Saved, Goto, End
    <3>3. run'.status \in {run.status, "error", "queued"}
      BY <2>2, <1>1 DEF MissingGraph, queue_run, Dispatch, SaveCommit, RunRows
    <3>4. Shown' \in {Shown, "other"} /\ Phase' = Phase
      BY <3>1, <3>3, PhaseNext
    <3>5. att'[t].pc # "unused"
      BY <1>1, <3>1, PcMoves DEF Advances, Live
    <3> QED BY <1>1, <3>1, <3>2, <3>4, <3>5, QuietStep
  <2>3. CASE _mark_queued_run_started(t)
    <3>1. CASE UNCHANGED <<entry, run>>
      <4>1. Live(t) /\ att' = [att EXCEPT ![t] = att'[t]] /\ att'[t].pc # "unused"
        BY <2>3, <1>1, <1>2 DEF _mark_queued_run_started, End, Attempts, Live
      <4> QED BY <1>1, <3>1, <4>1, MovesOnly
    <3>2. CASE ~UNCHANGED <<entry, run>>
      <4>1. /\ entry.status \in {"queued", "leased"}
            /\ entry.token # NoToken => entry.token = t
            /\ run.status = "queued"
            /\ entry' = [entry EXCEPT !.status = "running", !.token = t, !.seed = FALSE]
            /\ run' = [run EXCEPT !.status = "running"]
            /\ att[t].pc = "loading"
        BY <2>3, <3>2 DEF _mark_queued_run_started
      <4>2. att' = [att EXCEPT ![t] = att'[t]] /\ att'[t].pc = "started"
        BY <2>3, <3>2, <1>1 DEF _mark_queued_run_started, Attempts
      <4>3. entry'.token = t /\ entry'.status = "running" /\ run'.status = "running"
        BY <4>1, <1>1 DEF EntryRows, RunRows
      <4>4. entry.status = "queued" \/ entry.token = t
        BY <4>1, <1>1 DEF TokenIsLease
      <4> QED BY <4>1, <4>2, <4>3, <4>4, ClaimStep DEF Live
    <3> QED BY <3>1, <3>2
(* A claim that is still current: of a row in flight or queued.            *)
  <2>4. CASE ClaimCommit(t)
    <3>1. Claimed(t) /\ Live(t)
      BY <2>4, ClaimEffect DEF Claimed, Live
    <3>2. att' = [att EXCEPT ![t] = att'[t]] /\ att'[t].pc = "dispatching"
      BY <2>4, <1>1 DEF ClaimCommit, Attempts
    <3>3. entry.status = "queued" \/ entry.token = t
      BY <3>1, <1>1 DEF Claimed, TokenIsLease
    <3> QED BY <3>1, <3>2, <3>3, ClaimStep DEF Claimed, Live
(* A park that is still current gives up the row, or only hides a verdict. *)
  <2>5. CASE ParkCommit(t)
    <3>1. Parked(t) /\ Live(t) /\ att' = [att EXCEPT ![t] = Ended]
      BY <2>5, ParkEffect DEF ParkCommit, Live, End
    <3>2. CASE entry' = entry /\ run'.status = "error"
      <4>1. Phase' = Phase /\ Shown' = "other"
        BY <3>2, PhaseNext
      <4>2. att' = [att EXCEPT ![t] = att'[t]] /\ att'[t].pc # "unused"
        BY <3>1, <1>1, <1>2
      <4> QED BY <1>1, <3>1, <3>2, <4>1, <4>2, QuietStep
    <3>3. CASE ~(entry' = entry /\ run'.status = "error")
      BY <3>1, <3>3, SettleStep DEF Parked, Released
    <3> QED BY <3>2, <3>3
(* An outcome is persisted by the owner.                                   *)
  <2>6. CASE PersistCommit(t) \/ FallbackCommit(t)
    <3>1. Settled(t) /\ Live(t) /\ att' = [att EXCEPT ![t] = Ended]
      BY <2>6, PersistEffect DEF PersistCommit, FallbackCommit, Live, End
    <3>2. run.status \notin {"success", "waiting"}
      BY <1>1, <3>1 DEF Settled, Released, SuccessIsMirrored, WaitingIsMirrored
    <3> QED BY <3>1, <3>2, SettleStep DEF Settled, Released, TERMINAL_RUN_STATES
  <2> QED BY <1>7, <2>1, <2>2, <2>3, <2>4, <2>5, <2>6 DEF AttemptStep
<1>8. ASSUME NEW t \in Tokens, HeartbeatStep(t) PROVE Goal
  <2>1. CASE HeartbeatCommit(t) \/ HeartbeatFails(t)
    <3> DEFINE a == [att[t] EXCEPT !.renewing = FALSE]
    <3>1. a.pc = att[t].pc /\ att' = [att EXCEPT ![t] = a]
      BY <2>1, <1>1 DEF HeartbeatCommit, HeartbeatFails, Attempts
    <3> HIDE DEF a
    <3>2. Work' = Work
      BY <1>1, <3>1, WorkNext
    <3>3. /\ run' = run
          /\ entry'.status = entry.status /\ entry'.token = entry.token
      BY <2>1, <1>1 DEF HeartbeatCommit, HeartbeatFails, EntryRows
    <3> QED BY <3>2, <3>3, PhaseNext DEF Lease!leaseVars
  <2>2. CASE HeartbeatRead(t) \/ HeartbeatDeadline(t)
    <3>1. Live(t) /\ UNCHANGED <<entry, run>>
      BY <2>2 DEF HeartbeatRead, HeartbeatDeadline, Heartbeating, Working, Live
    <3>2. CASE Interrupt(t, "lost")
      <4>1. att' = [att EXCEPT ![t] = att'[t]] /\ att'[t].pc # "unused"
        BY <3>2, <1>1, InterruptMoves DEF Outcomes
      <4> QED BY <1>1, <3>1, <4>1, MovesOnly
    <3>3. CASE att' = [att EXCEPT ![t].renewing = TRUE]
      <4>1. att' = [att EXCEPT ![t] = att'[t]] /\ att'[t].pc # "unused"
        BY <3>1, <3>3, <1>1 DEF Attempts, Live
      <4> QED BY <1>1, <3>1, <4>1, MovesOnly
    <3> QED BY <2>2, <3>2, <3>3 DEF HeartbeatRead, HeartbeatDeadline
  <2> QED BY <1>8, <2>1, <2>2 DEF HeartbeatStep
<1>9. ASSUME NEW t \in Tokens, CancelTask(t) \/ Crash(t) PROVE Goal
  <2>1. att' = [att EXCEPT ![t] = att'[t]] /\ att'[t].pc # "unused"
    <3>1. CASE Interrupt(t, "cancelled")
      BY <3>1, <1>1, InterruptMoves DEF Outcomes
    <3>2. CASE End(t)
      BY <3>2, <1>1, <1>2 DEF End
    <3> QED BY <1>9, <3>1, <3>2 DEF CancelTask, Crash
  <2>2. Live(t) /\ UNCHANGED <<entry, run>>
    BY <1>9 DEF CancelTask, Crash
  <2> QED BY <1>1, <2>1, <2>2, MovesOnly
<1>10. CASE cancel_run
  <2>1. run'.status = "cancelled" /\ att' = att
    BY <1>10, <1>1 DEF cancel_run, RunRows
  <2>2. CASE entry.status \in ACTIVE_STATUSES
    <3>1. entry'.token = NoToken /\ entry'.status = "cancelled"
      BY <1>10, <2>2, <1>1 DEF cancel_run, _clear_lease, EntryRows
    <3> QED BY <2>1, <2>2, <3>1, TakenStep DEF ACTIVE_STATUSES
  <2>3. CASE entry.status \notin ACTIVE_STATUSES
    <3>1. entry' = entry
      BY <1>10, <2>3 DEF cancel_run
    <3> QED BY <2>1, <3>1, PhaseNext, QuietRows
  <2> QED BY <2>2, <2>3
(* A replay, an approval or a runner-offline sweep that is still current   *)
(* finds the row it checked.                                               *)
<1>11. ASSUME NEW r \in Requests, RequestStep(r) PROVE Goal
  <2>1. CASE ReplayCommit(r)
    <3>1. Replayed(r) /\ att' = att
      BY <2>1, ReplayEffect DEF ReplayCommit
    <3>2. run'.status \notin {"success", "waiting"}
      BY <3>1, <1>1 DEF Replayed, REPLAYABLE, SuccessIsMirrored, WaitingIsMirrored
    <3> QED BY <3>1, <3>2, TakenStep DEF Replayed, Requeued, REPLAYABLE
  <2>2. CASE OfflineCommit(r)
    <3>1. SentBack /\ att' = att
      BY <2>2, OfflineEffect DEF OfflineCommit
    <3> QED BY <3>1, TakenStep DEF SentBack, Requeued, ACTIVE_STATUSES
  <2>3. CASE ApprovalCommit(r)
    <3>1. Resumed /\ att' = att
      BY <2>3, ApprovalEffect DEF ApprovalCommit
    <3> QED BY <3>1, TakenStep DEF Resumed, Requeued
  <2>4. CASE \/ RewriteFails(r) \/ OfflineRead(r) \/ ApprovalRead(r)
             \/ \E k \in ReplayKinds : ReplayRead(r, k)
    <3>1. att' = att /\ entry' = entry /\ run' = run
      BY <2>4 DEF RewriteFails, OfflineRead, ApprovalRead, ReplayRead
    <3> QED BY <3>1, PhaseNext, QuietRows
  <2> QED BY <1>11, <2>1, <2>2, <2>3, <2>4 DEF RequestStep
<1>12. CASE detect_stuck_runs
  <2>1. att' = att /\ entry' = entry /\ run'.status = "error"
    BY <1>12, <1>1 DEF detect_stuck_runs, RunRows
  <2> QED BY <2>1, PhaseNext, QuietRows
<1>13. CASE LeaseElapses \/ BackoffElapses
  <2>1. /\ att' = att /\ run' = run
        /\ entry'.status = entry.status /\ entry'.token = entry.token
    BY <1>13, <1>1 DEF LeaseElapses, BackoffElapses, EntryRows
  <2> QED BY <2>1, PhaseNext, QuietRows
<1>14. CASE UNCHANGED vars
  <2>1. att' = att /\ entry' = entry /\ run' = run
    BY <1>14 DEF vars
  <2> QED BY <2>1, PhaseNext, QuietRows
<1> QED BY <1>3, <1>4, <1>5, <1>6, <1>7, <1>8, <1>9, <1>10, <1>11, <1>12, <1>13, <1>14
        DEF Next, OperatorStep, SweepStep, RequestStep

(* Refinement, as long as no commit overlaps another transaction: the      *)
(* queue, its fences, sweeps and operators give each run the life the      *)
(* abstract lease describes.                                               *)
THEOREM LedgerImplementsLease ==
    ASSUME ~Overlap
    PROVE  Spec => ImplementsLease
<1>1. Init => Lease!LeaseInit
  <2> SUFFICES ASSUME Init PROVE Lease!LeaseInit
    OBVIOUS
  <2>1. Phase = "absent" /\ Shown = "other" /\ entry.token = NoToken
    BY PhaseOf DEF Init, NoEntry, NoRun, Shown
  <2>2. Work = [t \in Tokens |-> "unused"]
    BY DEF Init, Work, NoAttempt
  <2> QED BY <2>1, <2>2 DEF Lease!LeaseInit
<1>2. LedgerInv /\ RequestsAdmitted /\ [Next]_vars => [Lease!LeaseNext]_(Lease!leaseVars)
  BY LeaseStep
<1> QED BY <1>1, <1>2, AdmittedInvariant, PTL DEF Spec, ImplementsLease, Lease!LeaseSpec

---------------------------------------------------------------------------
(* A terminal Run status, whatever overlaps, when nobody parks, no graph   *)
(* is missing, no agent goes offline and nobody decides an approval: those *)
(* write Run.status without a look at it.                                  *)
Guarded == {"park", "missing_graph", "runner_offline", "approval"} \cap Events = {}

(* What a transaction that holds the entry's lock saw of the Run, and what *)
(* can have become of it since.                                            *)
Since(seen) ==
    IF seen \in TERMINAL_RUN_STATES THEN run.status = seen
    ELSE run.status \notin TERMINAL_RUN_STATES \ {"error"}

Remembered ==
    /\ \A t \in Tokens :
         /\ att[t].pc = "persisting" =>
              OutcomeAllowed(att[t].seen.status, StatusOf(att[t].outcome))
         /\ att[t].pc \in {"persisting", "salvaging"} => Since(att[t].seen.status)
    /\ sweep = "reset" => run.status \notin TERMINAL_RUN_STATES \ {"error"}

NoPark == \A t \in Tokens : att[t].pc # "parking"

OnlyReplays == \A r \in Requests : req[r].pc = "read" => req[r].kind \in ReplayKinds

FinalInv == TypeOK /\ OutcomeDecided /\ LocksHeld /\ NoPark /\ OnlyReplays /\ Remembered

(* Nobody parks, and nobody but a replay has a request.                    *)
LEMMA GuardedStep ==
    ASSUME Guarded, TypeOK, NoPark, OnlyReplays, [Next]_vars
    PROVE  NoPark' /\ OnlyReplays'
<1>1. NoPark'
  BY PcMoves DEF NoPark, Advances, Guarded
<1>2. CASE UNCHANGED req
  BY <1>1, <1>2 DEF OnlyReplays
<1>3. ASSUME NEW r \in Requests, RequestStep(r) PROVE OnlyReplays'
  <2>1. ASSUME NEW k \in ReplayKinds, ReplayRead(r, k) PROVE OnlyReplays'
    BY <2>1 DEF ReplayRead, OnlyReplays, TypeOK
  <2>2. ~OfflineRead(r) /\ ~ApprovalRead(r)
    BY DEF OfflineRead, ApprovalRead, Guarded
  <2>3. CASE ReplayCommit(r) \/ RewriteFails(r) \/ OfflineCommit(r) \/ ApprovalCommit(r)
    BY <2>3 DEF ReplayCommit, RewriteFails, OfflineCommit, ApprovalCommit, Answered,
       OnlyReplays, TypeOK
  <2> QED BY <1>3, <2>1, <2>2, <2>3 DEF RequestStep
<1> QED BY <1>1, <1>2, <1>3, RequestFrame

(* The writers of Run.status that are left, and what they make of it.      *)
StatusMove ==
    \/ run'.status = run.status
    \/ run.status = "running" /\ run'.status = "error"
    \/ run.status \notin TERMINAL_RUN_STATES /\ Unlocked
    \/ SweepCommit
    \/ \E t \in Tokens : PersistCommit(t) \/ FallbackCommit(t)
    \/ \E r \in Requests : ReplayCommit(r)

(* Every step is one of them.                                              *)
LEMMA StatusMoves ==
    ASSUME Guarded, FinalInv, [Next]_vars
    PROVE  StatusMove
<1>1. run \in RunRows /\ NoPark /\ OnlyReplays
  BY DEF FinalInv, TypeOK
<1> USE DEF StatusMove
<1>2. CASE run' = run
  BY <1>2
<1>3. CASE StartParked \/ \E t \in Tokens : StartInline(t)
  <2>1. entry = NoEntry /\ run = NoRun
    BY <1>3 DEF StartParked, StartInline
  <2>2. Unlocked
    BY <2>1, TokenAssumption DEF FinalInv, LocksHeld, Unlocked, NoEntry
  <2> QED BY <2>1, <2>2 DEF NoRun, TERMINAL_RUN_STATES
<1>4. CASE cancel_run \/ detect_stuck_runs
  BY <1>1, <1>4 DEF cancel_run, detect_stuck_runs, TERMINAL_RUN_STATES, RunRows
<1>5. ASSUME NEW t \in Tokens PROVE ~MissingGraph(t) /\ ~queue_run(t) /\ ~ParkCommit(t)
  BY <1>1 DEF MissingGraph, queue_run, ParkCommit, Guarded, NoPark
<1>6. ASSUME NEW t \in Tokens, _mark_queued_run_started(t) PROVE StatusMove
  BY <1>6 DEF _mark_queued_run_started, TERMINAL_RUN_STATES
<1>7. ASSUME NEW t \in Tokens, Dispatch(t) \/ SaveCommit(t) PROVE StatusMove
  BY <1>1, <1>7 DEF Dispatch, SaveCommit, RunRows
<1>8. ASSUME NEW r \in Requests PROVE ~OfflineCommit(r) /\ ~ApprovalCommit(r)
  BY <1>1 DEF OfflineCommit, ApprovalCommit, OnlyReplays, ReplayKinds
<1> QED BY <1>2, <1>3, <1>4, <1>5, <1>6, <1>7, <1>8, RunFrame DEF RunWrites

(* Only the detector comes between a lock holder's look at the Run and its *)
(* commit.                                                                 *)
LEMMA RememberedStep ==
    ASSUME Guarded, FinalInv, [Next]_vars
    PROVE  Remembered'
<1>1. /\ TypeOK /\ LocksHeld /\ Remembered /\ StatusMove
      /\ run \in RunRows
  BY StatusMoves DEF FinalInv, TypeOK
<1>2. ASSUME ~Unlocked,
             ~SweepCommit, \A t \in Tokens : ~PersistCommit(t) /\ ~FallbackCommit(t)
      PROVE  run'.status = run.status \/ (run.status = "running" /\ run'.status = "error")
  BY <1>1, <1>2 DEF StatusMove, ReplayCommit
<1>3. ASSUME NEW t \in Tokens, att'[t].pc \in {"persisting", "salvaging"}
      PROVE  /\ att'[t].pc = "persisting" =>
                  OutcomeAllowed(att'[t].seen.status, StatusOf(att'[t].outcome))
             /\ IF att'[t].seen.status \in TERMINAL_RUN_STATES
                THEN run'.status = att'[t].seen.status
                ELSE run'.status \notin TERMINAL_RUN_STATES \ {"error"}
  <2>1. Advances(t)
    BY <1>1, PcMoves
  <2>2. CASE /\ att'[t].pc = att[t].pc
             /\ att'[t].seen = att[t].seen /\ att'[t].outcome = att[t].outcome
    <3>1. entry.token = t /\ sweep = "idle" /\ ~Unlocked
      BY <1>1, <1>3, <2>2 DEF LocksHeld, Unlocked
    <3>2. ~SweepCommit
      BY <3>1 DEF SweepCommit
    <3>3. ASSUME NEW u \in Tokens PROVE ~PersistCommit(u) /\ ~FallbackCommit(u)
      BY <1>1, <1>3, <3>1 DEF PersistCommit, FallbackCommit, LocksHeld, End, Ended, NoAttempt,
         TypeOK
    <3>4. run'.status = run.status \/ (run.status = "running" /\ run'.status = "error")
      BY <1>2, <3>1, <3>2, <3>3
    <3>5. /\ att[t].pc = "persisting" =>
               OutcomeAllowed(att[t].seen.status, StatusOf(att[t].outcome))
          /\ Since(att[t].seen.status)
      BY <1>1, <1>3, <2>2 DEF Remembered
    <3> QED BY <2>2, <3>4, <3>5 DEF Since, TERMINAL_RUN_STATES
  <2>3. CASE PersistRead(t) \/ FallbackRead(t)
    <3>1. ~End(t) /\ att'[t].pc # "fallback"
      BY <1>1, <1>3 DEF End, Ended, NoAttempt, TypeOK
    <3>2. /\ att'[t].seen = run /\ run' = run
          /\ att'[t].pc = "persisting" =>
               OutcomeAllowed(run.status, StatusOf(att'[t].outcome))
      BY <1>1, <2>3, <3>1 DEF PersistRead, FallbackRead, Goto, TypeOK, Attempts
    <3> QED BY <3>2
  <2> QED BY <1>3, <2>1, <2>2, <2>3 DEF Advances
<1>4. ASSUME sweep' = "reset" PROVE run'.status \notin TERMINAL_RUN_STATES \ {"error"}
  <2>1. CASE sweep' = sweep
    <3>1. ~Unlocked /\ ~SweepCommit
      BY <1>4, <2>1 DEF Unlocked, SweepCommit
    <3>2. ASSUME NEW u \in Tokens PROVE ~PersistCommit(u) /\ ~FallbackCommit(u)
      BY <1>1, <1>4, <2>1 DEF PersistCommit, FallbackCommit, LocksHeld
    <3> QED BY <1>1, <1>2, <1>4, <2>1, <3>1, <3>2 DEF Remembered, TERMINAL_RUN_STATES
  <2>2. CASE SweepStep
    BY <1>4, <2>2 DEF SweepStep, SweepRead, SweepCommit, SweepFails, TERMINAL_RUN_STATES
  <2> QED BY <2>1, <2>2, RequestFrame
<1> QED BY <1>3, <1>4 DEF Remembered, Since

(* A terminal Run status is rewritten only by a replay, or in one race:    *)
(* the detector's error by an outcome or a sweep that looked at the Run    *)
(* before it.  Nothing is assumed of how transactions overlap; nobody may  *)
(* park, miss the graph, report a runner offline or decide an approval,    *)
(* whose writes of Run.status do not look at it (Guarded).                 *)
THEOREM TerminalFinal ==
    ASSUME Guarded
    PROVE  Spec => TerminalIsFinal
<1> DEFINE Kept == run.status \in TERMINAL_RUN_STATES /\ run'.status # run.status
                     => \/ /\ run'.status = "queued"
                           /\ \E r \in Requests : /\ req[r].pc = "read"
                                                  /\ req[r].kind \in ReplayKinds
                                                  /\ req'[r].pc = "done"
                        \/ run.status = "error" /\ CommitsOverDetector
<1>1. Init => FinalInv
  <2> SUFFICES ASSUME Init PROVE FinalInv
    OBVIOUS
  <2>1. TypeOK
    BY ConstantRows DEF Init, TypeOK, RewriteRequests, ReplayKinds, Sweeps
  <2> QED BY <2>1 DEF Init, FinalInv, OutcomeDecided, LocksHeld, NoPark, OnlyReplays, Remembered,
             NoAttempt
<1>2. FinalInv /\ [Next]_vars => FinalInv'
  BY GuardedStep, RememberedStep, TypeStep, OutcomeStep, LocksStep DEF FinalInv
<1>3. ASSUME FinalInv, [Next]_vars PROVE Kept
  <2>1. run \in RunRows /\ TypeOK /\ Remembered /\ StatusMove
    BY <1>3, StatusMoves DEF FinalInv, TypeOK
  <2> SUFFICES ASSUME run.status \in TERMINAL_RUN_STATES, run'.status # run.status
               PROVE  \/ /\ run'.status = "queued"
                         /\ \E r \in Requests : /\ req[r].pc = "read"
                                                /\ req[r].kind \in ReplayKinds
                                                /\ req'[r].pc = "done"
                      \/ run.status = "error" /\ CommitsOverDetector
    OBVIOUS
  <2>2. CASE SweepCommit
    BY <2>1, <2>2 DEF SweepCommit, Remembered, CommitsOverDetector
(* The lifecycle lets no outcome leave a terminal state it has seen.       *)
  <2>3. ASSUME NEW t \in Tokens, PersistCommit(t)
        PROVE  run.status = "error" /\ CommitsOverDetector
    <3>1. /\ OutcomeAllowed(att[t].seen.status, StatusOf(att[t].outcome))
          /\ Since(att[t].seen.status) /\ att'[t].pc = "ended"
          /\ att[t].pc = "persisting"
      BY <2>1, <2>3 DEF PersistCommit, Remembered, End, Ended, NoAttempt, TypeOK
    <3>2. run'.status = Dirty(run.status, att[t].seen.status, StatusOf(att[t].outcome))
      BY <2>1, <2>3 DEF PersistCommit, RunRows
    <3>3. att[t].seen.status \notin TERMINAL_RUN_STATES
      <4> DEFINE status == StatusOf(att[t].outcome)
      <4> SUFFICES ASSUME att[t].seen.status \in TERMINAL_RUN_STATES PROVE FALSE
        OBVIOUS
      <4>1. att[t].seen.status = status
        <5> HIDE DEF status
        <5> QED BY <3>1 DEF OutcomeAllowed, can_transition, _ALLOWED_TRANSITIONS,
                   TERMINAL_RUN_STATES, status
      <4> QED BY <3>2, <4>1 DEF Dirty
    <3> QED BY <3>1, <3>3 DEF Since, CommitsOverDetector
  <2>4. ASSUME NEW t \in Tokens, FallbackCommit(t)
        PROVE  run.status = "error" /\ CommitsOverDetector
    <3>1. /\ Since(att[t].seen.status) /\ att'[t].pc = "ended" /\ att[t].pc = "salvaging"
      BY <2>1, <2>4 DEF FallbackCommit, Remembered, End, Ended, NoAttempt, TypeOK
    <3>2. att[t].seen.status \notin TERMINAL_RUN_STATES
      BY <2>1, <2>4 DEF FallbackCommit
    <3> QED BY <3>1, <3>2 DEF Since, CommitsOverDetector
  <2>5. ASSUME NEW r \in Requests, ReplayCommit(r)
        PROVE  /\ run'.status = "queued"
               /\ req[r].pc = "read" /\ req[r].kind \in ReplayKinds /\ req'[r].pc = "done"
    <3>1. run'.status \in {run.status, "queued"}
      BY <2>1, <2>5 DEF ReplayCommit, Dirty, RunRows
    <3>2. req'[r].pc = "done"
      BY <2>1, <2>5 DEF ReplayCommit, Answered, TypeOK
    <3> QED BY <2>5, <3>1, <3>2 DEF ReplayCommit
  <2> QED BY <2>1, <2>2, <2>3, <2>4, <2>5 DEF StatusMove, TERMINAL_RUN_STATES
<1>4. FinalInv /\ [Next]_vars => [Kept]_vars
  BY <1>3
<1>5. Spec => []FinalInv
  BY <1>1, <1>2, PTL DEF Spec
<1>6. Spec => [][Kept]_vars
  <2> HIDE DEF Kept
  <2> QED BY <1>4, <1>5, PTL DEF Spec
<1> QED BY <1>6, PTL DEF TerminalIsFinal

============================================================================

----------------------------- MODULE RunLedger -----------------------------
(***************************************************************************)
(* The durable life of ONE run: its RunQueueEntry row, its Run row and the *)
(* execution attempts, operators and background loops that write them.     *)
(* Rows of different runs never share a transaction, so one run is the     *)
(* whole protocol; which run a worker picks next is not modelled here.     *)
(*                                                                         *)
(* Sources: services/queue.py, services/runner.py, run_persistence.py,     *)
(* run_checkpoints.py, run_resume.py, stuck_run_detector.py and the replay *)
(* endpoints of routers/runs.py and routers/ops.py (all of apps/api/app).  *)
(*                                                                         *)
(* Transactions.  The database is PostgreSQL at READ COMMITTED.  A         *)
(* transaction that selects every row it writes FOR UPDATE is one atomic   *)
(* action.  One that reads a row without a lock is two actions: a read     *)
(* that takes a snapshot and a commit that, like SQLAlchemy's flush,       *)
(* writes only the columns whose new value differs from the snapshot.      *)
(* Those that hold the entry's lock in between (persist_run_outcome, its   *)
(* fallback and the sweep, all of which read the Run unlocked) keep every  *)
(* other writer of the entry waiting, but no writer of the Run.            *)
(* Overlap says whether a commit may find its snapshot out of date, as it  *)
(* may at READ COMMITTED; when it is FALSE such a commit raises instead.   *)
(*                                                                         *)
(* Time is abstracted to what the code compares: a lease deadline is       *)
(* unset, in the future or in the past, an entry's available_at is due or  *)
(* not.  A worker may stall, so a deadline may pass at any moment.         *)
(***************************************************************************)
EXTENDS Integers

CONSTANTS
    Tokens,       \* lease tokens; one names one execution attempt (uuid4)
    NoToken,      \* SQL NULL in lease_token
    Requests,     \* unlocked replays and runner-offline sweeps, in flight or done
    MaxAttempts,  \* RunQueueEntry.max_attempts
    Nodes,        \* nodes the graph executes
    Local,        \* TRUE: Run.runner_pool_id is NULL
    Overlap,      \* TRUE: unlocked transactions may overlap others
    Events        \* the kinds of disturbance this instance admits

ASSUME TokenAssumption == NoToken \notin Tokens
ASSUME BoundAssumption ==
    /\ MaxAttempts \in Nat \ {0}
    /\ Nodes \in Nat \ {0}
    /\ Local \in BOOLEAN
    /\ Overlap \in BOOLEAN

VARIABLES
    entry,  \* the RunQueueEntry row
    run,    \* the Run row
    att,    \* att[t]: the attempt that holds (or held) token t
    req,    \* req[r]: a replay, an approval or a runner-offline sweep
    sweep   \* the lease sweep's open transaction on the entry

vars == <<entry, run, att, req, sweep>>

---------------------------------------------------------------------------
(* Columns                                                                 *)

(* Faulty variants (Faulty_...) stand before the definition they alter; no *)
(* action uses them.  Each is a bug the code could have had, and breaks a  *)
(* property the runs check.                                                *)
Faulty_ACTIVE_STATUSES == {"queued", "leased", "running"}
ACTIVE_STATUSES == {"queued", "leased", "running", "waiting"}
TERMINAL_STATUSES == {"completed", "failed", "cancelled", "dead_lettered"}
REPLAYABLE == {"failed", "dead_lettered", "cancelled"}
TERMINAL_RUN_STATES == {"success", "error", "timed_out", "cancelled"}
RUN_STATES == {"pending", "queued", "running", "waiting"} \cup TERMINAL_RUN_STATES

(* due: available_at <= now.  seed: replay_seed carries the trigger input. *)
EntryRows ==
    [status : ACTIVE_STATUSES \cup TERMINAL_STATUSES \cup {"absent"},
     token : Tokens \cup {NoToken},
     lease : {"none", "live", "past"},
     attempts : Nat,
     due : BOOLEAN,
     seed : BOOLEAN]

(* checkpoint: how many completed nodes Run.checkpoint holds (0 is NULL).  *)
(* rows: successful NodeRun rows exist.  runner: runner_id is set.         *)
RunRows ==
    [status : RUN_STATES \cup {"absent"},
     checkpoint : 0..Nodes,
     rows : BOOLEAN,
     runner : BOOLEAN]

(* The await points of _execute_queued_entry and _execute_run.             *)
(* saving, flushing: the checkpoint's UPDATE is on its way.  persisting,   *)
(* salvaging: the main or the fallback transaction holds the entry's lock. *)
Pcs == {"unused", "leased", "loading", "started", "claiming", "dispatching",
        "refused", "executing", "saving", "parking", "finishing", "flushing",
        "persisting", "fallback", "salvaging", "ended"}

(* "lost" is status error reached because lease_lost was set.              *)
Outcomes == {"none", "success", "error", "timed_out", "waiting", "cancelled", "lost"}

(* inline: the task is registered in runner._active_runs.                  *)
(* input:  the trigger input reaches the graph.  done: nodes completed.    *)
(* renewing: a heartbeat has read the row and not yet committed.           *)
(* deferred: the debouncer holds a checkpoint back (has_deferred).         *)
(* snap, seen: the rows as the attempt's open transaction read them.       *)
Attempts ==
    [pc : Pcs,
     inline : BOOLEAN,
     input : BOOLEAN,
     done : 0..Nodes,
     outcome : Outcomes,
     renewing : BOOLEAN,
     deferred : BOOLEAN,
     snap : EntryRows,
     seen : RunRows]

ReplayKinds == {"run", "from_node", "bulk"}
RewriteRequests ==
    [pc : {"idle", "read", "done"}, kind : ReplayKinds \cup {"offline", "approval"},
     entry : EntryRows, run : RunRows]

(* reset: the sweep read a running Run and will queue it; keep: it will    *)
(* leave the Run alone.                                                    *)
Sweeps == {"idle", "reset", "keep"}

NoEntry == [status |-> "absent", token |-> NoToken, lease |-> "none",
            attempts |-> 0, due |-> FALSE, seed |-> FALSE]
NoRun == [status |-> "absent", checkpoint |-> 0, rows |-> FALSE, runner |-> FALSE]
NoAttempt == [pc |-> "unused", inline |-> FALSE, input |-> FALSE, done |-> 0,
              outcome |-> "none", renewing |-> FALSE, deferred |-> FALSE,
              snap |-> NoEntry, seen |-> NoRun]

Init ==
    /\ entry = NoEntry
    /\ run = NoRun
    /\ att = [t \in Tokens |-> NoAttempt]
    /\ req = [r \in Requests |->
                [pc |-> "idle", kind |-> "run", entry |-> NoEntry, run |-> NoRun]]
    /\ sweep = "idle"

---------------------------------------------------------------------------
(* Row updates                                                             *)

(* What an unlocked transaction's flush leaves in a column.                *)
Dirty(now, old, new) == IF new # old THEN new ELSE now

Flush(now, old, new) ==
    [status   |-> Dirty(now.status, old.status, new.status),
     token    |-> Dirty(now.token, old.token, new.token),
     lease    |-> Dirty(now.lease, old.lease, new.lease),
     attempts |-> Dirty(now.attempts, old.attempts, new.attempts),
     due      |-> Dirty(now.due, old.due, new.due),
     seed     |-> Dirty(now.seed, old.seed, new.seed)]

Faulty_clear_lease(row) == [row EXCEPT !.lease = "none"]
_clear_lease(row) == [row EXCEPT !.token = NoToken, !.lease = "none"]

(* fail(): the row after a failed attempt.                                 *)
Faulty_fail(row, retryable) ==
    LET retry == retryable /\ row.attempts <= MaxAttempts IN
    [_clear_lease(row) EXCEPT
        !.status = IF retry THEN "queued"
                   ELSE IF retryable THEN "dead_lettered" ELSE "failed",
        !.due = IF retry THEN FALSE ELSE row.due]

fail(row, retryable) ==
    LET retry == retryable /\ row.attempts < MaxAttempts IN
    [_clear_lease(row) EXCEPT
        !.status = IF retry THEN "queued"
                   ELSE IF retryable THEN "dead_lettered" ELSE "failed",
        !.due = IF retry THEN FALSE ELSE row.due]

(* The queue's mirror of a run outcome: complete / wait_for_approval /     *)
(* cancel / fail(retryable=False).                                         *)
Mirror(row, status) ==
    CASE status = "success"   -> [_clear_lease(row) EXCEPT !.status = "completed"]
      [] status = "waiting"   -> [_clear_lease(row) EXCEPT !.status = "waiting"]
      [] status = "cancelled" -> [_clear_lease(row) EXCEPT !.status = "cancelled"]
      [] OTHER                -> fail(row, FALSE)

(* Fault: an unowned row matches any attempt, as it does in mark_running.  *)
Faulty_lease_matches(row, t) == row.token \in {t, NoToken}

_lease_matches(row, t) == row.token = t

(* mark_running(): may this token claim the row?                           *)
Faulty_Claimable_AnyStatus(row, t) == row.token # NoToken => _lease_matches(row, t)

Faulty_Claimable_AnyOwner(row, t) == row.status \in {"leased", "queued", "running"}

Claimable(row, t) ==
    /\ row.status \in {"leased", "queued", "running"}
    /\ row.token # NoToken => _lease_matches(row, t)

(* heartbeat(): may this token renew the row?                              *)
Faulty_Renewable(row, t) == row.status # "absent"

Renewable(row, t) ==
    /\ row.status \in {"leased", "running"}
    /\ _lease_matches(row, t)

_ALLOWED_TRANSITIONS ==
    {"pending"} \X {"queued", "running", "cancelled", "error"} \cup
    {"queued"}  \X {"running", "cancelled", "error"} \cup
    {"running"} \X {"success", "error", "timed_out", "cancelled", "waiting"} \cup
    {"waiting"} \X {"queued", "cancelled", "error"}

can_transition(a, b) == a = b \/ <<a, b>> \in _ALLOWED_TRANSITIONS

(* persist_run_outcome's check of the legal intermediate path.             *)
Faulty_OutcomeAllowed(current, status) == TRUE

OutcomeAllowed(current, status) ==
    IF current = status THEN TRUE
    ELSE IF current \in {"pending", "queued"} /\ status \in {"success", "timed_out", "waiting"}
    THEN can_transition(current, "running") /\ can_transition("running", status)
    ELSE IF current = "waiting" /\ status \in {"success", "timed_out"}
    THEN /\ can_transition("waiting", "queued")
         /\ can_transition("queued", "running")
         /\ can_transition("running", status)
    ELSE can_transition(current, status)

---------------------------------------------------------------------------
(* Attempts                                                                *)

Goto(t, pc) == [att EXCEPT ![t].pc = pc]

(* The task is over: its heartbeat task is cancelled with it.              *)
Ended == [NoAttempt EXCEPT !.pc = "ended"]

End(t) == att' = [att EXCEPT ![t] = Ended]

Live(t) == att[t].pc \notin {"unused", "ended"}

(* Is _execute_run_impl running, and with it the heartbeat loop?           *)
Working(t) ==
    att[t].pc \in {"dispatching", "refused", "executing", "saving", "parking", "finishing",
                  "flushing", "persisting", "fallback", "salvaging"}

(* A CancelledError is delivered.  _execute_run_impl turns it into an      *)
(* outcome once its handler is in place and while it parks a run that      *)
(* found no runner; a run parked for its environment ends, and so does a   *)
(* task interrupted anywhere else.                                         *)
Interruptions(a, outcome) ==
    LET caught == [a EXCEPT !.pc = "finishing", !.outcome = outcome,
                            !.renewing = FALSE, !.snap = NoEntry]
    IN IF a.pc \in {"refused", "executing", "saving"} THEN {caught}
       ELSE IF a.pc \in {"dispatching", "parking"} THEN {caught, Ended}
       ELSE {Ended}

Interrupt(t, outcome) ==
    \E a \in Interruptions(att[t], outcome) : att' = [att EXCEPT ![t] = a]

(* The status an outcome is persisted as, and what the fallback makes of   *)
(* it: a success without its results is an error.                          *)
StatusOf(outcome) == IF outcome = "lost" THEN "error" ELSE outcome

FallbackOf(outcome) == IF outcome = "success" THEN "error" ELSE StatusOf(outcome)

(* Nobody holds the entry's row lock across steps; whoever writes the      *)
(* entry, or selects it FOR UPDATE, waits for that.                        *)
Unlocked ==
    /\ sweep = "idle"
    /\ \A t \in Tokens : att[t].pc \notin {"persisting", "salvaging"}

---------------------------------------------------------------------------
(* start_run                                                               *)

(* Immediate dispatch: the row is inserted already claimed.                *)
StartInline(t) ==
    /\ run = NoRun
    /\ entry = NoEntry
    /\ att[t].pc = "unused"
    /\ entry' = [NoEntry EXCEPT !.status = "running", !.token = t,
                                !.lease = "live", !.due = TRUE]
    /\ run' = [NoRun EXCEPT !.status = "running"]
    /\ att' = [att EXCEPT ![t] = [NoAttempt EXCEPT !.pc = "started",
                                    !.inline = TRUE, !.input = TRUE]]
    /\ UNCHANGED <<req, sweep>>

(* No local slot, or a control plane: parked with its input in the seed.   *)
StartParked ==
    /\ run = NoRun
    /\ entry = NoEntry
    /\ entry' = [NoEntry EXCEPT !.status = "queued", !.due = TRUE, !.seed = TRUE]
    /\ run' = [NoRun EXCEPT !.status = "queued"]
    /\ UNCHANGED <<att, req, sweep>>

---------------------------------------------------------------------------
(* The dispatch loop                                                       *)

lease(t) ==
    /\ Unlocked
    /\ entry.status = "queued"
    /\ entry.due
    /\ att[t].pc = "unused"
    /\ entry' = [entry EXCEPT !.status = "leased", !.token = t,
                              !.lease = "live", !.attempts = @ + 1]
    /\ att' = [att EXCEPT ![t] = [NoAttempt EXCEPT !.pc = "leased"]]
    /\ UNCHANGED <<run, req, sweep>>

(* The sweep (requeue_expired_leases): it locks the entry, skips one that  *)
(* is locked already, and looks at the Run without a lock ...              *)
Faulty_SweepRead_RunningOnly ==
    /\ Unlocked
    /\ entry.status = "running"
    /\ entry.lease = "past"
    /\ sweep' = IF entry.attempts < MaxAttempts /\ run.status = "running" THEN "reset" ELSE "keep"
    /\ UNCHANGED <<entry, run, att, req>>

SweepRead ==
    /\ Unlocked
    /\ entry.status \in {"leased", "running"}
    /\ entry.lease = "past"
    /\ sweep' = IF entry.attempts < MaxAttempts /\ run.status = "running" THEN "reset" ELSE "keep"
    /\ UNCHANGED <<entry, run, att, req>>

(* ... and queues both, or dead-letters the entry.                         *)
Faulty_SweepCommit_RunLeft ==
    /\ sweep # "idle"
    /\ Overlap \/ sweep = "reset" => run.status = "running"
    /\ entry' = IF entry.attempts < MaxAttempts
                THEN [_clear_lease(entry) EXCEPT !.status = "queued", !.due = TRUE]
                ELSE [_clear_lease(entry) EXCEPT !.status = "dead_lettered"]
    /\ sweep' = "idle"
    /\ UNCHANGED <<run, att, req>>

SweepCommit ==
    /\ sweep # "idle"
    /\ Overlap \/ sweep = "reset" => run.status = "running"
    /\ entry' = IF entry.attempts < MaxAttempts
                THEN [_clear_lease(entry) EXCEPT !.status = "queued", !.due = TRUE]
                ELSE [_clear_lease(entry) EXCEPT !.status = "dead_lettered"]
    /\ run' = IF sweep = "reset" THEN [run EXCEPT !.status = "queued"] ELSE run
    /\ sweep' = "idle"
    /\ UNCHANGED <<att, req>>

(* A sweep whose snapshot the database refuses rolls back; the next tick   *)
(* sweeps again.                                                           *)
SweepFails ==
    /\ ~Overlap /\ sweep = "reset" /\ run.status # "running"
    /\ sweep' = "idle"
    /\ UNCHANGED <<entry, run, att, req>>

---------------------------------------------------------------------------
(* _execute_queued_entry                                                   *)

(* The first, unlocked look at the Run row.                                *)
LoadRun(t) ==
    /\ att[t].pc = "leased"
    /\ IF run.status = "queued" THEN att' = Goto(t, "loading") ELSE End(t)
    /\ UNCHANGED <<entry, run, req, sweep>>

(* Workflow, version or graph is gone: the Run fails, the entry is left.   *)
MissingGraph(t) ==
    /\ "missing_graph" \in Events
    /\ att[t].pc = "loading"
    /\ Overlap \/ run.status = "queued"
    /\ run' = [run EXCEPT !.status = "error"]
    /\ End(t)
    /\ UNCHANGED <<entry, req, sweep>>

_mark_queued_run_started(t) ==
    /\ att[t].pc = "loading"
    /\ Unlocked
    /\ IF /\ entry.status \in {"queued", "leased"}
          /\ entry.token # NoToken => entry.token = t
          /\ run.status = "queued"
       THEN /\ entry' = [entry EXCEPT !.status = "running", !.token = t, !.seed = FALSE]
            /\ run' = [run EXCEPT !.status = "running"]
            /\ att' = [att EXCEPT ![t].pc = "started",
                                  ![t].input = entry.seed \/ run.checkpoint > 0 \/ run.rows,
                                  ![t].done = run.checkpoint]
       ELSE End(t) /\ UNCHANGED <<entry, run>>
    /\ UNCHANGED <<req, sweep>>

---------------------------------------------------------------------------
(* _execute_run: claim the attempt (mark_running, an unlocked transaction) *)

ClaimRead(t) ==
    /\ att[t].pc = "started"
    /\ IF Claimable(entry, t)
       THEN att' = [att EXCEPT ![t].pc = "claiming", ![t].snap = entry]
       ELSE End(t)
    /\ UNCHANGED <<entry, run, req, sweep>>

mark_running(row, t) == [row EXCEPT !.token = t, !.status = "running"]

Faulty_ClaimCommit(t) ==
    /\ att[t].pc = "claiming"
    /\ Unlocked
    /\ LET old == att[t].snap IN
       /\ Overlap \/ old = entry
       /\ entry' = Flush(entry, old, mark_running(old, t))
    /\ att' = [att EXCEPT ![t].pc = "dispatching", ![t].snap = NoEntry]
    /\ UNCHANGED <<run, req, sweep>>

ClaimCommit(t) ==
    /\ att[t].pc = "claiming"
    /\ Unlocked
    /\ LET old == att[t].snap IN
       /\ Overlap \/ old = entry
       /\ entry' = [Flush(entry, old, mark_running(old, t)) EXCEPT !.lease = "live"]
    /\ att' = [att EXCEPT ![t].pc = "dispatching", ![t].snap = NoEntry]
    /\ UNCHANGED <<run, req, sweep>>

(* Does the database refuse this attempt's unlocked transaction?           *)
CommitFails(t) == "db_error" \in Events \/ (~Overlap /\ att[t].snap # entry)

(* The claim raised: the attempt gives up, the lease sweep recovers.       *)
ClaimFails(t) ==
    /\ att[t].pc = "claiming"
    /\ CommitFails(t)
    /\ End(t)
    /\ UNCHANGED <<entry, run, req, sweep>>

---------------------------------------------------------------------------
(* _lease_heartbeat_loop                                                   *)

(* The loop returns once it has reported the lease lost.                   *)
Heartbeating(t) == Working(t) /\ att[t].outcome # "lost"

HeartbeatRead(t) ==
    /\ Heartbeating(t)
    /\ ~att[t].renewing
    /\ IF Renewable(entry, t)
       THEN att' = [att EXCEPT ![t].renewing = TRUE]
       ELSE Interrupt(t, "lost")
    /\ UNCHANGED <<entry, run, req, sweep>>

HeartbeatCommit(t) ==
    /\ att[t].renewing
    /\ Unlocked
    /\ Overlap \/ Renewable(entry, t)
    /\ entry' = [entry EXCEPT !.lease = "live"]
    /\ att' = [att EXCEPT ![t].renewing = FALSE]
    /\ UNCHANGED <<run, req, sweep>>

(* The renewal raised: tolerated while the safety window is open.          *)
HeartbeatFails(t) ==
    /\ att[t].renewing
    /\ "db_error" \in Events \/ (~Overlap /\ ~Renewable(entry, t))
    /\ att' = [att EXCEPT ![t].renewing = FALSE]
    /\ UNCHANGED <<entry, run, req, sweep>>

(* Renewals raise until the safety window closes: stop fail-closed.        *)
HeartbeatDeadline(t) ==
    /\ "db_error" \in Events
    /\ Heartbeating(t)
    /\ Interrupt(t, "lost")
    /\ UNCHANGED <<entry, run, req, sweep>>

---------------------------------------------------------------------------
(* _execute_run_impl                                                       *)

(* The runtime, sandbox or runner accepted the graph; an agent's id is     *)
(* kept on the Run.                                                        *)
Dispatch(t) ==
    /\ att[t].pc = "dispatching"
    /\ att' = Goto(t, "executing")
    /\ \/ UNCHANGED run
       \/ ~Local /\ "runner_offline" \in Events /\ run' = [run EXCEPT !.runner = TRUE]
    /\ UNCHANGED <<entry, req, sweep>>

Faulty_ExecuteNode(t) ==
    /\ att[t].pc = "executing"
    /\ att' = [att EXCEPT ![t].done = @ + 1, ![t].deferred = TRUE]
    /\ UNCHANGED <<entry, run, req, sweep>>

ExecuteNode(t) ==
    /\ att[t].pc = "executing"
    /\ att[t].done < Nodes
    /\ att' = [att EXCEPT ![t].done = @ + 1, ![t].deferred = TRUE]
    /\ UNCHANGED <<entry, run, req, sweep>>

(* _save_checkpoint, debounced during the run and flushed after it unless  *)
(* the lease was lost.  It is one UPDATE of the Run with the attempt fence *)
(* as an EXISTS on the queue row: the fence is evaluated on the snapshot   *)
(* the statement starts with, under no lock ...                            *)
Faulty_Fence(row, t) == TRUE

Fence(row, t) == row.status = "running" /\ _lease_matches(row, t)

SaveRead(t) ==
    /\ \/ att[t].pc = "executing"
       \/ att[t].pc = "finishing" /\ att[t].outcome # "lost"
    /\ att[t].deferred
    /\ LET sent == IF att[t].pc = "executing" THEN "saving" ELSE "flushing"
       IN att' = [att EXCEPT ![t].deferred = FALSE,
                             ![t].pc = IF Fence(entry, t) THEN sent ELSE @]
    /\ UNCHANGED <<entry, run, req, sweep>>

(* ... and a statement that had to wait for the Run's row lock looks at    *)
(* the Run again when it gets it, but not at the fence.                    *)
Saved(t) ==
    att' = [att EXCEPT ![t].pc = IF @ = "saving" THEN "executing" ELSE "finishing"]

SaveCommit(t) ==
    /\ att[t].pc \in {"saving", "flushing"}
    /\ Overlap \/ Fence(entry, t)
    /\ run' = [run EXCEPT !.checkpoint = att[t].done]
    /\ Saved(t)
    /\ UNCHANGED <<entry, req, sweep>>

(* _save_checkpoint swallows what the database raises.                     *)
SaveFails(t) ==
    /\ att[t].pc \in {"saving", "flushing"}
    /\ "db_error" \in Events \/ (~Overlap /\ ~Fence(entry, t))
    /\ Saved(t)
    /\ UNCHANGED <<entry, run, req, sweep>>

(* The graph ran to its end, paused for an approval, timed out, raised, or *)
(* its runner was told to stop; before it runs only an error can happen.   *)
Finish(t, outcome) ==
    /\ \/ att[t].pc = "executing" /\ outcome \in {"error", "timed_out"}
       \/ att[t].pc = "executing" /\ outcome = "success" /\ att[t].done = Nodes
       \/ att[t].pc = "executing" /\ outcome = "waiting" /\ "wait" \in Events
       \/ att[t].pc = "executing" /\ outcome = "cancelled" /\ ~Local /\ "cancel" \in Events
       \/ att[t].pc = "dispatching" /\ outcome = "error"
    /\ att' = [att EXCEPT ![t].pc = "finishing", ![t].outcome = outcome]
    /\ UNCHANGED <<entry, run, req, sweep>>

(* An agent pool without a free runner marks the Run queued, unfenced.     *)
queue_run(t) ==
    /\ "park" \in Events
    /\ ~Local
    /\ att[t].pc = "dispatching"
    /\ run' = [run EXCEPT !.status = "queued"]
    /\ att' = Goto(t, "refused")
    /\ UNCHANGED <<entry, req, sweep>>

(* No runner capacity (_QueuedError) or the environment is being rebuilt   *)
(* (_PoolPaused): fail(retryable=True) in an unlocked transaction that     *)
(* then sets Run.status from what fail() returned.                         *)
ParkRead(t) ==
    /\ "park" \in Events
    /\ att[t].pc \in {"dispatching", "refused"}
    /\ att' = [att EXCEPT ![t].pc = "parking", ![t].snap = entry]
    /\ UNCHANGED <<entry, run, req, sweep>>

ParkCommit(t) ==
    /\ att[t].pc = "parking"
    /\ LET old == att[t].snap
           owned == _lease_matches(old, t)
           new == fail(old, TRUE)
       IN /\ owned => Unlocked
          /\ Overlap \/ old = entry
          /\ entry' = IF owned
                      THEN [Flush(entry, old, new) EXCEPT
                                !.due = IF new.status = "queued" THEN FALSE ELSE @]
                      ELSE entry
          /\ run' = [run EXCEPT !.status =
                        IF owned /\ new.status = "queued" THEN "queued" ELSE "error"]
    /\ End(t)
    /\ UNCHANGED <<req, sweep>>

(* The park raised: after _QueuedError the outer handler makes it an error *)
(* outcome, after _PoolPaused the task ends.                               *)
ParkFails(t) ==
    /\ att[t].pc = "parking"
    /\ CommitFails(t)
    /\ \/ att' = [att EXCEPT ![t].pc = "finishing", ![t].outcome = "error",
                             ![t].snap = NoEntry]
       \/ End(t)
    /\ UNCHANGED <<entry, run, req, sweep>>

---------------------------------------------------------------------------
(* persist_run_outcome                                                     *)

(* The main transaction locks the entry and refuses a stale token; it      *)
(* reads the Run without a lock, and an illegal lifecycle transition       *)
(* raises into the fallback ...                                            *)
PersistRead(t) ==
    /\ att[t].pc = "finishing"
    /\ att[t].deferred => att[t].outcome = "lost"
    /\ Unlocked
    /\ IF ~_lease_matches(entry, t)
       THEN End(t)
       ELSE att' = IF OutcomeAllowed(run.status, StatusOf(att[t].outcome))
                   THEN [att EXCEPT ![t].pc = "persisting", ![t].seen = run]
                   ELSE Goto(t, "fallback")
    /\ UNCHANGED <<entry, run, req, sweep>>

(* ... and it writes the Run by its primary key, and the queue's mirror.   *)
PersistCommit(t) ==
    /\ att[t].pc = "persisting"
    /\ LET old == att[t].seen
           status == StatusOf(att[t].outcome)
       IN /\ Overlap \/ old = run
          /\ run' = [run EXCEPT !.status = Dirty(@, old.status, status),
                                !.checkpoint = IF status = "waiting" THEN @
                                               ELSE Dirty(@, old.checkpoint, 0),
                                !.rows = @ \/ att[t].done > 0]
          /\ entry' = Mirror(entry, status)
    /\ End(t)
    /\ UNCHANGED <<req, sweep>>

(* The main transaction raised and rolled back; a fallback that raises     *)
(* leaves the row to the lease sweep.                                      *)
PersistFails(t) ==
    /\ "db_error" \in Events \/ (~Overlap /\ att[t].seen # run)
    /\ \/ /\ att[t].pc = "persisting"
          /\ att' = [att EXCEPT ![t].pc = "fallback", ![t].seen = NoRun]
       \/ /\ att[t].pc = "salvaging"
          /\ End(t)
    /\ UNCHANGED <<entry, run, req, sweep>>

(* The minimal status update, under the same lock and fence.               *)
FallbackRead(t) ==
    /\ att[t].pc = "fallback"
    /\ Unlocked
    /\ IF _lease_matches(entry, t)
       THEN att' = [att EXCEPT ![t].pc = "salvaging", ![t].seen = run]
       ELSE End(t)
    /\ UNCHANGED <<entry, run, req, sweep>>

FallbackCommit(t) ==
    /\ att[t].pc = "salvaging"
    /\ LET old == att[t].seen
           status == FallbackOf(att[t].outcome)
       IN /\ Overlap \/ old = run
          /\ run' = IF old.status \in TERMINAL_RUN_STATES \cup {"waiting"}
                    THEN run
                    ELSE [run EXCEPT !.status = Dirty(@, old.status, status),
                                     !.checkpoint = Dirty(@, old.checkpoint, 0)]
          /\ entry' = Mirror(entry, status)
    /\ End(t)
    /\ UNCHANGED <<req, sweep>>

---------------------------------------------------------------------------
(* Operators and background loops                                          *)

(* cancel_run: a task of this process is interrupted first (a graceful     *)
(* shutdown interrupts all of _active_runs and does no more) ...           *)
CancelTask(t) ==
    /\ {"cancel", "shutdown"} \cap Events # {}
    /\ att[t].inline
    /\ Live(t)
    /\ Interrupt(t, "cancelled")
    /\ UNCHANGED <<entry, run, req, sweep>>

(* ... and both rows are cancelled under their locks.                      *)
cancel_run ==
    /\ "cancel" \in Events
    /\ Unlocked
    /\ run.status \in {"running", "queued", "waiting"}
    /\ entry' = IF entry.status \in ACTIVE_STATUSES
                THEN [_clear_lease(entry) EXCEPT !.status = "cancelled"]
                ELSE entry
    /\ run' = [run EXCEPT !.status = "cancelled", !.checkpoint = 0]
    /\ UNCHANGED <<att, req, sweep>>

(* Replay: POST /runs/{id}/replay (whole run or from a node) and the bulk  *)
(* POST /ops/dead-letter/replay.  Unlocked read, then commit.              *)
ReplayRead(r, kind) ==
    /\ (IF kind = "bulk" THEN "bulk_replay" ELSE "replay") \in Events
    /\ req[r].pc = "idle"
    /\ entry.status \in (IF kind = "bulk" THEN {"dead_lettered"} ELSE REPLAYABLE)
    /\ req' = [req EXCEPT ![r] = [pc |-> "read", kind |-> kind,
                                  entry |-> entry, run |-> run]]
    /\ UNCHANGED <<entry, run, att, sweep>>

replay(row, seed) ==
    [_clear_lease(row) EXCEPT !.status = "queued", !.attempts = 0,
                              !.due = TRUE, !.seed = seed]

Answered == [pc |-> "done", kind |-> "run", entry |-> NoEntry, run |-> NoRun]

ReplayCommit(r) ==
    /\ req[r].pc = "read"
    /\ req[r].kind \in ReplayKinds
    /\ Unlocked
    /\ LET old == req[r].entry
           seed == req[r].kind = "from_node" /\ run.rows
       IN /\ Overlap \/ (old = entry /\ req[r].run = run)
          /\ entry' = [Flush(entry, old, replay(old, seed)) EXCEPT !.due = TRUE]
          /\ run' = IF req[r].kind = "bulk" THEN run
                    ELSE [run EXCEPT !.status = Dirty(@, req[r].run.status, "queued")]
    /\ req' = [req EXCEPT ![r] = Answered]
    /\ UNCHANGED <<att, sweep>>

(* A replay, an approval or a sweep that raises leaves nothing behind.     *)
RewriteFails(r) ==
    /\ req[r].pc = "read"
    /\ "db_error" \in Events \/ (~Overlap /\ <<req[r].entry, req[r].run>> # <<entry, run>>)
    /\ req' = [req EXCEPT ![r] = Answered]
    /\ UNCHANGED <<entry, run, att, sweep>>

(* mark_stale_runners_offline: the agent that holds the run is silent.     *)
OfflineRead(r) ==
    /\ "runner_offline" \in Events
    /\ req[r].pc = "idle"
    /\ run.runner
    /\ run.status \in {"running", "queued", "pending"}
    /\ entry.status \notin TERMINAL_STATUSES \cup {"absent"}
    /\ req' = [req EXCEPT ![r] = [pc |-> "read", kind |-> "offline",
                                  entry |-> entry, run |-> run]]
    /\ UNCHANGED <<entry, run, att, sweep>>

OfflineCommit(r) ==
    /\ req[r].pc = "read"
    /\ req[r].kind = "offline"
    /\ Unlocked
    /\ LET old == req[r].entry
           new == [_clear_lease(old) EXCEPT !.status = "queued"]
       IN /\ Overlap \/ (old = entry /\ req[r].run = run)
          /\ entry' = [Flush(entry, old, new) EXCEPT !.due = TRUE]
          /\ run' = [run EXCEPT !.status = Dirty(@, req[r].run.status, "pending"),
                                !.runner = FALSE]
    /\ req' = [req EXCEPT ![r] = Answered]
    /\ UNCHANGED <<att, sweep>>

(* resume_waiting_run_from_approval: the decision finds both rows waiting  *)
(* and, without a lock on either, queues them with the resume state.       *)
ApprovalRead(r) ==
    /\ "approval" \in Events
    /\ req[r].pc = "idle"
    /\ run.status = "waiting"
    /\ entry.status = "waiting"
    /\ req' = [req EXCEPT ![r] = [pc |-> "read", kind |-> "approval",
                                  entry |-> entry, run |-> run]]
    /\ UNCHANGED <<entry, run, att, sweep>>

resume_waiting(row) ==
    [_clear_lease(row) EXCEPT !.status = "queued", !.due = TRUE, !.seed = TRUE]

ApprovalCommit(r) ==
    /\ req[r].pc = "read"
    /\ req[r].kind = "approval"
    /\ Unlocked
    /\ LET old == req[r].entry
       IN /\ Overlap \/ (old = entry /\ req[r].run = run)
          /\ entry' = [Flush(entry, old, resume_waiting(old)) EXCEPT !.due = TRUE, !.seed = TRUE]
          /\ run' = [run EXCEPT !.status = Dirty(@, req[r].run.status, "queued")]
    /\ req' = [req EXCEPT ![r] = Answered]
    /\ UNCHANGED <<att, sweep>>

(* NodeRun rows are written only by persist_run_outcome, so any run that   *)
(* lasts longer than the grace period looks stuck.                         *)
detect_stuck_runs ==
    /\ "stuck" \in Events
    /\ Local
    /\ run.status = "running"
    /\ run' = [run EXCEPT !.status = "error"]
    /\ UNCHANGED <<entry, att, req, sweep>>

---------------------------------------------------------------------------
(* The environment                                                         *)

LeaseElapses ==
    /\ entry.lease = "live"
    /\ entry' = [entry EXCEPT !.lease = "past"]
    /\ UNCHANGED <<run, att, req, sweep>>

BackoffElapses ==
    /\ ~entry.due
    /\ entry.status = "queued"
    /\ entry' = [entry EXCEPT !.due = TRUE]
    /\ UNCHANGED <<run, att, req, sweep>>

(* The process dies, or the task ends on an exception nothing handles (a   *)
(* failed claim, a failed park, a failed fallback).                        *)
Crash(t) ==
    /\ "crash" \in Events
    /\ Live(t)
    /\ End(t)
    /\ UNCHANGED <<entry, run, req, sweep>>

---------------------------------------------------------------------------

AttemptStep(t) ==
    \/ LoadRun(t) \/ MissingGraph(t) \/ _mark_queued_run_started(t)
    \/ ClaimRead(t) \/ ClaimCommit(t) \/ ClaimFails(t)
    \/ Dispatch(t) \/ ExecuteNode(t)
    \/ SaveRead(t) \/ SaveCommit(t) \/ SaveFails(t)
    \/ \E o \in Outcomes : Finish(t, o)
    \/ queue_run(t) \/ ParkRead(t) \/ ParkCommit(t) \/ ParkFails(t)
    \/ PersistRead(t) \/ PersistCommit(t) \/ PersistFails(t)
    \/ FallbackRead(t) \/ FallbackCommit(t)

HeartbeatStep(t) ==
    \/ HeartbeatRead(t) \/ HeartbeatCommit(t)
    \/ HeartbeatFails(t) \/ HeartbeatDeadline(t)

OperatorStep ==
    \/ cancel_run
    \/ \E r \in Requests : \/ \E k \in ReplayKinds : ReplayRead(r, k)
                          \/ ReplayCommit(r) \/ RewriteFails(r)
                          \/ OfflineRead(r) \/ OfflineCommit(r)
                          \/ ApprovalRead(r) \/ ApprovalCommit(r)

Next ==
    \/ StartParked
    \/ \E t \in Tokens : StartInline(t) \/ lease(t)
    \/ SweepRead \/ SweepCommit \/ SweepFails
    \/ \E t \in Tokens : AttemptStep(t) \/ HeartbeatStep(t)
    \/ \E t \in Tokens : CancelTask(t) \/ Crash(t)
    \/ OperatorStep
    \/ detect_stuck_runs
    \/ LeaseElapses \/ BackoffElapses

Spec == Init /\ [][Next]_vars

---------------------------------------------------------------------------
(* Fairness.  The dispatch loop ticks for ever, a task that is scheduled   *)
(* reaches its next await, the heartbeat loop wakes up, the stuck-run      *)
(* detector wakes up, time passes, and the runtime host retires a runtime  *)
(* that makes no progress (runtime_no_progress_timeout_seconds), so that   *)
(* execution ends; of a cancelled run's user code not even that is         *)
(* assumed.  Nothing makes an execution succeed, nor a commit, no operator *)
(* has to act and no process to survive.                                   *)

ExpiredUnrenewed ==
    /\ ~\E t \in Tokens : entry.token = t /\ Working(t)
    /\ LeaseElapses

TaskFairness(t) ==
    /\ WF_vars(LoadRun(t))
    /\ WF_vars(_mark_queued_run_started(t))
    /\ WF_vars(ClaimRead(t))
    /\ WF_vars(ClaimCommit(t) \/ ClaimFails(t))
    /\ WF_vars(Dispatch(t) \/ queue_run(t) \/ ParkRead(t))
    /\ WF_vars(ParkCommit(t) \/ ParkFails(t))
    /\ WF_vars(run.status # "cancelled" /\ \E o \in Outcomes : Finish(t, o))
    /\ WF_vars(att[t].pc = "finishing" /\ SaveRead(t))
    /\ WF_vars(SaveCommit(t) \/ SaveFails(t))
    /\ WF_vars(PersistRead(t))
    /\ WF_vars(FallbackRead(t))
    /\ WF_vars(PersistCommit(t) \/ FallbackCommit(t) \/ PersistFails(t))
    /\ WF_vars(HeartbeatRead(t))
    /\ WF_vars(HeartbeatCommit(t) \/ HeartbeatFails(t))

Fairness ==
    /\ WF_vars(\E t \in Tokens : lease(t))
    /\ WF_vars(SweepRead)
    /\ WF_vars(SweepCommit \/ SweepFails)
    /\ WF_vars(detect_stuck_runs)
    /\ WF_vars(ExpiredUnrenewed)
    /\ WF_vars(BackoffElapses)
    /\ \A t \in Tokens : TaskFairness(t)

FairSpec == Spec /\ Fairness

---------------------------------------------------------------------------
(* Properties                                                              *)

(* Every row and every attempt has the shape the schema gives it.          *)
TypeOK ==
    /\ entry \in EntryRows
    /\ run \in RunRows
    /\ att \in [Tokens -> Attempts]
    /\ req \in [Requests -> RewriteRequests]
    /\ sweep \in Sweeps

(* An attempt that is about to persist has decided its outcome.            *)
OutcomeDecided ==
    \A t \in Tokens :
        att[t].pc \in {"finishing", "flushing", "persisting", "fallback", "salvaging"}
            => att[t].outcome # "none"

(* A lease token is on the row exactly while the row is leased or running: *)
(* no path that settles, parks, requeues or replays a run forgets to fence *)
(* the attempt that held it, and no attempt claims a settled row.          *)
TokenIsLease ==
    entry.token # NoToken <=> entry.status \in {"leased", "running"}

(* Ownership passes from one attempt to another only through the queue: a  *)
(* token is cleared (fail, sweep, cancel, approval) before another is put  *)
(* in its place.  The one step that does not keep to it is a claim that    *)
(* read the row while nobody owned it and commits after another attempt    *)
(* has leased it (mark_running takes no lock).                             *)
StaleClaim(t) ==
    /\ Overlap
    /\ att[t].pc = "claiming" /\ att'[t].pc = "dispatching"
    /\ att[t].snap.status = "queued" /\ att[t].snap.token = NoToken
    /\ entry'.token = t

OwnershipThroughQueue ==
    [][ entry.token # NoToken /\ entry'.token # NoToken /\ entry'.token # entry.token
          => \E t \in Tokens : StaleClaim(t) ]_vars

(* An attempt that runs user code and owns the row has a lease deadline,   *)
(* so that the sweep can find it should its worker die.                    *)
DeadlineBeforeWork ==
    \A t \in Tokens : Working(t) /\ entry.token = t => entry.lease # "none"

(* A Run shown as success is completed in the queue: nothing will lease,   *)
(* sweep, resume or replay it, however many attempts are still running.    *)
SuccessIsMirrored == run.status = "success" => entry.status = "completed"

(* A Run that waits for an approval has a queue row the approval can find. *)
WaitingIsMirrored == run.status = "waiting" => entry.status = "waiting"

(* What an unlocked transaction checked still holds of its snapshot, and   *)
(* who holds the row lock still owns the row it locked.                    *)
SnapshotsChecked ==
    /\ \A t \in Tokens : att[t].pc = "claiming" => Claimable(att[t].snap, t)
    /\ \A r \in Requests : req[r].pc = "read" /\ req[r].kind \in ReplayKinds
                            => req[r].entry.status \in REPLAYABLE
    /\ \A r \in Requests : req[r].pc = "read" /\ req[r].kind = "offline"
                            => /\ req[r].run.status \in {"running", "queued", "pending"}
                               /\ req[r].entry.status \in ACTIVE_STATUSES
    /\ \A r \in Requests : req[r].pc = "read" /\ req[r].kind = "approval"
                            => req[r].entry.status = "waiting"

LocksHeld ==
    /\ \A t \in Tokens : att[t].pc \in {"persisting", "salvaging"}
                            => entry.token = t /\ sweep = "idle"
    /\ sweep # "idle" => entry.status \in {"leased", "running"}

(* The inductive invariant behind the ownership and mirror properties when *)
(* no commit overlaps another transaction (~Overlap).                      *)
LedgerInv ==
    /\ TypeOK
    /\ OutcomeDecided
    /\ SnapshotsChecked
    /\ LocksHeld
    /\ TokenIsLease
    /\ SuccessIsMirrored
    /\ WaitingIsMirrored

(* The transactions, fences and sweeps above implement the simple lease of *)
(* RunLease: what the queue row, the token and the Run row are together.   *)
Phase ==
    IF entry.status \in {"leased", "running"} THEN "owned"
    ELSE IF entry.status \in TERMINAL_STATUSES \ {"completed"} THEN "closed"
    ELSE entry.status

Shown == IF run.status \in {"success", "waiting"} THEN run.status ELSE "other"

Work == [t \in Tokens |-> IF att[t].pc = "unused" THEN "unused"
                          ELSE IF att[t].pc = "ended" THEN "over" ELSE "active"]

Lease == INSTANCE RunLease WITH
             phase <- Phase, owner <- entry.token, shown <- Shown, work <- Work

(* As long as no commit finds its snapshot out of date (~Overlap), no      *)
(* stale attempt owns, settles or reopens a run the abstract lease would   *)
(* not give it, however sweeps, operators and crashes interleave.  At READ *)
(* COMMITTED a stale claim or park does (README, section 9).               *)
ImplementsLease == Lease!LeaseSpec

(* The two ledgers agree on the verdicts the user acts upon: a success, a  *)
(* wait, and a cancellation (of a Run whose entry was dead-lettered under  *)
(* it, the entry stays dead-lettered).                                     *)
Agreement ==
    /\ entry.status = "completed" <=> run.status = "success"
    /\ entry.status = "waiting" <=> run.status = "waiting"
    /\ entry.status = "cancelled" => run.status = "cancelled"
    /\ run.status = "cancelled" => entry.status \in {"cancelled", "dead_lettered"}

(* A row a worker may lease belongs to a Run that _execute_queued_entry    *)
(* will dispatch: it returns at once unless Run.status is "queued".        *)
LeaseableIsDispatchable == entry.status = "queued" => run.status = "queued"

(* No attempt revives the checkpoint of a cancelled run, as long as the    *)
(* checkpoint's UPDATE does not straddle the cancellation (~Overlap): its  *)
(* fence is not atomic with its write (README, section 9).                 *)
CancelledHasNoCheckpoint == run.status = "cancelled" => run.checkpoint = 0

(* A terminal Run status is history: an operator's replay changes it, and  *)
(* nothing else does but one race.  The detector's error, committed while  *)
(* the outcome or the sweep of the run is between its unlocked look at the *)
(* Run and its commit, is overwritten; no success, timeout or cancellation *)
(* ever is, and no error that the transaction could have seen.             *)
CommitsOverDetector ==
    \/ sweep = "reset" /\ sweep' = "idle"
    \/ \E t \in Tokens : /\ att[t].pc \in {"persisting", "salvaging"}
                         /\ att'[t].pc = "ended"
                         /\ att[t].seen.status \notin TERMINAL_RUN_STATES

TerminalIsFinal ==
    [][ run.status \in TERMINAL_RUN_STATES /\ run'.status # run.status
          => \/ /\ run'.status = "queued"
                /\ \E r \in Requests : /\ req[r].pc = "read"
                                       /\ req[r].kind \in ReplayKinds
                                       /\ req'[r].pc = "done"
             \/ run.status = "error" /\ CommitsOverDetector ]_vars

(* Retries are bounded: crashes, parks and expiries never lease a row more *)
(* often than its max_attempts, as long as no park commits over a row that *)
(* was swept and leased again since its read (~Overlap; README, section 9).*)
AttemptBudget == entry.attempts <= MaxAttempts

(* Every run that is queued or running settles, waits for an approval or   *)
(* is dead-lettered: no crash, stall or park loses it silently.            *)
NeverLost ==
    run.status \in {"pending", "queued", "running"}
        ~> \/ run.status \notin {"pending", "queued", "running"}
           \/ entry.status = "dead_lettered"

(* A cancelled run's attempts stop: in-process tasks at once, the others   *)
(* when their heartbeat finds the row gone.                                *)
CancelStopsWork ==
    run.status = "cancelled" ~> \A t \in Tokens : ~Working(t)

============================================================================

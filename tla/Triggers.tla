------------------------------ MODULE Triggers ------------------------------
(* How schedules and webhooks become runs: the scheduler's transaction     *)
(* that advances last_fired and writes one occurrence for each schedule    *)
(* that is due, the leased dispatch of those occurrences, the ingress of   *)
(* webhook deliveries, and the unique key of a run on which both rely.     *)
(*                                                                         *)
(* Sources: services/triggers.py, start_run of services/runner.py and the  *)
(* index uq_runs_deduplication_key of models.py (all of apps/api/app).     *)
(*                                                                         *)
(* Tickers are the callers of _tick: the loop of the elected leader, of a  *)
(* replica that lost the advisory lock's connection and does not know it,  *)
(* and /internal/scheduler/tick.  Nothing keeps them apart.  Time has two  *)
(* grains: slots, the times a schedule is due, counted by clock; and the   *)
(* minutes of leases and retries, which may pass at any moment.  The       *)
(* database locks rows (PostgreSQL).  A tick's limit of 100 dispatches and *)
(* the polling of providers are left out, and so are the checks a delivery *)
(* passes before deduplication.                                            *)
EXTENDS Integers, Sequences, SequencesExt

CONSTANTS
    Tickers,
    WorkflowCount, \* workflows, in the order a delivery visits them
    Deployments,  \* deployments with a schedule
    OfWorkflow,   \* the workflow a deployment runs
    Deliveries,   \* requests to the webhook's path
    KeyOf,        \* the deduplication key a delivery evaluates to
    Draft,        \* deliveries to the editor's test URL
    Loads,        \* what a behaviour is about: [scheduled, incoming]
    MaxClock,     \* slots that pass
    MaxOccurrences, \* rows of the outbox
    MaxAttempts,  \* 10 in the code
    MaxFaults     \* crashes, leases that run out under their holder, repeats, edits

Workflows == 1..WorkflowCount
Sources == Deployments \cup Workflows
Keys == {KeyOf[d] : d \in Deliveries}

ASSUME WorkflowAssumption == WorkflowCount \in Nat
ASSUME DeploymentAssumption ==
    OfWorkflow \in [Deployments -> Workflows] /\ Deployments \cap Workflows = {}
    /\ IsFiniteSet(Deployments)
ASSUME DeliveryAssumption == Draft \subseteq Deliveries
ASSUME KeyAssumption == Keys \cap (1..MaxOccurrences) = {}
ASSUME LoadAssumption ==
    Loads \subseteq [scheduled : SUBSET Sources, incoming : SUBSET Deliveries]
ASSUME BoundAssumption ==
    MaxClock \in Nat /\ MaxOccurrences \in Nat /\ MaxAttempts \in Nat \ {0} /\ MaxFaults \in Nat

VARIABLES
    clock,      \* slots passed
    scheduled,  \* sources with a schedule: workflows, active deployments
    last_fired, \* the slot a source fired last, or Never
    occ,        \* the occurrences: the outbox
    tick,       \* tick[t]: where ticker t is, and what it holds
    dlv,        \* dlv[d]: where delivery d is, and what it answered
    runs,       \* the runs, by the occurrence or event key they carry
    faults

vars == <<clock, scheduled, last_fired, occ, tick, dlv, runs, faults>>

Never == -1
NoRun == [workflow |-> 0, mode |-> "none"]

(* A ticker between two claims; with a claim on row i; a delivery; a row.  *)
At(pc, now) == [pc |-> pc, now |-> now, occ |-> 0, token |-> 0, run |-> FALSE]

With(t, pc, i, token, run) ==
    [pc |-> pc, now |-> tick[t].now, occ |-> i, token |-> token, run |-> run]

Delivery(pc, at, started, deduped) ==
    [pc |-> pc, at |-> at, started |-> started, deduped |-> deduped]

Row(source, slot, status, token, attempts, backoff) ==
    [source |-> source, slot |-> slot, status |-> status, token |-> token,
     attempts |-> attempts, backoff |-> backoff, expired |-> FALSE]

IdleTick == At("idle", 0)

(* Keys of runs: "schedule-occurrence:<id>", or what the webhook's node    *)
(* evaluates; the index spans the runs of every workflow.                  *)
RunKeys == (1..MaxOccurrences) \cup Keys

Init ==
    \E load \in Loads :
        /\ clock = 0
        /\ scheduled = load.scheduled
        /\ last_fired = [s \in Sources |-> Never]
        /\ occ = <<>>
        /\ tick = [t \in Tickers |-> IdleTick]
        /\ dlv = [d \in Deliveries |->
                     Delivery(IF d \in load.incoming THEN "incoming" ELSE "answered", 1, {}, {})]
        /\ runs = [k \in RunKeys |-> NoRun]
        /\ faults = 0

---------------------------------------------------------------------------
(* start_run, as its callers see it                                        *)

Taken(k) == runs[k] # NoRun

(* The insert passes the unique index and is committed ...                 *)
(* Fault: no index.                                                        *)
Faulty_Commits(k, w, mode) == runs' = [runs EXCEPT ![k] = [workflow |-> w, mode |-> mode]]

Commits(k, w, mode) ==
    ~Taken(k) /\ runs' = [runs EXCEPT ![k] = [workflow |-> w, mode |-> mode]]

(* ... or DuplicateRun is raised ...                                       *)
Duplicate(k) == Taken(k) /\ UNCHANGED runs

(* ... or a limit, a lock or the database refuses it first.                *)
Refused == UNCHANGED runs

---------------------------------------------------------------------------
(* The environment                                                         *)

(* A slot passes.                                                          *)
Advance ==
    /\ clock < MaxClock
    /\ scheduled # {}
    /\ clock' = clock + 1
    /\ UNCHANGED <<scheduled, last_fired, occ, tick, dlv, runs, faults>>

(* Someone deactivates a deployment, or activates it again.                *)
SetDeployment(d) ==
    /\ faults < MaxFaults
    /\ scheduled # {}
    /\ scheduled' = IF d \in scheduled THEN scheduled \ {d} ELSE scheduled \cup {d}
    /\ faults' = faults + 1
    /\ UNCHANGED <<clock, last_fired, occ, tick, dlv, runs>>

Holders(i) == {t \in Tickers : /\ tick[t].pc \in {"lookup", "start", "recheck", "finish"}
                               /\ tick[t].occ = i /\ tick[t].token = occ[i].token}

(* The five minutes of a claim pass: its holder died or is slow.           *)
Expire(i) ==
    /\ i \in DOMAIN occ
    /\ occ[i].status = "dispatching"
    /\ ~occ[i].expired
    /\ \/ Holders(i) = {} /\ UNCHANGED faults
       \/ Holders(i) # {} /\ faults < MaxFaults /\ faults' = faults + 1
    /\ occ' = [occ EXCEPT ![i].expired = TRUE]
    /\ UNCHANGED <<clock, scheduled, last_fired, tick, dlv, runs>>

(* next_attempt_at is reached.                                             *)
Elapse(i) ==
    /\ i \in DOMAIN occ
    /\ occ[i].backoff
    /\ occ' = [occ EXCEPT ![i].backoff = FALSE]
    /\ UNCHANGED <<clock, scheduled, last_fired, tick, dlv, runs, faults>>

---------------------------------------------------------------------------
(* _tick                                                                   *)

(* The tick reads the clock once, before it waits for the rows' locks.     *)
BeginTick(t) ==
    /\ tick[t].pc = "idle"
    /\ scheduled # {}
    /\ tick' = [tick EXCEPT ![t] = At("fire", clock)]
    /\ UNCHANGED <<clock, scheduled, last_fired, occ, dlv, runs, faults>>

(* Fault: "not the slot it fired last" instead of "later".                 *)
Faulty_is_due(last, now) == last # now

(* A slot has passed since the one it fired last.                          *)
_is_due(last, now) == last < now

(* A workflow with an active deployment is scheduled by its deployments    *)
(* alone.                                                                  *)
Eligible == {s \in scheduled : s \in Deployments
                               \/ \A d \in Deployments \cap scheduled : OfWorkflow[d] # s}

(* One transaction, the rows locked: start the clock of a new schedule,    *)
(* and write an occurrence for each one that is due.                       *)
Fire(t) ==
    /\ tick[t].pc = "fire"
    /\ LET now == tick[t].now
           due == {s \in Eligible : last_fired[s] # Never /\ _is_due(last_fired[s], now)}
           new == {s \in Eligible : last_fired[s] = Never}
           added == SetToSeq(due)
           pending(s) == Row(s, now, "pending", 0, 0, FALSE)
       IN /\ Len(occ) + Len(added) <= MaxOccurrences
          /\ last_fired' = [s \in Sources |-> IF s \in due \cup new THEN now ELSE last_fired[s]]
          /\ occ' = occ \o [i \in DOMAIN added |-> pending(added[i])]
    /\ tick' = [tick EXCEPT ![t] = At("claim", tick[t].now)]
    /\ UNCHANGED <<clock, scheduled, dlv, runs, faults>>

(* Fault: an expired lease is not taken over.                              *)
Faulty_Dispatchable(i) == occ[i].status = "pending" /\ ~occ[i].backoff

Dispatchable(i) ==
    \/ occ[i].status = "pending" /\ ~occ[i].backoff
    \/ occ[i].status = "dispatching" /\ occ[i].expired

(* Lease an occurrence.  The oldest is taken; rows of one tick share their *)
(* created_at, so the order is left open.  An attempt has its own token.   *)
_claim_schedule_occurrence(t, i) ==
    /\ tick[t].pc = "claim"
    /\ i \in DOMAIN occ
    /\ Dispatchable(i)
    /\ LET n == occ[i].attempts + 1 IN
       /\ occ' = [occ EXCEPT ![i] =
                      Row(occ[i].source, occ[i].slot, "dispatching", n, n, FALSE)]
       /\ tick' = [tick EXCEPT ![t] = With(t, "lookup", i, n, FALSE)]
    /\ UNCHANGED <<clock, scheduled, last_fired, dlv, runs, faults>>

(* None is left: the tick is over.                                         *)
EndTick(t) ==
    /\ tick[t].pc = "claim"
    /\ \A i \in DOMAIN occ : ~Dispatchable(i)
    /\ tick' = [tick EXCEPT ![t] = IdleTick]
    /\ UNCHANGED <<clock, scheduled, last_fired, occ, dlv, runs, faults>>

(* Fault: a start that raised counts as a duplicate without another look.  *)
Faulty_existing_occurrence_run(t) ==
    /\ tick[t].pc \in {"lookup", "recheck"}
    /\ LET i == tick[t].occ
           pc == IF tick[t].pc = "lookup" /\ ~Taken(i) THEN "start" ELSE "finish"
       IN tick' = [tick EXCEPT ![t] = With(t, pc, i, tick[t].token,
                                           tick[t].pc = "recheck" \/ Taken(i))]
    /\ UNCHANGED <<clock, scheduled, last_fired, occ, dlv, runs, faults>>

(* A run that carries the occurrence's key is the occurrence's run.        *)
_existing_occurrence_run(t) ==
    /\ tick[t].pc \in {"lookup", "recheck"}
    /\ LET i == tick[t].occ
           pc == IF tick[t].pc = "lookup" /\ ~Taken(i) THEN "start" ELSE "finish"
       IN tick' = [tick EXCEPT ![t] = With(t, pc, i, tick[t].token, Taken(i))]
    /\ UNCHANGED <<clock, scheduled, last_fired, occ, dlv, runs, faults>>

WorkflowOf(i) == IF occ[i].source \in Deployments THEN OfWorkflow[occ[i].source]
                 ELSE occ[i].source

(* start_run returns the run, or raises: before its commit or after it.    *)
StartOccurrence(t) ==
    /\ tick[t].pc = "start"
    /\ LET i == tick[t].occ IN
       \/ /\ Commits(i, WorkflowOf(i), "production")
          /\ tick' = [tick EXCEPT ![t] = With(t, "finish", i, tick[t].token, TRUE)]
       \/ /\ \/ Commits(i, WorkflowOf(i), "production")
             \/ Duplicate(i)
             \/ Refused
          /\ tick' = [tick EXCEPT ![t] = With(t, "recheck", i, tick[t].token, FALSE)]
    /\ UNCHANGED <<clock, scheduled, last_fired, occ, dlv, faults>>

(* Fault: the token is left on the row.                                    *)
Faulty_Finished(o, t) ==
    Row(o.source, o.slot,
        IF tick[t].run THEN "dispatched"
        ELSE IF tick[t].token >= MaxAttempts THEN "failed" ELSE "pending",
        o.token, o.attempts, FALSE)

(* What becomes of a claim: its run is known, or it is given up after the  *)
(* last attempt, or it is retried later.  (A claim's token is its number.) *)
Finished(o, t) ==
    LET status == IF tick[t].run THEN "dispatched"
                  ELSE IF tick[t].token >= MaxAttempts THEN "failed" ELSE "pending"
    IN Row(o.source, o.slot, status, 0, o.attempts, status = "pending")

(* Fault: the claim's token is not compared.                               *)
Faulty_finish_schedule_occurrence(t) ==
    /\ tick[t].pc = "finish"
    /\ occ' = [occ EXCEPT ![tick[t].occ] = Finished(occ[tick[t].occ], t)]
    /\ tick' = [tick EXCEPT ![t] = At("claim", tick[t].now)]
    /\ UNCHANGED <<clock, scheduled, last_fired, dlv, runs, faults>>

(* Complete or release the claim, unless another has taken its place.      *)
_finish_schedule_occurrence(t) ==
    /\ tick[t].pc = "finish"
    /\ LET i == tick[t].occ IN
       occ' = IF occ[i].token = tick[t].token
              THEN [occ EXCEPT ![i] = Finished(occ[i], t)] ELSE occ
    /\ tick' = [tick EXCEPT ![t] = At("claim", tick[t].now)]
    /\ UNCHANGED <<clock, scheduled, last_fired, dlv, runs, faults>>

(* The process dies, or the tick raises: what it had not committed is      *)
(* gone, what it had leased stays leased.                                  *)
Crash(t) ==
    /\ tick[t].pc # "idle"
    /\ faults < MaxFaults
    /\ faults' = faults + 1
    /\ tick' = [tick EXCEPT ![t] = IdleTick]
    /\ UNCHANGED <<clock, scheduled, last_fired, occ, dlv, runs>>

---------------------------------------------------------------------------
(* dispatch_webhook                                                        *)

Visited(d) == dlv[d].at \in Workflows

(* The workflow under the delivery's cursor has been served: the next.     *)
Served(d, started, deduped) ==
    dlv' = [dlv EXCEPT ![d] = Delivery("incoming", dlv[d].at + 1, dlv[d].started \cup started,
                                       dlv[d].deduped \cup deduped)]

Moved(d, pc) == [dlv EXCEPT ![d] = Delivery(pc, dlv[d].at, dlv[d].started, dlv[d].deduped)]

(* A repeat of a key this workflow has run is acknowledged ...             *)
SeenKey(d) == runs[KeyOf[d]].workflow = dlv[d].at /\ d \notin Draft

CheckKey(d) ==
    /\ dlv[d].pc = "incoming"
    /\ Visited(d)
    /\ IF SeenKey(d) THEN Served(d, {}, {dlv[d].at}) ELSE dlv' = Moved(d, "start")
    /\ UNCHANGED <<clock, scheduled, last_fired, occ, tick, runs, faults>>

(* ... and so is the one that loses the race to the index.  What start_run *)
(* raises, before its commit or after it, goes to the caller, who may send *)
(* the request again.                                                      *)
StartWebhook(d) ==
    /\ dlv[d].pc = "start"
    /\ LET k == KeyOf[d]
           mode == IF d \in Draft THEN "test" ELSE "production"
       IN \/ Commits(k, dlv[d].at, mode) /\ Served(d, {dlv[d].at}, {})
          \/ Duplicate(k) /\ Served(d, {}, {dlv[d].at})
          \/ (Commits(k, dlv[d].at, mode) \/ Refused) /\ dlv' = Moved(d, "error")
    /\ UNCHANGED <<clock, scheduled, last_fired, occ, tick, faults>>

Answer(d) ==
    /\ dlv[d].pc = "incoming"
    /\ ~Visited(d)
    /\ dlv' = Moved(d, "answered")
    /\ UNCHANGED <<clock, scheduled, last_fired, occ, tick, runs, faults>>

Redeliver(d) ==
    /\ dlv[d].pc = "error"
    /\ faults < MaxFaults
    /\ faults' = faults + 1
    /\ dlv' = [dlv EXCEPT ![d] = Delivery("incoming", 1, dlv[d].started, {})]
    /\ UNCHANGED <<clock, scheduled, last_fired, occ, tick, runs>>

---------------------------------------------------------------------------

TickStep(t) ==
    \/ BeginTick(t) \/ Fire(t) \/ EndTick(t)
    \/ \E i \in DOMAIN occ : _claim_schedule_occurrence(t, i)
    \/ _existing_occurrence_run(t) \/ StartOccurrence(t) \/ _finish_schedule_occurrence(t)

DeliveryStep(d) == CheckKey(d) \/ StartWebhook(d) \/ Answer(d)

Next ==
    \/ \E t \in Tickers : TickStep(t) \/ Crash(t)
    \/ \E d \in Deliveries : DeliveryStep(d) \/ Redeliver(d)
    \/ \E i \in DOMAIN occ : Expire(i) \/ Elapse(i)
    \/ \E d \in Deployments : SetDeployment(d)
    \/ Advance

Spec == Init /\ [][Next]_vars

(* The loops tick for ever, a tick does not wait, and time passes; nothing *)
(* is assumed of crashes, of the clock's slots, or of what start_run does. *)
FairSpec ==
    /\ Spec
    /\ \A t \in Tickers : WF_vars(TickStep(t))
    /\ \A i \in 1..MaxOccurrences : WF_vars(Expire(i)) /\ WF_vars(Elapse(i))

---------------------------------------------------------------------------
(* Properties                                                              *)

Settled == {"dispatched", "failed"}

(* Shapes of the rows and of what the tickers hold.                        *)
TypeOK ==
    /\ clock \in 0..MaxClock /\ faults \in 0..MaxFaults
    /\ scheduled \subseteq Sources
    /\ last_fired \in [Sources -> {Never} \cup 0..MaxClock]
    /\ \A i \in DOMAIN occ :
          /\ occ[i].status \in {"pending", "dispatching"} \cup Settled
          /\ occ[i].backoff => occ[i].status = "pending"
          /\ occ[i].token # 0 <=> occ[i].status = "dispatching"
    /\ \A t \in Tickers : tick[t].pc # "idle" => tick[t].now <= clock
    /\ \A d \in Deliveries : dlv[d].started \cup dlv[d].deduped \subseteq Workflows

(* However many tickers overlap, with clocks however old, a schedule fires *)
(* once for a slot; and a delivery and its repeats, however they race,     *)
(* start one run of a workflow between them.                               *)
FiresOnce ==
    /\ \A i, j \in DOMAIN occ :
          occ[i].source = occ[j].source /\ occ[i].slot = occ[j].slot => i = j
    /\ \A d, e \in Deliveries :
          d # e /\ KeyOf[d] = KeyOf[e] => dlv[d].started \cap dlv[e].started = {}

(* An occurrence is dispatched only when its run is committed, and the run *)
(* of an occurrence still leased or retried is found again: it is started  *)
(* no second time.                                                         *)
DispatchedRan ==
    \A i \in DOMAIN occ :
        occ[i].status = "dispatched" => runs[i].workflow = WorkflowOf(i)

(* A ticker that was slow, and whose claim was taken over, changes nothing *)
(* of an occurrence that another has settled.                              *)
SettledIsFinal ==
    [][ \A i \in DOMAIN occ : occ[i].status \in Settled => occ'[i] = occ[i] ]_vars

(* No occurrence is lost: a crash at any point, a lease that runs out, a   *)
(* refusal, a retry, and it is dispatched or given up in the end.          *)
OccurrencesSettle ==
    \A i \in 1..MaxOccurrences :
        (i \in DOMAIN occ) ~> (i \in DOMAIN occ /\ occ[i].status \in Settled)

(* "Idempotency: a repeat key for this workflow is acknowledged ...        *)
(* Production only": what a delivery to the production URL acknowledges as *)
(* a repeat, the workflow has run in production.                           *)
AcknowledgedRan ==
    \A d \in Deliveries \ Draft : \A w \in dlv[d].deduped :
        runs[KeyOf[d]] = [workflow |-> w, mode |-> "production"]

=============================================================================

-------------------------- MODULE Triggers_proofs ---------------------------
(***************************************************************************)
(* What holds of schedules and webhooks for every number of tickers,       *)
(* schedules, deliveries, attempts and crashes: a slot fires once, a key   *)
(* starts one run, a dispatched occurrence has its run, and nothing that   *)
(* is settled is touched again.                                            *)
(***************************************************************************)
EXTENDS Triggers, TLAPS, FiniteSetTheorems, SequenceTheorems

USE WorkflowAssumption, DeploymentAssumption, DeliveryAssumption, KeyAssumption,
    LoadAssumption, BoundAssumption

---------------------------------------------------------------------------
(* The inductive invariant                                                 *)

Holding == {"lookup", "start", "recheck", "finish"}

Occurrences ==
    [source : Sources, slot : 0..MaxClock,
     status : {"pending", "dispatching"} \cup Settled, expired : BOOLEAN,
     backoff : BOOLEAN, token : Nat, attempts : Nat]

Ticks ==
    [pc : {"idle", "fire", "claim"} \cup Holding, now : 0..MaxClock, occ : Nat, token : Nat,
     run : BOOLEAN]

DeliveryStates ==
    [pc : {"incoming", "start", "error", "answered"}, at : Nat,
     started : SUBSET Workflows, deduped : SUBSET Workflows]

Modes == {"production", "test"}

RunRows == [workflow : Workflows, mode : Modes] \cup {NoRun}

Shapes ==
    /\ clock \in 0..MaxClock /\ faults \in 0..MaxFaults
    /\ scheduled \subseteq Sources
    /\ last_fired \in [Sources -> {Never} \cup 0..MaxClock]
    /\ occ \in Seq(Occurrences)
    /\ Len(occ) <= MaxOccurrences
    /\ tick \in [Tickers -> Ticks]
    /\ dlv \in [Deliveries -> DeliveryStates]
    /\ runs \in [RunKeys -> RunRows]

(* A source has not fired a slot later than its last one, nor one twice.   *)
FiredInv ==
    /\ \A i \in DOMAIN occ : occ[i].slot <= last_fired[occ[i].source]
    /\ \A i, j \in DOMAIN occ :
          occ[i].source = occ[j].source /\ occ[i].slot = occ[j].slot => i = j

(* A row has a token while it is leased, and its run is its workflow's.    *)
RowInv ==
    \A i \in DOMAIN occ :
        /\ occ[i].backoff => occ[i].status = "pending"
        /\ occ[i].token # 0 <=> occ[i].status = "dispatching"
        /\ occ[i].status = "dispatched" => Taken(i)

RunInv ==
    /\ \A i \in 1..MaxOccurrences :
          Taken(i) => i \in DOMAIN occ /\ runs[i].workflow = WorkflowOf(i)
    /\ \A d \in Deliveries : dlv[d].started # {} => Taken(KeyOf[d])
    /\ \A d, e \in Deliveries :
          d # e /\ KeyOf[d] = KeyOf[e] => dlv[d].started \cap dlv[e].started = {}

(* A ticker holds a row under a token; it knows of a run only if there is  *)
(* one.                                                                    *)
TickInv ==
    \A t \in Tickers :
        /\ tick[t].pc # "idle" => tick[t].now <= clock
        /\ tick[t].pc \in Holding =>
              /\ tick[t].occ \in DOMAIN occ
              /\ tick[t].token # 0
              /\ tick[t].run => Taken(tick[t].occ)

(* A delivery that is about to start stands at a workflow.                 *)
DeliveryInv == \A d \in Deliveries : dlv[d].pc = "start" => Visited(d)

TriggerInv == Shapes /\ FiredInv /\ RowInv /\ RunInv /\ TickInv /\ DeliveryInv

---------------------------------------------------------------------------
(* Keys and runs                                                           *)

LEMMA KeysApart ==
  /\ \A d \in Deliveries : KeyOf[d] \in RunKeys /\ KeyOf[d] \notin 1..MaxOccurrences
  /\ 1..MaxOccurrences \subseteq RunKeys
BY DEF RunKeys, Keys

(* A row of the outbox has a key.                                          *)
LEMMA RowsHaveKeys ==
  ASSUME Shapes
  PROVE  /\ DOMAIN occ = 1..Len(occ) /\ Len(occ) \in Nat
         /\ DOMAIN occ \subseteq 1..MaxOccurrences
         /\ \A i \in DOMAIN occ : occ[i] \in Occurrences
BY DEF Shapes

LEMMA WorkflowOfRow ==
  ASSUME Shapes, NEW i \in DOMAIN occ
  PROVE  WorkflowOf(i) \in Workflows
BY RowsHaveKeys DEF WorkflowOf, Sources, Occurrences

(* A committed run is one, and the others stay.                            *)
LEMMA CommitAdds ==
  ASSUME Shapes, NEW k \in RunKeys, NEW w \in Workflows, NEW mode \in Modes,
         Commits(k, w, mode)
  PROVE  /\ runs' \in [RunKeys -> RunRows]
         /\ ~Taken(k) /\ Taken(k)' /\ runs'[k].workflow = w
         /\ \A key \in RunKeys \ {k} : runs'[key] = runs[key]
<1>1. [workflow |-> w, mode |-> mode] # NoRun
  BY DEF Workflows, NoRun
<1> QED
  BY <1>1 DEF Commits, Shapes, RunRows, Taken


---------------------------------------------------------------------------
(* Steps of the outbox                                                     *)

(* A row is replaced by one of the same schedule and slot.                 *)
LEMMA RowChange ==
  ASSUME TriggerInv, NEW i \in DOMAIN occ, NEW r \in Occurrences,
         r.source = occ[i].source, r.slot = occ[i].slot,
         r.backoff => r.status = "pending",
         r.token # 0 <=> r.status = "dispatching",
         r.status = "dispatched" => Taken(i),
         occ' = [occ EXCEPT ![i] = r], UNCHANGED <<last_fired, dlv, runs>>
  PROVE  /\ occ' \in Seq(Occurrences) /\ Len(occ') = Len(occ) /\ DOMAIN occ' = DOMAIN occ
         /\ FiredInv' /\ RowInv' /\ RunInv'
<1>1. /\ occ' \in Seq(Occurrences) /\ Len(occ') = Len(occ) /\ DOMAIN occ' = DOMAIN occ
      /\ \A j \in DOMAIN occ : occ'[j] = IF j = i THEN r ELSE occ[j]
  BY RowsHaveKeys DEF TriggerInv, Shapes
<1>2. \A j \in DOMAIN occ : occ'[j].source = occ[j].source /\ occ'[j].slot = occ[j].slot
  BY <1>1
<1>3. FiredInv'
  BY <1>1, <1>2 DEF TriggerInv, FiredInv
<1>4. RowInv'
  BY <1>1 DEF TriggerInv, RowInv, Taken
<1>5. \A j \in DOMAIN occ : WorkflowOf(j)' = WorkflowOf(j)
  BY <1>2 DEF WorkflowOf
<1>6. RunInv'
  BY <1>1, <1>5 DEF TriggerInv, RunInv, Taken
<1> QED
  BY <1>1, <1>3, <1>4, <1>6

(* A ticker moves on, under the same claim or none.                        *)
LEMMA TickMoves ==
  ASSUME TriggerInv, NEW t \in Tickers, NEW r \in Ticks,
         tick' = [tick EXCEPT ![t] = r], clock' = clock, DOMAIN occ' = DOMAIN occ,
         \A k \in RunKeys : Taken(k) => Taken(k)',
         r.pc # "idle" => r.now <= clock,
         r.pc \in Holding => r.occ \in DOMAIN occ /\ r.token # 0 /\ (r.run => Taken(r.occ)')
  PROVE  tick' \in [Tickers -> Ticks] /\ TickInv'
<1>1. /\ tick' \in [Tickers -> Ticks]
      /\ \A u \in Tickers : tick'[u] = IF u = t THEN r ELSE tick[u]
  BY DEF TriggerInv, Shapes
<1>2. \A u \in Tickers : tick[u].pc \in Holding => tick[u].occ \in RunKeys
  BY RowsHaveKeys, KeysApart DEF TriggerInv, TickInv
<1>3. TickInv'
  BY <1>1, <1>2 DEF TriggerInv, TickInv
<1> QED
  BY <1>1, <1>3

(* Constructed records have their shape.                                   *)
LEMMA TickRecords ==
  ASSUME Shapes, NEW t \in Tickers, NEW pc \in {"idle", "fire", "claim"} \cup Holding
  PROVE  /\ \A now \in 0..MaxClock : At(pc, now) \in Ticks
         /\ \A i \in Nat, token \in Nat, run \in BOOLEAN : With(t, pc, i, token, run) \in Ticks
         /\ tick[t] \in Ticks
<1>1. tick[t] \in Ticks
  BY DEF Shapes
<1> QED
  BY <1>1 DEF At, With, Ticks

LEMMA RowRecords ==
  ASSUME NEW source \in Sources, NEW slot \in 0..MaxClock,
         NEW status \in {"pending", "dispatching"} \cup Settled,
         NEW token \in Nat, NEW attempts \in Nat, NEW backoff \in BOOLEAN
  PROVE  Row(source, slot, status, token, attempts, backoff) \in Occurrences
BY DEF Row, Occurrences

LEMMA ClaimStep ==
  ASSUME TriggerInv, NEW t \in Tickers, NEW i \in DOMAIN occ,
         _claim_schedule_occurrence(t, i)
  PROVE  TriggerInv'
<1> DEFINE n == occ[i].attempts + 1
           r == Row(occ[i].source, occ[i].slot, "dispatching", n, n, FALSE)
<1>1. occ[i] \in Occurrences /\ i \in Nat /\ n \in Nat \ {0} /\ Shapes
  BY RowsHaveKeys DEF TriggerInv, Occurrences
<1>2. r \in Occurrences
  BY <1>1 DEF Row, Occurrences
<1>3. occ' \in Seq(Occurrences) /\ Len(occ') = Len(occ) /\ DOMAIN occ' = DOMAIN occ
      /\ FiredInv' /\ RowInv' /\ RunInv'
  <2>1. r.source = occ[i].source /\ r.slot = occ[i].slot /\ ~r.backoff
        /\ r.token # 0 /\ r.status = "dispatching"
    BY <1>1 DEF Row
  <2>2. occ' = [occ EXCEPT ![i] = r] /\ UNCHANGED <<last_fired, dlv, runs>>
    BY DEF _claim_schedule_occurrence
  <2> HIDE DEF r
  <2> QED
    BY <1>2, <2>1, <2>2, RowChange
<1>4. tick' \in [Tickers -> Ticks] /\ TickInv'
  <2>1. With(t, "lookup", i, n, FALSE) \in Ticks
    BY <1>1, TickRecords DEF Holding
  <2>2. tick[t].now <= clock
    BY DEF _claim_schedule_occurrence, TriggerInv, TickInv
  <2>3. tick' = [tick EXCEPT ![t] = With(t, "lookup", i, n, FALSE)] /\ UNCHANGED <<clock, runs>>
    BY DEF _claim_schedule_occurrence
  <2> HIDE DEF n
  <2> QED
    BY <1>1, <1>3, <2>1, <2>2, <2>3, TickMoves DEF With, Taken
<1> QED
  BY <1>3, <1>4 DEF _claim_schedule_occurrence, TriggerInv, Shapes, DeliveryInv, Visited

LEMMA FinishStep ==
  ASSUME TriggerInv, NEW t \in Tickers, _finish_schedule_occurrence(t)
  PROVE  TriggerInv'
<1> DEFINE i == tick[t].occ
           r == Finished(occ[i], t)
<1>1. /\ Shapes /\ i \in DOMAIN occ /\ tick[t].token # 0 /\ tick[t].now <= clock
      /\ tick[t].run => Taken(i)
  BY DEF _finish_schedule_occurrence, TriggerInv, TickInv, Holding
<1>2. occ[i] \in Occurrences /\ i \in Nat /\ tick[t] \in Ticks
  BY <1>1, RowsHaveKeys DEF Shapes
<1>3. /\ r \in Occurrences /\ r.source = occ[i].source /\ r.slot = occ[i].slot
      /\ r.backoff => r.status = "pending"
      /\ r.token = 0 /\ r.status # "dispatching"
      /\ r.status = "dispatched" => tick[t].run
  BY <1>2 DEF Finished, Row, Occurrences, Settled
<1>4. /\ occ' \in Seq(Occurrences) /\ Len(occ') = Len(occ) /\ DOMAIN occ' = DOMAIN occ
      /\ FiredInv' /\ RowInv' /\ RunInv'
  <2>1. CASE occ[i].token = tick[t].token
    <3>1. occ' = [occ EXCEPT ![i] = r] /\ UNCHANGED <<last_fired, dlv, runs>>
      BY <2>1 DEF _finish_schedule_occurrence
    <3> HIDE DEF r, i
    <3> QED
      BY <1>1, <1>3, <3>1, RowChange
  <2>2. CASE occ[i].token # tick[t].token
    <3>1. occ' = occ /\ UNCHANGED <<last_fired, dlv, runs>>
      BY <2>2 DEF _finish_schedule_occurrence
    <3> QED
      BY <3>1, <1>1 DEF TriggerInv, Shapes, FiredInv, RowInv, RunInv, Taken, WorkflowOf
  <2> QED
    BY <2>1, <2>2
<1>5. tick' \in [Tickers -> Ticks] /\ TickInv'
  <2>1. At("claim", tick[t].now) \in Ticks
    BY <1>1, <1>2, TickRecords DEF Ticks
  <2>2. tick' = [tick EXCEPT ![t] = At("claim", tick[t].now)] /\ UNCHANGED <<clock, runs>>
    BY DEF _finish_schedule_occurrence
  <2> QED
    BY <1>1, <1>4, <2>1, <2>2, TickMoves DEF At, Taken, Holding
<1> QED
  BY <1>4, <1>5 DEF _finish_schedule_occurrence, TriggerInv, Shapes, DeliveryInv, Visited

LEMMA ExpireStep ==
  ASSUME TriggerInv, NEW i \in DOMAIN occ, Expire(i)
  PROVE  TriggerInv'
<1> DEFINE r == [occ[i] EXCEPT !.expired = TRUE]
<1>1. Shapes /\ occ[i] \in Occurrences
  BY RowsHaveKeys DEF TriggerInv
<1>2. /\ r \in Occurrences /\ r.source = occ[i].source /\ r.slot = occ[i].slot
      /\ r.backoff = occ[i].backoff /\ r.token = occ[i].token /\ r.status = occ[i].status
  BY <1>1 DEF Occurrences
<1>3. /\ occ' = [occ EXCEPT ![i] = r]
      /\ UNCHANGED <<clock, scheduled, last_fired, tick, dlv, runs>>
  BY DEF Expire
<1>4. faults' \in 0..MaxFaults
  BY <1>1 DEF Expire, Shapes
<1>5. /\ occ' \in Seq(Occurrences) /\ Len(occ') = Len(occ) /\ DOMAIN occ' = DOMAIN occ
      /\ FiredInv' /\ RowInv' /\ RunInv'
  <2>1. /\ r.backoff => r.status = "pending"
        /\ r.token # 0 <=> r.status = "dispatching"
        /\ r.status = "dispatched" => Taken(i)
    BY <1>2 DEF TriggerInv, RowInv
  <2> HIDE DEF r
  <2> QED
    BY <1>2, <1>3, <2>1, RowChange
<1> QED
  BY <1>3, <1>4, <1>5
  DEF TriggerInv, Shapes, TickInv, DeliveryInv, Visited, Taken

LEMMA ElapseStep ==
  ASSUME TriggerInv, NEW i \in DOMAIN occ, Elapse(i)
  PROVE  TriggerInv'
<1> DEFINE r == [occ[i] EXCEPT !.backoff = FALSE]
<1>1. Shapes /\ occ[i] \in Occurrences
  BY RowsHaveKeys DEF TriggerInv
<1>2. /\ r \in Occurrences /\ r.source = occ[i].source /\ r.slot = occ[i].slot
      /\ ~r.backoff /\ r.token = occ[i].token /\ r.status = occ[i].status
  BY <1>1 DEF Occurrences
<1>3. /\ occ' = [occ EXCEPT ![i] = r]
      /\ UNCHANGED <<clock, scheduled, last_fired, tick, dlv, runs, faults>>
  BY DEF Elapse
<1>4. /\ occ' \in Seq(Occurrences) /\ Len(occ') = Len(occ) /\ DOMAIN occ' = DOMAIN occ
      /\ FiredInv' /\ RowInv' /\ RunInv'
  <2>1. /\ r.backoff => r.status = "pending"
        /\ r.token # 0 <=> r.status = "dispatching"
        /\ r.status = "dispatched" => Taken(i)
    BY <1>2 DEF TriggerInv, RowInv
  <2> HIDE DEF r
  <2> QED
    BY <1>2, <1>3, <2>1, RowChange
<1> QED
  BY <1>3, <1>4 DEF TriggerInv, Shapes, TickInv, DeliveryInv, Visited, Taken

(* Steps that leave the outbox and the runs as they are.                   *)
LEMMA QuietStep ==
  ASSUME TriggerInv, NEW t \in Tickers,
         BeginTick(t) \/ EndTick(t) \/ Crash(t) \/ _existing_occurrence_run(t)
  PROVE  TriggerInv'
<1>1. Shapes /\ tick[t] \in Ticks /\ clock \in 0..MaxClock
  BY TickRecords DEF TriggerInv, Shapes
<1>2. UNCHANGED <<clock, scheduled, last_fired, occ, dlv, runs>> /\ faults' \in 0..MaxFaults
  BY <1>1 DEF BeginTick, EndTick, Crash, _existing_occurrence_run, Shapes
<1>3. tick' \in [Tickers -> Ticks] /\ TickInv'
  <2>1. CASE BeginTick(t)
    <3>1. At("fire", clock) \in Ticks /\ tick' = [tick EXCEPT ![t] = At("fire", clock)]
      BY <1>1, <2>1, TickRecords DEF BeginTick
    <3>2. At("fire", clock).now <= clock /\ At("fire", clock).pc \notin Holding
      BY <1>1 DEF At, Holding
    <3> QED
      BY <1>2, <3>1, <3>2, TickMoves DEF Taken
  <2>2. CASE EndTick(t) \/ Crash(t)
    <3>1. IdleTick \in Ticks /\ tick' = [tick EXCEPT ![t] = IdleTick]
      BY <1>1, <2>2, TickRecords DEF EndTick, Crash, IdleTick
    <3> QED
      BY <1>2, <3>1, TickMoves DEF IdleTick, At, Holding, Taken
  <2>3. CASE _existing_occurrence_run(t)
    <3> DEFINE i == tick[t].occ
               pc == IF tick[t].pc = "lookup" /\ ~Taken(i) THEN "start" ELSE "finish"
               r == With(t, pc, i, tick[t].token, Taken(i))
    <3>1. i \in DOMAIN occ /\ tick[t].token # 0 /\ tick[t].now <= clock
      BY <2>3 DEF _existing_occurrence_run, TriggerInv, TickInv, Holding
    <3>2. r \in Ticks
      BY <1>1, TickRecords DEF Ticks, Holding, Taken
    <3>3. tick' = [tick EXCEPT ![t] = r]
      BY <2>3 DEF _existing_occurrence_run
    <3>4. r.occ = i /\ r.token = tick[t].token /\ r.now = tick[t].now /\ r.run = Taken(i)
      BY DEF With
    <3> HIDE DEF r, i
    <3> QED
      BY <1>2, <3>1, <3>2, <3>3, <3>4, TickMoves DEF Taken
  <2> QED
    BY <2>1, <2>2, <2>3
<1> QED
  BY <1>2, <1>3
  DEF TriggerInv, Shapes, FiredInv, RowInv, RunInv, DeliveryInv, Visited, Taken, WorkflowOf

(* A run is started under the key of a row.                                *)
LEMMA StartStep ==
  ASSUME TriggerInv, NEW t \in Tickers, StartOccurrence(t)
  PROVE  TriggerInv'
<1> SUFFICES ASSUME NEW i, i = tick[t].occ
             PROVE  TriggerInv'
  OBVIOUS
<1>1. /\ Shapes /\ i \in DOMAIN occ /\ tick[t].token # 0 /\ tick[t].now <= clock
      /\ tick[t] \in Ticks /\ i \in RunKeys /\ i \in 1..MaxOccurrences
  BY RowsHaveKeys, KeysApart, TickRecords DEF StartOccurrence, TriggerInv, TickInv, Holding
<1>2. /\ UNCHANGED <<clock, scheduled, last_fired, occ, dlv, faults>>
      /\ \E r \in {With(t, "finish", i, tick[t].token, TRUE),
                   With(t, "recheck", i, tick[t].token, FALSE)} :
            tick' = [tick EXCEPT ![t] = r] /\ (r.run => Taken(i)')
      /\ Commits(i, WorkflowOf(i), "production") \/ UNCHANGED runs
  <2>1. CASE /\ Commits(i, WorkflowOf(i), "production")
             /\ tick' = [tick EXCEPT ![t] = With(t, "finish", i, tick[t].token, TRUE)]
    <3>1. Taken(i)'
      BY <1>1, <2>1, CommitAdds, WorkflowOfRow DEF Modes
    <3> QED
      BY <2>1, <3>1 DEF StartOccurrence
  <2>2. CASE /\ Commits(i, WorkflowOf(i), "production") \/ Duplicate(i) \/ Refused
             /\ tick' = [tick EXCEPT ![t] = With(t, "recheck", i, tick[t].token, FALSE)]
    BY <2>2 DEF StartOccurrence, Duplicate, Refused, With
  <2> QED
    BY <2>1, <2>2 DEF StartOccurrence
<1>3. /\ runs' \in [RunKeys -> RunRows]
      /\ \A k \in RunKeys : Taken(k) => Taken(k)' /\ runs'[k] = runs[k]
      /\ \A k \in RunKeys \ {i} : runs'[k] = runs[k]
      /\ Taken(i)' => runs'[i].workflow = WorkflowOf(i)
  <2>1. CASE Commits(i, WorkflowOf(i), "production")
    BY <1>1, <2>1, CommitAdds, WorkflowOfRow DEF Modes, Taken
  <2>2. CASE UNCHANGED runs
    BY <1>1, <2>2 DEF TriggerInv, RunInv, Taken, Shapes
  <2> QED
    BY <1>2, <2>1, <2>2
<1>4. tick' \in [Tickers -> Ticks] /\ TickInv'
  <2>1. PICK r \in {With(t, "finish", i, tick[t].token, TRUE),
                    With(t, "recheck", i, tick[t].token, FALSE)} :
            tick' = [tick EXCEPT ![t] = r] /\ (r.run => Taken(i)')
    BY <1>2
  <2>2. r \in Ticks
    <3>1. i \in Nat /\ tick[t].token \in Nat
      BY <1>1 DEF Ticks
    <3>2. With(t, "finish", i, tick[t].token, TRUE) \in Ticks
      BY <1>1, <3>1, TickRecords DEF Holding
    <3>3. With(t, "recheck", i, tick[t].token, FALSE) \in Ticks
      BY <1>1, <3>1, TickRecords DEF Holding
    <3> QED
      BY <2>1, <3>2, <3>3
  <2>3. r.occ = i /\ r.token = tick[t].token /\ r.now = tick[t].now
    BY DEF With
  <2> QED
    BY <1>1, <1>2, <1>3, <2>1, <2>2, <2>3, TickMoves, ZenonT(60)
<1>5. FiredInv' /\ RowInv'
  BY <1>1, <1>2, <1>3, RowsHaveKeys, KeysApart DEF TriggerInv, FiredInv, RowInv
<1>6. RunInv'
  <2>1. \A j \in DOMAIN occ : WorkflowOf(j)' = WorkflowOf(j)
    BY <1>2 DEF WorkflowOf
  <2>2. \A j \in 1..MaxOccurrences :
           Taken(j)' => j \in DOMAIN occ' /\ runs'[j].workflow = WorkflowOf(j)'
    <3> SUFFICES ASSUME NEW j \in 1..MaxOccurrences, Taken(j)'
                 PROVE  j \in DOMAIN occ' /\ runs'[j].workflow = WorkflowOf(j)'
      OBVIOUS
    <3>1. CASE j = i
      BY <1>1, <1>2, <1>3, <2>1, <3>1
    <3>2. CASE j # i
      BY <1>2, <1>3, <2>1, <3>2, KeysApart DEF TriggerInv, RunInv, Taken
    <3> QED
      BY <3>1, <3>2
  <2>3. \A d \in Deliveries : dlv'[d].started # {} => Taken(KeyOf[d])'
    BY <1>2, <1>3, KeysApart DEF TriggerInv, RunInv
  <2> QED
    BY <1>2, <2>2, <2>3 DEF TriggerInv, RunInv
<1> QED
  BY <1>1, <1>2, <1>3, <1>4, <1>5, <1>6 DEF TriggerInv, Shapes, DeliveryInv, Visited

---------------------------------------------------------------------------
(* Firing                                                                  *)

(* The due schedules in some order, each of them once.                     *)
LEMMA InSomeOrder ==
  ASSUME NEW S, IsFiniteSet(S)
  PROVE  /\ Cardinality(S) \in Nat
         /\ SetToSeq(S) \in [1..Cardinality(S) -> S]
         /\ \A i, j \in 1..Cardinality(S) : SetToSeq(S)[i] = SetToSeq(S)[j] => i = j
<1>1. Cardinality(S) \in Nat /\ ExistsBijection(1..Cardinality(S), S)
  BY FS_CardinalityType
<1>2. \E f \in [1..Cardinality(S) -> S] : IsInjective(f)
  BY <1>1 DEF ExistsBijection, Bijection, Injection, Surjection, IsInjective
<1>3. SetToSeq(S) \in [1..Cardinality(S) -> S] /\ IsInjective(SetToSeq(S))
  BY <1>2 DEF SetToSeq
<1> QED
  BY <1>1, <1>3 DEF IsInjective

LEMMA FireStep ==
  ASSUME TriggerInv, NEW t \in Tickers, Fire(t)
  PROVE  TriggerInv' /\ \A i \in DOMAIN occ : occ'[i] = occ[i]
<1> DEFINE due == {s \in Eligible : last_fired[s] # Never /\ _is_due(last_fired[s], tick[t].now)}
           new == {s \in Eligible : last_fired[s] = Never}
<1> SUFFICES ASSUME NEW now, now = tick[t].now, NEW D, D = due, NEW N, N = new,
                    NEW added, added = SetToSeq(D), NEW n, n = Cardinality(D)
             PROVE  TriggerInv' /\ \A i \in DOMAIN occ : occ'[i] = occ[i]
  OBVIOUS
<1>1. /\ Shapes /\ now \in 0..MaxClock /\ now <= clock /\ tick[t] \in Ticks
      /\ D \subseteq Sources /\ \A s \in D : last_fired[s] < now
      /\ N \subseteq Sources /\ \A s \in N : last_fired[s] = Never
  <2>1. Shapes /\ tick[t] \in Ticks /\ now <= clock
    BY TickRecords DEF Fire, TriggerInv, TickInv
  <2>2. scheduled \subseteq Sources
    BY <2>1 DEF Shapes
  <2> QED
    BY <2>1, <2>2 DEF Ticks, Eligible, _is_due
<1>2. /\ n \in Nat /\ added \in [1..n -> D]
      /\ \A i, j \in 1..n : added[i] = added[j] => i = j
  <2>1. IsFiniteSet(D)
    <3>1. IsFiniteSet(Workflows)
      BY FS_Interval DEF Workflows
    <3>2. IsFiniteSet(Sources)
      BY <3>1, FS_Union DEF Sources
    <3> QED
      BY <1>1, <3>2, FS_Subset
  <2> QED
    BY <2>1, InSomeOrder
<1> DEFINE pending == [i \in 1..n |-> Row(added[i], now, "pending", 0, 0, FALSE)]
<1>3. /\ Len(occ) + n <= MaxOccurrences
      /\ last_fired' = [s \in Sources |-> IF s \in D \cup N THEN now ELSE last_fired[s]]
      /\ occ' = occ \o pending
      /\ tick' = [tick EXCEPT ![t] = At("claim", now)]
      /\ UNCHANGED <<clock, scheduled, dlv, runs, faults>>
  <2>1. DOMAIN added = 1..n /\ Len(added) = n
    BY <1>2
  <2> QED
    BY <2>1 DEF Fire
<1>4. /\ pending \in Seq(Occurrences) /\ Len(pending) = n
      /\ \A i \in 1..n : /\ pending[i].source = added[i] /\ pending[i].slot = now
                         /\ pending[i].status = "pending" /\ pending[i].token = 0
  <2>1. \A i \in 1..n : Row(added[i], now, "pending", 0, 0, FALSE) \in Occurrences
    BY <1>1, <1>2, RowRecords
  <2>2. pending \in [1..n -> Occurrences]
    BY <2>1
  <2>3. pending \in Seq(Occurrences) /\ Len(pending) = n
    <3> HIDE DEF pending
    <3> QED
      BY <1>2, <2>2
  <2>4. \A i \in 1..n : pending[i] = Row(added[i], now, "pending", 0, 0, FALSE)
    OBVIOUS
  <2> HIDE DEF pending
  <2> QED
    BY <2>3, <2>4 DEF Row
<1> HIDE DEF pending, due, new
<1>5. /\ occ' \in Seq(Occurrences) /\ DOMAIN occ' = 1..Len(occ) + n
      /\ Len(occ') = Len(occ) + n /\ DOMAIN occ = 1..Len(occ) /\ Len(occ) \in Nat
      /\ \A i \in DOMAIN occ : occ'[i] = occ[i] /\ i \in DOMAIN occ'
      /\ \A i \in DOMAIN occ' \ DOMAIN occ :
            i - Len(occ) \in 1..n /\ occ'[i] = pending[i - Len(occ)]
  <2>1. occ \in Seq(Occurrences) /\ pending \in Seq(Occurrences) /\ Len(pending) = n /\ n \in Nat
    BY <1>1, <1>2, <1>4 DEF Shapes
  <2>2. Len(occ) \in Nat /\ DOMAIN occ = 1..Len(occ)
    BY <2>1
  <2>3. /\ occ' \in Seq(Occurrences) /\ Len(occ') = Len(occ) + n
        /\ \A i \in 1..Len(occ) + n : occ'[i] = IF i <= Len(occ) THEN occ[i]
                                                ELSE pending[i - Len(occ)]
    <3>1. occ' = occ \o pending
      BY <1>3
    <3>2. /\ occ \o pending \in Seq(Occurrences)
          /\ Len(occ \o pending) = Len(occ) + Len(pending)
          /\ \A i \in 1..Len(occ) + Len(pending) :
                (occ \o pending)[i] = IF i <= Len(occ) THEN occ[i] ELSE pending[i - Len(occ)]
      BY <2>1, ConcatProperties, ZenonT(60)
    <3> QED
      BY <2>1, <3>1, <3>2, Zenon
  <2>4. DOMAIN occ' = 1..Len(occ')
    BY <2>3
  <2> QED
    BY <2>1, <2>2, <2>3, <2>4
<1>6. FiredInv'
  <2>1. \A i \in DOMAIN occ : occ[i].source \in Sources /\ occ[i].slot \in 0..MaxClock
    BY <1>1, RowsHaveKeys DEF Occurrences
  <2>2. \A i \in DOMAIN occ' : occ'[i].slot <= last_fired'[occ'[i].source]
    <3>1. \A i \in DOMAIN occ : occ'[i].slot <= last_fired'[occ'[i].source]
      <4> SUFFICES ASSUME NEW i \in DOMAIN occ
                   PROVE  occ[i].slot <= last_fired'[occ[i].source]
        BY <1>5
      <4>1. occ[i].slot <= last_fired[occ[i].source]
        BY DEF TriggerInv, FiredInv
      <4>2. last_fired[occ[i].source] \in {Never} \cup 0..MaxClock
        BY <1>1, <2>1 DEF Shapes
      <4>3. occ[i].source \in D \cup N => last_fired[occ[i].source] <= now
        BY <1>1, <4>2 DEF Never
      <4> QED
        BY <1>1, <1>3, <2>1, <4>1, <4>2, <4>3, SMTT(60) DEF Never
    <3>2. \A i \in DOMAIN occ' \ DOMAIN occ : occ'[i].slot <= last_fired'[occ'[i].source]
      BY <1>1, <1>2, <1>3, <1>4, <1>5, SMTT(60)
    <3> QED
      BY <3>1, <3>2
  <2>3. \A i, j \in DOMAIN occ' :
           occ'[i].source = occ'[j].source /\ occ'[i].slot = occ'[j].slot => i = j
    <3>1. \A i \in DOMAIN occ, j \in DOMAIN occ' \ DOMAIN occ :
             ~(occ'[i].source = occ'[j].source /\ occ'[i].slot = occ'[j].slot)
      <4> SUFFICES ASSUME NEW i \in DOMAIN occ, NEW j \in DOMAIN occ' \ DOMAIN occ,
                          occ'[i].source = occ'[j].source, occ'[i].slot = occ'[j].slot
                   PROVE  FALSE
        OBVIOUS
      <4>1. occ[i].source \in D /\ occ[i].slot = now
        BY <1>2, <1>4, <1>5
      <4>2. occ[i].slot <= last_fired[occ[i].source] /\ last_fired[occ[i].source] < now
        BY <1>1, <4>1 DEF TriggerInv, FiredInv
      <4>3. last_fired[occ[i].source] \in {Never} \cup 0..MaxClock
        BY <1>1, <2>1 DEF Shapes
      <4> QED
        BY <1>1, <4>1, <4>2, <4>3 DEF Never
    <3>2. \A i, j \in DOMAIN occ : occ'[i].source = occ'[j].source /\ occ'[i].slot = occ'[j].slot
             => i = j
      BY <1>5 DEF TriggerInv, FiredInv
    <3>3. \A i, j \in DOMAIN occ' \ DOMAIN occ : occ'[i].source = occ'[j].source => i = j
      <4> SUFFICES ASSUME NEW i \in DOMAIN occ' \ DOMAIN occ, NEW j \in DOMAIN occ' \ DOMAIN occ,
                          occ'[i].source = occ'[j].source
                   PROVE  i = j
        OBVIOUS
      <4>1. /\ i - Len(occ) \in 1..n /\ j - Len(occ) \in 1..n
            /\ added[i - Len(occ)] = added[j - Len(occ)]
        BY <1>4, <1>5
      <4>2. i - Len(occ) = j - Len(occ)
        BY <1>2, <4>1
      <4> QED
        BY <1>5, <4>2
    <3> QED
      BY <3>1, <3>2, <3>3
  <2> QED
    BY <2>2, <2>3 DEF FiredInv
<1>7. RowInv'
  <2> SUFFICES ASSUME NEW i \in DOMAIN occ'
               PROVE  /\ occ'[i].backoff => occ'[i].status = "pending"
                      /\ occ'[i].token # 0 <=> occ'[i].status = "dispatching"
                      /\ occ'[i].status = "dispatched" => Taken(i)'
    BY DEF RowInv
  <2>1. CASE i \in DOMAIN occ
    BY <1>3, <1>5, <2>1 DEF TriggerInv, RowInv, Taken
  <2>2. CASE i \notin DOMAIN occ
    BY <1>4, <1>5, <2>2
  <2> QED
    BY <2>1, <2>2
<1>8. RunInv'
  <2>1. \A i \in DOMAIN occ : WorkflowOf(i)' = WorkflowOf(i)
    BY <1>5 DEF WorkflowOf
  <2> QED
    BY <1>3, <1>5, <2>1 DEF TriggerInv, RunInv, Taken
<1>9. tick' \in [Tickers -> Ticks] /\ TickInv'
  <2>1. At("claim", now) \in Ticks
    BY <1>1, TickRecords
  <2>2. /\ tick' \in [Tickers -> Ticks]
        /\ \A u \in Tickers : tick'[u] = IF u = t THEN At("claim", now) ELSE tick[u]
    BY <1>1, <1>3, <2>1 DEF Shapes
  <2>3. At("claim", now).now <= clock /\ At("claim", now).pc \notin Holding
    BY <1>1 DEF At, Holding
  <2> QED
    BY <1>3, <1>5, <2>2, <2>3 DEF TriggerInv, TickInv, Taken
<1>10. last_fired' \in [Sources -> {Never} \cup 0..MaxClock] /\ Len(occ') <= MaxOccurrences
  BY <1>1, <1>3, <1>5 DEF Shapes
<1> QED
  BY <1>1, <1>3, <1>5, <1>6, <1>7, <1>8, <1>9, <1>10
  DEF TriggerInv, Shapes, DeliveryInv, Visited

---------------------------------------------------------------------------
(* Deliveries                                                              *)

LEMMA DeliveryRecords ==
  ASSUME Shapes, NEW d \in Deliveries,
         NEW pc \in {"incoming", "start", "error", "answered"}, NEW at \in Nat,
         NEW started \in SUBSET Workflows, NEW deduped \in SUBSET Workflows
  PROVE  Delivery(pc, at, started, deduped) \in DeliveryStates
BY DEF Delivery, DeliveryStates

(* A delivery that has started nothing new.                                *)
LEMMA DeliveryMoves ==
  ASSUME TriggerInv, NEW d \in Deliveries, NEW r \in DeliveryStates,
         dlv' = [dlv EXCEPT ![d] = r], r.started = dlv[d].started,
         r.pc = "start" => r.at \in Workflows,
         UNCHANGED <<clock, scheduled, last_fired, occ, tick, runs>>, faults' \in 0..MaxFaults
  PROVE  TriggerInv'
<1>1. /\ dlv' \in [Deliveries -> DeliveryStates]
      /\ \A e \in Deliveries : dlv'[e] = IF e = d THEN r ELSE dlv[e]
  BY DEF TriggerInv, Shapes
<1>2. \A e \in Deliveries : dlv'[e].started = dlv[e].started
  BY <1>1
<1>3. Shapes'
  BY <1>1 DEF TriggerInv, Shapes
<1>4. RunInv'
  BY <1>2 DEF TriggerInv, RunInv, Taken, WorkflowOf
<1>5. FiredInv' /\ RowInv' /\ TickInv'
  BY DEF TriggerInv, FiredInv, RowInv, TickInv, Taken
<1>6. DeliveryInv'
  BY <1>1 DEF TriggerInv, DeliveryInv, Visited
<1> QED
  BY <1>3, <1>4, <1>5, <1>6 DEF TriggerInv

LEMMA DeliveryQuiet ==
  ASSUME TriggerInv, NEW d \in Deliveries, CheckKey(d) \/ Answer(d) \/ Redeliver(d)
  PROVE  TriggerInv'
<1>1. /\ Shapes /\ dlv[d].at \in Nat /\ dlv[d].at + 1 \in Nat
      /\ dlv[d].started \in SUBSET Workflows /\ dlv[d].deduped \in SUBSET Workflows
  BY DEF TriggerInv, Shapes, DeliveryStates
<1>2. /\ UNCHANGED <<clock, scheduled, last_fired, occ, tick, runs>>
      /\ faults' \in 0..MaxFaults
  BY <1>1 DEF CheckKey, Answer, Redeliver, Shapes
<1>3. \E r \in DeliveryStates : /\ dlv' = [dlv EXCEPT ![d] = r] /\ r.started = dlv[d].started
                                /\ r.pc = "start" => r.at \in Workflows
  <2>1. CASE CheckKey(d) /\ SeenKey(d)
    <3> DEFINE r == Delivery("incoming", dlv[d].at + 1, dlv[d].started \cup {},
                             dlv[d].deduped \cup {dlv[d].at})
    <3>1. dlv[d].deduped \cup {dlv[d].at} \in SUBSET Workflows
          /\ dlv[d].started \cup {} = dlv[d].started
      BY <1>1, <2>1 DEF CheckKey, Visited
    <3>2. r \in DeliveryStates /\ r.started = dlv[d].started /\ r.pc # "start"
      BY <1>1, <3>1, DeliveryRecords DEF Delivery
    <3>3. dlv' = [dlv EXCEPT ![d] = r]
      BY <2>1 DEF CheckKey, Served
    <3> QED
      BY <3>2, <3>3
  <2>2. CASE CheckKey(d) /\ ~SeenKey(d)
    <3> DEFINE r == Delivery("start", dlv[d].at, dlv[d].started, dlv[d].deduped)
    <3>1. r \in DeliveryStates /\ r.started = dlv[d].started /\ r.at = dlv[d].at
      BY <1>1, DeliveryRecords DEF Delivery
    <3>2. dlv' = [dlv EXCEPT ![d] = r] /\ dlv[d].at \in Workflows
      BY <2>2 DEF CheckKey, Moved, Visited
    <3> QED
      BY <3>1, <3>2
  <2>3. CASE Answer(d)
    <3> DEFINE r == Delivery("answered", dlv[d].at, dlv[d].started, dlv[d].deduped)
    <3>1. r \in DeliveryStates /\ r.started = dlv[d].started /\ r.pc # "start"
      BY <1>1, DeliveryRecords DEF Delivery
    <3>2. dlv' = [dlv EXCEPT ![d] = r]
      BY <2>3 DEF Answer, Moved
    <3> QED
      BY <3>1, <3>2
  <2>4. CASE Redeliver(d)
    <3> DEFINE r == Delivery("incoming", 1, dlv[d].started, {})
    <3>1. r \in DeliveryStates /\ r.started = dlv[d].started /\ r.pc # "start"
      BY <1>1, DeliveryRecords DEF Delivery
    <3>2. dlv' = [dlv EXCEPT ![d] = r]
      BY <2>4 DEF Redeliver
    <3> QED
      BY <3>1, <3>2
  <2> QED
    BY <2>1, <2>2, <2>3, <2>4
<1> QED
  BY <1>2, <1>3, DeliveryMoves

(* A delivery starts a run under a key that had none.                      *)
LEMMA WebhookStep ==
  ASSUME TriggerInv, NEW d \in Deliveries, StartWebhook(d)
  PROVE  TriggerInv'
<1> SUFFICES ASSUME NEW w, w = dlv[d].at, NEW k, k = KeyOf[d],
                    NEW mode, mode = IF d \in Draft THEN "test" ELSE "production"
             PROVE  TriggerInv'
  OBVIOUS
<1>1. /\ Shapes /\ w \in Workflows /\ w \in Nat /\ w + 1 \in Nat /\ mode \in Modes
      /\ dlv[d].started \in SUBSET Workflows /\ dlv[d].deduped \in SUBSET Workflows
      /\ k \in RunKeys /\ k \notin 1..MaxOccurrences
      /\ UNCHANGED <<clock, scheduled, last_fired, occ, tick, faults>>
  BY KeysApart
  DEF StartWebhook, TriggerInv, Shapes, DeliveryStates, DeliveryInv, Visited, Modes, Workflows
<1>2. ASSUME NEW r \in DeliveryStates, r.started \subseteq dlv[d].started \cup {w}, r.pc # "start",
             Commits(k, w, mode), dlv' = [dlv EXCEPT ![d] = r]
      PROVE  TriggerInv'
  <2>1. /\ dlv' \in [Deliveries -> DeliveryStates]
        /\ \A e \in Deliveries : dlv'[e] = IF e = d THEN r ELSE dlv[e]
    BY <1>1, <1>2 DEF Shapes
  <2>2. /\ runs' \in [RunKeys -> RunRows] /\ ~Taken(k) /\ runs'[k] # NoRun
        /\ \A key \in RunKeys \ {k} : runs'[key] = runs[key]
    BY <1>1, <1>2, CommitAdds DEF Taken
  <2>3. Shapes'
    BY <1>1, <2>1, <2>2 DEF Shapes
  <2>4. \A i \in 1..MaxOccurrences : runs'[i] = runs[i]
    BY <1>1, <2>2, KeysApart
  <2>5. FiredInv' /\ RowInv' /\ TickInv'
    BY <1>1, <2>4, RowsHaveKeys DEF TriggerInv, FiredInv, RowInv, TickInv, Taken
  <2>6. RunInv'
    <3>1. \A e \in Deliveries : KeyOf[e] = k => dlv[e].started = {}
      BY <2>2 DEF TriggerInv, RunInv
    <3>2. \A e \in Deliveries : dlv'[e].started # {} => Taken(KeyOf[e])'
      BY <1>1, <1>2, <2>1, <2>2, KeysApart DEF TriggerInv, RunInv, Taken
    <3>3. \A e, g \in Deliveries :
             e # g /\ KeyOf[e] = KeyOf[g] => dlv'[e].started \cap dlv'[g].started = {}
      BY <1>1, <1>2, <2>1, <3>1 DEF TriggerInv, RunInv
    <3>4. \A i \in 1..MaxOccurrences :
             Taken(i)' => i \in DOMAIN occ' /\ runs'[i].workflow = WorkflowOf(i)'
      BY <1>1, <2>4 DEF TriggerInv, RunInv, Taken, WorkflowOf
    <3> QED
      BY <3>2, <3>3, <3>4 DEF RunInv
  <2>7. DeliveryInv'
    BY <1>2, <2>1 DEF TriggerInv, DeliveryInv, Visited
  <2> QED
    BY <2>3, <2>5, <2>6, <2>7 DEF TriggerInv
<1>3. CASE Duplicate(k) /\ Served(d, {}, {w})
  <2> DEFINE r == Delivery("incoming", w + 1, dlv[d].started \cup {}, dlv[d].deduped \cup {w})
  <2>1. r \in DeliveryStates /\ r.started = dlv[d].started /\ r.pc # "start"
    <3>1. dlv[d].started \cup {} = dlv[d].started
          /\ dlv[d].deduped \cup {w} \in SUBSET Workflows
      BY <1>1
    <3> QED
      BY <1>1, <3>1, DeliveryRecords DEF Delivery
  <2>2. dlv' = [dlv EXCEPT ![d] = r] /\ UNCHANGED runs
    BY <1>3 DEF Served, Duplicate
  <2>3. faults' \in 0..MaxFaults
    BY <1>1 DEF Shapes
  <2> HIDE DEF r
  <2> QED
    BY <1>1, <2>1, <2>2, <2>3, DeliveryMoves
<1>4. CASE Commits(k, w, mode) /\ Served(d, {w}, {})
  <2> DEFINE r == Delivery("incoming", w + 1, dlv[d].started \cup {w}, dlv[d].deduped \cup {})
  <2>1. r \in DeliveryStates /\ r.started = dlv[d].started \cup {w} /\ r.pc # "start"
    <3>1. dlv[d].started \cup {w} \in SUBSET Workflows
          /\ dlv[d].deduped \cup {} \in SUBSET Workflows
      BY <1>1
    <3> QED
      BY <1>1, <3>1, DeliveryRecords DEF Delivery
  <2>2. dlv' = [dlv EXCEPT ![d] = r]
    BY <1>4 DEF Served
  <2> HIDE DEF r
  <2> QED
    BY <1>2, <1>4, <2>1, <2>2
<1>5. CASE (Commits(k, w, mode) \/ Refused) /\ dlv' = Moved(d, "error")
  <2> DEFINE r == Delivery("error", w, dlv[d].started, dlv[d].deduped)
  <2>1. r \in DeliveryStates /\ r.started = dlv[d].started /\ r.pc # "start"
    BY <1>1, DeliveryRecords DEF Delivery
  <2>2. dlv' = [dlv EXCEPT ![d] = r] /\ faults' \in 0..MaxFaults
    BY <1>1, <1>5 DEF Moved, Shapes
  <2> HIDE DEF r
  <2>3. CASE Commits(k, w, mode)
    BY <1>2, <2>1, <2>2, <2>3
  <2>4. CASE Refused
    BY <1>1, <2>1, <2>2, <2>4, DeliveryMoves DEF Refused
  <2> QED
    BY <1>5, <2>3, <2>4
<1> QED
  BY <1>3, <1>4, <1>5 DEF StartWebhook

---------------------------------------------------------------------------
(* Induction                                                               *)

LEMMA TriggerStart == Init => TriggerInv
<1> SUFFICES ASSUME Init PROVE TriggerInv
  OBVIOUS
<1>1. PICK load \in Loads :
        /\ scheduled = load.scheduled
        /\ dlv = [d \in Deliveries |->
                     Delivery(IF d \in load.incoming THEN "incoming" ELSE "answered", 1, {}, {})]
  BY DEF Init
<1>2. dlv \in [Deliveries -> DeliveryStates]
      /\ \A d \in Deliveries : dlv[d].started = {} /\ dlv[d].pc # "start"
  BY <1>1 DEF Delivery, DeliveryStates
<1>3. tick \in [Tickers -> Ticks] /\ \A t \in Tickers : tick[t].pc = "idle"
  BY DEF Init, IdleTick, At, Ticks
<1>4. Shapes
  BY <1>1, <1>2, <1>3 DEF Init, Shapes, RunRows
<1>5. FiredInv /\ RowInv /\ DOMAIN occ = {}
  BY DEF Init, FiredInv, RowInv
<1>6. RunInv
  BY <1>2, KeysApart DEF Init, RunInv, Taken
<1>7. TickInv /\ DeliveryInv
  BY <1>2, <1>3 DEF TickInv, DeliveryInv, Holding
<1> QED
  BY <1>4, <1>5, <1>6, <1>7 DEF TriggerInv

LEMMA TriggerNext == TriggerInv /\ [Next]_vars => TriggerInv'
<1> SUFFICES ASSUME TriggerInv, [Next]_vars PROVE TriggerInv'
  OBVIOUS
<1>1. CASE UNCHANGED vars
  BY <1>1 DEF vars, TriggerInv, Shapes, FiredInv, RowInv, RunInv, TickInv, DeliveryInv,
              Visited, Taken, WorkflowOf
<1>2. CASE Advance
  <2>1. clock' \in 0..MaxClock /\ clock <= clock' /\ clock \in 0..MaxClock
    BY <1>2 DEF Advance, TriggerInv, Shapes
  <2>2. UNCHANGED <<scheduled, last_fired, occ, tick, dlv, runs, faults>>
    BY <1>2 DEF Advance
  <2>3. TickInv'
    <3>1. \A t \in Tickers : tick[t].now \in 0..MaxClock
      BY DEF TriggerInv, Shapes, Ticks
    <3> QED
      BY <2>1, <2>2, <3>1 DEF TriggerInv, TickInv, Taken
  <2> QED
    BY <2>1, <2>2, <2>3 DEF TriggerInv, Shapes, FiredInv, RowInv, RunInv, DeliveryInv,
                            Visited, Taken, WorkflowOf
<1>3. ASSUME NEW d \in Deployments, SetDeployment(d) PROVE TriggerInv'
  <2>1. scheduled' \subseteq Sources /\ faults' \in 0..MaxFaults
    BY <1>3 DEF SetDeployment, TriggerInv, Shapes, Sources
  <2>2. UNCHANGED <<clock, last_fired, occ, tick, dlv, runs>>
    BY <1>3 DEF SetDeployment
  <2> QED
    BY <2>1, <2>2 DEF TriggerInv, Shapes, FiredInv, RowInv, RunInv, TickInv, DeliveryInv,
                      Visited, Taken, WorkflowOf
<1>4. CASE \E t \in Tickers : TickStep(t) \/ Crash(t)
  BY <1>4, FireStep, ClaimStep, FinishStep, StartStep, QuietStep DEF TickStep
<1>5. CASE \E d \in Deliveries : DeliveryStep(d) \/ Redeliver(d)
  BY <1>5, DeliveryQuiet, WebhookStep DEF DeliveryStep
<1>6. CASE \E i \in DOMAIN occ : Expire(i) \/ Elapse(i)
  BY <1>6, ExpireStep, ElapseStep
<1> QED
  BY <1>1, <1>2, <1>3, <1>4, <1>5, <1>6 DEF Next

(* The inductive invariant of schedules and webhooks holds.                *)
THEOREM TriggerInvariant == Spec => []TriggerInv
BY TriggerStart, TriggerNext, PTL DEF Spec

LEMMA InvariantTypes == TriggerInv => TypeOK
BY RowsHaveKeys DEF TriggerInv, Shapes, TypeOK, RowInv, TickInv, Occurrences, DeliveryStates

LEMMA InvariantFires == TriggerInv => FiresOnce /\ DispatchedRan
BY RowsHaveKeys DEF TriggerInv, FiredInv, RunInv, RowInv, FiresOnce, DispatchedRan

(* Every row, ticker and delivery keeps its type.                          *)
THEOREM TypeCorrect == Spec => []TypeOK
BY TriggerInvariant, InvariantTypes, PTL

(* A slot fires once whatever number of tickers overlap, and an event      *)
(* starts one run of a workflow however often it is delivered.             *)
THEOREM FiresOnlyOnce == Spec => []FiresOnce
BY TriggerInvariant, InvariantFires, PTL

(* A dispatched occurrence has its run.                                    *)
THEOREM DispatchedHasRun == Spec => []DispatchedRan
BY TriggerInvariant, InvariantFires, PTL

LEMMA SettledStays ==
  TriggerInv /\ [Next]_vars => \A i \in DOMAIN occ : occ[i].status \in Settled => occ'[i] = occ[i]
<1> SUFFICES ASSUME TriggerInv, [Next]_vars, NEW i \in DOMAIN occ, occ[i].status \in Settled
             PROVE  occ'[i] = occ[i]
  OBVIOUS
<1>1. Shapes /\ occ[i].token = 0 /\ ~Dispatchable(i) /\ ~occ[i].backoff
      /\ occ[i].status # "dispatching"
  BY DEF TriggerInv, RowInv, Settled, Dispatchable
<1>2. ASSUME NEW t \in Tickers, Fire(t) PROVE occ'[i] = occ[i]
  BY <1>2, FireStep
<1>3. ASSUME NEW t \in Tickers, _finish_schedule_occurrence(t) PROVE occ'[i] = occ[i]
  <2>1. tick[t].token # 0 /\ tick[t].occ \in DOMAIN occ
    BY <1>3 DEF _finish_schedule_occurrence, TriggerInv, TickInv, Holding
  <2> QED
    BY <1>1, <1>3, <2>1 DEF _finish_schedule_occurrence, Shapes
<1>4. ASSUME NEW t \in Tickers, NEW j \in DOMAIN occ, _claim_schedule_occurrence(t, j)
      PROVE  occ'[i] = occ[i]
  BY <1>1, <1>4 DEF _claim_schedule_occurrence, Shapes
<1>5. ASSUME NEW j \in DOMAIN occ, Expire(j) \/ Elapse(j) PROVE occ'[i] = occ[i]
  BY <1>1, <1>5 DEF Expire, Elapse, Shapes
<1>6. CASE occ' = occ
  BY <1>6
<1> QED
  BY <1>2, <1>3, <1>4, <1>5, <1>6
  DEF Next, vars, TickStep, DeliveryStep, BeginTick, EndTick, _existing_occurrence_run,
      StartOccurrence, Crash, CheckKey, StartWebhook, Answer, Redeliver, SetDeployment, Advance

(* Nothing changes an occurrence that is dispatched or given up.           *)
THEOREM SettledForGood == Spec => SettledIsFinal
BY TriggerInvariant, SettledStays, PTL DEF Spec, SettledIsFinal

===========================================================================

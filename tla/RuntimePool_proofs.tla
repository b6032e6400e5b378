------------------------- MODULE RuntimePool_proofs -------------------------
(***************************************************************************)
(* What the runtime pool guarantees for every number of environments,      *)
(* runs, processes and calls, every size and every ceiling: PoolInv is      *)
(* inductive, and with it no slot is lost, no pool outgrows its maximum, no *)
(* worker serves two runs and no stale worker waits for one.                *)
(***************************************************************************)
EXTENDS RuntimePool, TLAPS, FiniteSetTheorems, SequenceTheorems

USE EnvOfAssumption, SizesAssumption, GatesAssumption, CallsAssumption, NamesAssumption,
    FiniteAssumption

----------------------------------------------------------------------------
(* Types                                                                   *)

(* The gates' counters stay natural numbers.                               *)
LEMMA LessIsNat ==
  ASSUME NEW n \in Nat, NEW k \in Nat
  PROVE  Less(n, k) \in Nat
BY DEF Less

LEMMA AmountIsNat ==
  ASSUME NEW e \in Envs
  PROVE  Amount(e) \in Nat
BY DEF Amount

(* The processes of an idle list, and those above an index.                *)
LEMMA IdleTypes ==
  ASSUME TypeOK, NEW e \in Envs
  PROVE  /\ pool[e].idle \in Seq(Procs)
         /\ DOMAIN pool[e].idle = 1..Len(pool[e].idle)
         /\ Len(pool[e].idle) \in Nat
         /\ \A i \in 1..Len(pool[e].idle) : pool[e].idle[i] \in Procs
BY DEF TypeOK, Pools, Dispatches

(* Leaving the gates keeps their types.                                    *)
LEMMA LeaveTypes ==
  ASSUME TypeOK, NEW r \in Runs, NEW pc \in RunStates, LeaveGates(r, pc)
  PROVE  /\ run' \in [Runs -> Dispatches]
         /\ gate' \in [capacity : Nat \ {0}, inUse : Nat]
         /\ committed' \in Nat
BY LessIsNat, AmountIsNat DEF TypeOK, LeaveGates, Dispatches

LEMMA BlankType == Blank \in Processes
BY DEF Blank, ProcStates, Processes

LEMMA ProcTypes ==
  ASSUME TypeOK, NEW p \in Procs
  PROVE  /\ proc[p] \in Processes
         /\ Discarded(p) \in Processes
         /\ Asked(p) \in Processes
BY BlankType DEF TypeOK, Discarded, Asked, InState, ProcStates, Processes

(* A slot is taken and the idle list is cut.                               *)
LEMMA TakeTypes ==
  ASSUME TypeOK, NEW e \in Envs, NEW k \in 0..Len(pool[e].idle), NEW gone,
         pool[e].free > 0, TakeSlot(e, k, gone)
  PROVE  pool' \in [Envs -> Pools]
<1>1. SubSeq(pool[e].idle, 1, k) \in Seq(Procs)
  BY IdleTypes
<1>2. pool[e] \in Pools /\ pool[e].free \in Nat
  BY DEF TypeOK, Pools
<1> QED BY <1>1, <1>2 DEF TypeOK, TakeSlot, Changed, Pools

----------------------------------------------------------------------------
(* Counting                                                                *)

(* A count follows the one element that changes.                           *)
LEMMA CountStep ==
  ASSUME NEW S, NEW T, NEW u, IsFiniteSet(S),
         \A v : v # u => (v \in T <=> v \in S)
  PROVE  /\ IsFiniteSet(T)
         /\ Cardinality(S) \in Nat
         /\ Cardinality(T) = IF u \in S /\ u \notin T THEN Cardinality(S) - 1
                             ELSE IF u \notin S /\ u \in T THEN Cardinality(S) + 1
                             ELSE Cardinality(S)
         /\ u \in S => Cardinality(S) > 0
<1>1. Cardinality(S) \in Nat
  BY FS_CardinalityType
<1>2. CASE u \in S /\ u \notin T
  <2>1. T = S \ {u}
    BY <1>2
  <2>2. IsFiniteSet(T) /\ Cardinality(T) = Cardinality(S) - 1 /\ Cardinality(T) \in Nat
    BY <1>2, <2>1, FS_RemoveElement, FS_CardinalityType
  <2> QED BY <1>1, <1>2, <2>2
<1>3. CASE u \notin S /\ u \in T
  <2>1. T = S \cup {u}
    BY <1>3
  <2> QED BY <1>1, <1>3, <2>1, FS_AddElement
<1>4. CASE u \in S <=> u \in T
  <2>1. T = S
    BY <1>4
  <2>2. u \in S => S # {}
    OBVIOUS
  <2> QED BY <1>1, <1>4, <2>1, <2>2, FS_EmptySet
<1> QED BY <1>2, <1>3, <1>4

(* Moving one run changes the count of those under the ceiling by at most  *)
(* that run.                                                               *)
LEMMA AdmittedCount ==
  ASSUME NEW r \in Runs, \A s \in Runs \ {r} : run'[s] = run[s]
  PROVE  /\ Cardinality(AdmittedRuns) \in Nat
         /\ Cardinality(AdmittedRuns') =
              IF run[r].pc \in Admitted /\ run'[r].pc \notin Admitted
              THEN Cardinality(AdmittedRuns) - 1
              ELSE IF run[r].pc \notin Admitted /\ run'[r].pc \in Admitted
              THEN Cardinality(AdmittedRuns) + 1
              ELSE Cardinality(AdmittedRuns)
         /\ run[r].pc \in Admitted => Cardinality(AdmittedRuns) > 0
<1>1. IsFiniteSet(AdmittedRuns)
  BY FS_Subset DEF AdmittedRuns
<1>2. \A v : v # r => (v \in AdmittedRuns' <=> v \in AdmittedRuns)
  BY DEF AdmittedRuns
<1>3. /\ r \in AdmittedRuns <=> run[r].pc \in Admitted
      /\ r \in AdmittedRuns' <=> run'[r].pc \in Admitted
  BY DEF AdmittedRuns
<1> HIDE DEF AdmittedRuns
<1> QED BY <1>1, <1>2, <1>3, CountStep

(* The same for the holders of an environment's worker slots.              *)
LEMMA HoldersCount ==
  ASSUME NEW r \in Runs, \A s \in Runs \ {r} : run'[s] = run[s], NEW e \in Envs
  PROVE  /\ Cardinality(HoldersOf(e)) \in Nat
         /\ Cardinality(HoldersOf(e)') =
              IF EnvOf[r] = e /\ run[r].pc \in Holding /\ run'[r].pc \notin Holding
              THEN Cardinality(HoldersOf(e)) - 1
              ELSE IF EnvOf[r] = e /\ run[r].pc \notin Holding /\ run'[r].pc \in Holding
              THEN Cardinality(HoldersOf(e)) + 1
              ELSE Cardinality(HoldersOf(e))
<1>1. IsFiniteSet(HoldersOf(e))
  BY FS_Subset DEF HoldersOf
<1>2. \A v : v # r => (v \in HoldersOf(e)' <=> v \in HoldersOf(e))
  BY DEF HoldersOf
<1>3. /\ r \in HoldersOf(e) <=> EnvOf[r] = e /\ run[r].pc \in Holding
      /\ r \in HoldersOf(e)' <=> EnvOf[r] = e /\ run'[r].pc \in Holding
  BY DEF HoldersOf
<1> HIDE DEF HoldersOf
<1> QED BY <1>1, <1>2, <1>3, CountStep

(* And for the calls with a permit.                                        *)
LEMMA PermittedCount ==
  ASSUME NEW c \in Calls, \A d \in Calls \ {c} : call'[d] = call[d],
         call[c].permit \in BOOLEAN, call'[c].permit \in BOOLEAN
  PROVE  /\ Cardinality(PermittedCalls) \in Nat
         /\ Cardinality(PermittedCalls') =
              IF call[c].permit /\ ~call'[c].permit THEN Cardinality(PermittedCalls) - 1
              ELSE IF ~call[c].permit /\ call'[c].permit THEN Cardinality(PermittedCalls) + 1
              ELSE Cardinality(PermittedCalls)
<1>1. IsFiniteSet(PermittedCalls)
  BY FS_Subset DEF PermittedCalls
<1>2. \A v : v # c => (v \in PermittedCalls' <=> v \in PermittedCalls)
  BY DEF PermittedCalls
<1>3. /\ c \in PermittedCalls <=> call[c].permit
      /\ c \in PermittedCalls' <=> call'[c].permit
  BY DEF PermittedCalls
<1> HIDE DEF PermittedCalls
<1> QED BY <1>1, <1>2, <1>3, CountStep

----------------------------------------------------------------------------
(* Slots                                                                   *)

(* Slots are conserved by a step that moves one run and the counters with  *)
(* it.                                                                     *)
LEMMA SlotsStep ==
  ASSUME PoolInv, NEW r \in Runs, \A s \in Runs \ {r} : run'[s] = run[s],
         UNCHANGED <<call, permits>>,
         gate'.inUse = IF run[r].pc \in Admitted /\ run'[r].pc \notin Admitted
                       THEN Less(gate.inUse, 1)
                       ELSE IF run[r].pc \notin Admitted /\ run'[r].pc \in Admitted
                       THEN gate.inUse + 1 ELSE gate.inUse,
         \A e \in Envs : pool'[e].open =>
           /\ pool[e].open
           /\ pool'[e].free =
                IF EnvOf[r] = e /\ run[r].pc \in Holding /\ run'[r].pc \notin Holding
                THEN pool[e].free + 1
                ELSE IF EnvOf[r] = e /\ run[r].pc \notin Holding /\ run'[r].pc \in Holding
                THEN pool[e].free - 1 ELSE pool[e].free
  PROVE  SlotsConserved'
<1>0. SlotsConserved /\ TypeOK
  BY DEF PoolInv
<1>1. ASSUME NEW e \in Envs, pool'[e].open
      PROVE  pool'[e].free + Cardinality(HoldersOf(e)') = MaxSize[e]
  <2>1. pool[e].open /\ pool[e].free \in Nat /\ MaxSize[e] \in Nat
    BY <1>0, <1>1 DEF TypeOK, Pools
  <2>2. pool[e].free + Cardinality(HoldersOf(e)) = MaxSize[e]
    BY <1>0, <2>1 DEF SlotsConserved
  <2> QED BY <1>1, <2>1, <2>2, HoldersCount, SMTT(60)
<1>2. gate'.inUse = Cardinality(AdmittedRuns')
  <2>1. gate.inUse = Cardinality(AdmittedRuns)
    BY <1>0 DEF SlotsConserved
  <2> QED BY <2>1, AdmittedCount DEF Less
<1>3. permits' + Cardinality(PermittedCalls') = SubCap
  <2>1. PermittedCalls' = PermittedCalls
    BY DEF PermittedCalls
  <2> QED BY <1>0, <2>1 DEF SlotsConserved
<1> QED BY <1>1, <1>2, <1>3 DEF SlotsConserved

(* A step that moves no run, call or free slot.                            *)
LEMMA SlotsStay ==
  ASSUME PoolInv, UNCHANGED <<run, call, permits>>, gate'.inUse = gate.inUse,
         \A e \in Envs : pool'[e].open => pool[e].open /\ pool'[e].free = pool[e].free
  PROVE  SlotsConserved'
<1>1. /\ \A e \in Envs : HoldersOf(e)' = HoldersOf(e)
      /\ AdmittedRuns' = AdmittedRuns /\ PermittedCalls' = PermittedCalls
  BY DEF HoldersOf, AdmittedRuns, PermittedCalls
<1> QED BY <1>1 DEF PoolInv, SlotsConserved

(* A step of a call.                                                       *)
LEMMA SlotsOfCall ==
  ASSUME PoolInv, NEW c \in Calls, \A d \in Calls \ {c} : call'[d] = call[d],
         call'[c].permit \in BOOLEAN, UNCHANGED <<pool, run, gate>>,
         permits' = IF call[c].permit /\ ~call'[c].permit THEN permits + 1
                    ELSE IF ~call[c].permit /\ call'[c].permit THEN permits - 1 ELSE permits
  PROVE  SlotsConserved'
<1>0. /\ permits \in Nat /\ call[c].permit \in BOOLEAN
      /\ permits + Cardinality(PermittedCalls) = SubCap
  BY DEF PoolInv, TypeOK, SlotsConserved
<1>1. /\ \A e \in Envs : HoldersOf(e)' = HoldersOf(e)
      /\ AdmittedRuns' = AdmittedRuns
  BY DEF HoldersOf, AdmittedRuns
<1>2. permits' + Cardinality(PermittedCalls') = SubCap
  BY <1>0, PermittedCount
<1> QED BY <1>1, <1>2 DEF PoolInv, SlotsConserved

----------------------------------------------------------------------------
(* Owners                                                                  *)

WithProcess == {"starting", "executing", "closing"}

(* What the invariant says besides the types and the counts.               *)
Ownership ==
  PoolBounded /\ NoSharedWorker /\ IdleIsCurrent /\ HeldWorkers /\ EnteredIsOwned
  /\ UnopenedIsUnused

(* What a dispatch that is under way knows of its pool and its worker.     *)
LEMMA RunFacts ==
  ASSUME PoolInv, NEW r \in Runs, run[r].pc \notin {"idle", "ended"}
  PROVE  /\ EnvOf[r] \in Envs
         /\ pool[EnvOf[r]] \in Pools
         /\ pool[EnvOf[r]].open
         /\ run[r].pc \in WithProcess => run[r].proc \in Procs
         /\ run[r].pc \notin WithProcess => run[r].proc = NoProc
<1>1. EnvOf[r] \in Envs /\ pool[EnvOf[r]] \in Pools /\ run[r].proc \in Procs \cup {NoProc}
  BY DEF PoolInv, TypeOK, Dispatches
<1>2. pool[EnvOf[r]].open
  BY <1>1 DEF PoolInv, UnopenedIsUnused, At
<1> QED BY <1>1, <1>2 DEF PoolInv, HeldWorkers, WithProcess

(* What holds of the process of a dispatch, of one that is entered in a    *)
(* pool and of one that waits.                                             *)
LEMMA HeldFacts ==
  ASSUME PoolInv, NEW s \in Runs
  PROVE  /\ run[s].proc \in Procs <=> run[s].pc \in {"starting", "executing", "closing"}
         /\ run[s].pc = "starting" => proc[run[s].proc].state = "starting"
         /\ run[s].pc \in {"executing", "closing"} =>
              /\ proc[run[s].proc].state \in {"live", "closing", "gone"}
              /\ proc[run[s].proc].generation <= pool[EnvOf[s]].generation
         /\ (run[s].pc = "executing"
             /\ proc[run[s].proc].generation = pool[EnvOf[s]].generation) =>
              run[s].proc \in pool[EnvOf[s]].all /\ proc[run[s].proc].state # "closing"
         /\ \A t \in Runs : run[s].proc = run[t].proc => s = t \/ run[s].proc = NoProc
<1>1. HeldWorkers /\ NoSharedWorker
  BY DEF PoolInv
<1> QED BY <1>1 DEF HeldWorkers, NoSharedWorker, At

LEMMA OwnedFacts ==
  ASSUME PoolInv, NEW e \in Envs, NEW p \in pool[e].all
  PROVE  \/ \E i \in DOMAIN pool[e].idle : pool[e].idle[i] = p
         \/ \E r \in Runs : /\ EnvOf[r] = e /\ run[r].proc = p
                            /\ run[r].pc \in {"executing", "closing"}
<1>1. EnteredIsOwned
  BY DEF PoolInv
<1> QED BY <1>1 DEF EnteredIsOwned

LEMMA IdleFacts ==
  ASSUME PoolInv, NEW e \in Envs, NEW i \in DOMAIN pool[e].idle
  PROVE  /\ pool[e].idle[i] \in Procs
         /\ pool[e].idle[i] \in pool[e].all
         /\ proc[pool[e].idle[i]].state \in {"live", "gone"}
         /\ proc[pool[e].idle[i]].generation = pool[e].generation
         /\ \A s \in Runs : run[s].proc # pool[e].idle[i]
         /\ \A f \in Envs : \A j \in DOMAIN pool[f].idle :
              pool[e].idle[i] = pool[f].idle[j] => e = f /\ i = j
<1>1. TypeOK /\ IdleIsCurrent /\ NoSharedWorker
  BY DEF PoolInv
<1>2. pool[e].idle[i] \in Procs
  BY <1>1, IdleTypes
<1> QED BY <1>1, <1>2 DEF IdleIsCurrent, NoSharedWorker, Held

(* A step that changes no idle list, no worker and nobody's process.       *)
LEMMA QuietStep ==
  ASSUME PoolInv, UNCHANGED proc,
         \A e \in Envs : /\ pool'[e].idle = pool[e].idle /\ pool'[e].all = pool[e].all
                         /\ pool'[e].generation = pool[e].generation
                         /\ pool'[e].free = pool[e].free
                         /\ pool'[e].open <=> pool[e].open
                         /\ ~pool[e].open => pool'[e] = pool[e],
         \A s \in Runs : \/ run'[s] = run[s]
                         \/ /\ run'[s].proc = NoProc /\ run[s].proc = NoProc
                            /\ run'[s].pc \notin WithProcess
                            /\ pool[EnvOf[s]].open
  PROVE  Ownership'
<1>1. \A s \in Runs : run'[s].proc = run[s].proc
  OBVIOUS
<1>2. PoolBounded'
  BY DEF PoolInv, PoolBounded
<1>3. NoSharedWorker'
  BY <1>1 DEF PoolInv, NoSharedWorker, Held
<1>4. IdleIsCurrent'
  BY DEF PoolInv, IdleIsCurrent
<1>5. HeldWorkers'
  BY <1>1 DEF PoolInv, HeldWorkers, At, WithProcess
<1>6. EnteredIsOwned'
  <2> SUFFICES ASSUME NEW e \in Envs, NEW p \in pool[e].all
               PROVE  \/ \E i \in DOMAIN pool[e].idle : pool[e].idle[i] = p
                      \/ \E r \in Runs : EnvOf[r] = e /\ run'[r].proc = p
                                         /\ run'[r].pc \in {"executing", "closing"}
    BY DEF EnteredIsOwned
  <2>1. CASE \E i \in DOMAIN pool[e].idle : pool[e].idle[i] = p
    BY <2>1
  <2>2. ASSUME NEW r \in Runs, EnvOf[r] = e, run[r].proc = p,
               run[r].pc \in {"executing", "closing"}
        PROVE  run'[r] = run[r]
    BY <2>2 DEF PoolInv, HeldWorkers
  <2> QED BY <2>1, <2>2 DEF PoolInv, EnteredIsOwned
<1>7. UnopenedIsUnused'
  BY DEF PoolInv, UnopenedIsUnused, At
<1> QED BY <1>2, <1>3, <1>4, <1>5, <1>6, <1>7 DEF Ownership

----------------------------------------------------------------------------
(* The gates                                                               *)

LEMMA PoolInvParts == TypeOK' /\ SlotsConserved' /\ Ownership' /\ PermitsAreUsed' => PoolInv'
BY DEF PoolInv, Ownership

LEMMA PermitsStay ==
  ASSUME PoolInv, UNCHANGED call
  PROVE  PermitsAreUsed'
BY DEF PoolInv, PermitsAreUsed

(* A dispatch that waits for the gates changes places, is parked or is     *)
(* cancelled.                                                              *)
LEMMA WaitingStep ==
  ASSUME PoolInv, NEW r \in Runs,
         Reserve(r) \/ Admit(r) \/ CancelWaiting(r) \/ FindPaused(r) \/ Requeue(r)
  PROVE  PoolInv'
<1>0. EnvOf[r] \in Envs /\ run[r] \in Dispatches /\ TypeOK
  BY DEF PoolInv, TypeOK
<1>1. /\ run[r].pc \notin {"idle", "ended"} /\ run[r].pc \notin WithProcess
      /\ UNCHANGED <<pool, proc, call, permits>>
  BY DEF Reserve, Admit, CancelWaiting, FindPaused, Requeue, CanAcquire, At, WithProcess
<1>2. run[r].proc = NoProc /\ pool[EnvOf[r]].open
  BY <1>1, RunFacts
<1>3. PICK pc \in RunStates : /\ run' = [run EXCEPT ![r] = [pc |-> pc, proc |-> NoProc]]
                              /\ pc \notin WithProcess
  <2>1. \A pc \in RunStates : To(r, pc) => run' = [run EXCEPT ![r] = [pc |-> pc, proc |-> NoProc]]
    BY <1>0, <1>2 DEF TypeOK, To, Dispatches
  <2> QED BY <2>1 DEF Reserve, Admit, CancelWaiting, FindPaused, Requeue, LeaveGates,
                      WithProcess, RunStates
<1>4. /\ run' \in [Runs -> Dispatches] /\ run'[r] = [pc |-> pc, proc |-> NoProc]
      /\ \A s \in Runs \ {r} : run'[s] = run[s]
  BY <1>0, <1>3 DEF TypeOK, Dispatches
<1>5. gate' \in [capacity : Nat \ {0}, inUse : Nat] /\ committed' \in Nat
  BY <1>0, LessIsNat, AmountIsNat, SMTT(60)
     DEF Reserve, Admit, CancelWaiting, FindPaused, Requeue, LeaveGates, TypeOK
<1>6. TypeOK'
  BY <1>0, <1>1, <1>4, <1>5 DEF TypeOK
<1>7. Ownership'
  BY <1>1, <1>2, <1>3, <1>4, QuietStep
<1>8. SlotsConserved'
  <2>1. /\ gate'.inUse = IF run[r].pc \in Admitted /\ pc \notin Admitted
                         THEN Less(gate.inUse, 1)
                         ELSE IF run[r].pc \notin Admitted /\ pc \in Admitted
                         THEN gate.inUse + 1 ELSE gate.inUse
        /\ run[r].pc \notin Holding /\ pc \notin Holding
    BY <1>0, <1>3, <1>4
       DEF Reserve, Admit, CancelWaiting, FindPaused, Requeue, CanAcquire, LeaveGates, To, At,
           Admitted, Reserved, Holding, TypeOK
  <2> QED BY <1>1, <1>4, <2>1, SlotsStep
<1> QED BY <1>1, <1>6, <1>7, <1>8, PermitsStay, PoolInvParts

(* The first dispatch of an environment creates its pool.                  *)
LEMMA DispatchStep ==
  ASSUME PoolInv, NEW r \in Runs, Dispatch(r)
  PROVE  PoolInv'
<1> DEFINE e == EnvOf[r]
<1>0. e \in Envs /\ run[r] \in Dispatches /\ TypeOK /\ At(r, "idle")
  BY DEF PoolInv, TypeOK, Dispatch
<1>1. run[r].pc = "idle" /\ run[r].proc = NoProc
  BY <1>0 DEF PoolInv, HeldWorkers, At, Dispatches
<1>2. /\ run' = [run EXCEPT ![r] = [pc |-> "memory", proc |-> NoProc]]
      /\ UNCHANGED <<proc, gate, committed, call, permits>>
  BY <1>0, <1>1 DEF Dispatch, To, TypeOK, Dispatches
<1>3. /\ run' \in [Runs -> Dispatches] /\ run'[r] = [pc |-> "memory", proc |-> NoProc]
      /\ \A s \in Runs \ {r} : run'[s] = run[s]
  BY <1>0, <1>2 DEF TypeOK, Dispatches, RunStates
<1>4. CASE pool[e].open
  <2>1. pool' = pool
    BY <1>4 DEF Dispatch
  <2>2. Ownership'
    BY <1>1, <1>2, <1>3, <1>4, <2>1, QuietStep DEF WithProcess
  <2>3. SlotsConserved'
    BY <1>1, <1>2, <1>3, <2>1, SlotsStep DEF Admitted, Reserved, Holding
  <2>4. TypeOK'
    BY <1>0, <1>2, <1>3, <2>1 DEF TypeOK
  <2> QED BY <1>2, <2>2, <2>3, <2>4, PermitsStay, PoolInvParts
<1>5. CASE ~pool[e].open
  <2>1. /\ pool[e] = ClosedPool /\ \A s \in Runs : EnvOf[s] = e => run[s].pc \in {"idle", "ended"}
    BY <1>0, <1>5 DEF PoolInv, UnopenedIsUnused, At
  <2>2. pool' = [pool EXCEPT ![e] = [open |-> TRUE, free |-> MaxSize[e], idle |-> <<>>,
                                     all |-> {}, generation |-> 0, paused |-> FALSE]]
    BY <1>5 DEF Dispatch
  <2>3. pool' \in [Envs -> Pools] /\ <<>> \in Seq(Procs) /\ DOMAIN pool'[e].idle = {}
    BY <1>0, <2>2 DEF TypeOK, Pools
  <2>4. /\ pool'[e].idle = pool[e].idle /\ pool'[e].all = pool[e].all
        /\ pool'[e].generation = pool[e].generation /\ pool'[e].open
        /\ pool'[e].free = MaxSize[e] /\ pool[e].idle = <<>>
        /\ \A f \in Envs \ {e} : pool'[f] = pool[f]
    BY <1>0, <2>1, <2>2 DEF TypeOK, ClosedPool
  <2>5. TypeOK'
    BY <1>0, <1>2, <1>3, <2>3 DEF TypeOK
  <2>6. SlotsConserved'
    <3>1. ASSUME NEW f \in Envs, pool'[f].open
          PROVE  pool'[f].free + Cardinality(HoldersOf(f)') = MaxSize[f]
      <4>1. CASE f = e
        <5>1. HoldersOf(f)' = {}
          BY <1>3, <2>1, <4>1 DEF HoldersOf, Holding, Admitted, Reserved
        <5> QED BY <2>4, <4>1, <5>1, FS_EmptySet
      <4>2. CASE f # e
        <5>1. HoldersOf(f)' = HoldersOf(f)
          BY <1>3, <4>2 DEF HoldersOf
        <5> QED BY <2>4, <3>1, <4>2, <5>1 DEF PoolInv, SlotsConserved
      <4> QED BY <4>1, <4>2
    <3>2. AdmittedRuns' = AdmittedRuns /\ PermittedCalls' = PermittedCalls
      BY <1>1, <1>2, <1>3 DEF AdmittedRuns, PermittedCalls, Admitted, Reserved
    <3> QED BY <1>2, <3>1, <3>2 DEF PoolInv, SlotsConserved
  <2>7. Ownership'
    <3>1. \A s \in Runs : run'[s].proc = run[s].proc
      BY <1>1, <1>3
    <3>2. \A f \in Envs : pool'[f].idle = pool[f].idle /\ pool'[f].all = pool[f].all
                          /\ pool'[f].generation = pool[f].generation
      BY <2>4
    <3>3. PoolBounded'
      <4>1. Len(pool[e].idle) = 0 /\ MaxSize[e] \in Nat /\ e \in Envs
        BY <1>0, <2>4
      <4>2. Len(pool'[e].idle) <= pool'[e].free
        BY <2>4, <4>1
      <4>3. \A f \in Envs \ {e} : pool'[f] = pool[f]
        BY <2>4
      <4> QED BY <4>2, <4>3 DEF PoolInv, PoolBounded
    <3>4. NoSharedWorker' /\ IdleIsCurrent'
      BY <1>2, <3>1, <3>2 DEF PoolInv, NoSharedWorker, Held, IdleIsCurrent
    <3>5. HeldWorkers'
      BY <1>1, <1>2, <1>3, <3>1, <3>2 DEF PoolInv, HeldWorkers, At
    <3>6. EnteredIsOwned'
      <4>1. \A s \in Runs : run[s].pc \in {"executing", "closing"} => run'[s] = run[s]
        BY <1>1, <1>3
      <4> QED BY <3>2, <4>1 DEF PoolInv, EnteredIsOwned
    <3>7. UnopenedIsUnused'
      <4> SUFFICES ASSUME NEW f \in Envs, ~pool'[f].open
                   PROVE  /\ pool'[f] = ClosedPool
                          /\ \A s \in Runs : EnvOf[s] = f => run'[s].pc \in {"idle", "ended"}
        BY DEF UnopenedIsUnused, At
      <4>1. f # e /\ pool'[f] = pool[f] /\ ~pool[f].open
        BY <2>4
      <4>2. \A s \in Runs : EnvOf[s] = f => run'[s] = run[s]
        BY <1>3, <4>1
      <4> QED BY <4>1, <4>2 DEF PoolInv, UnopenedIsUnused, At
    <3> QED BY <3>3, <3>4, <3>5, <3>6, <3>7 DEF Ownership
  <2> QED BY <1>2, <2>5, <2>6, <2>7, PermitsStay, PoolInvParts
<1> QED BY <1>4, <1>5

(* The ceiling is changed, or a pool is unpaused.                          *)
LEMMA OperatorStep ==
  ASSUME PoolInv,
         \/ \E c \in Ceilings : Resize(c)
         \/ \E e \in Envs : Unpause(e)
  PROVE  PoolInv'
<1>0. TypeOK
  BY DEF PoolInv
<1>1. UNCHANGED <<proc, run, committed, call, permits>>
  BY DEF Resize, Unpause
<1>2. CASE \E c \in Ceilings : Resize(c)
  <2>1. /\ UNCHANGED pool /\ gate' \in [capacity : Nat \ {0}, inUse : Nat]
        /\ gate'.inUse = gate.inUse
    BY <1>0, <1>2 DEF Resize, TypeOK
  <2>2. TypeOK'
    BY <1>0, <1>1, <2>1 DEF TypeOK
  <2> QED BY <1>1, <2>1, <2>2, SlotsStay, QuietStep, PermitsStay, PoolInvParts
<1>3. ASSUME NEW e \in Envs, Unpause(e) PROVE PoolInv'
  <2>1. pool[e].open
    BY <1>3 DEF PoolInv, UnopenedIsUnused, Unpause, ClosedPool
  <2>2. UNCHANGED gate /\ pool' = [pool EXCEPT ![e] =
          [open |-> TRUE, free |-> pool[e].free, idle |-> pool[e].idle, all |-> pool[e].all,
           generation |-> pool[e].generation, paused |-> FALSE]]
    BY <1>3 DEF Unpause
  <2>3. pool' \in [Envs -> Pools]
    BY <1>0, <2>2 DEF TypeOK, Pools
  <2>4. \A f \in Envs : /\ pool'[f].idle = pool[f].idle /\ pool'[f].all = pool[f].all
                        /\ pool'[f].generation = pool[f].generation
                        /\ pool'[f].free = pool[f].free
                        /\ pool'[f].open <=> pool[f].open
                        /\ ~pool[f].open => pool'[f] = pool[f]
    BY <1>0, <2>1, <2>2 DEF TypeOK, Pools
  <2>5. TypeOK'
    BY <1>0, <1>1, <2>2, <2>3 DEF TypeOK
  <2> QED BY <1>1, <2>2, <2>4, <2>5, SlotsStay, QuietStep, PermitsStay, PoolInvParts
<1> QED BY <1>2, <1>3

(* A step of a sub-workflow call.                                          *)
LEMMA CallsStep ==
  ASSUME PoolInv, NEW c \in Calls, CallStep(c)
  PROVE  PoolInv'
<1>0. TypeOK /\ call[c].permit \in BOOLEAN
  BY DEF PoolInv, TypeOK
<1>1. UNCHANGED <<pool, proc, run, gate, committed>>
  BY DEF CallStep, CallWorkflow, CallAdmitted, CallProceeds, CallEnds, CallCancelled
<1>2. /\ call' \in [Calls -> [pc : CallStates, permit : BOOLEAN]]
      /\ \A d \in Calls \ {c} : call'[d] = call[d]
      /\ permits' = IF call[c].permit /\ ~call'[c].permit THEN permits + 1
                    ELSE IF ~call[c].permit /\ call'[c].permit THEN permits - 1 ELSE permits
      /\ permits' \in Nat
  <2>1. call \in [Calls -> [pc : CallStates, permit : BOOLEAN]] /\ permits \in Nat
    BY <1>0 DEF TypeOK
  <2>2. CASE CallWorkflow(c) \/ CallProceeds(c) \/ CallCancelled(c)
    <3>1. ~call[c].permit
      BY <1>0, <2>2 DEF CallWorkflow, CallProceeds, CallCancelled, PoolInv, PermitsAreUsed
    <3>2. PICK pc \in CallStates : call' = [call EXCEPT ![c] = [pc |-> pc, permit |-> FALSE]]
      BY <2>2 DEF CallWorkflow, CallProceeds, CallCancelled, CallStates
    <3>3. permits' = permits
      BY <2>2 DEF CallWorkflow, CallProceeds, CallCancelled
    <3> QED BY <2>1, <3>1, <3>2, <3>3
  <2>3. CASE CallAdmitted(c)
    <3>1. ~call[c].permit
      BY <2>3 DEF CallAdmitted, PoolInv, PermitsAreUsed
    <3> QED BY <2>1, <2>3, <3>1 DEF CallAdmitted, CallStates
  <2>4. CASE CallEnds(c)
    BY <2>1, <2>4 DEF CallEnds, CallStates
  <2> QED BY <2>2, <2>3, <2>4 DEF CallStep
<1>3. TypeOK'
  BY <1>0, <1>1, <1>2 DEF TypeOK
<1>4. call'[c].permit \in BOOLEAN
  BY <1>2
<1>5. PermitsAreUsed'
  <2>1. call'[c].permit => call'[c].pc = "executing"
    <3>1. call \in [Calls -> [pc : CallStates, permit : BOOLEAN]]
      BY <1>0 DEF TypeOK
    <3> QED BY <3>1 DEF CallStep, CallWorkflow, CallAdmitted, CallProceeds, CallEnds,
                        CallCancelled
  <2> QED BY <1>2, <2>1 DEF PoolInv, PermitsAreUsed
<1> QED BY <1>1, <1>2, <1>3, <1>4, <1>5, SlotsOfCall, QuietStep, PoolInvParts

----------------------------------------------------------------------------
(* Acquiring a worker                                                      *)

(* No two own one process after a step that only drops idle workers, from  *)
(* the front (the first m of a list) or the end, and in which at most one  *)
(* run takes a process nobody owns.                                        *)
LEMMA SharedStep ==
  ASSUME PoolInv, NEW m \in [Envs -> Nat], NEW r,
         \A e \in Envs : \A i \in DOMAIN pool'[e].idle :
           i \in Nat /\ i + m[e] \in DOMAIN pool[e].idle
           /\ pool'[e].idle[i] = pool[e].idle[i + m[e]],
         \A s \in Runs \ {r} : run'[s].proc = run[s].proc,
         r \in Runs =>
           \/ run'[r].proc \in {run[r].proc, NoProc}
           \/ /\ \A s \in Runs : run[s].proc # run'[r].proc
              /\ \A e \in Envs : \A i \in DOMAIN pool'[e].idle :
                   pool'[e].idle[i] # run'[r].proc
  PROVE  NoSharedWorker'
<1>0. \A e \in Envs : \A i \in DOMAIN pool[e].idle : pool[e].idle[i] \in Procs
  BY IdleTypes DEF PoolInv
<1>1. ASSUME NEW s \in Runs, NEW t \in Runs, run'[s].proc = run'[t].proc
      PROVE  s = t \/ run'[s].proc = NoProc
  BY <1>1 DEF PoolInv, NoSharedWorker
<1>2. ASSUME NEW e \in Envs, NEW i \in DOMAIN pool'[e].idle
      PROVE  /\ \A s \in Runs : run'[s].proc # pool'[e].idle[i]
             /\ \A f \in Envs : \A j \in DOMAIN pool'[f].idle :
                  pool'[e].idle[i] = pool'[f].idle[j] => e = f /\ i = j
  <2>1. /\ pool'[e].idle[i] = pool[e].idle[i + m[e]] /\ i + m[e] \in DOMAIN pool[e].idle
        /\ pool[e].idle[i + m[e]] \in Procs
    BY <1>0
  <2>2. \A s \in Runs : run[s].proc # pool'[e].idle[i]
    BY <2>1 DEF PoolInv, NoSharedWorker, Held
  <2>3. NoProc # pool'[e].idle[i]
    BY <2>1
  <2>4. \A s \in Runs : run'[s].proc # pool'[e].idle[i]
    BY <2>2, <2>3
  <2>5. ASSUME NEW f \in Envs, NEW j \in DOMAIN pool'[f].idle,
               pool'[e].idle[i] = pool'[f].idle[j]
        PROVE  e = f /\ i = j
    <3>1. e = f /\ i + m[e] = j + m[f]
      BY <2>1, <2>5 DEF PoolInv, NoSharedWorker
    <3>2. i \in Nat /\ j \in Nat /\ m[e] \in Nat
      OBVIOUS
    <3> QED BY <3>1, <3>2
  <2> QED BY <2>4, <2>5
<1> QED BY <1>1, <1>2 DEF NoSharedWorker, Held

LEMMA SameLists ==
  ASSUME PoolInv, NEW r, \A e \in Envs : pool'[e].idle = pool[e].idle,
         \A s \in Runs \ {r} : run'[s].proc = run[s].proc,
         r \in Runs => run'[r].proc \in {run[r].proc, NoProc}
  PROVE  NoSharedWorker'
<1> DEFINE m == [f \in Envs |-> 0]
<1>1. ASSUME NEW e \in Envs, NEW i \in DOMAIN pool'[e].idle
      PROVE  i \in Nat /\ i + m[e] \in DOMAIN pool[e].idle
             /\ pool'[e].idle[i] = pool[e].idle[i + m[e]]
  <2>1. i \in DOMAIN pool[e].idle /\ DOMAIN pool[e].idle = 1..Len(pool[e].idle)
    BY IdleTypes DEF PoolInv
  <2>2. i \in Nat /\ i + m[e] = i
    BY <2>1
  <2> QED BY <2>1, <2>2
<1>2. m \in [Envs -> Nat]
  OBVIOUS
<1> HIDE DEF m
<1> QED BY <1>1, <1>2, SharedStep

(* Cutting a list after its first k.                                       *)
LEMMA CutList ==
  ASSUME NEW S, NEW s \in Seq(S), NEW k \in 0..Len(s)
  PROVE  /\ Len(SubSeq(s, 1, k)) = k /\ DOMAIN SubSeq(s, 1, k) = 1..k
         /\ \A i \in 1..k : SubSeq(s, 1, k)[i] = s[i]
         /\ {s[i] : i \in {j \in DOMAIN s : j > k}} = {s[i] : i \in (k + 1)..Len(s)}
<1>1. {j \in DOMAIN s : j > k} = (k + 1)..Len(s)
  OBVIOUS
<1> QED BY <1>1, SubSeqProperties

(* A slot is taken and the idle list is cut after its first k; of the      *)
(* processes cut off, all are forgotten but the one the run takes, if it   *)
(* takes one.                                                              *)
LEMMA TakeStep ==
  ASSUME PoolInv, NEW r \in Runs, CanAcquire(r),
         NEW k \in 0..Len(pool[EnvOf[r]].idle), NEW x \in Dispatches,
         k = 0 \/ k < Len(pool[EnvOf[r]].idle),
         TakeSlot(EnvOf[r], k, DroppedAbove(EnvOf[r], k) \ {x.proc}),
         run' = [run EXCEPT ![r] = x],
         proc' \in [Procs -> Processes],
         \A p \in Procs : p \notin DroppedAbove(EnvOf[r], k) \ {x.proc} => proc'[p] = proc[p],
         \/ x.pc = "resolving" /\ x.proc = NoProc
         \/ /\ x.pc = "executing" /\ k < Len(pool[EnvOf[r]].idle)
            /\ x.proc = pool[EnvOf[r]].idle[k + 1] /\ Alive(x.proc),
         UNCHANGED <<gate, committed, call, permits>>
  PROVE  PoolInv'
<1> DEFINE e == EnvOf[r]
           Cut == DroppedAbove(e, k)
<1>0. /\ TypeOK /\ e \in Envs /\ pool[e] \in Pools /\ pool[e].open /\ pool[e].free > 0
      /\ pool[e].free \in Nat /\ run[r].pc = "worker" /\ run[r].proc = NoProc
  BY RunFacts DEF PoolInv, TypeOK, CanAcquire, At, WithProcess, Pools
<1>1. /\ pool[e].idle \in Seq(Procs) /\ DOMAIN pool[e].idle = 1..Len(pool[e].idle)
      /\ Len(pool[e].idle) \in Nat /\ k \in Nat
      /\ \A i \in 1..Len(pool[e].idle) : pool[e].idle[i] \in Procs
  BY <1>0, IdleTypes
<1>2. Cut = {pool[e].idle[i] : i \in (k + 1)..Len(pool[e].idle)}
  BY <1>1, CutList DEF DroppedAbove
<1>3. /\ Len(SubSeq(pool[e].idle, 1, k)) = k
      /\ DOMAIN SubSeq(pool[e].idle, 1, k) = 1..k
      /\ \A i \in 1..k : SubSeq(pool[e].idle, 1, k)[i] = pool[e].idle[i]
  BY <1>1, CutList, ZenonT(60)
<1>4. pool' \in [Envs -> Pools]
  BY <1>0, TakeTypes
<1>5. /\ pool'[e].open /\ pool'[e].free = pool[e].free - 1
      /\ pool'[e].idle = SubSeq(pool[e].idle, 1, k)
      /\ pool'[e].all = pool[e].all \ (Cut \ {x.proc})
      /\ pool'[e].generation = pool[e].generation
      /\ \A f \in Envs \ {e} : pool'[f] = pool[f]
  BY <1>0 DEF TakeSlot, Changed, TypeOK
<1>6. /\ run' \in [Runs -> Dispatches] /\ run'[r] = x
      /\ \A s \in Runs \ {r} : run'[s] = run[s]
  BY <1>0 DEF TypeOK
<1>7. TypeOK'
  BY <1>0, <1>4, <1>6 DEF TypeOK
<1>8. SlotsConserved'
  <2>1. /\ "worker" \in Admitted /\ "worker" \notin Holding
        /\ x.pc \in Admitted /\ x.pc \in Holding
    BY DEF Admitted, Reserved, Holding
  <2>2. \A f \in Envs : pool'[f].open =>
          /\ pool[f].open
          /\ pool'[f].free = IF e = f THEN pool[f].free - 1 ELSE pool[f].free
    BY <1>0, <1>5
  <2> QED BY <1>0, <1>6, <2>1, <2>2, SlotsStep, ZenonT(60)
<1>9. \A f \in Envs : \A i \in DOMAIN pool'[f].idle :
        /\ i \in DOMAIN pool[f].idle /\ i \in Nat
        /\ pool'[f].idle[i] = pool[f].idle[i]
        /\ pool'[f].idle[i] \in Procs
  <2> SUFFICES ASSUME NEW f \in Envs, NEW i \in DOMAIN pool'[f].idle
               PROVE  /\ i \in DOMAIN pool[f].idle /\ i \in Nat
                      /\ pool'[f].idle[i] = pool[f].idle[i]
                      /\ pool'[f].idle[i] \in Procs
    OBVIOUS
  <2>1. CASE f = e
    BY <1>1, <1>3, <1>5, <2>1, SMTT(60)
  <2>2. CASE f # e
    BY <1>0, <1>5, <2>2, IdleTypes, SMTT(60)
  <2> QED BY <2>1, <2>2
\* Idle lists share nothing and hold nothing that is out.
<1>10. \A f \in Envs : \A i \in DOMAIN pool'[f].idle : pool'[f].idle[i] \notin Cut
  <2> SUFFICES ASSUME NEW f \in Envs, NEW i \in DOMAIN pool'[f].idle, pool'[f].idle[i] \in Cut
               PROVE  FALSE
    OBVIOUS
  <2>0. pool[f].idle[i] \in Cut
    BY <1>9
  <2>1. PICK j \in (k + 1)..Len(pool[e].idle) : pool[f].idle[i] = pool[e].idle[j]
    BY ONLY <1>2, <2>0
  <2>2. f = e /\ i = j
    BY <1>0, <1>1, <1>9, <2>1, SMTT(60) DEF PoolInv, NoSharedWorker
  <2> QED BY <1>3, <1>5, <2>1, <2>2
<1>11. \A s \in Runs : run[s].proc \notin Cut
  <2> SUFFICES ASSUME NEW s \in Runs, run[s].proc \in Cut
               PROVE  FALSE
    OBVIOUS
  <2>1. PICK j \in (k + 1)..Len(pool[e].idle) : run[s].proc = pool[e].idle[j]
    BY <1>2
  <2>2. j \in DOMAIN pool[e].idle
    BY <1>1
  <2>3. ~Held(pool[e].idle[j])
    BY <1>0, <2>2 DEF PoolInv, NoSharedWorker
  <2> QED BY <2>1, <2>3 DEF Held
<1>12. x.proc # NoProc => x.proc \in Cut /\ x.proc \in Procs
  <2>1. k < Len(pool[e].idle) => k + 1 \in (k + 1)..Len(pool[e].idle) /\ k + 1 \in 1..Len(pool[e].idle)
    BY <1>1
  <2> QED BY <1>1, <1>2, <2>1
<1>13. NoSharedWorker'
  <2> DEFINE m == [f \in Envs |-> 0]
  <2>1. m \in [Envs -> Nat]
    OBVIOUS
  <2>2. \A f \in Envs : \A i \in DOMAIN pool'[f].idle :
          i \in Nat /\ i + m[f] \in DOMAIN pool[f].idle
          /\ pool'[f].idle[i] = pool[f].idle[i + m[f]]
    BY <1>9
  <2>3. \/ x.proc = NoProc
        \/ /\ \A s \in Runs : run[s].proc # x.proc
           /\ \A f \in Envs : \A i \in DOMAIN pool'[f].idle : pool'[f].idle[i] # x.proc
    BY <1>10, <1>11, <1>12
  <2>4. \A s \in Runs \ {r} : run'[s].proc = run[s].proc
    BY <1>6
  <2>5. \/ run'[r].proc \in {run[r].proc, NoProc}
        \/ /\ \A s \in Runs : run[s].proc # run'[r].proc
           /\ \A f \in Envs : \A i \in DOMAIN pool'[f].idle : pool'[f].idle[i] # run'[r].proc
    BY <1>6, <2>3
  <2> HIDE DEF m
  <2> QED BY <2>1, <2>2, <2>4, <2>5, SharedStep, ZenonT(60)
<1>14. PoolBounded'
  <2>1. Len(pool[e].idle) <= pool[e].free
    BY <1>0 DEF PoolInv, PoolBounded
  <2>2. Len(pool'[e].idle) <= pool'[e].free
    BY <1>0, <1>1, <1>3, <1>5, <2>1
  <2> QED BY <1>5, <2>2 DEF PoolInv, PoolBounded
<1>15. IdleIsCurrent'
  <2> SUFFICES ASSUME NEW f \in Envs, NEW i \in DOMAIN pool'[f].idle
               PROVE  LET p == pool'[f].idle[i]
                      IN /\ p \in pool'[f].all /\ proc'[p].state \in {"live", "gone"}
                         /\ proc'[p].generation = pool'[f].generation
    BY DEF IdleIsCurrent
  <2>1. pool'[f].idle[i] \notin Cut /\ proc'[pool'[f].idle[i]] = proc[pool[f].idle[i]]
    BY <1>9, <1>10
  <2>2. /\ pool[f].idle[i] \in pool[f].all /\ proc[pool[f].idle[i]].state \in {"live", "gone"}
        /\ proc[pool[f].idle[i]].generation = pool[f].generation
    BY <1>9 DEF PoolInv, IdleIsCurrent
  <2> QED BY <1>5, <1>9, <2>1, <2>2, ZenonT(60)
\* The worker that is taken waited in the list.
<1>16. x.proc # NoProc => /\ x.pc = "executing" /\ x.proc \in pool[e].all
                          /\ proc[x.proc].state = "live"
                          /\ proc[x.proc].generation = pool[e].generation
                          /\ proc'[x.proc] = proc[x.proc]
  <2>1. x.proc # NoProc => k + 1 \in DOMAIN pool[e].idle /\ pool[e].idle[k + 1] = x.proc
    BY <1>1
  <2> QED BY <1>0, <1>12, <2>1 DEF PoolInv, IdleIsCurrent, Alive
<1>17. HeldWorkers'
  <2> SUFFICES ASSUME NEW s \in Runs
               PROVE  LET p == run'[s].proc
                          f == EnvOf[s]
                      IN /\ p \in Procs <=> run'[s].pc \in {"starting", "executing", "closing"}
                         /\ run'[s].pc = "starting" => proc'[p].state = "starting"
                         /\ run'[s].pc \in {"executing", "closing"} =>
                              /\ proc'[p].state \in {"live", "closing", "gone"}
                              /\ proc'[p].generation <= pool'[f].generation
                         /\ (run'[s].pc = "executing"
                             /\ proc'[p].generation = pool'[f].generation) =>
                              p \in pool'[f].all /\ proc'[p].state # "closing"
    BY DEF HeldWorkers, At
  <2>1. CASE s # r
    <3>1. run'[s] = run[s] /\ run[s].proc \notin Cut /\ EnvOf[s] \in Envs
      BY <1>6, <1>11, <2>1
    <3>2. run[s].proc \in Procs => proc'[run[s].proc] = proc[run[s].proc]
      BY <3>1
    <3>3. /\ pool'[EnvOf[s]].generation = pool[EnvOf[s]].generation
          /\ run[s].proc \in pool[EnvOf[s]].all => run[s].proc \in pool'[EnvOf[s]].all
      BY <1>5, <3>1
    <3>4. /\ run[s].proc \in Procs <=> run[s].pc \in {"starting", "executing", "closing"}
          /\ run[s].pc = "starting" => proc[run[s].proc].state = "starting"
          /\ run[s].pc \in {"executing", "closing"} =>
               /\ proc[run[s].proc].state \in {"live", "closing", "gone"}
               /\ proc[run[s].proc].generation <= pool[EnvOf[s]].generation
          /\ (run[s].pc = "executing"
              /\ proc[run[s].proc].generation = pool[EnvOf[s]].generation) =>
               run[s].proc \in pool[EnvOf[s]].all /\ proc[run[s].proc].state # "closing"
      BY HeldFacts
    <3> QED BY <3>1, <3>2, <3>3, <3>4
  <2>2. CASE s = r
    <3>1. pool[e].generation \in Nat
      BY <1>0 DEF Pools
    <3>2. x.pc = "executing" => x.proc # NoProc
      BY <1>1
    <3> QED BY <1>5, <1>6, <1>12, <1>16, <2>2, <3>1, <3>2
  <2> QED BY <2>1, <2>2
<1>18. EnteredIsOwned'
  <2> SUFFICES ASSUME NEW f \in Envs, NEW p \in pool'[f].all
               PROVE  \/ \E i \in DOMAIN pool'[f].idle : pool'[f].idle[i] = p
                      \/ \E s \in Runs : EnvOf[s] = f /\ run'[s].proc = p
                                         /\ run'[s].pc \in {"executing", "closing"}
    BY DEF EnteredIsOwned
  <2>1. p \in pool[f].all
    BY <1>5
  <2>2. ASSUME NEW s \in Runs, EnvOf[s] = f, run[s].proc = p,
               run[s].pc \in {"executing", "closing"}
        PROVE  run'[s] = run[s]
    BY <1>0, <1>6, <2>2
  <2>3. ASSUME NEW i \in DOMAIN pool[f].idle, pool[f].idle[i] = p
        PROVE  \/ \E j \in DOMAIN pool'[f].idle : pool'[f].idle[j] = p
               \/ f = e /\ run'[r].proc = p /\ run'[r].pc = "executing"
    <3>1. CASE f # e
      BY <1>5, <2>3, <3>1
    <3>2. CASE f = e /\ i <= k
      <4>1. i \in 1..k
        BY <1>1, <2>3, <3>2
      <4>2. i \in DOMAIN pool'[e].idle /\ pool'[e].idle[i] = p
        BY <1>3, <1>5, <2>3, <3>2, <4>1
      <4> QED BY <3>2, <4>2
    <3>3. CASE f = e /\ i > k
      <4>1. p \in Cut
        BY <1>1, <1>2, <2>3, <3>3
      <4>2. p = x.proc /\ p \in Procs
        BY <1>1, <1>5, <2>3, <3>3, <4>1
      <4> QED BY <1>6, <1>16, <3>3, <4>2
    <3> QED BY <1>1, <2>3, <3>1, <3>2, <3>3
  <2>4. \/ \E i \in DOMAIN pool[f].idle : pool[f].idle[i] = p
        \/ \E s \in Runs : EnvOf[s] = f /\ run[s].proc = p
                           /\ run[s].pc \in {"executing", "closing"}
    <3>1. EnteredIsOwned
      BY DEF PoolInv
    <3>2. f \in Envs /\ p \in pool[f].all
      BY <2>1
    <3> QED BY ONLY <3>1, <3>2 DEF EnteredIsOwned
  <2>5. CASE \E i \in DOMAIN pool[f].idle : pool[f].idle[i] = p
    BY <2>3, <2>5
  <2>6. CASE \E s \in Runs : EnvOf[s] = f /\ run[s].proc = p
                             /\ run[s].pc \in {"executing", "closing"}
    BY <2>2, <2>6
  <2> QED BY <2>4, <2>5, <2>6
<1>19. UnopenedIsUnused'
  <2>1. \A f \in Envs : ~pool'[f].open => f # e /\ pool'[f] = pool[f] /\ ~pool[f].open
    BY <1>5
  <2>2. \A s \in Runs : EnvOf[s] # e => run'[s] = run[s]
    BY <1>6
  <2> QED BY <2>1, <2>2, ZenonT(60) DEF PoolInv, UnopenedIsUnused, At
<1> QED BY <1>7, <1>8, <1>13, <1>14, <1>15, <1>17, <1>18, <1>19, PermitsStay, PoolInvParts
        DEF Ownership

(* A warm worker is reused, the newest is recycled, or none is alive.      *)
LEMMA AcquireStep ==
  ASSUME PoolInv, NEW r \in Runs, Reuse(r) \/ Recycle(r) \/ SpawnWorker(r)
  PROVE  PoolInv'
<1> DEFINE e == EnvOf[r]
           fresh == [pc |-> "resolving", proc |-> NoProc]
<1>0. /\ TypeOK /\ e \in Envs /\ CanAcquire(r) /\ run[r].pc = "worker" /\ run[r].proc = NoProc
      /\ UNCHANGED <<gate, committed, call, permits>>
  BY RunFacts DEF PoolInv, TypeOK, Reuse, Recycle, SpawnWorker, CanAcquire, At, WithProcess
<1>1. /\ DOMAIN pool[e].idle = 1..Len(pool[e].idle) /\ Len(pool[e].idle) \in Nat
      /\ \A i \in DOMAIN pool[e].idle : pool[e].idle[i] \in Procs
      /\ \A i, j \in DOMAIN pool[e].idle : pool[e].idle[i] = pool[e].idle[j] => i = j
  BY <1>0, IdleTypes, IdleFacts
<1>2. /\ proc \in [Procs -> Processes] /\ fresh \in Dispatches
      /\ \A p \in Procs : Discarded(p) \in Processes
  BY <1>0, ProcTypes DEF TypeOK, Dispatches, RunStates
<1>3. ASSUME NEW k \in DOMAIN pool[e].idle
      PROVE  /\ k - 1 \in 0..Len(pool[e].idle) /\ k - 1 < Len(pool[e].idle) /\ k \in Nat
             /\ (k - 1) + 1 = k
             /\ DroppedAbove(e, k) = DroppedAbove(e, k - 1) \ {pool[e].idle[k]}
             /\ DroppedAbove(e, k - 1) = DroppedAbove(e, k) \cup {pool[e].idle[k]}
             /\ NoProc \notin DroppedAbove(e, k - 1)
  <2>1. k \in Nat /\ k - 1 \in 0..Len(pool[e].idle) /\ k - 1 < Len(pool[e].idle) /\ (k - 1) + 1 = k
    BY <1>1
  <2>2. {j \in DOMAIN pool[e].idle : j > k - 1} = {j \in DOMAIN pool[e].idle : j > k} \cup {k}
    BY <1>1
  <2>3. k \notin {j \in DOMAIN pool[e].idle : j > k}
    BY <1>1
  <2>4. \A j \in DOMAIN pool[e].idle : j # k => pool[e].idle[j] # pool[e].idle[k]
    BY <1>1
  <2>5. NoProc \notin DroppedAbove(e, k - 1)
    BY <1>1 DEF DroppedAbove
  <2>6. DroppedAbove(e, k - 1) = DroppedAbove(e, k) \cup {pool[e].idle[k]}
    BY <2>2, Zenon DEF DroppedAbove
  <2>7. pool[e].idle[k] \notin DroppedAbove(e, k)
    BY <2>3, <2>4, Zenon DEF DroppedAbove
  <2> QED BY <2>1, <2>5, <2>6, <2>7
<1>4. ASSUME NEW k \in DOMAIN pool[e].idle, NewestAlive(e, k),
             TakeSlot(e, k - 1, DroppedAbove(e, k)),
             proc' = [p \in Procs |-> IF p \in DroppedAbove(e, k) THEN Blank ELSE proc[p]],
             run' = [run EXCEPT ![r] = [pc |-> "executing", proc |-> pool[e].idle[k]]]
      PROVE  PoolInv'
  <2> DEFINE x == [pc |-> "executing", proc |-> pool[e].idle[k]]
  <2>1. x \in Dispatches /\ x.proc = pool[e].idle[k] /\ x.pc = "executing"
    BY <1>1 DEF Dispatches, RunStates
  <2>2. /\ proc' \in [Procs -> Processes] /\ Alive(pool[e].idle[k])
        /\ \A p \in Procs : p \notin DroppedAbove(e, k) => proc'[p] = proc[p]
    BY <1>2, <1>4, BlankType DEF NewestAlive
  <2>3. run' = [run EXCEPT ![r] = x]
    BY <1>4
  <2>4. /\ k - 1 \in 0..Len(pool[e].idle) /\ k - 1 < Len(pool[e].idle)
        /\ x.proc = pool[e].idle[(k - 1) + 1]
        /\ DroppedAbove(e, k) = DroppedAbove(e, k - 1) \ {x.proc}
    BY <1>3, <2>1
  <2>5. TakeSlot(e, k - 1, DroppedAbove(e, k - 1) \ {x.proc})
    BY <1>4, <2>4
  <2>6. \A p \in Procs : p \notin DroppedAbove(e, k - 1) \ {x.proc} => proc'[p] = proc[p]
    BY <2>2, <2>4
  <2> HIDE DEF x
  <2> QED BY <1>0, <2>1, <2>2, <2>3, <2>4, <2>5, <2>6, TakeStep
<1>5. ASSUME NEW k \in 0..Len(pool[e].idle), k = 0 \/ k < Len(pool[e].idle),
             TakeSlot(e, k, DroppedAbove(e, k)),
             proc' \in [Procs -> Processes],
             \A p \in Procs : p \notin DroppedAbove(e, k) => proc'[p] = proc[p],
             To(r, "resolving")
      PROVE  PoolInv'
  <2>1. run' = [run EXCEPT ![r] = fresh] /\ fresh.pc = "resolving" /\ fresh.proc = NoProc
    BY <1>0, <1>5 DEF To
  <2>2. NoProc \notin DroppedAbove(e, k)
    BY <1>1 DEF DroppedAbove
  <2>3. DroppedAbove(e, k) \ {fresh.proc} = DroppedAbove(e, k)
    BY <2>1, <2>2
  <2> HIDE DEF fresh
  <2>4. /\ TakeSlot(e, k, DroppedAbove(e, k) \ {fresh.proc})
        /\ \A p \in Procs : p \notin DroppedAbove(e, k) \ {fresh.proc} => proc'[p] = proc[p]
    BY <1>5, <2>3
  <2>5. \/ fresh.pc = "resolving" /\ fresh.proc = NoProc
        \/ /\ fresh.pc = "executing" /\ k < Len(pool[e].idle)
           /\ fresh.proc = pool[e].idle[k + 1] /\ Alive(fresh.proc)
    BY <2>1
  <2>6. fresh \in Dispatches
    BY <1>2
  <2>7. /\ PoolInv /\ r \in Runs /\ CanAcquire(r) /\ k \in 0..Len(pool[EnvOf[r]].idle)
        /\ k = 0 \/ k < Len(pool[EnvOf[r]].idle)
        /\ proc' \in [Procs -> Processes] /\ UNCHANGED <<gate, committed, call, permits>>
        /\ run' = [run EXCEPT ![r] = fresh]
    BY <1>0, <1>5, <2>1
  <2> QED BY ONLY <2>4, <2>5, <2>6, <2>7, TakeStep
<1>6. CASE Reuse(r)
  BY <1>4, <1>6 DEF Reuse
<1>7. ASSUME Recycle(r) PROVE PoolInv'
  <2>1. PICK k \in DOMAIN pool[e].idle :
          /\ TakeSlot(e, k - 1, DroppedAbove(e, k) \cup {pool[e].idle[k]})
          /\ proc' = [p \in Procs |-> IF p = pool[e].idle[k] THEN Discarded(p)
                                      ELSE IF p \in DroppedAbove(e, k) THEN Blank ELSE proc[p]]
    BY <1>7 DEF Recycle
  <2>2. proc' \in [Procs -> Processes]
    BY <1>2, <2>1, BlankType
  <2>3. \A p \in Procs : p \notin DroppedAbove(e, k - 1) => proc'[p] = proc[p]
    BY <1>3, <2>1
  <2>4. To(r, "resolving")
    BY <1>7 DEF Recycle
  <2> QED BY <1>3, <1>5, <2>1, <2>2, <2>3, <2>4, ZenonT(60)
<1>8. CASE SpawnWorker(r)
  <2>1. /\ TakeSlot(e, 0, DroppedAbove(e, 0)) /\ To(r, "resolving")
        /\ proc' = [p \in Procs |-> IF p \in DroppedAbove(e, 0) THEN Blank ELSE proc[p]]
    BY <1>8 DEF SpawnWorker
  <2>2. proc' \in [Procs -> Processes]
    BY <1>2, <2>1, BlankType
  <2>3. 0 \in 0..Len(pool[e].idle)
    BY <1>1
  <2> QED BY <1>5, <2>1, <2>2, <2>3
<1> QED BY <1>6, <1>7, <1>8

----------------------------------------------------------------------------
(* Steps of a worker process                                               *)

(* The owners after a step of at most one run that drops idle workers from *)
(* the front or the end of the lists.                                      *)
LEMMA EnteredStep ==
  ASSUME PoolInv, NEW r, \A s \in Runs \ {r} : run'[s] = run[s],
         \A e \in Envs : \A p \in pool'[e].all :
           \/ /\ p \in pool[e].all
              /\ \A i \in DOMAIN pool[e].idle :
                   pool[e].idle[i] = p => \E j \in DOMAIN pool'[e].idle : pool'[e].idle[j] = p
              /\ r \in Runs /\ run[r].proc = p =>
                   run'[r].proc = p /\ run'[r].pc \in {"executing", "closing"}
           \/ \E j \in DOMAIN pool'[e].idle : pool'[e].idle[j] = p
           \/ /\ r \in Runs /\ EnvOf[r] = e /\ run'[r].proc = p
              /\ run'[r].pc \in {"executing", "closing"}
  PROVE  EnteredIsOwned'
<1> SUFFICES ASSUME NEW e \in Envs, NEW p \in pool'[e].all
             PROVE  \/ \E i \in DOMAIN pool'[e].idle : pool'[e].idle[i] = p
                    \/ \E s \in Runs : EnvOf[s] = e /\ run'[s].proc = p
                                       /\ run'[s].pc \in {"executing", "closing"}
  BY DEF EnteredIsOwned
<1>1. CASE \E j \in DOMAIN pool'[e].idle : pool'[e].idle[j] = p
  BY <1>1
<1>2. CASE /\ r \in Runs /\ EnvOf[r] = e /\ run'[r].proc = p
           /\ run'[r].pc \in {"executing", "closing"}
  BY <1>2
<1>3. CASE /\ p \in pool[e].all
           /\ \A i \in DOMAIN pool[e].idle :
                pool[e].idle[i] = p => \E j \in DOMAIN pool'[e].idle : pool'[e].idle[j] = p
           /\ r \in Runs /\ run[r].proc = p =>
                run'[r].proc = p /\ run'[r].pc \in {"executing", "closing"}
  <2>1. ASSUME NEW s \in Runs, EnvOf[s] = e, run[s].proc = p,
               run[s].pc \in {"executing", "closing"}
        PROVE  run'[s].proc = p /\ run'[s].pc \in {"executing", "closing"}
    BY <1>3, <2>1
  <2>2. EnteredIsOwned
    BY DEF PoolInv
  <2>3. \/ \E i \in DOMAIN pool[e].idle : pool[e].idle[i] = p
        \/ \E s \in Runs : /\ EnvOf[s] = e /\ run[s].proc = p
                           /\ run[s].pc \in {"executing", "closing"}
    BY ONLY <1>3, <2>2, e \in Envs DEF EnteredIsOwned
  <2>4. CASE \E i \in DOMAIN pool[e].idle : pool[e].idle[i] = p
    BY <1>3, <2>4
  <2>5. CASE \E s \in Runs : /\ EnvOf[s] = e /\ run[s].proc = p
                             /\ run[s].pc \in {"executing", "closing"}
    BY <2>1, <2>5
  <2> QED BY <2>3, <2>4, <2>5
<1> QED BY <1>1, <1>2, <1>3

LEMMA HeldStep ==
  ASSUME PoolInv, TypeOK', NEW r, \A s \in Runs \ {r} : run'[s] = run[s],
         \A s \in Runs \ {r} : run[s].proc \in Procs =>
           LET p == run[s].proc
               e == EnvOf[s]
           IN /\ proc'[p].generation = proc[p].generation
              /\ \/ proc'[p].state = proc[p].state
                 \/ run[s].pc # "starting" /\ proc'[p].state = "gone"
                 \/ /\ run[s].pc # "starting" /\ proc'[p].state = "closing"
                    /\ pool[e].generation < pool'[e].generation
              /\ \/ pool[e].generation < pool'[e].generation
                 \/ /\ pool[e].generation = pool'[e].generation
                    /\ p \in pool[e].all => p \in pool'[e].all,
         r \in Runs =>
           LET p == run'[r].proc
               e == EnvOf[r]
           IN /\ p \in Procs <=> run'[r].pc \in {"starting", "executing", "closing"}
              /\ run'[r].pc = "starting" => proc'[p].state = "starting"
              /\ run'[r].pc \in {"executing", "closing"} =>
                   /\ proc'[p].state \in {"live", "closing", "gone"}
                   /\ proc'[p].generation <= pool'[e].generation
              /\ (run'[r].pc = "executing" /\ proc'[p].generation = pool'[e].generation) =>
                   p \in pool'[e].all /\ proc'[p].state # "closing"
  PROVE  HeldWorkers'
<1> SUFFICES ASSUME NEW s \in Runs \ {r}
             PROVE  LET p == run[s].proc
                        e == EnvOf[s]
                    IN /\ p \in Procs <=> run[s].pc \in {"starting", "executing", "closing"}
                       /\ run[s].pc = "starting" => proc'[p].state = "starting"
                       /\ run[s].pc \in {"executing", "closing"} =>
                            /\ proc'[p].state \in {"live", "closing", "gone"}
                            /\ proc'[p].generation <= pool'[e].generation
                       /\ (run[s].pc = "executing"
                           /\ proc'[p].generation = pool'[e].generation) =>
                            p \in pool'[e].all /\ proc'[p].state # "closing"
  BY DEF HeldWorkers, At
<1> DEFINE p == run[s].proc
           e == EnvOf[s]
<1>1. TypeOK /\ e \in Envs
  BY DEF PoolInv
<1>2. p \in Procs <=> run[s].pc \in {"starting", "executing", "closing"}
  BY HeldFacts
<1>3. CASE p \notin Procs
  BY <1>2, <1>3
<1>4. CASE p \in Procs
  <2>1. proc[p].generation \in Nat /\ pool[e].generation \in Nat /\ pool'[e].generation \in Nat
    BY <1>1, <1>4 DEF TypeOK, Processes, Pools
  <2>2. /\ run[s].pc = "starting" => proc[p].state = "starting"
        /\ run[s].pc \in {"executing", "closing"} =>
             /\ proc[p].state \in {"live", "closing", "gone"}
             /\ proc[p].generation <= pool[e].generation
        /\ (run[s].pc = "executing" /\ proc[p].generation = pool[e].generation) =>
             p \in pool[e].all /\ proc[p].state # "closing"
    BY HeldFacts
  <2>3. CASE pool[e].generation < pool'[e].generation
    BY <1>2, <1>4, <2>1, <2>2, <2>3
  <2>4. CASE /\ pool[e].generation = pool'[e].generation
             /\ p \in pool[e].all => p \in pool'[e].all
    BY <1>2, <1>4, <2>1, <2>2, <2>4
  <2> QED BY <1>4, <2>3, <2>4
<1> QED BY <1>3, <1>4

LEMMA IdleStep ==
  ASSUME PoolInv,
         \A e \in Envs : \A i \in DOMAIN pool'[e].idle :
           LET p == pool'[e].idle[i] IN
           /\ p \in pool'[e].all
           /\ \E j \in DOMAIN pool[e].idle : pool[e].idle[j] = p
           /\ proc'[p].generation = proc[p].generation
           /\ pool'[e].generation = pool[e].generation
           /\ proc'[p].state \in {proc[p].state, "gone"}
  PROVE  IdleIsCurrent'
<1> SUFFICES ASSUME NEW e \in Envs, NEW i \in DOMAIN pool'[e].idle
             PROVE  LET p == pool'[e].idle[i]
                    IN /\ p \in pool'[e].all /\ proc'[p].state \in {"live", "gone"}
                       /\ proc'[p].generation = pool'[e].generation
  BY DEF IdleIsCurrent
<1>1. PICK j \in DOMAIN pool[e].idle : pool[e].idle[j] = pool'[e].idle[i]
  OBVIOUS
<1> QED BY <1>1, IdleFacts

LEMMA UnopenedStep ==
  ASSUME PoolInv, NEW r, \A s \in Runs \ {r} : run'[s] = run[s],
         \A e \in Envs : ~pool'[e].open => pool'[e] = pool[e],
         r \in Runs => pool'[EnvOf[r]].open
  PROVE  UnopenedIsUnused'
<1> SUFFICES ASSUME NEW e \in Envs, ~pool'[e].open
             PROVE  pool'[e] = ClosedPool
                    /\ \A s \in Runs : EnvOf[s] = e => run'[s].pc \in {"idle", "ended"}
  BY DEF UnopenedIsUnused, At
<1>1. pool'[e] = pool[e] /\ ~pool[e].open
  OBVIOUS
<1>2. pool[e] = ClosedPool /\ \A s \in Runs : EnvOf[s] = e => run[s].pc \in {"idle", "ended"}
  BY <1>1 DEF PoolInv, UnopenedIsUnused, At
<1> QED BY <1>1, <1>2

(* A worker is started.                                                    *)
LEMMA StartStep ==
  ASSUME PoolInv, NEW r \in Runs, NEW p \in Procs, NEW image \in Images, StartWorker(r, p, image)
  PROVE  PoolInv'
<1>0. /\ TypeOK /\ run[r].pc = "resolving" /\ run[r].proc = NoProc /\ proc[p] = Blank
      /\ UNCHANGED <<pool, gate, committed, call, permits>> /\ pool[EnvOf[r]].open
  BY RunFacts DEF PoolInv, StartWorker, At, WithProcess
<1>1. /\ run' \in [Runs -> Dispatches] /\ run'[r].pc = "starting" /\ run'[r].proc = p
      /\ \A s \in Runs \ {r} : run'[s] = run[s]
  BY <1>0 DEF StartWorker, TypeOK, Dispatches, RunStates
<1>2. /\ proc' \in [Procs -> Processes] /\ proc'[p].state = "starting"
      /\ \A q \in Procs \ {p} : proc'[q] = proc[q]
  BY <1>0 DEF StartWorker, TypeOK, Processes, ProcStates
<1>3. TypeOK'
  BY <1>0, <1>1, <1>2 DEF TypeOK
\* A free identity has no owner.
<1>4. \A s \in Runs : run[s].proc # p
  BY <1>0, HeldFacts DEF Blank
<1>5. \A e \in Envs : \A i \in DOMAIN pool[e].idle : pool[e].idle[i] # p
  BY <1>0, IdleFacts DEF Blank
<1>6. SlotsConserved'
  <2>1. /\ "starting" \in Admitted /\ "starting" \in Holding
        /\ "resolving" \in Admitted /\ "resolving" \in Holding
    BY DEF Admitted, Reserved, Holding
  <2> QED BY <1>0, <1>1, <2>1, SlotsStep
<1>7. NoSharedWorker'
  <2> DEFINE m == [f \in Envs |-> 0]
  <2>1. /\ m \in [Envs -> Nat]
        /\ \A f \in Envs : \A i \in DOMAIN pool'[f].idle :
             i \in Nat /\ i + m[f] \in DOMAIN pool[f].idle
             /\ pool'[f].idle[i] = pool[f].idle[i + m[f]]
    BY <1>0, IdleTypes
  <2>2. \A s \in Runs \ {r} : run'[s].proc = run[s].proc
    BY <1>1
  <2>3. /\ \A s \in Runs : run[s].proc # run'[r].proc
        /\ \A e \in Envs : \A i \in DOMAIN pool'[e].idle : pool'[e].idle[i] # run'[r].proc
    BY <1>0, <1>1, <1>4, <1>5
  <2> HIDE DEF m
  <2> QED BY <2>1, <2>2, <2>3, SharedStep
<1>8. PoolBounded'
  BY <1>0 DEF PoolInv, PoolBounded
<1>9. IdleIsCurrent'
  BY <1>0, <1>2, <1>5, IdleFacts, IdleStep
<1>10. HeldWorkers'
  <2>1. \A s \in Runs \ {r} : run[s].proc \in Procs => proc'[run[s].proc] = proc[run[s].proc]
    BY <1>2, <1>4
  <2> QED BY <1>0, <1>1, <1>2, <1>3, <2>1, HeldStep, SMTT(60)
<1>11. EnteredIsOwned'
  <2>1. run[r].proc \notin Procs
    BY <1>0
  <2>2. ASSUME NEW e \in Envs, NEW q \in pool'[e].all
        PROVE  q \in pool[e].all /\ run[r].proc # q
    <3>1. q \in Procs
      BY <1>3 DEF TypeOK, Pools
    <3> QED BY <1>0, <3>1, <2>1
  <2>3. \A e \in Envs : \A q \in pool'[e].all :
          /\ q \in pool[e].all
          /\ \A i \in DOMAIN pool[e].idle :
               pool[e].idle[i] = q => \E j \in DOMAIN pool'[e].idle : pool'[e].idle[j] = q
          /\ r \in Runs /\ run[r].proc = q =>
               run'[r].proc = q /\ run'[r].pc \in {"executing", "closing"}
    BY <1>0, <2>2
  <2> QED BY ONLY PoolInv, <1>1, <2>3, EnteredStep
<1>12. UnopenedIsUnused'
  BY <1>0, <1>1, UnopenedStep
<1> QED BY <1>0, <1>3, <1>6, <1>7, <1>8, <1>9, <1>10, <1>11, <1>12, PermitsStay, PoolInvParts
        DEF Ownership

(* A worker reports that it is ready.                                      *)
LEMMA ReadyStep ==
  ASSUME PoolInv, NEW r \in Runs, WorkerReady(r)
  PROVE  PoolInv'
<1> DEFINE e == EnvOf[r]
           p == run[r].proc
<1>0. /\ TypeOK /\ run[r].pc = "starting" /\ e \in Envs /\ pool[e].open /\ pool[e] \in Pools
      /\ p \in Procs /\ proc[p].state = "starting"
      /\ UNCHANGED <<gate, committed, call, permits>>
  BY RunFacts, HeldFacts DEF PoolInv, WorkerReady, At, WithProcess
<1>1. /\ run' \in [Runs -> Dispatches] /\ run'[r].pc = "executing" /\ run'[r].proc = p
      /\ \A s \in Runs \ {r} : run'[s] = run[s]
  BY <1>0 DEF WorkerReady, To, TypeOK, Dispatches, RunStates
<1>2. /\ proc' \in [Procs -> Processes] /\ proc'[p].state = "live"
      /\ proc'[p].generation = pool[e].generation
      /\ \A q \in Procs \ {p} : proc'[q] = proc[q]
  BY <1>0 DEF WorkerReady, TypeOK, Processes, Pools, ProcStates
<1>3. /\ pool' \in [Envs -> Pools] /\ pool'[e].open /\ pool'[e].free = pool[e].free
      /\ pool'[e].idle = pool[e].idle /\ pool'[e].all = pool[e].all \cup {p}
      /\ pool'[e].generation = pool[e].generation
      /\ \A f \in Envs \ {e} : pool'[f] = pool[f]
  BY <1>0 DEF WorkerReady, Changed, TypeOK, Pools
<1>4. TypeOK'
  BY <1>0, <1>1, <1>2, <1>3 DEF TypeOK
<1>5. \A s \in Runs \ {r} : run[s].proc # p
  BY <1>0, HeldFacts
<1>6. \A f \in Envs : /\ pool'[f].idle = pool[f].idle
                      /\ pool'[f].generation = pool[f].generation
                      /\ \A i \in DOMAIN pool[f].idle : pool[f].idle[i] # p
                      /\ pool[f].all \subseteq pool'[f].all
  BY <1>0, <1>3, IdleFacts
<1>7. SlotsConserved'
  <2>1. /\ "starting" \in Admitted /\ "starting" \in Holding
        /\ "executing" \in Admitted /\ "executing" \in Holding
    BY DEF Admitted, Reserved, Holding
  <2>2. \A f \in Envs : pool'[f].open => pool[f].open /\ pool'[f].free = pool[f].free
    BY <1>0, <1>3
  <2> QED BY <1>0, <1>1, <2>1, <2>2, SlotsStep
<1>8. NoSharedWorker'
  BY <1>1, <1>6, SameLists
<1>9. PoolBounded'
  BY <1>0, <1>3 DEF PoolInv, PoolBounded
<1>10. IdleIsCurrent'
  <2>1. ASSUME NEW f \in Envs, NEW i \in DOMAIN pool'[f].idle
        PROVE  LET q == pool'[f].idle[i] IN
               /\ q \in pool'[f].all
               /\ \E j \in DOMAIN pool[f].idle : pool[f].idle[j] = q
               /\ proc'[q] = proc[q]
               /\ pool'[f].generation = pool[f].generation
    BY <1>2, <1>6, IdleFacts
  <2> QED BY <2>1, IdleStep, SMTT(60)
<1>11. HeldWorkers'
  <2>1. \A s \in Runs \ {r} : run[s].proc \in Procs => proc'[run[s].proc] = proc[run[s].proc]
    BY <1>2, <1>5
  <2>2. /\ p \in pool'[e].all /\ proc'[p].generation = pool'[e].generation
        /\ pool'[e].generation \in Nat
    BY <1>0, <1>2, <1>3 DEF Pools
  <2>3. /\ p \in Procs <=> run'[r].pc \in {"starting", "executing", "closing"}
        /\ run'[r].pc = "starting" => proc'[p].state = "starting"
        /\ run'[r].pc \in {"executing", "closing"} =>
             /\ proc'[p].state \in {"live", "closing", "gone"}
             /\ proc'[p].generation <= pool'[e].generation
        /\ (run'[r].pc = "executing" /\ proc'[p].generation = pool'[e].generation) =>
             p \in pool'[e].all /\ proc'[p].state # "closing"
    BY <1>0, <1>1, <1>2, <2>2
  <2>4. \A s \in Runs \ {r} : run[s].proc \in Procs =>
          /\ proc'[run[s].proc] = proc[run[s].proc]
          /\ pool[EnvOf[s]].generation = pool'[EnvOf[s]].generation
          /\ run[s].proc \in pool[EnvOf[s]].all => run[s].proc \in pool'[EnvOf[s]].all
    <3>1. \A s \in Runs : EnvOf[s] \in Envs
      OBVIOUS
    <3>2. \A f \in Envs : /\ pool'[f].generation = pool[f].generation
                          /\ pool[f].all \subseteq pool'[f].all
      BY ONLY <1>6
    <3> QED BY ONLY <2>1, <3>1, <3>2
  <2> QED BY ONLY PoolInv, <1>1, <1>4, <2>3, <2>4, HeldStep
<1>12. EnteredIsOwned'
  <2>1. ASSUME NEW f \in Envs, NEW q \in pool'[f].all
        PROVE  \/ /\ q \in pool[f].all
                  /\ \A i \in DOMAIN pool[f].idle :
                       pool[f].idle[i] = q =>
                         \E j \in DOMAIN pool'[f].idle : pool'[f].idle[j] = q
                  /\ r \in Runs /\ run[r].proc = q =>
                       run'[r].proc = q /\ run'[r].pc \in {"executing", "closing"}
               \/ /\ r \in Runs /\ EnvOf[r] = f /\ run'[r].proc = q
                  /\ run'[r].pc \in {"executing", "closing"}
    <3>1. q \in pool[f].all \/ (q = p /\ f = e)
      BY <1>3
    <3> QED BY <1>1, <1>6, <3>1
  <2> QED BY <1>1, <2>1, EnteredStep
<1>13. UnopenedIsUnused'
  BY <1>0, <1>1, <1>3, UnopenedStep
<1> QED BY <1>0, <1>4, <1>7, <1>8, <1>9, <1>10, <1>11, <1>12, <1>13, PermitsStay, PoolInvParts
        DEF Ownership

(* A worker is closed before its dispatch ends.                            *)
LEMMA StopStep ==
  ASSUME PoolInv, NEW r \in Runs, StopRun(r)
  PROVE  PoolInv'
<1> DEFINE e == EnvOf[r]
           p == run[r].proc
<1>0. /\ TypeOK /\ run[r].pc = "executing" /\ e \in Envs /\ pool[e].open /\ p \in Procs
      /\ proc[p].state \in {"live", "closing", "gone"}
      /\ proc[p].generation <= pool[e].generation
      /\ UNCHANGED <<pool, gate, committed, call, permits>>
  BY RunFacts, HeldFacts DEF PoolInv, StopRun, At, WithProcess
<1>1. /\ run' \in [Runs -> Dispatches] /\ run'[r].pc = "closing" /\ run'[r].proc = p
      /\ \A s \in Runs \ {r} : run'[s] = run[s]
  BY <1>0 DEF StopRun, To, TypeOK, Dispatches, RunStates
<1>2. /\ proc' \in [Procs -> Processes] /\ proc'[p].state \in {"closing", "gone"}
      /\ proc'[p].generation = proc[p].generation
      /\ \A q \in Procs \ {p} : proc'[q] = proc[q]
  <2>1. proc' = [proc EXCEPT ![p] = Asked(p)] /\ Asked(p) \in Processes
    BY <1>0, ProcTypes DEF StopRun
  <2>2. Asked(p).state \in {"closing", "gone"} /\ Asked(p).generation = proc[p].generation
    BY <1>0 DEF Asked, InState
  <2> QED BY <1>0, <2>1, <2>2 DEF TypeOK
<1>3. TypeOK'
  BY <1>0, <1>1, <1>2 DEF TypeOK
<1>4. \A s \in Runs \ {r} : run[s].proc # p
  BY <1>0, HeldFacts
<1>5. \A f \in Envs : \A i \in DOMAIN pool[f].idle : pool[f].idle[i] # p
  BY <1>0, IdleFacts
<1>6. SlotsConserved'
  <2>1. /\ "closing" \in Admitted /\ "closing" \in Holding
        /\ "executing" \in Admitted /\ "executing" \in Holding
    BY DEF Admitted, Reserved, Holding
  <2> QED BY <1>0, <1>1, <2>1, SlotsStep
<1>7. NoSharedWorker'
  <2>1. \A s \in Runs : run'[s].proc = run[s].proc
    BY <1>1
  <2> QED BY <1>0, <2>1 DEF PoolInv, NoSharedWorker, Held
<1>8. PoolBounded'
  BY <1>0 DEF PoolInv, PoolBounded
<1>9. IdleIsCurrent'
  <2>1. ASSUME NEW f \in Envs, NEW i \in DOMAIN pool'[f].idle
        PROVE  LET q == pool'[f].idle[i] IN
               /\ q \in pool'[f].all
               /\ \E j \in DOMAIN pool[f].idle : pool[f].idle[j] = q
               /\ proc'[q] = proc[q]
               /\ pool'[f].generation = pool[f].generation
    BY <1>0, <1>2, <1>5, IdleFacts
  <2> QED BY <2>1, IdleStep, SMTT(60)
<1>10. HeldWorkers'
  <2>1. \A s \in Runs \ {r} : run[s].proc \in Procs => proc'[run[s].proc] = proc[run[s].proc]
    BY <1>2, <1>4
  <2> QED BY <1>0, <1>1, <1>2, <1>3, <2>1, HeldStep, SMTT(30), ZenonT(90)
<1>11. EnteredIsOwned'
  <2>1. \A f \in Envs : \A q \in pool'[f].all :
          /\ q \in pool[f].all
          /\ \A i \in DOMAIN pool[f].idle :
               pool[f].idle[i] = q => \E j \in DOMAIN pool'[f].idle : pool'[f].idle[j] = q
          /\ r \in Runs /\ run[r].proc = q =>
               run'[r].proc = q /\ run'[r].pc \in {"executing", "closing"}
    BY <1>0, <1>1
  <2> QED BY <1>1, <2>1, EnteredStep
<1>12. UnopenedIsUnused'
  BY <1>0, <1>1, UnopenedStep
<1> QED BY <1>0, <1>3, <1>6, <1>7, <1>8, <1>9, <1>10, <1>11, <1>12, PermitsStay, PoolInvParts
        DEF Ownership

(* What leaving both gates does to the run and to the counters.            *)
LEMMA LeaveFacts ==
  ASSUME PoolInv, NEW r \in Runs, LeaveGates(r, "ended"), run[r].pc \in Holding,
         UNCHANGED <<call, permits>>,
         \A e \in Envs : pool'[e].open =>
           /\ pool[e].open
           /\ pool'[e].free = IF EnvOf[r] = e THEN pool[e].free + 1 ELSE pool[e].free
  PROVE  /\ run' \in [Runs -> Dispatches]
         /\ run'[r].pc = "ended" /\ run'[r].proc = NoProc
         /\ \A s \in Runs \ {r} : run'[s] = run[s]
         /\ gate' \in [capacity : Nat \ {0}, inUse : Nat]
         /\ committed' \in Nat
         /\ SlotsConserved'
<1>1. TypeOK /\ "ended" \in RunStates
  BY DEF PoolInv, RunStates
<1>2. /\ run' \in [Runs -> Dispatches]
      /\ gate' \in [capacity : Nat \ {0}, inUse : Nat] /\ committed' \in Nat
  BY <1>1, LeaveTypes
<1>3. /\ run'[r].pc = "ended" /\ run'[r].proc = NoProc
      /\ \A s \in Runs \ {r} : run'[s] = run[s]
  BY <1>1 DEF LeaveGates, TypeOK
<1>4. gate'.inUse = Less(gate.inUse, 1)
  BY <1>1 DEF LeaveGates, TypeOK
<1>5. /\ run[r].pc \in Admitted /\ "ended" \notin Admitted /\ "ended" \notin Holding
  BY DEF Holding, Admitted, Reserved
<1> QED BY <1>2, <1>3, <1>4, <1>5, SlotsStep

(* A dispatch ends and its process, if it has one, leaves the pool.        *)
LEMMA ForgetStep ==
  ASSUME PoolInv, NEW r \in Runs, LeaveGates(r, "ended"), run[r].pc \in Holding,
         UNCHANGED <<call, permits>>,
         Changed(EnvOf[r], pool[EnvOf[r]].free + 1, pool[EnvOf[r]].idle,
                 pool[EnvOf[r]].all \ {run[r].proc}),
         proc' \in [Procs -> Processes],
         \A q \in Procs \ {run[r].proc} : proc'[q] = proc[q]
  PROVE  PoolInv'
<1> DEFINE e == EnvOf[r]
           p == run[r].proc
<1>0. /\ TypeOK /\ e \in Envs /\ pool[e].open /\ pool[e] \in Pools /\ pool[e].free \in Nat
  BY RunFacts DEF PoolInv, TypeOK, At, Pools, Holding, Admitted, Reserved
<1>1. /\ pool' \in [Envs -> Pools] /\ pool'[e].open /\ pool'[e].free = pool[e].free + 1
      /\ pool'[e].idle = pool[e].idle /\ pool'[e].all = pool[e].all \ {p}
      /\ pool'[e].generation = pool[e].generation
      /\ \A f \in Envs \ {e} : pool'[f] = pool[f]
  BY <1>0 DEF Changed, TypeOK, Pools
<1>2. \A f \in Envs : pool'[f].open =>
        /\ pool[f].open
        /\ pool'[f].free = IF e = f THEN pool[f].free + 1 ELSE pool[f].free
  BY <1>0, <1>1
<1>3. /\ run' \in [Runs -> Dispatches]
      /\ run'[r].pc = "ended" /\ run'[r].proc = NoProc
      /\ \A s \in Runs \ {r} : run'[s] = run[s]
      /\ gate' \in [capacity : Nat \ {0}, inUse : Nat]
      /\ committed' \in Nat
      /\ SlotsConserved'
  BY <1>2, LeaveFacts
<1>4. TypeOK'
  BY <1>0, <1>1, <1>3 DEF TypeOK
<1>5. \A f \in Envs : /\ pool'[f].idle = pool[f].idle
                      /\ pool'[f].generation = pool[f].generation
                      /\ \A i \in DOMAIN pool[f].idle : pool[f].idle[i] # p
                      /\ pool'[f].all \subseteq pool[f].all
  BY <1>0, <1>1, IdleFacts
<1>6. \A s \in Runs \ {r} : run[s].proc \in Procs => run[s].proc # p
  BY HeldFacts
<1>7. NoSharedWorker'
  BY <1>3, <1>5, SameLists
<1>8. PoolBounded'
  <2>1. ASSUME NEW f \in Envs, pool'[f].open PROVE Len(pool'[f].idle) <= pool'[f].free
    <3>1. pool[f].open /\ Len(pool[f].idle) <= pool[f].free
      BY <1>2, <2>1 DEF PoolInv, PoolBounded
    <3>2. pool[f].free \in Nat /\ Len(pool[f].idle) \in Nat
      BY <1>0, IdleTypes DEF TypeOK, Pools
    <3>3. pool'[f].idle = pool[f].idle /\ pool'[f].free \in {pool[f].free, pool[f].free + 1}
      BY <1>2, <1>5, <2>1
    <3> QED BY ONLY <3>1, <3>2, <3>3
  <2> QED BY <2>1 DEF PoolBounded
<1>9. IdleIsCurrent'
  <2>1. ASSUME NEW f \in Envs, NEW i \in DOMAIN pool'[f].idle
        PROVE  LET q == pool'[f].idle[i] IN
               /\ q \in pool'[f].all
               /\ \E j \in DOMAIN pool[f].idle : pool[f].idle[j] = q
               /\ proc'[q] = proc[q]
               /\ pool'[f].generation = pool[f].generation
    BY <1>1, <1>5, IdleFacts
  <2> QED BY <2>1, IdleStep, SMTT(30), ZenonT(90)
<1>10. HeldWorkers'
  <2>1. \A s \in Runs : EnvOf[s] \in Envs
    OBVIOUS
  <2>2. \A s \in Runs \ {r} : run[s].proc \in Procs =>
          /\ proc'[run[s].proc] = proc[run[s].proc]
          /\ pool[EnvOf[s]].generation = pool'[EnvOf[s]].generation
          /\ run[s].proc \in pool[EnvOf[s]].all => run[s].proc \in pool'[EnvOf[s]].all
    BY <1>1, <1>5, <1>6, <2>1
  <2>3. run'[r].proc \notin Procs /\ run'[r].pc \notin {"starting", "executing", "closing"}
    BY <1>3
  <2> QED BY ONLY PoolInv, <1>3, <1>4, <2>2, <2>3, HeldStep
<1>11. EnteredIsOwned'
  <2>1. \A f \in Envs : \A q \in pool'[f].all : q \in pool[f].all /\ q # p
    <3>1. ASSUME NEW f \in Envs, f # e, NEW q \in pool[f].all PROVE q # p
      BY <1>5, <3>1, OwnedFacts, HeldFacts
    <3> QED BY <1>1, <3>1
  <2>2. \A f \in Envs : \A q \in pool'[f].all :
          /\ q \in pool[f].all
          /\ \A i \in DOMAIN pool[f].idle :
               pool[f].idle[i] = q => \E j \in DOMAIN pool'[f].idle : pool'[f].idle[j] = q
          /\ r \in Runs /\ run[r].proc = q =>
               run'[r].proc = q /\ run'[r].pc \in {"executing", "closing"}
    BY <1>5, <2>1
  <2> QED BY ONLY PoolInv, <1>3, <2>2, EnteredStep
<1>12. UnopenedIsUnused'
  BY <1>0, <1>1, <1>3, UnopenedStep
<1> QED BY <1>3, <1>4, <1>7, <1>8, <1>9, <1>10, <1>11, <1>12, PermitsStay, PoolInvParts
        DEF Ownership

(* A dispatch ends and its worker is kept.                                 *)
LEMMA KeepStep ==
  ASSUME PoolInv, NEW r \in Runs, LeaveGates(r, "ended"), run[r].pc = "executing",
         UNCHANGED <<call, permits>>, Kept(r), ReleaseKept(r), NEW served \in Nat,
         proc' = [proc EXCEPT ![run[r].proc] = Served(run[r].proc, served)]
  PROVE  PoolInv'
<1> DEFINE e == EnvOf[r]
           p == run[r].proc
           n == Len(pool[e].idle)
<1>0. /\ TypeOK /\ e \in Envs /\ pool[e].open /\ pool[e] \in Pools /\ pool[e].free \in Nat
      /\ p \in Procs /\ proc[p] \in Processes /\ p \in pool[e].all /\ proc[p].state = "live"
      /\ proc[p].generation = pool[e].generation
  BY RunFacts, HeldFacts
     DEF PoolInv, TypeOK, At, Pools, Holding, Admitted, Reserved, Kept, Alive
<1>1. /\ DOMAIN pool[e].idle = 1..n /\ n \in Nat
      /\ Append(pool[e].idle, p) \in Seq(Procs)
      /\ DOMAIN Append(pool[e].idle, p) = 1..(n + 1) /\ Len(Append(pool[e].idle, p)) = n + 1
      /\ \A i \in 1..n : Append(pool[e].idle, p)[i] = pool[e].idle[i]
      /\ Append(pool[e].idle, p)[n + 1] = p
  BY <1>0, IdleTypes, AppendProperties
<1>2. /\ pool' \in [Envs -> Pools] /\ pool'[e].open /\ pool'[e].free = pool[e].free + 1
      /\ pool'[e].idle = Append(pool[e].idle, p) /\ pool'[e].all = pool[e].all
      /\ pool'[e].generation = pool[e].generation
      /\ \A f \in Envs \ {e} : pool'[f] = pool[f]
  BY <1>0, <1>1 DEF ReleaseKept, Changed, TypeOK, Pools
<1>3. \A f \in Envs : pool'[f].open =>
        /\ pool[f].open
        /\ pool'[f].free = IF e = f THEN pool[f].free + 1 ELSE pool[f].free
  BY <1>0, <1>2
<1>4. /\ run' \in [Runs -> Dispatches]
      /\ run'[r].pc = "ended" /\ run'[r].proc = NoProc
      /\ \A s \in Runs \ {r} : run'[s] = run[s]
      /\ gate' \in [capacity : Nat \ {0}, inUse : Nat]
      /\ committed' \in Nat
      /\ SlotsConserved'
  BY <1>3, LeaveFacts DEF Holding, Admitted, Reserved
<1>5. /\ proc' \in [Procs -> Processes]
      /\ \A q \in Procs : proc'[q].state = proc[q].state /\ proc'[q].generation = proc[q].generation
  BY <1>0 DEF TypeOK, Served, Processes
<1>6. TypeOK'
  BY <1>0, <1>2, <1>4, <1>5 DEF TypeOK
<1>7. /\ \A s \in Runs \ {r} : run[s].proc # p
      /\ \A f \in Envs : \A i \in DOMAIN pool[f].idle : pool[f].idle[i] # p
  BY <1>0, HeldFacts, IdleFacts
\* A place of a new list is a place of the old one, or the last one of this.
<1>8. \A f \in Envs : \A i \in DOMAIN pool'[f].idle :
        \/ i \in DOMAIN pool[f].idle /\ pool'[f].idle[i] = pool[f].idle[i]
        \/ f = e /\ i = n + 1 /\ pool'[f].idle[i] = p
  <2>1. n \in Nat
    BY <1>1
  <2>2. ASSUME NEW i \in 1..(n + 1) PROVE i \in 1..n \/ i = n + 1
    BY ONLY <2>1, i \in 1..(n + 1)
  <2>3. ASSUME NEW i \in DOMAIN pool'[e].idle
        PROVE  \/ i \in DOMAIN pool[e].idle /\ pool'[e].idle[i] = pool[e].idle[i]
               \/ i = n + 1 /\ pool'[e].idle[i] = p
    <3>1. i \in 1..n \/ i = n + 1
      BY <1>1, <1>2, <2>2
    <3>2. CASE i \in 1..n
      BY <1>1, <1>2, <3>2
    <3>3. CASE i = n + 1
      BY <1>1, <1>2, <3>3
    <3> QED BY <3>1, <3>2, <3>3
  <2> QED BY <1>2, <2>3
<1>9. NoSharedWorker'
  <2>1. ASSUME NEW s \in Runs, NEW t \in Runs, run'[s].proc = run'[t].proc
        PROVE  s = t \/ run'[s].proc = NoProc
    BY <1>4, <2>1, HeldFacts
  <2>2. ASSUME NEW f \in Envs, NEW i \in DOMAIN pool'[f].idle, NEW s \in Runs
        PROVE  run'[s].proc # pool'[f].idle[i]
    <3>1. pool'[f].idle[i] \in Procs
      BY <1>0, <1>8, IdleFacts
    <3>2. run'[s].proc = NoProc \/ (s # r /\ run'[s].proc = run[s].proc)
      BY <1>4
    <3>3. CASE i \in DOMAIN pool[f].idle /\ pool'[f].idle[i] = pool[f].idle[i]
      BY <3>1, <3>2, <3>3, IdleFacts
    <3>4. CASE pool'[f].idle[i] = p
      BY <1>0, <1>7, <3>2, <3>4
    <3> QED BY <1>8, <3>3, <3>4
  <2>3. ASSUME NEW f \in Envs, NEW i \in DOMAIN pool'[f].idle,
               NEW g \in Envs, NEW j \in DOMAIN pool'[g].idle,
               pool'[f].idle[i] = pool'[g].idle[j]
        PROVE  f = g /\ i = j
    <3>1. CASE pool'[f].idle[i] = p
      <4>1. ~(j \in DOMAIN pool[g].idle /\ pool'[g].idle[j] = pool[g].idle[j])
        BY <1>7, <2>3, <3>1
      <4>2. ~(i \in DOMAIN pool[f].idle /\ pool'[f].idle[i] = pool[f].idle[i])
        BY <1>7, <3>1
      <4> QED BY <1>8, <4>1, <4>2
    <3>2. CASE pool'[f].idle[i] # p
      <4>1. /\ i \in DOMAIN pool[f].idle /\ pool'[f].idle[i] = pool[f].idle[i]
            /\ j \in DOMAIN pool[g].idle /\ pool'[g].idle[j] = pool[g].idle[j]
        BY <1>8, <2>3, <3>2
      <4>2. pool[f].idle[i] = pool[g].idle[j]
        BY <2>3, <4>1
      <4> QED BY ONLY PoolInv, f \in Envs, g \in Envs, <4>1, <4>2, IdleFacts
    <3> QED BY <3>1, <3>2
  <2> QED BY <2>1, <2>2, <2>3 DEF NoSharedWorker, Held
<1>10. PoolBounded'
  <2>1. \A f \in Envs : pool[f].open => Len(pool[f].idle) <= pool[f].free
    BY DEF PoolInv, PoolBounded
  <2>2. Len(pool'[e].idle) <= pool'[e].free
    BY <1>0, <1>1, <1>2, <2>1
  <2> QED BY <1>2, <2>1, <2>2 DEF PoolBounded
<1>11. IdleIsCurrent'
  <2> SUFFICES ASSUME NEW f \in Envs, NEW i \in DOMAIN pool'[f].idle
               PROVE  LET q == pool'[f].idle[i]
                      IN /\ q \in pool'[f].all /\ proc'[q].state \in {"live", "gone"}
                         /\ proc'[q].generation = pool'[f].generation
    BY DEF IdleIsCurrent
  <2>1. CASE i \in DOMAIN pool[f].idle /\ pool'[f].idle[i] = pool[f].idle[i]
    <3>1. /\ pool[f].idle[i] \in Procs /\ pool[f].idle[i] \in pool[f].all
          /\ proc[pool[f].idle[i]].state \in {"live", "gone"}
          /\ proc[pool[f].idle[i]].generation = pool[f].generation
      BY <2>1, IdleFacts
    <3>2. pool'[f].all = pool[f].all /\ pool'[f].generation = pool[f].generation
      BY <1>2
    <3> QED BY <1>5, <2>1, <3>1, <3>2
  <2>2. CASE f = e /\ i = n + 1 /\ pool'[f].idle[i] = p
    BY <1>0, <1>2, <1>5, <2>2
  <2> QED BY <1>8, <2>1, <2>2
<1>12. HeldWorkers'
  <2>1. \A s \in Runs : EnvOf[s] \in Envs
    OBVIOUS
  <2>2. \A s \in Runs \ {r} : run[s].proc \in Procs =>
          /\ proc'[run[s].proc].generation = proc[run[s].proc].generation
          /\ proc'[run[s].proc].state = proc[run[s].proc].state
          /\ pool[EnvOf[s]].generation = pool'[EnvOf[s]].generation
          /\ run[s].proc \in pool[EnvOf[s]].all => run[s].proc \in pool'[EnvOf[s]].all
    BY <1>2, <1>5, <2>1
  <2>3. run'[r].proc \notin Procs /\ run'[r].pc \notin {"starting", "executing", "closing"}
    BY <1>4
  <2> QED BY ONLY PoolInv, <1>4, <1>6, <2>2, <2>3, HeldStep
<1>13. EnteredIsOwned'
  <2>1. \A f \in Envs : \A q \in pool[f].all : q = p => f = e
    BY <1>7, OwnedFacts
  <2>2. n + 1 \in DOMAIN pool'[e].idle /\ pool'[e].idle[n + 1] = p
    BY <1>1, <1>2
  <2>3. \A f \in Envs : \A i \in DOMAIN pool[f].idle :
          i \in DOMAIN pool'[f].idle /\ pool'[f].idle[i] = pool[f].idle[i]
    <3>1. \A i \in 1..n : i \in 1..(n + 1)
      BY <1>1
    <3>2. \A i \in DOMAIN pool[e].idle :
            i \in DOMAIN pool'[e].idle /\ pool'[e].idle[i] = pool[e].idle[i]
      BY <1>1, <1>2, <3>1
    <3> QED BY <1>2, <3>2
  <2>4. ASSUME NEW f \in Envs, NEW q \in pool'[f].all
        PROVE  \/ /\ q \in pool[f].all
                  /\ \A i \in DOMAIN pool[f].idle :
                       pool[f].idle[i] = q =>
                         \E j \in DOMAIN pool'[f].idle : pool'[f].idle[j] = q
                  /\ r \in Runs /\ run[r].proc = q =>
                       run'[r].proc = q /\ run'[r].pc \in {"executing", "closing"}
               \/ \E j \in DOMAIN pool'[f].idle : pool'[f].idle[j] = q
               \/ /\ r \in Runs /\ EnvOf[r] = f /\ run'[r].proc = q
                  /\ run'[r].pc \in {"executing", "closing"}
    <3>1. q \in pool[f].all
      BY <1>2
    <3>2. CASE q = p
      BY <2>1, <2>2, <3>1, <3>2
    <3>3. CASE q # p
      BY <2>3, <3>1, <3>3
    <3> QED BY <3>2, <3>3
  <2>5. \A s \in Runs \ {r} : run'[s] = run[s]
    BY <1>4
  <2> QED BY <2>4, <2>5, EnteredStep
<1>14. UnopenedIsUnused'
  BY <1>0, <1>2, <1>4, UnopenedStep
<1> QED BY <1>4, <1>6, <1>9, <1>10, <1>11, <1>12, <1>13, <1>14, PermitsStay, PoolInvParts
        DEF Ownership

(* A dispatch ends: its worker failed to start, is kept, or is closed.     *)
LEMMA EndStep ==
  ASSUME PoolInv, NEW r \in Runs, SpawnFails(r) \/ EndsRun(r)
  PROVE  PoolInv'
<1>0. TypeOK /\ proc \in [Procs -> Processes] /\ EnvOf[r] \in Envs
  BY DEF PoolInv, TypeOK
<1>1. CASE SpawnFails(r)
  <2>1. /\ run[r].pc \in {"resolving", "starting"} /\ LeaveGates(r, "ended")
        /\ UNCHANGED <<call, permits>>
        /\ Changed(EnvOf[r], pool[EnvOf[r]].free + 1, pool[EnvOf[r]].idle, pool[EnvOf[r]].all)
        /\ proc' = [p \in Procs |-> IF p = run[r].proc THEN Blank ELSE proc[p]]
    BY <1>1 DEF SpawnFails
  \* A process that is not ready is not entered.
  <2>2. run[r].proc \notin pool[EnvOf[r]].all
    <3> SUFFICES ASSUME run[r].proc \in pool[EnvOf[r]].all PROVE FALSE
      OBVIOUS
    <3>1. run[r].proc \in Procs
      BY <1>0 DEF TypeOK, Pools
    <3>2. run[r].pc = "starting"
      BY <2>1, <3>1, HeldFacts
    <3>3. CASE \E i \in DOMAIN pool[EnvOf[r]].idle : pool[EnvOf[r]].idle[i] = run[r].proc
      BY <1>0, <3>3, IdleFacts
    <3>4. CASE \E s \in Runs : run[s].proc = run[r].proc /\ run[s].pc \in {"executing", "closing"}
      BY <3>1, <3>2, <3>4, HeldFacts
    <3> QED BY <1>0, <3>3, <3>4, OwnedFacts
  <2>3. pool[EnvOf[r]].all \ {run[r].proc} = pool[EnvOf[r]].all
    BY <2>2
  <2>4. /\ proc' \in [Procs -> Processes]
        /\ \A q \in Procs \ {run[r].proc} : proc'[q] = proc[q]
    BY <1>0, <2>1, BlankType
  <2>5. run[r].pc \in Holding
    BY <2>1 DEF Holding, Admitted, Reserved
  <2> QED BY <2>1, <2>3, <2>4, <2>5, ForgetStep
<1>2. ASSUME NEW served \in Nat, EndDispatch(r, served), run[r].pc \in {"executing", "closing"},
             run[r].pc = "closing" => ~Alive(run[r].proc)
      PROVE  PoolInv'
  <2>1. /\ LeaveGates(r, "ended") /\ UNCHANGED <<call, permits>> /\ run[r].proc \in Procs
        /\ run[r].pc \in Holding
    BY <1>2, HeldFacts DEF EndDispatch, Holding, Admitted, Reserved
  <2>2. CASE Kept(r)
    <3>1. run[r].pc = "executing"
      BY <1>2, <2>2 DEF Kept
    <3>2. ReleaseKept(r) /\ proc' = [proc EXCEPT ![run[r].proc] = Served(run[r].proc, served)]
      BY <1>2, <2>2 DEF EndDispatch
    <3> QED BY <2>1, <2>2, <3>1, <3>2, KeepStep
  <2>3. CASE ~Kept(r)
    <3>1. /\ ReleaseClosed(r) /\ proc' = [proc EXCEPT ![run[r].proc] = Discarded(run[r].proc)]
          /\ Discarded(run[r].proc) \in Processes
      BY <1>0, <1>2, <2>1, <2>3, ProcTypes DEF EndDispatch
    <3>2. Changed(EnvOf[r], pool[EnvOf[r]].free + 1, pool[EnvOf[r]].idle,
                  pool[EnvOf[r]].all \ {run[r].proc})
      BY <3>1 DEF ReleaseClosed
    <3>3. /\ proc' \in [Procs -> Processes]
          /\ \A q \in Procs \ {run[r].proc} : proc'[q] = proc[q]
      BY <1>0, <3>1
    <3> QED BY <2>1, <3>2, <3>3, ForgetStep
  <2> QED BY <2>2, <2>3
<1>3. ASSUME EndsRun(r) PROVE PoolInv'
  <2>1. run[r].proc \in Procs => proc[run[r].proc].served \in Nat
    BY <1>0 DEF Processes
  <2>2. run[r].pc \in {"executing", "closing"}
    BY <1>3 DEF EndsRun, RunReturns, RunErrors, StoppedRunEnds, At
  <2>3. proc[run[r].proc].served \in Nat
    BY <2>1, <2>2, HeldFacts
  <2>4. CASE RunReturns(r)
    BY <1>2, <2>3, <2>4 DEF RunReturns, At
  <2>5. CASE RunErrors(r)
    BY <1>2, <2>3, <2>5 DEF RunErrors, At
  <2>6. CASE StoppedRunEnds(r)
    BY <1>2, <2>3, <2>6 DEF StoppedRunEnds, At
  <2> QED BY <1>3, <2>4, <2>5, <2>6 DEF EndsRun
<1> QED BY <1>1, <1>3

----------------------------------------------------------------------------
(* Exits, the reaper, a drain                                              *)

(* A process exits.                                                        *)
LEMMA ExitStep ==
  ASSUME PoolInv, NEW p \in Procs, ExitProcess(p)
  PROVE  PoolInv'
<1>0. TypeOK /\ Alive(p) /\ UNCHANGED <<pool, run, gate, committed, call, permits>>
  BY DEF PoolInv, ExitProcess
<1>1. /\ proc' \in [Procs -> Processes]
      /\ \A q \in Procs \ {p} : proc'[q] = proc[q]
      /\ Held(p) \/ InPool(p) => proc'[p].state = "gone" /\ proc'[p].generation = proc[p].generation
  <2>1. Blank \in Processes /\ InState(p, "gone") \in Processes
    BY <1>0, BlankType DEF TypeOK, InState, Processes, ProcStates
  <2>2. /\ InState(p, "gone").state = "gone" /\ InState(p, "gone").generation = proc[p].generation
    BY DEF InState
  <2> QED BY <1>0, <2>1, <2>2 DEF ExitProcess, TypeOK
<1>2. TypeOK'
  BY <1>0, <1>1 DEF TypeOK
<1>3. SlotsConserved'
  BY <1>0, SlotsStay
<1>4. PoolBounded' /\ NoSharedWorker' /\ EnteredIsOwned' /\ UnopenedIsUnused'
  <2>1. PoolBounded /\ NoSharedWorker /\ EnteredIsOwned /\ UnopenedIsUnused
    BY DEF PoolInv
  <2>2. pool' = pool /\ run' = run
    BY <1>0
  <2>3. PoolBounded' /\ UnopenedIsUnused'
    BY ONLY <2>1, <2>2 DEF PoolBounded, UnopenedIsUnused, At
  <2>4. NoSharedWorker'
    BY ONLY <2>1, <2>2 DEF NoSharedWorker, Held
  <2>5. EnteredIsOwned'
    BY ONLY <2>1, <2>2 DEF EnteredIsOwned
  <2> QED BY <2>3, <2>4, <2>5
<1>5. IdleIsCurrent'
  <2>1. ASSUME NEW e \in Envs, NEW i \in DOMAIN pool[e].idle
        PROVE  /\ proc'[pool[e].idle[i]].generation = proc[pool[e].idle[i]].generation
               /\ proc'[pool[e].idle[i]].state \in {proc[pool[e].idle[i]].state, "gone"}
               /\ pool[e].idle[i] \in pool[e].all
    <3>1. pool[e].idle[i] \in Procs /\ pool[e].idle[i] \in pool[e].all
      BY IdleFacts
    <3>2. pool[e].idle[i] = p => InPool(p)
      BY DEF InPool
    <3> QED BY <1>1, <3>1, <3>2
  <2> QED BY <1>0, <2>1, IdleStep
<1>6. HeldWorkers'
  <2>1. ASSUME NEW s \in Runs, run[s].proc \in Procs
        PROVE  /\ proc'[run[s].proc].generation = proc[run[s].proc].generation
               /\ \/ proc'[run[s].proc].state = proc[run[s].proc].state
                  \/ run[s].pc # "starting" /\ proc'[run[s].proc].state = "gone"
    <3>1. CASE run[s].proc = p
      <4>1. run[s].pc # "starting"
        BY <1>0, <3>1, HeldFacts DEF Alive
      <4>2. Held(p)
        BY <3>1 DEF Held
      <4> QED BY <1>1, <3>1, <4>1, <4>2
    <3>2. CASE run[s].proc # p
      BY <1>1, <2>1, <3>2
    <3> QED BY <3>1, <3>2
  <2>2. PICK r : r \notin Runs
    BY NoSetContainsEverything
  <2>3. \A s \in Runs \ {r} : run'[s] = run[s]
    BY <1>0
  <2>4. \A s \in Runs \ {r} : run[s].proc \in Procs =>
          LET q == run[s].proc
              e == EnvOf[s]
          IN /\ proc'[q].generation = proc[q].generation
             /\ \/ proc'[q].state = proc[q].state
                \/ run[s].pc # "starting" /\ proc'[q].state = "gone"
                \/ /\ run[s].pc # "starting" /\ proc'[q].state = "closing"
                   /\ pool[e].generation < pool'[e].generation
             /\ \/ pool[e].generation < pool'[e].generation
                \/ /\ pool[e].generation = pool'[e].generation
                   /\ q \in pool[e].all => q \in pool'[e].all
    BY <1>0, <2>1
  <2> QED BY ONLY PoolInv, <1>2, <2>2, <2>3, <2>4, HeldStep
<1> QED BY <1>0, <1>2, <1>3, <1>4, <1>5, <1>6, PermitsStay, PoolInvParts DEF Ownership

(* Dropping the first n of a list.                                         *)
LEMMA TailList ==
  ASSUME NEW S, NEW s \in Seq(S), NEW n \in 1..Len(s)
  PROVE  /\ SubSeq(s, n + 1, Len(s)) \in Seq(S)
         /\ Len(SubSeq(s, n + 1, Len(s))) = Len(s) - n
         /\ DOMAIN SubSeq(s, n + 1, Len(s)) = 1..(Len(s) - n)
         /\ \A i \in 1..(Len(s) - n) : SubSeq(s, n + 1, Len(s))[i] = s[i + n]
BY SubSeqProperties

(* Idle workers are reaped.                                                *)
LEMMA ReapStep ==
  ASSUME PoolInv, NEW e \in Envs, NEW n, ReapIdle(e, n)
  PROVE  PoolInv'
<1> DEFINE L == Len(pool[e].idle)
           old == {pool[e].idle[i] : i \in 1..n}
<1>0. /\ TypeOK /\ pool[e].open /\ pool[e] \in Pools /\ n \in DOMAIN pool[e].idle
      /\ UNCHANGED <<run, gate, committed, call, permits>>
  BY DEF PoolInv, TypeOK, ReapIdle
<1>1. /\ DOMAIN pool[e].idle = 1..L /\ L \in Nat /\ pool[e].idle \in Seq(Procs) /\ n \in 1..L
      /\ n \in Nat /\ \A i \in 1..n : i \in DOMAIN pool[e].idle
  BY <1>0, IdleTypes
<1>2. /\ pool' = [pool EXCEPT ![e] = [open |-> pool[e].open, free |-> pool[e].free,
                  idle |-> SubSeq(pool[e].idle, n + 1, L), all |-> pool[e].all \ old,
                  generation |-> pool[e].generation, paused |-> pool[e].paused]]
      /\ proc' = [p \in Procs |-> IF p \in old THEN Discarded(p) ELSE proc[p]]
  BY DEF ReapIdle, Changed
<1>3. /\ SubSeq(pool[e].idle, n + 1, L) \in Seq(Procs)
      /\ Len(SubSeq(pool[e].idle, n + 1, L)) = L - n
      /\ DOMAIN SubSeq(pool[e].idle, n + 1, L) = 1..(L - n)
      /\ \A i \in 1..(L - n) : SubSeq(pool[e].idle, n + 1, L)[i] = pool[e].idle[i + n]
  BY <1>1, TailList
<1>4. /\ pool' \in [Envs -> Pools] /\ pool'[e].open /\ pool'[e].free = pool[e].free
      /\ pool'[e].idle = SubSeq(pool[e].idle, n + 1, L) /\ pool'[e].all = pool[e].all \ old
      /\ pool'[e].generation = pool[e].generation
      /\ \A f \in Envs \ {e} : pool'[f] = pool[f]
  BY <1>0, <1>2, <1>3 DEF TypeOK, Pools
<1>5. /\ proc' \in [Procs -> Processes]
      /\ \A p \in Procs \ old : proc'[p] = proc[p]
  BY <1>0, <1>2, ProcTypes DEF TypeOK
<1>6. TypeOK'
  BY <1>0, <1>4, <1>5 DEF TypeOK
<1>7. SlotsConserved'
  BY <1>0, <1>4, SlotsStay
<1>8. \A s \in Runs : run[s].proc \notin old
  BY <1>1, IdleFacts, SMTT(60)
<1>9. \A i \in DOMAIN pool'[e].idle :
        /\ i \in Nat /\ i + n \in DOMAIN pool[e].idle /\ pool'[e].idle[i] = pool[e].idle[i + n]
        /\ i + n \notin 1..n
  <2>1. \A i \in 1..(L - n) : i \in Nat /\ i + n \in 1..L /\ i + n \notin 1..n
    BY <1>1
  <2> QED BY <1>1, <1>3, <1>4, <2>1
<1>10. NoSharedWorker'
  <2> DEFINE m == [f \in Envs |-> IF f = e THEN n ELSE 0]
  <2>1. m \in [Envs -> Nat]
    BY <1>1
  <2>2. ASSUME NEW f \in Envs, NEW i \in DOMAIN pool'[f].idle
        PROVE  i \in Nat /\ i + m[f] \in DOMAIN pool[f].idle
               /\ pool'[f].idle[i] = pool[f].idle[i + m[f]]
    <3>1. CASE f = e
      BY <1>9, <3>1
    <3>2. CASE f # e
      <4>1. pool'[f].idle = pool[f].idle /\ DOMAIN pool[f].idle = 1..Len(pool[f].idle)
        BY <1>0, <1>4, <3>2, IdleTypes
      <4>2. i \in Nat /\ i + m[f] = i
        BY <3>2, <4>1
      <4> QED BY <4>1, <4>2
    <3> QED BY <3>1, <3>2
  <2>3. PICK r : r \notin Runs
    BY NoSetContainsEverything
  <2>4. \A s \in Runs \ {r} : run'[s].proc = run[s].proc
    BY <1>0
  <2> HIDE DEF m
  <2> QED BY ONLY PoolInv, <2>1, <2>2, <2>3, <2>4, SharedStep
<1>11. PoolBounded'
  <2>1. \A f \in Envs : pool[f].open => Len(pool[f].idle) <= pool[f].free
    BY DEF PoolInv, PoolBounded
  <2>2. pool[e].free \in Nat
    BY <1>0 DEF Pools
  <2>3. Len(pool'[e].idle) <= pool'[e].free
    BY <1>0, <1>1, <1>3, <1>4, <2>1, <2>2
  <2> QED BY <1>4, <2>1, <2>3 DEF PoolBounded
\* What still waits was not among those reaped.
<1>12. \A f \in Envs : \A i \in DOMAIN pool'[f].idle :
         /\ pool'[f].idle[i] \notin old
         /\ \E j \in DOMAIN pool[f].idle : pool[f].idle[j] = pool'[f].idle[i]
  <2> SUFFICES ASSUME NEW f \in Envs, NEW i \in DOMAIN pool'[f].idle
               PROVE  /\ \A k \in 1..n : pool'[f].idle[i] # pool[e].idle[k]
                      /\ \E j \in DOMAIN pool[f].idle : pool[f].idle[j] = pool'[f].idle[i]
    OBVIOUS
  <2>1. CASE f = e
    <3>1. i + n \in DOMAIN pool[e].idle /\ pool'[e].idle[i] = pool[e].idle[i + n]
          /\ i + n \notin 1..n
      BY <1>9, <2>1
    <3> QED BY <1>1, <2>1, <3>1, IdleFacts
  <2>2. CASE f # e
    <3>1. pool'[f].idle = pool[f].idle
      BY <1>4, <2>2
    <3>2. i \in DOMAIN pool[f].idle /\ \A k \in 1..n : k \in DOMAIN pool[e].idle
      BY <1>1, <3>1
    <3>3. \A k \in 1..n : pool[f].idle[i] # pool[e].idle[k]
      BY ONLY PoolInv, e \in Envs, f \in Envs, <2>2, <3>2, IdleFacts
    <3> QED BY <3>1, <3>2, <3>3
  <2> QED BY <2>1, <2>2
<1>13. IdleIsCurrent'
  <2>1. ASSUME NEW f \in Envs, NEW i \in DOMAIN pool'[f].idle
        PROVE  LET q == pool'[f].idle[i] IN
               /\ q \in pool'[f].all
               /\ \E j \in DOMAIN pool[f].idle : pool[f].idle[j] = q
               /\ proc'[q] = proc[q]
               /\ pool'[f].generation = pool[f].generation
    <3>1. PICK j \in DOMAIN pool[f].idle : pool[f].idle[j] = pool'[f].idle[i]
      BY <1>12
    <3>2. pool'[f].idle[i] \in Procs /\ pool'[f].idle[i] \in pool[f].all
      BY <3>1, IdleFacts
    <3> QED BY <1>4, <1>5, <1>12, <3>1, <3>2
  <2> QED BY <2>1, IdleStep, SMTT(60)
<1>14. HeldWorkers'
  <2>1. PICK r : r \notin Runs
    BY NoSetContainsEverything
  <2>2. \A s \in Runs \ {r} : run'[s] = run[s]
    BY <1>0
  <2>3. \A s \in Runs \ {r} : run[s].proc \in Procs =>
          /\ proc'[run[s].proc] = proc[run[s].proc]
          /\ pool[EnvOf[s]].generation = pool'[EnvOf[s]].generation
          /\ run[s].proc \in pool[EnvOf[s]].all => run[s].proc \in pool'[EnvOf[s]].all
    <3>1. \A s \in Runs : EnvOf[s] \in Envs
      OBVIOUS
    <3> QED BY <1>4, <1>5, <1>8, <3>1
  <2> QED BY ONLY PoolInv, <1>6, <2>1, <2>2, <2>3, HeldStep
<1>15. EnteredIsOwned'
  <2>1. PICK r : r \notin Runs
    BY NoSetContainsEverything
  <2>2. \A s \in Runs \ {r} : run'[s] = run[s]
    BY <1>0
  <2>3. ASSUME NEW i \in DOMAIN pool[e].idle, pool[e].idle[i] \notin old
        PROVE  \E j \in DOMAIN pool'[e].idle : pool'[e].idle[j] = pool[e].idle[i]
    <3>1. i \in 1..L /\ i \notin 1..n
      BY <1>1, <2>3
    <3>2. i - n \in 1..(L - n) /\ (i - n) + n = i
      BY <1>1, <3>1
    <3>3. i - n \in DOMAIN pool'[e].idle /\ pool'[e].idle[i - n] = pool[e].idle[i]
      BY <1>3, <1>4, <3>2
    <3> QED BY <3>3
  <2>4. \A f \in Envs : \A p \in pool'[f].all :
          /\ p \in pool[f].all
          /\ \A i \in DOMAIN pool[f].idle :
               pool[f].idle[i] = p => \E j \in DOMAIN pool'[f].idle : pool'[f].idle[j] = p
    <3> SUFFICES ASSUME NEW f \in Envs, NEW p \in pool'[f].all
                 PROVE  /\ p \in pool[f].all
                        /\ \A i \in DOMAIN pool[f].idle : pool[f].idle[i] = p =>
                             \E j \in DOMAIN pool'[f].idle : pool'[f].idle[j] = p
      OBVIOUS
    <3>1. CASE f = e
      <4>1. p \in pool[e].all /\ p \notin old
        BY <1>4, <3>1
      <4> QED BY <2>3, <3>1, <4>1
    <3>2. CASE f # e
      BY <1>4, <3>2
    <3> QED BY <3>1, <3>2
  <2> QED BY ONLY PoolInv, <2>1, <2>2, <2>4, EnteredStep
<1>16. UnopenedIsUnused'
  <2>1. PICK r : r \notin Runs
    BY NoSetContainsEverything
  <2> QED BY <1>0, <1>4, <2>1, UnopenedStep
<1> QED BY <1>0, <1>6, <1>7, <1>10, <1>11, <1>13, <1>14, <1>15, <1>16, PermitsStay, PoolInvParts
        DEF Ownership

(* A pool is drained.                                                      *)
LEMMA DrainStep ==
  ASSUME PoolInv, NEW e \in Envs, Drain(e)
  PROVE  PoolInv'
<1>0. /\ TypeOK /\ pool[e].open /\ pool[e] \in Pools /\ <<>> \in Seq(Procs)
      /\ UNCHANGED <<run, gate, committed, call, permits>>
  BY DEF PoolInv, TypeOK, Drain
<1>1. /\ pool' = [pool EXCEPT ![e] = [open |-> TRUE, free |-> pool[e].free, idle |-> <<>>,
                  all |-> {}, generation |-> pool[e].generation + 1, paused |-> TRUE]]
      /\ proc' = [p \in Procs |-> IF p \notin ToClose(e) THEN proc[p]
                                  ELSE IF Held(p) THEN Asked(p) ELSE Discarded(p)]
  BY DEF Drain
<1>2. /\ pool' \in [Envs -> Pools] /\ pool'[e].open /\ pool'[e].free = pool[e].free
      /\ pool'[e].idle = <<>> /\ pool'[e].all = {}
      /\ pool'[e].generation = pool[e].generation + 1
      /\ \A f \in Envs \ {e} : pool'[f] = pool[f]
  BY <1>0, <1>1 DEF TypeOK, Pools
<1>3. DOMAIN pool'[e].idle = {} /\ Len(pool'[e].idle) = 0
  BY <1>2
<1>4. /\ proc' \in [Procs -> Processes]
      /\ \A p \in Procs \ ToClose(e) : proc'[p] = proc[p]
      /\ \A p \in Procs \cap ToClose(e) : Held(p) => proc'[p] = Asked(p)
  BY <1>0, <1>1, ProcTypes DEF TypeOK
<1>5. TypeOK'
  BY <1>0, <1>2, <1>4 DEF TypeOK
<1>6. SlotsConserved'
  BY <1>0, <1>2, SlotsStay
\* What is closed waits in this pool or is out with a run of this environment.
<1>7. ASSUME NEW p \in ToClose(e)
      PROVE  \/ \E i \in DOMAIN pool[e].idle : pool[e].idle[i] = p
             \/ /\ Alive(p)
                /\ \E s \in Runs : /\ EnvOf[s] = e /\ run[s].proc = p
                                   /\ run[s].pc \in {"executing", "closing"}
  <2>1. CASE p \in DroppedAbove(e, 0)
    BY <2>1 DEF DroppedAbove
  <2>2. CASE p \in pool[e].all /\ Alive(p)
    BY <2>2, OwnedFacts
  <2> QED BY <2>1, <2>2 DEF ToClose
<1>8. ASSUME NEW f \in Envs, f # e, NEW i \in DOMAIN pool[f].idle
      PROVE  pool[f].idle[i] \notin ToClose(e)
  BY <1>7, <1>8, IdleFacts
<1>9. ASSUME NEW s \in Runs, run[s].proc \in ToClose(e), run[s].proc \in Procs
      PROVE  EnvOf[s] = e /\ run[s].pc # "starting" /\ Alive(run[s].proc)
  <2>1. ~ \E i \in DOMAIN pool[e].idle : pool[e].idle[i] = run[s].proc
    BY IdleFacts
  <2>2. PICK t \in Runs : /\ EnvOf[t] = e /\ run[t].proc = run[s].proc
                          /\ run[t].pc \in {"executing", "closing"}
    BY <1>7, <1>9, <2>1
  <2>3. s = t
    BY <1>9, <2>2, HeldFacts
  <2> QED BY <1>7, <1>9, <2>1, <2>2, <2>3
<1>10. NoSharedWorker'
  <2>1. ASSUME NEW f \in Envs, NEW i \in DOMAIN pool'[f].idle
        PROVE  f # e /\ pool'[f] = pool[f]
    BY <1>2, <1>3
  <2>2. \A s \in Runs : run'[s].proc = run[s].proc
    BY <1>0
  <2>3. NoSharedWorker
    BY DEF PoolInv
  <2>4. \A s, t \in Runs : run'[s].proc = run'[t].proc => s = t \/ run'[s].proc = NoProc
    BY ONLY <2>2, <2>3 DEF NoSharedWorker
  <2>5. ASSUME NEW f \in Envs, NEW i \in DOMAIN pool'[f].idle
        PROVE  /\ \A s \in Runs : run'[s].proc # pool'[f].idle[i]
               /\ \A g \in Envs : \A j \in DOMAIN pool'[g].idle :
                    pool'[f].idle[i] = pool'[g].idle[j] => f = g /\ i = j
    BY <2>1, <2>2, IdleFacts
  <2> QED BY <2>4, <2>5 DEF NoSharedWorker, Held
<1>11. PoolBounded'
  <2>1. \A f \in Envs : pool[f].open => Len(pool[f].idle) <= pool[f].free
    BY DEF PoolInv, PoolBounded
  <2>2. Len(pool'[e].idle) <= pool'[e].free
    BY <1>0, <1>2, <1>3 DEF Pools
  <2> QED BY <1>2, <2>1, <2>2 DEF PoolBounded
<1>12. IdleIsCurrent'
  <2>1. ASSUME NEW f \in Envs, NEW i \in DOMAIN pool'[f].idle
        PROVE  LET q == pool'[f].idle[i] IN
               /\ q \in pool'[f].all
               /\ \E j \in DOMAIN pool[f].idle : pool[f].idle[j] = q
               /\ proc'[q] = proc[q]
               /\ pool'[f].generation = pool[f].generation
    <3>1. f # e /\ pool'[f] = pool[f]
      BY <1>2, <1>3
    <3>2. /\ pool[f].idle[i] \in Procs /\ pool[f].idle[i] \in pool[f].all
          /\ pool[f].idle[i] \notin ToClose(e)
      BY <1>8, <3>1, IdleFacts
    <3> QED BY <1>4, <3>1, <3>2
  <2> QED BY <2>1, IdleStep, SMTT(60)
<1>13. HeldWorkers'
  <2>1. PICK r : r \notin Runs
    BY NoSetContainsEverything
  <2>2. \A s \in Runs \ {r} : run'[s] = run[s]
    BY <1>0
  <2>3. ASSUME NEW s \in Runs \ {r}, run[s].proc \in Procs
        PROVE  LET p == run[s].proc
                   f == EnvOf[s]
               IN /\ proc'[p].generation = proc[p].generation
                  /\ \/ proc'[p].state = proc[p].state
                     \/ run[s].pc # "starting" /\ proc'[p].state = "gone"
                     \/ /\ run[s].pc # "starting" /\ proc'[p].state = "closing"
                        /\ pool[f].generation < pool'[f].generation
                  /\ \/ pool[f].generation < pool'[f].generation
                     \/ /\ pool[f].generation = pool'[f].generation
                        /\ p \in pool[f].all => p \in pool'[f].all
    <3>1. EnvOf[s] \in Envs /\ pool[e].generation < pool[e].generation + 1
      BY <1>0 DEF Pools
    <3>2. \/ pool[EnvOf[s]].generation < pool'[EnvOf[s]].generation
          \/ EnvOf[s] # e /\ pool[EnvOf[s]] = pool'[EnvOf[s]]
      BY <1>2, <3>1
    <3>3. CASE run[s].proc \in ToClose(e)
      <4>1. /\ EnvOf[s] = e /\ run[s].pc # "starting" /\ Alive(run[s].proc)
            /\ proc'[run[s].proc] = Asked(run[s].proc)
        BY <1>4, <1>9, <2>3, <3>3 DEF Held
      <4>2. /\ proc'[run[s].proc].state = "closing"
            /\ proc'[run[s].proc].generation = proc[run[s].proc].generation
        BY <4>1 DEF Asked, InState, Alive
      <4> QED BY <3>2, <4>1, <4>2
    <3>4. CASE run[s].proc \notin ToClose(e)
      BY <1>4, <2>3, <3>2, <3>4
    <3> QED BY <3>3, <3>4
  <2> QED BY ONLY PoolInv, <1>5, <2>1, <2>2, <2>3, HeldStep
<1>14. EnteredIsOwned'
  <2>1. PICK r : r \notin Runs
    BY NoSetContainsEverything
  <2>2. \A s \in Runs \ {r} : run'[s] = run[s]
    BY <1>0
  <2>3. \A f \in Envs : \A p \in pool'[f].all :
          /\ p \in pool[f].all
          /\ \A i \in DOMAIN pool[f].idle :
               pool[f].idle[i] = p => \E j \in DOMAIN pool'[f].idle : pool'[f].idle[j] = p
    BY <1>2
  <2> QED BY ONLY PoolInv, <2>1, <2>2, <2>3, EnteredStep
<1>15. UnopenedIsUnused'
  <2>1. PICK r : r \notin Runs
    BY NoSetContainsEverything
  <2> QED BY <1>0, <1>2, <2>1, UnopenedStep
<1> QED BY <1>0, <1>5, <1>6, <1>10, <1>11, <1>12, <1>13, <1>14, <1>15, PermitsStay, PoolInvParts
        DEF Ownership

----------------------------------------------------------------------------
(* The memory gate                                                         *)

(* Reservations of one run: as many units as it reserved.                  *)
LEMMA UnitsOfRun ==
  ASSUME NEW r \in Runs
  PROVE  /\ IsFiniteSet({r} \X (1..Amount(EnvOf[r])))
         /\ Cardinality({r} \X (1..Amount(EnvOf[r]))) = Amount(EnvOf[r])
<1> DEFINE n == Amount(EnvOf[r])
<1>1. n \in Nat
  BY AmountIsNat
<1> HIDE DEF n
<1>2. IsFiniteSet(1..n) /\ Cardinality(1..n) = n
  <2>1. 1 \in Int /\ n \in Int
    BY <1>1
  <2>2. IsFiniteSet(1..n) /\ Cardinality(1..n) = IF 1 > n THEN 0 ELSE n - 1 + 1
    BY <2>1, FS_Interval
  <2> QED BY <1>1, <2>2
<1>3. IsFiniteSet({r}) /\ Cardinality({r}) = 1
  BY FS_Singleton
<1>4. IsFiniteSet({r} \X (1..n)) /\ Cardinality({r} \X (1..n)) = 1 * n
  BY <1>2, <1>3, FS_Product
<1>5. 1 * n = n
  BY <1>1
<1> QED BY <1>4, <1>5 DEF n

(* The units of memory follow the one run that changes.                    *)
LEMMA UnitsJoin ==
  ASSUME NEW r \in Runs, IsFiniteSet(MemoryUnits), run[r].pc \notin Reserved,
         HeavyRuns' = IF Amount(EnvOf[r]) > 0 THEN HeavyRuns \cup {r} ELSE HeavyRuns
  PROVE  /\ IsFiniteSet(MemoryUnits')
         /\ Cardinality(MemoryUnits') = Cardinality(MemoryUnits) + Amount(EnvOf[r])
<1> DEFINE units == {r} \X (1..Amount(EnvOf[r]))
<1>1. IsFiniteSet(units) /\ Cardinality(units) = Amount(EnvOf[r]) /\ Amount(EnvOf[r]) \in Nat
  BY UnitsOfRun, AmountIsNat
<1>2. MemoryUnits' = MemoryUnits \cup units
  <2>1. CASE Amount(EnvOf[r]) > 0
    BY <2>1 DEF MemoryUnits
  <2>2. CASE ~(Amount(EnvOf[r]) > 0)
    <3>1. 1..Amount(EnvOf[r]) = {}
      BY <1>1, <2>2
    <3> QED BY <2>2, <3>1 DEF MemoryUnits
  <2> QED BY <2>1, <2>2
<1>3. MemoryUnits \cap units = {}
  BY DEF MemoryUnits, HeavyRuns
<1>4. Cardinality(MemoryUnits) \in Nat
  BY FS_CardinalityType
<1> HIDE DEF units
<1>5. Cardinality(MemoryUnits \cap units) = 0
  BY <1>3, FS_EmptySet
<1>6. /\ IsFiniteSet(MemoryUnits \cup units)
      /\ Cardinality(MemoryUnits \cup units) =
           Cardinality(MemoryUnits) + Cardinality(units) - Cardinality(MemoryUnits \cap units)
  BY <1>1, FS_Union
<1> QED BY <1>1, <1>2, <1>4, <1>5, <1>6

LEMMA UnitsLeave ==
  ASSUME NEW r \in Runs, IsFiniteSet(MemoryUnits), run[r].pc \in Reserved,
         HeavyRuns' = HeavyRuns \ {r}
  PROVE  /\ IsFiniteSet(MemoryUnits')
         /\ Cardinality(MemoryUnits) = Cardinality(MemoryUnits') + Amount(EnvOf[r])
<1> DEFINE units == {r} \X (1..Amount(EnvOf[r]))
<1>1. IsFiniteSet(units) /\ Cardinality(units) = Amount(EnvOf[r]) /\ Amount(EnvOf[r]) \in Nat
  BY UnitsOfRun, AmountIsNat
<1>2. MemoryUnits' \subseteq MemoryUnits /\ MemoryUnits' \cap units = {}
  BY DEF MemoryUnits
<1>3. MemoryUnits = MemoryUnits' \cup units
  <2>1. CASE Amount(EnvOf[r]) > 0
    <3>1. HeavyRuns = HeavyRuns' \cup {r}
      BY <2>1 DEF HeavyRuns
    <3> QED BY <3>1 DEF MemoryUnits
  <2>2. CASE ~(Amount(EnvOf[r]) > 0)
    <3>1. 1..Amount(EnvOf[r]) = {}
      BY <1>1, <2>2
    <3>2. HeavyRuns' = HeavyRuns
      BY <2>2 DEF HeavyRuns
    <3> QED BY <3>1, <3>2 DEF MemoryUnits
  <2> QED BY <2>1, <2>2
<1>4. IsFiniteSet(MemoryUnits') /\ Cardinality(MemoryUnits') \in Nat
  BY <1>2, FS_Subset, FS_CardinalityType
<1> HIDE DEF units
<1>5. Cardinality(MemoryUnits' \cup units) = Cardinality(MemoryUnits') + Cardinality(units) - 0
  BY <1>1, <1>2, <1>4, FS_Union, FS_EmptySet
<1> QED BY <1>1, <1>3, <1>4, <1>5

BudgetInv == TypeOK /\ ReservationsCounted /\ WithinBudget

(* Nobody is past the gate.                                                *)
LEMMA BudgetEmpty ==
  ASSUME TypeOK, committed = 0, \A r \in Runs : run[r].pc \notin Reserved
  PROVE  BudgetInv
<1>1. HeavyRuns = {} /\ MemoryUnits = {}
  BY DEF HeavyRuns, MemoryUnits
<1> QED BY <1>1, FS_EmptySet DEF BudgetInv, ReservationsCounted, WithinBudget

(* A step that lets nobody past the gate and nobody out.                   *)
LEMMA BudgetStays ==
  ASSUME BudgetInv, TypeOK', committed' = committed, HeavyRuns' = HeavyRuns
  PROVE  BudgetInv'
BY DEF BudgetInv, ReservationsCounted, WithinBudget, MemoryUnits

(* A run moves on the same side of the gate.                               *)
LEMMA BudgetSameSide ==
  ASSUME BudgetInv, TypeOK', committed' = committed, NEW r \in Runs,
         \A s \in Runs \ {r} : run'[s] = run[s],
         run'[r].pc \in Reserved <=> run[r].pc \in Reserved
  PROVE  BudgetInv'
<1>1. HeavyRuns' = HeavyRuns
  BY DEF HeavyRuns
<1> QED BY <1>1, BudgetStays

(* Heavy runs are counted.                                                 *)
LEMMA HeavyCount ==
  ASSUME TRUE
  PROVE  IsFiniteSet(HeavyRuns) /\ Cardinality(HeavyRuns) \in Nat
BY FS_Subset, FS_CardinalityType DEF HeavyRuns

(* A run passes the gate.  When nothing is committed no heavy run is past  *)
(* it, and the one that enters is alone.                                   *)
LEMMA BudgetReserve ==
  ASSUME BudgetInv, TypeOK', NEW r \in Runs, Reserve(r)
  PROVE  BudgetInv'
<1> DEFINE amount == Amount(EnvOf[r])
<1>1. /\ run[r].pc = "memory" /\ amount \in Nat /\ committed \in Nat
      /\ amount > 0 => committed = 0 \/ committed + amount <= Budget
      /\ committed' = committed + amount
      /\ run' = [run EXCEPT ![r] = [pc |-> "admission", proc |-> run[r].proc]]
  BY AmountIsNat DEF BudgetInv, TypeOK, Reserve, At, To
<1>2. HeavyRuns' = IF amount > 0 THEN HeavyRuns \cup {r} ELSE HeavyRuns
  <2>1. /\ run'[r].pc \in Reserved
        /\ \A s \in Runs \ {r} : run'[s] = run[s]
        /\ run[r].pc \notin Reserved
    BY <1>1 DEF Reserved, BudgetInv, TypeOK
  <2> QED BY <2>1 DEF HeavyRuns
<1>3. ReservationsCounted'
  <2>1. run[r].pc \notin Reserved
    BY <1>1 DEF Reserved
  <2> QED BY <1>1, <1>2, <2>1, UnitsJoin DEF BudgetInv, ReservationsCounted
<1>4. WithinBudget'
  <2>1. CASE amount > 0 /\ committed = 0
    <3>1. MemoryUnits = {}
      BY <2>1, FS_EmptySet DEF BudgetInv, ReservationsCounted
    <3>2. HeavyRuns = {}
      <4> SUFFICES ASSUME NEW s \in HeavyRuns PROVE FALSE
        OBVIOUS
      <4>1. s \in Runs /\ Amount(EnvOf[s]) \in Nat /\ Amount(EnvOf[s]) > 0
        BY AmountIsNat DEF HeavyRuns
      <4>2. <<s, 1>> \in {s} \X (1..Amount(EnvOf[s]))
        BY <4>1
      <4>3. <<s, 1>> \in MemoryUnits
        BY <4>2 DEF MemoryUnits
      <4> QED BY <3>1, <4>3
    <3>3. HeavyRuns' = {r}
      BY <1>2, <2>1, <3>2
    <3>4. Cardinality(HeavyRuns') = 1
      BY <3>3, FS_Singleton
    <3> QED BY <3>4 DEF WithinBudget
  <2>2. CASE amount > 0 /\ committed + amount <= Budget
    BY <1>1, <2>2 DEF WithinBudget
  <2>3. CASE ~(amount > 0)
    <3>1. committed' = committed /\ HeavyRuns' = HeavyRuns
      BY <1>1, <1>2, <2>3
    <3> QED BY <3>1 DEF BudgetInv, WithinBudget
  <2> QED BY <1>1, <2>1, <2>2, <2>3
<1> QED BY <1>3, <1>4 DEF BudgetInv

(* A run leaves the gate, and takes from the sum what it had put there.    *)
LEMMA BudgetLeave ==
  ASSUME BudgetInv, TypeOK', NEW r \in Runs, run[r].pc \in Reserved, run'[r].pc \notin Reserved,
         \A s \in Runs \ {r} : run'[s] = run[s],
         committed' = Less(committed, Amount(EnvOf[r]))
  PROVE  BudgetInv'
<1>1. HeavyRuns' = HeavyRuns \ {r}
  BY DEF HeavyRuns
<1>2. /\ IsFiniteSet(MemoryUnits')
      /\ Cardinality(MemoryUnits) = Cardinality(MemoryUnits') + Amount(EnvOf[r])
  BY <1>1, UnitsLeave DEF BudgetInv, ReservationsCounted
<1>3. Cardinality(MemoryUnits') \in Nat /\ Amount(EnvOf[r]) \in Nat
  BY <1>2, FS_CardinalityType, AmountIsNat
<1>4. committed = Cardinality(MemoryUnits') + Amount(EnvOf[r])
  BY <1>2 DEF BudgetInv, ReservationsCounted
<1>5. committed' = Cardinality(MemoryUnits') /\ committed' <= committed /\ committed' \in Nat
      /\ committed \in Nat /\ Budget \in Nat
  BY <1>3, <1>4 DEF Less
<1>6. /\ Cardinality(HeavyRuns') \in Nat /\ Cardinality(HeavyRuns) \in Nat
      /\ Cardinality(HeavyRuns') <= Cardinality(HeavyRuns)
  BY <1>1, HeavyCount, FS_Subset, FS_CardinalityType
<1>7. WithinBudget'
  BY <1>5, <1>6 DEF BudgetInv, WithinBudget
<1> QED BY <1>2, <1>5, <1>7 DEF BudgetInv, ReservationsCounted

----------------------------------------------------------------------------
(* The invariant                                                           *)

LEMMA InitialPool == Init => PoolInv
<1> SUFFICES ASSUME Init PROVE PoolInv
  OBVIOUS
<1>1. /\ \A e \in Envs : pool[e] = ClosedPool /\ pool[e].idle = <<>>
      /\ \A r \in Runs : run[r].pc = "idle" /\ run[r].proc = NoProc
      /\ \A c \in Calls : call[c].pc = "idle" /\ call[c].permit = FALSE
  BY DEF Init, ClosedPool
<1>2. \A e \in Envs : /\ DOMAIN pool[e].idle = {} /\ ~pool[e].open /\ pool[e].all = {}
  BY <1>1 DEF ClosedPool
<1>3. TypeOK
  <2>1. ClosedPool \in Pools
    <3>1. <<>> \in Seq(Procs)
      OBVIOUS
    <3> QED BY <3>1 DEF ClosedPool, Pools
  <2>2. gate \in [capacity : Nat \ {0}, inUse : Nat]
    BY DEF Init
  <2>3. call \in [Calls -> [pc : CallStates, permit : BOOLEAN]]
    BY DEF Init, CallStates
  <2>4. run \in [Runs -> Dispatches]
    BY DEF Init, Dispatches, RunStates
  <2> QED BY <2>1, <2>2, <2>3, <2>4, BlankType DEF Init, TypeOK
<1>4. SlotsConserved
  <2>1. AdmittedRuns = {} /\ PermittedCalls = {}
    BY <1>1 DEF AdmittedRuns, PermittedCalls, Admitted, Reserved
  <2>2. gate.inUse = 0 /\ permits = SubCap
    BY DEF Init
  <2> QED BY <1>2, <2>1, <2>2, FS_EmptySet DEF SlotsConserved
<1>5. PoolBounded /\ NoSharedWorker /\ IdleIsCurrent
  BY <1>1, <1>2 DEF PoolBounded, NoSharedWorker, IdleIsCurrent
<1>6. HeldWorkers /\ EnteredIsOwned /\ UnopenedIsUnused /\ PermitsAreUsed
  BY <1>1, <1>2 DEF HeldWorkers, EnteredIsOwned, UnopenedIsUnused, PermitsAreUsed, At
<1> QED BY <1>3, <1>4, <1>5, <1>6 DEF PoolInv

LEMMA StutterStep ==
  ASSUME PoolInv, UNCHANGED poolVars
  PROVE  PoolInv'
BY DEF PoolInv, poolVars, TypeOK, SlotsConserved, HoldersOf, AdmittedRuns, PermittedCalls,
       PoolBounded, NoSharedWorker, Held, IdleIsCurrent, HeldWorkers, At, EnteredIsOwned,
       UnopenedIsUnused, PermitsAreUsed

(* A step of the pool.  The bound on drains is the bound of a run of TLC:   *)
(* nothing here rests on it.                                               *)
PoolStep == [Next \/ \E e \in Envs : Drain(e)]_poolVars

LEMMA NextStep ==
  ASSUME PoolInv, PoolStep
  PROVE  PoolInv'
<1>1. ASSUME NEW r \in Runs, RunStep(r) \/ SpawnStep(r) PROVE PoolInv'
  BY <1>1, DispatchStep, WaitingStep, AcquireStep, StartStep, ReadyStep, StopStep, EndStep
     DEF RunStep, SpawnStep, AcquireWorker, StartsWorker
<1>2. ASSUME NEW c \in Calls, CallStep(c) PROVE PoolInv'
  BY <1>2, CallsStep
<1>3. ASSUME NEW p \in Procs, ExitProcess(p) PROVE PoolInv'
  BY <1>3, ExitStep
<1>4. ASSUME NEW e \in Envs, Reaps(e) \/ Drains(e) \/ Unpause(e) PROVE PoolInv'
  BY <1>4, ReapStep, DrainStep, OperatorStep DEF Reaps, Drains
<1>5. ASSUME NEW c \in Ceilings, Resize(c) PROVE PoolInv'
  BY <1>5, OperatorStep
<1>6. ASSUME NEW e \in Envs, Drain(e) PROVE PoolInv'
  BY <1>6, DrainStep
<1> QED BY <1>1, <1>2, <1>3, <1>4, <1>5, <1>6, StutterStep DEF Next, PoolStep

(* PoolInv is an invariant of the runtime pool.                            *)
THEOREM PoolInvariant == PoolSpec => []PoolInv
<1>1. PoolInv /\ [Next]_poolVars => PoolInv'
  BY NextStep DEF PoolStep
<1> QED BY <1>1, InitialPool, PTL DEF PoolSpec

(* The variables keep their types.                                         *)
THEOREM TypeCorrect == PoolSpec => []TypeOK
<1>1. PoolInv => TypeOK
  BY DEF PoolInv
<1> QED BY <1>1, PoolInvariant, PTL

(* However a dispatch ends, its worker slot, its place under the ceiling   *)
(* and the permit of a call go back exactly once.                          *)
THEOREM SlotConservation == PoolSpec => []SlotsConserved
<1>1. PoolInv => SlotsConserved
  BY DEF PoolInv
<1> QED BY <1>1, PoolInvariant, PTL

(* An environment never keeps more workers than its maximum, although idle *)
(* workers hold no slot.                                                   *)
THEOREM PoolIsBounded == PoolSpec => []PoolBounded
<1>1. PoolInv => PoolBounded
  BY DEF PoolInv
<1> QED BY <1>1, PoolInvariant, PTL

(* No worker process is handed to two dispatches.                          *)
THEOREM ExclusiveWorkers == PoolSpec => []NoSharedWorker
<1>1. PoolInv => NoSharedWorker
  BY DEF PoolInv
<1> QED BY <1>1, PoolInvariant, PTL

(* No worker of an earlier generation, or that was asked to exit, waits    *)
(* for a run.                                                              *)
THEOREM WarmIsCurrent == PoolSpec => []IdleIsCurrent
<1>1. PoolInv => IdleIsCurrent
  BY DEF PoolInv
<1> QED BY <1>1, PoolInvariant, PTL

(* The memory gate's sum and bound, step by step.                          *)
LEMMA BudgetNext ==
  ASSUME BudgetInv, TypeOK', PoolStep
  PROVE  BudgetInv'
<1>0. run \in [Runs -> Dispatches]
  BY DEF BudgetInv, TypeOK
<1>1. ASSUME NEW r \in Runs, Reserve(r) PROVE BudgetInv'
  BY <1>1, BudgetReserve
<1>2. ASSUME NEW r \in Runs, NEW pc \in {"ended", "parked"}, run[r].pc \in Reserved,
             LeaveGates(r, pc)
      PROVE  BudgetInv'
  <2>1. /\ run'[r].pc \notin Reserved /\ \A s \in Runs \ {r} : run'[s] = run[s]
        /\ committed' = Less(committed, Amount(EnvOf[r]))
    BY <1>0, <1>2 DEF LeaveGates, Reserved
  <2> QED BY <1>2, <2>1, BudgetLeave
<1>3. ASSUME NEW r \in Runs, FindPaused(r) \/ SpawnFails(r) \/ EndsRun(r) PROVE BudgetInv'
  <2>1. run[r].pc \in Reserved
    BY <1>3 DEF FindPaused, CanAcquire, SpawnFails, EndsRun, RunReturns, RunErrors,
                StoppedRunEnds, At, Reserved
  <2>2. LeaveGates(r, "parked") \/ LeaveGates(r, "ended")
    BY <1>3 DEF FindPaused, SpawnFails, EndsRun, RunReturns, RunErrors, StoppedRunEnds,
                EndDispatch
  <2> QED BY <1>2, <2>1, <2>2
<1>4. ASSUME NEW r \in Runs, CancelWaiting(r) PROVE BudgetInv'
  <2>1. /\ run'[r].pc = "ended" /\ \A s \in Runs \ {r} : run'[s] = run[s]
        /\ "ended" \notin Reserved
    BY <1>0, <1>4 DEF CancelWaiting, To, Reserved
  <2>2. CASE run[r].pc = "memory"
    <3>1. committed' = committed /\ run[r].pc \notin Reserved
      BY <1>4, <2>2 DEF CancelWaiting, At, Reserved
    <3> QED BY <2>1, <3>1, BudgetSameSide
  <2>3. CASE run[r].pc # "memory"
    <3>1. committed' = Less(committed, Amount(EnvOf[r])) /\ run[r].pc \in Reserved
      BY <1>4, <2>3 DEF CancelWaiting, At, Reserved
    <3> QED BY <2>1, <3>1, BudgetLeave
  <2> QED BY <2>2, <2>3
<1>5. ASSUME NEW r \in Runs,
             \/ Dispatch(r) \/ Admit(r) \/ Reuse(r) \/ Recycle(r) \/ SpawnWorker(r)
             \/ StartsWorker(r) \/ WorkerReady(r) \/ StopRun(r) \/ Requeue(r)
      PROVE  BudgetInv'
  <2>1. committed' = committed /\ \E d : run' = [run EXCEPT ![r] = d]
    BY <1>5 DEF Dispatch, Admit, Reuse, Recycle, SpawnWorker, StartsWorker, StartWorker,
                WorkerReady, StopRun, Requeue, To
  <2>2. run'[r].pc \in Reserved <=> run[r].pc \in Reserved
    BY <1>0, <1>5 DEF Dispatch, Admit, Reuse, Recycle, SpawnWorker, StartsWorker, StartWorker,
                      WorkerReady, StopRun, Requeue, CanAcquire, To, At, Reserved
  <2>3. \A s \in Runs \ {r} : run'[s] = run[s]
    BY <1>0, <2>1
  <2> QED BY <2>1, <2>2, <2>3, BudgetSameSide
<1>6. ASSUME UNCHANGED <<run, committed>> PROVE BudgetInv'
  BY <1>6, BudgetStays DEF HeavyRuns
<1>7. ASSUME NEW c \in Calls, CallStep(c) PROVE UNCHANGED <<run, committed>>
  BY <1>7 DEF CallStep, CallWorkflow, CallAdmitted, CallProceeds, CallEnds, CallCancelled
<1>8. ASSUME NEW p \in Procs, ExitProcess(p) PROVE UNCHANGED <<run, committed>>
  BY <1>8 DEF ExitProcess
<1>9. ASSUME NEW e \in Envs, Reaps(e) \/ Drain(e) \/ Drains(e) \/ Unpause(e)
      PROVE  UNCHANGED <<run, committed>>
  BY <1>9 DEF Reaps, ReapIdle, Drains, Drain, Unpause
<1>10. ASSUME NEW c \in Ceilings, Resize(c) PROVE UNCHANGED <<run, committed>>
  BY <1>10 DEF Resize
<1>11. ASSUME NEW r \in Runs, RunStep(r) \/ SpawnStep(r) PROVE BudgetInv'
  BY <1>1, <1>3, <1>4, <1>5, <1>11 DEF RunStep, SpawnStep, AcquireWorker
<1>12. CASE UNCHANGED poolVars
  BY <1>6, <1>12 DEF poolVars
<1> QED BY <1>6, <1>7, <1>8, <1>9, <1>10, <1>11, <1>12 DEF Next, PoolStep

(* The committed memory is the sum of the reservations that are out, and   *)
(* runs that share the budget never exceed it together.                    *)
THEOREM BudgetInvariant == PoolSpec => [](ReservationsCounted /\ WithinBudget)
<1>1. Init => BudgetInv
  <2> SUFFICES ASSUME Init PROVE BudgetInv
    OBVIOUS
  <2>1. TypeOK /\ committed = 0 /\ \A r \in Runs : run[r].pc \notin Reserved
    BY InitialPool DEF PoolInv, Init, Reserved
  <2> QED BY <2>1, BudgetEmpty
<1>2. PoolInv' /\ BudgetInv /\ [Next]_poolVars => BudgetInv'
  BY BudgetNext DEF PoolInv, PoolStep
<1>3. BudgetInv => ReservationsCounted /\ WithinBudget
  BY DEF BudgetInv
<1> QED BY <1>1, <1>2, <1>3, PoolInvariant, PTL DEF PoolSpec

(* Concurrent runs never reserve more memory together than the budget,     *)
(* unless one is alone.                                                    *)
THEOREM MemoryBounded == PoolSpec => []WithinBudget
BY BudgetInvariant, PTL

=============================================================================

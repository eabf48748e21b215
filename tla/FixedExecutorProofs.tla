------------------------ MODULE FixedExecutorProofs ------------------------
(***************************************************************************)
(* The executor, for any number of workers, callers and jobs.  LifeInv     *)
(* says which places go together, WaveInv who may still be inside a wave,  *)
(* JobInv which jobs have been claimed and what the cutoff is, ReplyInv    *)
(* what a call that has ended reported, CallInv what the pool is while a   *)
(* call leaves.  On them rests that the executor implements IndexedWaves.  *)
(***************************************************************************)
EXTENDS FixedExecutor, TLAPS, FiniteSetTheorems, WellFoundedInduction

\* Every non-empty set of naturals has a least element.
LEMMA LeastNumber ==
  ASSUME NEW S, S \subseteq Nat, S # {}
  PROVE  \E k \in S : \A j \in S : k <= j
<1> DEFINE Below == {p \in Nat \X Nat : p[1] < p[2]}
<1>1. IsWellFoundedOn(Below, Nat)
  BY NatLessThanWellFounded DEF OpToRel
<1>2. \E k \in S : \A j \in S : <<j, k>> \notin Below
  BY <1>1, WFMin
<1>3. \A j, k \in S : <<j, k>> \notin Below => k <= j
  OBVIOUS
<1> QED
  BY <1>2, <1>3

\* The choice in select_lowest_index_failure_locked has something to choose.
LEMMA LowestExists ==
  ASSUME TypeOK
  PROVE  /\ LowestFailure \in 0 .. MaxJobs
         /\ \E w \in Workers : LowestFailure = failures[w]
         /\ \A w \in Workers : LowestFailure <= failures[w]
<1> DEFINE S == {failures[w] : w \in Workers}
<1>1. S \in SUBSET Nat /\ S # {}
  BY ConstantsAssumption DEF TypeOK
<1>2. \E k \in S : \A j \in S : k <= j
  BY <1>1, LeastNumber
<1>3. \E k \in S : \A w \in Workers : k <= failures[w]
  BY <1>2
<1>4. LowestFailure \in S /\ \A w \in Workers : LowestFailure <= failures[w]
  BY <1>3, Zenon DEF LowestFailure
<1>5. S \subseteq 0 .. MaxJobs
  BY DEF TypeOK
<1> QED BY <1>4, <1>5

\* What the steps of a worker need of the jobs it holds.
LEMMA HeldJobs ==
  ASSUME TypeOK, JobInv, NEW w \in Workers
  PROVE  /\ worker[w] = "claim" => candidate[w] < MaxJobs
         /\ worker[w] \in Holding => candidate[w] \in Jobs
         /\ worker[w] = "recheck" => ran[candidate[w]] = 0
BY ConstantsAssumption DEF TypeOK, JobInv, WaveBounds, WorkerInv, Jobs, Holding

\* Type correctness is inductive, given what is known of the held jobs.
LEMMA TypeStep == IInv /\ [Next]_vars => TypeOK'
<1> SUFFICES ASSUME TypeOK, JobInv, [Next]_vars PROVE TypeOK'
  BY DEF IInv
<1> USE ConstantsAssumption DEF TypeOK, Jobs, NoJob, OwnerPlaces, CallerPlaces,
      WorkerPlaces, Executing, Replies, vars, mutexVars, waveVars, atomicVars,
      localVars, callVars, ownerVars
<1>1. CASE CreateFails
  BY <1>1 DEF CreateFails
<1>2. CASE CheckCreated
  BY <1>2 DEF CheckCreated
<1>3. CASE CheckReady
  BY <1>3 DEF CheckReady
<1>4. CASE Destroy
  BY <1>4 DEF Destroy
<1>5. CASE RequestStop
  BY <1>5 DEF RequestStop
<1>6. CASE NotifyStop
  BY <1>6 DEF NotifyStop, WorkNotified
<1>7. CASE OwnerJoins
  BY <1>7 DEF OwnerJoins
<1>8. CASE WakeOwner
  BY <1>8 DEF WakeOwner
<1>9. ASSUME NEW c \in Callers, Refuse(c) PROVE TypeOK'
  BY <1>9 DEF Refuse
<1>10. ASSUME NEW c \in Callers, MeetBrokenPool(c) PROVE TypeOK'
  BY <1>10 DEF MeetBrokenPool, StopPool
<1>11. ASSUME NEW c \in Callers, KeepWaiting(c) PROVE TypeOK'
  BY <1>11 DEF KeepWaiting
<1>12. ASSUME NEW c \in Callers, WaveBroken(c) PROVE TypeOK'
  BY <1>12 DEF WaveBroken, StopPool
<1>13. ASSUME NEW c \in Callers, WaveReturns(c) PROVE TypeOK'
  BY <1>13 DEF WaveReturns
<1>14. ASSUME NEW c \in Callers, WaveThrows(c) PROVE TypeOK'
  BY <1>14, LowestExists DEF WaveThrows, StopPool
<1>15. ASSUME NEW c \in Callers, CallerNotifies(c) PROVE TypeOK'
  BY <1>15 DEF CallerNotifies, WorkNotified
<1>16. ASSUME NEW c \in Callers, CallerJoins(c) PROVE TypeOK'
  BY <1>16 DEF CallerJoins
<1>17. ASSUME NEW c \in Callers, WakeCaller(c) PROVE TypeOK'
  BY <1>17 DEF WakeCaller
<1>18. ASSUME NEW c \in Callers, NEW n \in 1 .. MaxJobs,
             NEW F \in SUBSET (0 .. n - 1), StartWave(c, n, F)
      PROVE TypeOK'
  BY <1>18 DEF StartWave, PrepareWave, WorkNotified
<1>19. ASSUME NEW w \in Workers, CreateWorker(w) PROVE TypeOK'
  BY <1>19 DEF CreateWorker
<1>20. ASSUME NEW w \in Workers, AuditFails(w) PROVE TypeOK'
  BY <1>20 DEF AuditFails, Goto
<1>21. ASSUME NEW w \in Workers, RelockFails(w) PROVE TypeOK'
  BY <1>21 DEF RelockFails, Goto
<1>22. ASSUME NEW w \in Workers, ExitUnready(w) PROVE TypeOK'
  BY <1>22 DEF ExitUnready, Goto
<1>23. ASSUME NEW w \in Workers, BecomeReady(w) PROVE TypeOK'
  BY <1>23 DEF BecomeReady, EnterLoop, NotifyCoordinator
<1>24. ASSUME NEW w \in Workers, Recheck(w) PROVE TypeOK'
  BY <1>24 DEF Recheck, EnterLoop
<1>25. ASSUME NEW w \in Workers, LoadNextJob(w) PROVE TypeOK'
  BY <1>25 DEF LoadNextJob, Goto
<1>26. ASSUME NEW w \in Workers, LoadLimit(w) PROVE TypeOK'
  BY <1>26 DEF LoadLimit, Goto
<1>27. ASSUME NEW w \in Workers, ClaimJob(w) PROVE TypeOK'
  <2>1. next_job + 1 \in 0 .. MaxJobs
    <3>1. next_job = candidate[w] /\ candidate[w] < MaxJobs
      BY <1>27, HeldJobs DEF ClaimJob
    <3>2. next_job \in 0 .. MaxJobs /\ MaxJobs \in Nat
      OBVIOUS
    <3> QED BY ONLY <3>1, <3>2
  <2> QED
    BY <1>27, <2>1 DEF ClaimJob, Goto
<1>28. ASSUME NEW w \in Workers, ClaimRetry(w) PROVE TypeOK'
  BY <1>28 DEF ClaimRetry, Goto
<1>29. ASSUME NEW w \in Workers, DropJob(w) PROVE TypeOK'
  BY <1>29 DEF DropJob, Goto
<1>30. ASSUME NEW w \in Workers, StartJob(w) PROVE TypeOK'
  <2>1. candidate[w] \in Jobs /\ ran[candidate[w]] = 0
    BY <1>30, HeldJobs DEF StartJob, Holding
  <2>2. ran' \in [Jobs -> {0, 1}]
    BY <1>30, <2>1 DEF StartJob
  <2> QED
    BY <1>30, <2>2 DEF StartJob, Goto
<1>31. ASSUME NEW w \in Workers, CallReturns(w) PROVE TypeOK'
  BY <1>31 DEF CallReturns, Goto
<1>32. ASSUME NEW w \in Workers, CallThrows(w) PROVE TypeOK'
  BY <1>32 DEF CallThrows, Goto
<1>33. ASSUME NEW w \in Workers, LowEnough(w) PROVE TypeOK'
  BY <1>33 DEF LowEnough, Goto
<1>34. ASSUME NEW w \in Workers, LowerCutoff(w) PROVE TypeOK'
  BY <1>34 DEF LowerCutoff, Goto
<1>35. ASSUME NEW w \in Workers, LowerRetry(w) PROVE TypeOK'
  BY <1>35 DEF LowerRetry
<1>36. ASSUME NEW w \in Workers, CompleteWave(w) PROVE TypeOK'
  BY <1>36 DEF CompleteWave, EnterLoop, NotifyCoordinator
<1>37. ASSUME NEW w \in Workers, ReportInfrastructureFailure(w) PROVE TypeOK'
  BY <1>37 DEF ReportInfrastructureFailure, NotifyCoordinator, WorkNotified
<1>38. ASSUME NEW w \in Workers, WakeWorker(w) PROVE TypeOK'
  BY <1>38 DEF WakeWorker, Goto
<1>39. CASE UNCHANGED vars
  BY <1>39
<1> QED
  BY <1>1, <1>2, <1>3, <1>4, <1>5, <1>6, <1>7, <1>8, <1>9, <1>10, <1>11,
     <1>12, <1>13, <1>14, <1>15, <1>16, <1>17, <1>18, <1>19, <1>20, <1>21,
     <1>22, <1>23, <1>24, <1>25, <1>26, <1>27, <1>28, <1>29, <1>30, <1>31,
     <1>32, <1>33, <1>34, <1>35, <1>36, <1>37, <1>38, <1>39
  DEF Next, OwnerStep, SpuriousWake, CallerStep, Call, WorkerStep, WorkerFault, Gone

----------------------------------------------------------------------------
(* Where the jobs are: JobInv.                                             *)

\* A step that touches no job: it moves workers between places outside a wave.
QuietForJobs ==
  /\ UNCHANGED <<job_count, callback, next_job, failure_cutoff, failures,
                 candidate, cutoff, ran, generation>>
  /\ \A w \in Workers :
       /\ observed'[w] = observed[w]
       /\ worker'[w] = worker[w] \/ {worker[w], worker'[w]} \intersect Executing = {}

LEMMA QuietStep ==
  ASSUME TypeOK, JobInv, QuietForJobs
  PROVE  JobInv'
<1> USE DEF Executing, Holding
<1>1. \A w \in Workers : WorkerInv(w)'
  BY DEF JobInv, WorkerInv, QuietForJobs
<1>2. \A w \in Workers : \A S \in {{"recheck"}, {"call", "lower"}, Holding} :
        worker'[w] \in S <=> worker[w] \in S
  BY DEF QuietForJobs
<1> QED
  BY <1>1, <1>2 DEF JobInv, WaveBounds, ClaimedJobs, FailedJobs, CutoffRecorded,
       HeldOnce, QuietForJobs

LEMMA QuietActions ==
  ASSUME IInv, [Next]_vars,
         ~ \E c \in Callers : \E n \in 1 .. MaxJobs : \E F \in SUBSET (0 .. n - 1) :
             StartWave(c, n, F),
         \A w \in Workers :
           ~ (\/ Recheck(w) /\ worker'[w] = "load"
              \/ LoadNextJob(w) \/ LoadLimit(w) \/ ClaimJob(w)
              \/ ClaimRetry(w) \/ DropJob(w) \/ StartJob(w)
              \/ CallReturns(w) \/ CallThrows(w) \/ LowEnough(w)
              \/ LowerCutoff(w) \/ LowerRetry(w))
  PROVE  QuietForJobs
<1> USE DEF QuietForJobs, Executing, vars, mutexVars, waveVars, atomicVars,
      localVars, callVars, ownerVars
<1> TypeOK /\ LifeInv /\ WaveInv
  BY DEF IInv
<1>0. worker \in [Workers -> WorkerPlaces] /\ observed \in [Workers -> 0 .. MaxGeneration]
      /\ generation \in 0 .. MaxGeneration
  BY DEF TypeOK
<1>1. CASE CreateFails
  BY <1>1, <1>0 DEF CreateFails
<1>2. CASE CheckCreated
  BY <1>2, <1>0 DEF CheckCreated
<1>3. CASE CheckReady
  BY <1>3, <1>0 DEF CheckReady
<1>4. CASE Destroy
  BY <1>4, <1>0 DEF Destroy
<1>5. CASE RequestStop
  BY <1>5, <1>0 DEF RequestStop
<1>6. CASE NotifyStop
  BY <1>6, <1>0 DEF NotifyStop, WorkNotified
<1>7. CASE OwnerJoins
  BY <1>7, <1>0 DEF OwnerJoins
<1>8. CASE WakeOwner
  BY <1>8, <1>0 DEF WakeOwner
<1>9. ASSUME NEW c \in Callers, Refuse(c) PROVE QuietForJobs
  BY <1>9, <1>0 DEF Refuse
<1>10. ASSUME NEW c \in Callers, MeetBrokenPool(c) PROVE QuietForJobs
  BY <1>10, <1>0 DEF MeetBrokenPool, StopPool
<1>11. ASSUME NEW c \in Callers, KeepWaiting(c) PROVE QuietForJobs
  BY <1>11, <1>0 DEF KeepWaiting
<1>12. ASSUME NEW c \in Callers, WaveBroken(c) PROVE QuietForJobs
  BY <1>12, <1>0 DEF WaveBroken, StopPool
<1>13. ASSUME NEW c \in Callers, WaveReturns(c) PROVE QuietForJobs
  BY <1>13, <1>0 DEF WaveReturns
<1>14. ASSUME NEW c \in Callers, WaveThrows(c) PROVE QuietForJobs
  BY <1>14, <1>0 DEF WaveThrows, StopPool
<1>15. ASSUME NEW c \in Callers, CallerNotifies(c) PROVE QuietForJobs
  BY <1>15, <1>0 DEF CallerNotifies, WorkNotified
<1>16. ASSUME NEW c \in Callers, CallerJoins(c) PROVE QuietForJobs
  BY <1>16, <1>0 DEF CallerJoins
<1>17. ASSUME NEW c \in Callers, WakeCaller(c) PROVE QuietForJobs
  BY <1>17, <1>0 DEF WakeCaller
<1>18. ASSUME NEW w \in Workers, CreateWorker(w) PROVE QuietForJobs
  BY <1>18, <1>0 DEF CreateWorker
<1>19. ASSUME NEW w \in Workers, AuditFails(w) PROVE QuietForJobs
  BY <1>19, <1>0 DEF AuditFails, Goto
<1>20. ASSUME NEW w \in Workers, RelockFails(w) PROVE QuietForJobs
  BY <1>20, <1>0 DEF RelockFails, Goto
<1>21. ASSUME NEW w \in Workers, ExitUnready(w) PROVE QuietForJobs
  BY <1>21, <1>0 DEF ExitUnready, Goto
<1>22. ASSUME NEW w \in Workers, BecomeReady(w) PROVE QuietForJobs
  BY <1>22, <1>0 DEF BecomeReady, EnterLoop, NotifyCoordinator, LifeInv, WaveInv
<1>23. ASSUME NEW w \in Workers, CompleteWave(w) PROVE QuietForJobs
  BY <1>23, <1>0 DEF CompleteWave, EnterLoop, NotifyCoordinator, LifeInv, WaveInv
<1>24. ASSUME NEW w \in Workers, ReportInfrastructureFailure(w) PROVE QuietForJobs
  BY <1>24, <1>0 DEF ReportInfrastructureFailure, NotifyCoordinator, WorkNotified
<1>25. ASSUME NEW w \in Workers, WakeWorker(w) PROVE QuietForJobs
  BY <1>25, <1>0 DEF WakeWorker, Goto
<1>26. ASSUME NEW w \in Workers, Recheck(w), worker'[w] # "load" PROVE QuietForJobs
  BY <1>26, <1>0 DEF Recheck, EnterLoop
<1>27. CASE UNCHANGED vars
  BY <1>27
<1> QED
  BY <1>1, <1>2, <1>3, <1>4, <1>5, <1>6, <1>7, <1>8, <1>9, <1>10, <1>11,
     <1>12, <1>13, <1>14, <1>15, <1>16, <1>17, <1>18, <1>19, <1>20, <1>21,
     <1>22, <1>23, <1>24, <1>25, <1>26, <1>27
  DEF Next, OwnerStep, SpuriousWake, CallerStep, Call, WorkerStep, WorkerFault, Gone

\* A step of w leaves the jobs of the others alone, and gives w none.
LEMMA HeldStays ==
  ASSUME HeldOnce, NEW w \in Workers,
         \A v \in Workers \ {w} : worker'[v] = worker[v] /\ candidate'[v] = candidate[v],
         worker'[w] \in Holding => worker[w] \in Holding /\ candidate'[w] = candidate[w]
  PROVE  HeldOnce'
BY DEF HeldOnce

\* A step of w that changes nothing shared changes nothing for the others.
LEMMA OthersKnow ==
  ASSUME JobInv, NEW w \in Workers, WorkerInv(w)',
         UNCHANGED <<generation, job_count, callback, next_job, failure_cutoff, ran>>,
         \A v \in Workers \ {w} :
           /\ worker'[v] = worker[v] /\ candidate'[v] = candidate[v]
           /\ observed'[v] = observed[v] /\ failures'[v] = failures[v]
           /\ cutoff'[v] = cutoff[v]
  PROVE  \A v \in Workers : WorkerInv(v)'
<1>1. ASSUME NEW v \in Workers, v # w PROVE WorkerInv(v)'
  BY <1>1 DEF JobInv, WorkerInv
<1> QED BY <1>1

\* The steps that claim, run, fail or drop a job.
LEMMA JobActions ==
  ASSUME TypeOK, JobInv, LifeInv, WaveInv, NEW w \in Workers,
         \/ Recheck(w) /\ worker'[w] = "load"
         \/ LoadNextJob(w) \/ LoadLimit(w) \/ ClaimJob(w)
         \/ ClaimRetry(w) \/ DropJob(w) \/ StartJob(w)
         \/ CallReturns(w) \/ CallThrows(w) \/ LowEnough(w)
         \/ LowerCutoff(w) \/ LowerRetry(w)
  PROVE  JobInv'
<1> USE ConstantsAssumption DEF Executing, Holding, Jobs, NoJob, vars, mutexVars, waveVars,
      atomicVars, localVars, callVars, ownerVars
<1>1. CASE Recheck(w) /\ worker'[w] = "load"
  <2>1. \A v \in Workers : WorkerInv(v)'
    BY <1>1 DEF TypeOK, JobInv, WorkerInv, WaveBounds, Recheck, EnterLoop
  <2>2. WaveBounds'
    BY <1>1 DEF TypeOK, JobInv, WaveBounds, WorkerInv, Recheck, EnterLoop
  <2>3. ClaimedJobs'
    BY <1>1 DEF TypeOK, JobInv, ClaimedJobs, WaveBounds, WorkerInv, Recheck, EnterLoop
  <2>4. FailedJobs'
    BY <1>1 DEF TypeOK, JobInv, FailedJobs, WaveBounds, WorkerInv, Recheck, EnterLoop
  <2>5. CutoffRecorded'
    BY <1>1 DEF TypeOK, JobInv, CutoffRecorded, WaveBounds, WorkerInv, Recheck, EnterLoop
  <2>6. HeldOnce'
    BY <1>1, HeldStays DEF TypeOK, JobInv, Recheck, EnterLoop
  <2> QED
    BY <2>1, <2>2, <2>3, <2>4, <2>5, <2>6 DEF JobInv
<1>2. CASE LoadNextJob(w)
  <2>1. \A v \in Workers : WorkerInv(v)'
    <3>1. WorkerInv(w)'
      BY <1>2 DEF TypeOK, JobInv, WorkerInv, WaveBounds, LoadNextJob, Goto
    <3> QED BY <1>2, <3>1, OthersKnow DEF TypeOK, LoadNextJob, Goto
  <2>2. WaveBounds'
    BY <1>2 DEF TypeOK, JobInv, WaveBounds, WorkerInv, LoadNextJob, Goto
  <2>3. ClaimedJobs'
    BY <1>2 DEF TypeOK, JobInv, ClaimedJobs, WaveBounds, WorkerInv, LoadNextJob, Goto
  <2>4. FailedJobs'
    BY <1>2 DEF TypeOK, JobInv, FailedJobs, WaveBounds, WorkerInv, LoadNextJob, Goto
  <2>5. CutoffRecorded'
    BY <1>2 DEF TypeOK, JobInv, CutoffRecorded, WaveBounds, WorkerInv, LoadNextJob, Goto
  <2>6. HeldOnce'
    BY <1>2, HeldStays DEF TypeOK, JobInv, LoadNextJob, Goto
  <2> QED
    BY <2>1, <2>2, <2>3, <2>4, <2>5, <2>6 DEF JobInv
<1>3. CASE LoadLimit(w)
  <2>1. \A v \in Workers : WorkerInv(v)'
    <3>1. WorkerInv(w)'
      <4>1. CASE candidate[w] >= job_count \/ candidate[w] >= failure_cutoff
        <5>1. worker'[w] = "relock"
          BY <1>3, <4>1 DEF TypeOK, LoadLimit, Goto
        <5>2. failure_cutoff <= next_job
          BY <1>3, <4>1 DEF TypeOK, JobInv, WorkerInv, WaveBounds, LoadLimit
        <5> QED
          BY <1>3, <5>1, <5>2 DEF JobInv, WorkerInv, LoadLimit
      <4>2. CASE ~(candidate[w] >= job_count \/ candidate[w] >= failure_cutoff)
        <5>1. worker'[w] = "claim" /\ candidate[w] < job_count
          BY <1>3, <4>2 DEF TypeOK, LoadLimit, Goto
        <5> QED
          BY <1>3, <5>1 DEF JobInv, WorkerInv, LoadLimit
      <4> QED
        BY <4>1, <4>2
    <3>2. ASSUME NEW v \in Workers, v # w PROVE WorkerInv(v)'
      <4>1. worker'[v] = worker[v]
        BY <1>3, <3>2 DEF TypeOK, LoadLimit, Goto
      <4> QED
        BY <4>1, <1>3 DEF JobInv, WorkerInv, LoadLimit
    <3> QED
      BY <3>1, <3>2
  <2>2. WaveBounds'
    BY <1>3 DEF TypeOK, JobInv, WaveBounds, WorkerInv, LoadLimit, Goto
  <2>3. ClaimedJobs'
    BY <1>3 DEF TypeOK, JobInv, ClaimedJobs, WaveBounds, WorkerInv, LoadLimit, Goto
  <2>4. FailedJobs'
    BY <1>3 DEF TypeOK, JobInv, FailedJobs, WaveBounds, WorkerInv, LoadLimit, Goto
  <2>5. CutoffRecorded'
    BY <1>3 DEF TypeOK, JobInv, CutoffRecorded, WaveBounds, WorkerInv, LoadLimit, Goto
  <2>6. HeldOnce'
    BY <1>3, HeldStays DEF TypeOK, JobInv, LoadLimit, Goto
  <2> QED
    BY <2>1, <2>2, <2>3, <2>4, <2>5, <2>6 DEF JobInv
<1>4. CASE ClaimJob(w)
  <2>1. \A v \in Workers : WorkerInv(v)'
    <3>1. ran[candidate[w]] = 0 /\ candidate[w] \in Jobs
      BY <1>4, HeldJobs, SMTT(20) DEF TypeOK, JobInv, ClaimedJobs, ClaimJob
    <3>2. next_job' = next_job + 1 /\ worker' = [worker EXCEPT ![w] = "recheck"]
      BY <1>4 DEF ClaimJob, Goto
    <3>3. WorkerInv(w)'
      <4>1. worker'[w] = "recheck" /\ candidate[w] < next_job' /\ worker[w] = "claim"
        BY <1>4, <3>2 DEF TypeOK, ClaimJob
      <4> QED
        BY <4>1, <3>1, <1>4 DEF JobInv, WorkerInv, ClaimJob
    <3>4. ASSUME NEW v \in Workers, v # w PROVE WorkerInv(v)'
      <4>1. worker'[v] = worker[v]
        BY <3>2, <3>4 DEF TypeOK
      <4>2. next_job < next_job' /\ \A k \in 0 .. MaxJobs :
              /\ k < next_job => k < next_job'
              /\ k <= next_job => k <= next_job'
        BY <3>2 DEF TypeOK
      <4> QED
        BY <4>1, <4>2, <1>4 DEF TypeOK, JobInv, WorkerInv, ClaimJob
    <3> QED
      BY <3>3, <3>4
  <2>2. WaveBounds'
    BY <1>4 DEF TypeOK, JobInv, WaveBounds, WorkerInv, ClaimJob, Goto
  <2>3. ClaimedJobs'
    <3>1. next_job' = next_job + 1 /\ worker' = [worker EXCEPT ![w] = "recheck"]
          /\ next_job = candidate[w]
      BY <1>4 DEF ClaimJob, Goto
    <3>2. ASSUME NEW j \in Jobs, j < next_job'
          PROVE  \/ ran[j] = 1
                 \/ failure_cutoff <= j
                 \/ \E v \in Workers : worker'[v] = "recheck" /\ candidate[v] = j
      <4>1. CASE j = next_job
        BY <4>1, <3>1 DEF TypeOK
      <4>2. CASE j < next_job
        BY <4>2, <3>1 DEF TypeOK, JobInv, ClaimedJobs
      <4> QED
        BY <3>1, <3>2, <4>1, <4>2 DEF TypeOK
    <3>3. \A j \in Jobs : ran[j] = 1 => j < next_job'
      BY <3>1 DEF TypeOK, JobInv, ClaimedJobs
    <3> QED
      BY <1>4, <3>2, <3>3 DEF ClaimedJobs, ClaimJob
  <2>4. FailedJobs'
    BY <1>4 DEF TypeOK, JobInv, FailedJobs, WaveBounds, WorkerInv, ClaimJob, Goto
  <2>5. CutoffRecorded'
    BY <1>4 DEF TypeOK, JobInv, CutoffRecorded, WaveBounds, WorkerInv, ClaimJob, Goto
  <2>6. HeldOnce'
    <3>1. \A v \in Workers : worker[v] \in Holding => candidate[v] # candidate[w]
      <4>1. candidate[w] = next_job /\ next_job \in Nat
        BY <1>4 DEF TypeOK, ClaimJob
      <4>2. \A v \in Workers : worker[v] \in Holding => candidate[v] < next_job
        BY DEF JobInv, WorkerInv
      <4> QED BY ONLY <4>1, <4>2
    <3>2. worker' = [worker EXCEPT ![w] = "recheck"] /\ candidate' = candidate
      BY <1>4 DEF ClaimJob, Goto
    <3>3. \A v \in Workers \ {w} : worker'[v] = worker[v] /\ candidate'[v] = candidate[v]
      BY <3>2 DEF TypeOK
    <3> QED
      BY <3>1, <3>2, <3>3 DEF JobInv, HeldOnce
  <2> QED
    BY <2>1, <2>2, <2>3, <2>4, <2>5, <2>6 DEF JobInv
<1>5. CASE ClaimRetry(w)
  <2>1. \A v \in Workers : WorkerInv(v)'
    <3>1. WorkerInv(w)'
      BY <1>5 DEF TypeOK, JobInv, WorkerInv, WaveBounds, ClaimRetry, Goto
    <3> QED BY <1>5, <3>1, OthersKnow DEF TypeOK, ClaimRetry, Goto
  <2>2. WaveBounds'
    BY <1>5 DEF TypeOK, JobInv, WaveBounds, WorkerInv, ClaimRetry, Goto
  <2>3. ClaimedJobs'
    BY <1>5 DEF TypeOK, JobInv, ClaimedJobs, WaveBounds, WorkerInv, ClaimRetry, Goto
  <2>4. FailedJobs'
    BY <1>5 DEF TypeOK, JobInv, FailedJobs, WaveBounds, WorkerInv, ClaimRetry, Goto
  <2>5. CutoffRecorded'
    BY <1>5 DEF TypeOK, JobInv, CutoffRecorded, WaveBounds, WorkerInv, ClaimRetry, Goto
  <2>6. HeldOnce'
    BY <1>5, HeldStays DEF TypeOK, JobInv, ClaimRetry, Goto
  <2> QED
    BY <2>1, <2>2, <2>3, <2>4, <2>5, <2>6 DEF JobInv
<1>6. CASE DropJob(w)
  <2>1. \A v \in Workers : WorkerInv(v)'
    <3>1. WorkerInv(w)'
      BY <1>6 DEF TypeOK, JobInv, WorkerInv, WaveBounds, DropJob, Goto, Dropped
    <3> QED BY <1>6, <3>1, OthersKnow DEF TypeOK, DropJob, Goto, Dropped
  <2>2. WaveBounds'
    BY <1>6 DEF TypeOK, JobInv, WaveBounds, WorkerInv, DropJob, Goto, Dropped
  <2>3. ClaimedJobs'
    BY <1>6 DEF TypeOK, JobInv, ClaimedJobs, WaveBounds, WorkerInv, DropJob, Goto, Dropped
  <2>4. FailedJobs'
    BY <1>6 DEF TypeOK, JobInv, FailedJobs, WaveBounds, WorkerInv, DropJob, Goto, Dropped
  <2>5. CutoffRecorded'
    BY <1>6 DEF TypeOK, JobInv, CutoffRecorded, WaveBounds, WorkerInv, DropJob, Goto, Dropped
  <2>6. HeldOnce'
    BY <1>6, HeldStays DEF TypeOK, JobInv, DropJob, Goto, Dropped
  <2> QED
    BY <2>1, <2>2, <2>3, <2>4, <2>5, <2>6 DEF JobInv
<1>7. CASE StartJob(w)
  <2>1. \A v \in Workers : WorkerInv(v)'
    <3>1. /\ worker' = [worker EXCEPT ![w] = "call"]
          /\ ran' = [ran EXCEPT ![candidate[w]] = 1]
          /\ candidate[w] \in Jobs
      <4>1. ran[candidate[w]] = 0 /\ candidate[w] \in Jobs
        BY <1>7, HeldJobs DEF StartJob
      <4> QED
        BY <4>1, <1>7 DEF StartJob, Goto
    <3>2. \A v \in Workers : v # w /\ worker[v] \in Holding =>
            candidate[v] # candidate[w] /\ candidate[v] \in Jobs
      BY <1>7, HeldJobs DEF JobInv, HeldOnce, StartJob
    <3>3. \A v \in Workers : failures[v] # NoJob => ran'[failures[v]] = 1
      BY <3>1 DEF TypeOK, JobInv, WorkerInv
    <3>4. \A v \in Workers : /\ worker'[v] = "recheck" => ran'[candidate[v]] = 0
                             /\ worker'[v] \in {"call", "lower"} => ran'[candidate[v]] = 1
      BY <3>1, <3>2 DEF TypeOK, JobInv, WorkerInv
    <3>5. ASSUME NEW v \in Workers, v # w PROVE WorkerInv(v)'
      <4>1. worker'[v] = worker[v]
        BY <3>1, <3>5 DEF TypeOK
      <4> QED
        BY <4>1, <1>7, <3>3, <3>4 DEF JobInv, WorkerInv, StartJob
    <3>6. WorkerInv(w)'
      <4>1. worker'[w] = "call" /\ worker[w] = "recheck"
        BY <1>7, <3>1 DEF TypeOK, StartJob
      <4> QED
        BY <4>1, <1>7, <3>3, <3>4 DEF JobInv, WorkerInv, StartJob
    <3> QED
      BY <3>5, <3>6
  <2>2. WaveBounds'
    BY <1>7 DEF TypeOK, JobInv, WaveBounds, WorkerInv, StartJob, Goto, Dropped
  <2>3. ClaimedJobs'
    BY <1>7, SMTT(20) DEF TypeOK, JobInv, ClaimedJobs, WaveBounds, WorkerInv, StartJob, Goto, Dropped
  <2>4. FailedJobs'
    BY <1>7 DEF TypeOK, JobInv, FailedJobs, WaveBounds, WorkerInv, StartJob, Goto, Dropped
  <2>5. CutoffRecorded'
    BY <1>7 DEF TypeOK, JobInv, CutoffRecorded, WaveBounds, WorkerInv, StartJob, Goto, Dropped
  <2>6. HeldOnce'
    BY <1>7, HeldStays DEF TypeOK, JobInv, StartJob, Goto, Dropped
  <2> QED
    BY <2>1, <2>2, <2>3, <2>4, <2>5, <2>6 DEF JobInv
<1>8. CASE CallReturns(w)
  <2>1. \A v \in Workers : WorkerInv(v)'
    BY <1>8 DEF TypeOK, JobInv, WorkerInv, WaveBounds, CallReturns, Goto
  <2>2. WaveBounds'
    BY <1>8 DEF TypeOK, JobInv, WaveBounds, WorkerInv, CallReturns, Goto
  <2>3. ClaimedJobs'
    BY <1>8 DEF TypeOK, JobInv, ClaimedJobs, WaveBounds, WorkerInv, CallReturns, Goto
  <2>4. FailedJobs'
    BY <1>8 DEF TypeOK, JobInv, FailedJobs, WaveBounds, WorkerInv, CallReturns, Goto
  <2>5. CutoffRecorded'
    BY <1>8 DEF TypeOK, JobInv, CutoffRecorded, WaveBounds, WorkerInv, CallReturns, Goto
  <2>6. HeldOnce'
    BY <1>8, HeldStays DEF TypeOK, JobInv, CallReturns, Goto
  <2> QED
    BY <2>1, <2>2, <2>3, <2>4, <2>5, <2>6 DEF JobInv
<1>9. CASE CallThrows(w)
  <2>1. \A v \in Workers : WorkerInv(v)'
    <3>1. /\ worker' = [worker EXCEPT ![w] = "lower"]
          /\ failures' = [failures EXCEPT ![w] = candidate[w]]
          /\ cutoff' = [cutoff EXCEPT ![w] = failure_cutoff]
          /\ candidate[w] \in callback /\ worker[w] = "call"
      BY <1>9 DEF CallThrows, Goto
    <3>2. ran[candidate[w]] = 1 /\ candidate[w] < next_job /\ observed[w] = generation
      BY <3>1 DEF JobInv, WorkerInv, WaveInv
    <3>3. WorkerInv(w)'
      BY <1>9, <3>1, <3>2 DEF TypeOK, WorkerInv, CallThrows
    <3>4. ASSUME NEW v \in Workers, v # w PROVE WorkerInv(v)'
      <4>1. /\ worker'[v] = worker[v] /\ failures'[v] = failures[v]
            /\ cutoff'[v] = cutoff[v]
        BY <3>1, <3>4 DEF TypeOK
      <4> QED
        BY <4>1, <1>9 DEF JobInv, WorkerInv, CallThrows
    <3> QED
      BY <3>3, <3>4
  <2>2. WaveBounds'
    BY <1>9 DEF TypeOK, JobInv, WaveBounds, WorkerInv, CallThrows, Goto
  <2>3. ClaimedJobs'
    BY <1>9 DEF TypeOK, JobInv, ClaimedJobs, WaveBounds, WorkerInv, CallThrows, Goto
  <2>4. FailedJobs'
    BY <1>9 DEF TypeOK, JobInv, FailedJobs, WaveBounds, WorkerInv, CallThrows, Goto
  <2>5. CutoffRecorded'
    BY <1>9 DEF TypeOK, JobInv, CutoffRecorded, WaveBounds, WorkerInv, CallThrows, Goto
  <2>6. HeldOnce'
    BY <1>9, HeldStays DEF TypeOK, JobInv, CallThrows, Goto
  <2> QED
    BY <2>1, <2>2, <2>3, <2>4, <2>5, <2>6 DEF JobInv
<1>10. CASE LowEnough(w)
  <2>1. \A v \in Workers : WorkerInv(v)'
    <3>1. WorkerInv(w)'
      BY <1>10 DEF TypeOK, JobInv, WorkerInv, WaveBounds, LowEnough, Goto
    <3> QED BY <1>10, <3>1, OthersKnow DEF TypeOK, LowEnough, Goto
  <2>2. WaveBounds'
    BY <1>10 DEF TypeOK, JobInv, WaveBounds, WorkerInv, LowEnough, Goto
  <2>3. ClaimedJobs'
    BY <1>10 DEF TypeOK, JobInv, ClaimedJobs, WaveBounds, WorkerInv, LowEnough, Goto
  <2>4. FailedJobs'
    BY <1>10 DEF TypeOK, JobInv, FailedJobs, WaveBounds, WorkerInv, LowEnough, Goto
  <2>5. CutoffRecorded'
    BY <1>10 DEF TypeOK, JobInv, CutoffRecorded, WaveBounds, WorkerInv, LowEnough, Goto
  <2>6. HeldOnce'
    BY <1>10, HeldStays DEF TypeOK, JobInv, LowEnough, Goto
  <2> QED
    BY <2>1, <2>2, <2>3, <2>4, <2>5, <2>6 DEF JobInv
<1>11. CASE LowerCutoff(w)
  <2>1. \A v \in Workers : WorkerInv(v)'
    BY <1>11 DEF TypeOK, JobInv, WorkerInv, WaveBounds, LowerCutoff, Goto
  <2>2. WaveBounds'
    BY <1>11 DEF TypeOK, JobInv, WaveBounds, WorkerInv, LowerCutoff, Goto
  <2>3. ClaimedJobs'
    <3>1. failure_cutoff' < failure_cutoff /\ failure_cutoff' = candidate[w]
          /\ worker' = [worker EXCEPT ![w] = "relock"] /\ worker[w] = "lower"
      BY <1>11 DEF LowerCutoff, Goto
    <3>2. \A j \in Jobs : failure_cutoff <= j => failure_cutoff' <= j
      BY <3>1 DEF TypeOK
    <3> QED
      BY <1>11, <3>1, <3>2 DEF TypeOK, JobInv, ClaimedJobs, LowerCutoff
  <2>4. FailedJobs'
    <3>1. failure_cutoff' < failure_cutoff /\ failure_cutoff' = candidate[w]
          /\ worker' = [worker EXCEPT ![w] = "relock"] /\ worker[w] = "lower"
      BY <1>11 DEF LowerCutoff, Goto
    <3>2. \A j \in callback : failure_cutoff <= j => failure_cutoff' <= j
      BY <3>1 DEF TypeOK
    <3>3. \A j \in callback : candidate[w] = j => failure_cutoff' <= j
      BY <3>1 DEF TypeOK
    <3> QED
      BY <1>11, <3>1, <3>2, <3>3 DEF TypeOK, JobInv, FailedJobs, LowerCutoff
  <2>5. CutoffRecorded'
    BY <1>11 DEF TypeOK, JobInv, CutoffRecorded, WaveBounds, WorkerInv, LowerCutoff, Goto
  <2>6. HeldOnce'
    BY <1>11, HeldStays DEF TypeOK, JobInv, LowerCutoff, Goto
  <2> QED
    BY <2>1, <2>2, <2>3, <2>4, <2>5, <2>6 DEF JobInv
<1>12. CASE LowerRetry(w)
  <2>1. \A v \in Workers : WorkerInv(v)'
    <3>1. WorkerInv(w)'
      BY <1>12 DEF TypeOK, JobInv, WorkerInv, WaveBounds, LowerRetry
    <3> QED BY <1>12, <3>1, OthersKnow DEF TypeOK, LowerRetry
  <2>2. WaveBounds'
    BY <1>12 DEF TypeOK, JobInv, WaveBounds, WorkerInv, LowerRetry
  <2>3. ClaimedJobs'
    BY <1>12 DEF TypeOK, JobInv, ClaimedJobs, WaveBounds, WorkerInv, LowerRetry
  <2>4. FailedJobs'
    BY <1>12 DEF TypeOK, JobInv, FailedJobs, WaveBounds, WorkerInv, LowerRetry
  <2>5. CutoffRecorded'
    BY <1>12 DEF TypeOK, JobInv, CutoffRecorded, WaveBounds, WorkerInv, LowerRetry
  <2>6. HeldOnce'
    BY <1>12, HeldStays DEF TypeOK, JobInv, LowerRetry
  <2> QED
    BY <2>1, <2>2, <2>3, <2>4, <2>5, <2>6 DEF JobInv
<1> QED
  BY <1>1, <1>2, <1>3, <1>4, <1>5, <1>6, <1>7, <1>8, <1>9, <1>10, <1>11, <1>12

\* Between waves no worker is in the middle of one.
LEMMA StartOfWave ==
  ASSUME IInv, NEW c \in Callers, NEW n \in 1 .. MaxJobs,
         NEW F \in SUBSET (0 .. n - 1), StartWave(c, n, F)
  PROVE  /\ ~stop_requested /\ owner = "alive" /\ ~wave_active
         /\ \A w \in Workers : Parked(w) /\ observed[w] = generation
         /\ \A w \in Workers : worker'[w] = "woken" /\ observed'[w] # generation'
         /\ generation' = generation + 1
<1>1. ~stop_requested /\ owner = "alive" /\ ~wave_active
  BY DEF IInv, LifeInv, StartWave, MayCall, MayStart
<1>2. \A w \in Workers : Parked(w) /\ observed[w] = generation
  BY <1>1 DEF IInv, WaveInv
<1>3. generation' = generation + 1 /\ observed' = observed /\ worker' = WorkNotified(worker)
  BY DEF StartWave, localVars
<1>4. \A w \in Workers : worker'[w] = "woken"
  BY <1>2, <1>3 DEF WorkNotified, Parked
<1>5. \A w \in Workers : observed'[w] # generation'
  BY <1>2, <1>3 DEF IInv, TypeOK
<1> QED
  BY <1>1, <1>2, <1>3, <1>4, <1>5

LEMMA StartWaveJobs ==
  ASSUME IInv, NEW c \in Callers, NEW n \in 1 .. MaxJobs,
         NEW F \in SUBSET (0 .. n - 1), StartWave(c, n, F)
  PROVE  JobInv'
<1>1. \A w \in Workers : worker'[w] = "woken" /\ observed'[w] # generation'
  BY StartOfWave
<1>2. /\ failures' = [w \in Workers |-> NoJob]
      /\ job_count' = n /\ callback' = F /\ next_job' = 0 /\ failure_cutoff' = n
      /\ ran' = [j \in Jobs |-> 0]
  BY DEF StartWave, PrepareWave
<1>3. \A w \in Workers : WorkerInv(w)'
  BY <1>1, <1>2 DEF WorkerInv, Executing, Holding
<1>4. WaveBounds'
  BY <1>2 DEF WaveBounds
<1>5. ClaimedJobs' /\ FailedJobs'
  <2>1. \A j \in Jobs : ran'[j] = 0 /\ ~(j < next_job')
    BY <1>2, ConstantsAssumption DEF Jobs
  <2>2. callback' \subseteq Jobs
    BY <1>2, ConstantsAssumption DEF Jobs
  <2> QED
    BY <2>1, <2>2 DEF ClaimedJobs, FailedJobs
<1>6. CutoffRecorded'
  BY <1>2 DEF CutoffRecorded
<1>7. HeldOnce'
  BY <1>1 DEF HeldOnce, Holding
<1> QED
  BY <1>3, <1>4, <1>5, <1>6, <1>7 DEF JobInv

LEMMA JobStep == IInv /\ [Next]_vars => JobInv'
<1> SUFFICES ASSUME IInv, [Next]_vars PROVE JobInv'
  OBVIOUS
<1> DEFINE JobAction(w) ==
         \/ Recheck(w) /\ worker'[w] = "load"
         \/ LoadNextJob(w) \/ LoadLimit(w) \/ ClaimJob(w)
         \/ ClaimRetry(w) \/ DropJob(w) \/ StartJob(w)
         \/ CallReturns(w) \/ CallThrows(w) \/ LowEnough(w)
         \/ LowerCutoff(w) \/ LowerRetry(w)
<1>1. ASSUME NEW c \in Callers, NEW n \in 1 .. MaxJobs,
             NEW F \in SUBSET (0 .. n - 1), StartWave(c, n, F)
      PROVE  JobInv'
  BY <1>1, StartWaveJobs
<1>2. ASSUME NEW w \in Workers, JobAction(w) PROVE JobInv'
  BY <1>2, JobActions DEF IInv
<1>3. ASSUME ~ \E c \in Callers : \E n \in 1 .. MaxJobs :
               \E F \in SUBSET (0 .. n - 1) : StartWave(c, n, F),
             \A w \in Workers : ~ JobAction(w)
      PROVE  JobInv'
  BY <1>3, QuietActions, QuietStep DEF IInv
<1> QED
  BY <1>1, <1>2, <1>3

----------------------------------------------------------------------------
(* The life of the pool: LifeInv.                                          *)

\* A step that neither readies, stops nor starts anything.
QuietForLife ==
  /\ UNCHANGED <<ready_workers, generation, stop_requested,
                 infrastructure_error, healthy>>
  /\ \/ owner' = owner
     \/ owner' \notin Building \union {"alive"}
     \/ {owner, owner'} \subseteq Building
  /\ \A w \in Workers :
       /\ owner' \in Building /\ ~stop_requested => (Parked(w)' <=> Parked(w))
       /\ worker'[w] \in {"absent", "audit"} => worker[w] \in {"absent", "audit"}

LEMMA QuietLife ==
  ASSUME LifeInv, QuietForLife
  PROVE  LifeInv'
<1> DEFINE P == {w \in Workers : Parked(w)}
<1>1. owner' \in Building /\ ~stop_requested => P' = P
  BY DEF QuietForLife
<1>2. owner' \in Building => owner \in Building
  BY DEF QuietForLife, Building
<1>3. ready_workers' = ready_workers /\ stop_requested' = stop_requested
      /\ generation' = generation /\ infrastructure_error' = infrastructure_error
      /\ healthy' = healthy
  BY DEF QuietForLife
<1>4. owner' \in Building /\ ~stop_requested' => ready_workers' = Cardinality(P')
  BY <1>1, <1>2, <1>3 DEF LifeInv
<1>5. ASSUME NEW w \in Workers, worker'[w] \in {"absent", "audit"}
      PROVE  generation' = 0 /\ owner' # "alive"
  BY <1>5, <1>3 DEF LifeInv, QuietForLife, Building
<1> HIDE DEF P
<1> QED
  BY <1>2, <1>3, <1>4, <1>5 DEF LifeInv, P

\* What is true of the workers while the pool is being built.
LEMMA WhileBuilding ==
  ASSUME IInv, owner \in Building, NEW w \in Workers
  PROVE  generation = 0 /\ observed[w] = 0 /\ worker[w] \notin Executing \union {"relock"}
BY DEF IInv, TypeOK, LifeInv, WaveInv

LEMMA LifeStep == IInv /\ [Next]_vars => LifeInv'
<1> SUFFICES ASSUME IInv, [Next]_vars PROVE LifeInv'
  OBVIOUS
<1> USE DEF QuietForLife, Executing, Building, Parked, vars, mutexVars, waveVars,
      atomicVars, localVars, callVars, ownerVars
<1>0. /\ worker \in [Workers -> WorkerPlaces] /\ owner \in OwnerPlaces
      /\ generation \in Nat /\ LifeInv
      /\ owner \in Building => \A w \in Workers :
           generation = 0 /\ observed[w] = 0 /\ worker[w] \notin Executing \union {"relock"}
  BY WhileBuilding DEF IInv, TypeOK
<1> HIDE DEF LifeInv
<1>1. ASSUME CheckReady PROVE LifeInv'
  <2>1. CASE owner' = "alive"
    <3>1. /\ ready_workers = Cardinality(Workers) /\ owner = "checkReady"
          /\ ~infrastructure_error
      BY <1>1, <2>1 DEF CheckReady
    <3>2. ~stop_requested
      BY <3>1, <1>0 DEF LifeInv
    <3>3. Cardinality({w \in Workers : Parked(w)}) = Cardinality(Workers)
      BY <3>1, <3>2, <1>0 DEF LifeInv
    <3>4. {w \in Workers : Parked(w)} = Workers
      BY <3>3, FS_Subset, ConstantsAssumption
    <3>5. \A w \in Workers : worker'[w] \notin {"absent", "audit"}
      BY <3>4, <1>1 DEF CheckReady
    <3> QED
      BY <3>2, <3>5, <2>1, <1>1, <1>0 DEF LifeInv, CheckReady
  <2>2. CASE owner' # "alive"
    <3>1. QuietForLife
      BY <1>1, <2>2, <1>0 DEF CheckReady
    <3> QED
      BY <3>1, <1>0, QuietLife
  <2> QED
    BY <2>1, <2>2
<1>2. ASSUME RequestStop PROVE LifeInv'
  BY <1>2, <1>0 DEF RequestStop, LifeInv
<1>3. ASSUME NEW c \in Callers, MeetBrokenPool(c) \/ WaveBroken(c) PROVE LifeInv'
  <2>1. infrastructure_error /\ stop_requested /\ ~healthy
    BY <1>3, <1>0 DEF MeetBrokenPool, WaveBroken, LifeInv
  <2>2. QuietForLife
    BY <2>1, <1>3, <1>0 DEF MeetBrokenPool, WaveBroken, StopPool, IInv, TypeOK
  <2> QED
    BY <2>2, <1>0, QuietLife
<1>4. ASSUME NEW c \in Callers, WaveThrows(c) PROVE LifeInv'
  <2>1. owner = "alive"
    BY <1>4 DEF WaveThrows, IInv, WaveInv, InWait
  <2> QED
    BY <2>1, <1>4, <1>0 DEF WaveThrows, StopPool, LifeInv
<1>5. ASSUME NEW w \in Workers, BecomeReady(w) PROVE LifeInv'
  <2> DEFINE P == {v \in Workers : Parked(v)}
  <2>1. /\ worker[w] = "audit" /\ ~stop_requested /\ generation = 0 /\ owner # "alive"
        /\ worker' = [worker EXCEPT ![w] = "asleep"]
        /\ ready_workers' = ready_workers + 1
        /\ generation' = generation /\ stop_requested' = stop_requested
        /\ infrastructure_error' = infrastructure_error /\ healthy' = healthy
    BY <1>5, <1>0 DEF BecomeReady, EnterLoop, LifeInv
  <2>2. owner' \in Building <=> owner \in Building
    BY <1>5 DEF BecomeReady, NotifyCoordinator
  <2>3. P' = P \union {w} /\ w \notin P
    BY <2>1, <1>0
  <2>4. IsFiniteSet(P)
    BY ConstantsAssumption, FS_Subset
  <2>5. Cardinality(P') = Cardinality(P) + 1
    BY <2>3, <2>4, FS_AddElement
  <2>6. owner' \in Building => ready_workers' = Cardinality(P')
    BY <2>1, <2>2, <2>5, <1>0 DEF LifeInv
  <2>7. owner' # "alive"
    BY <2>1, <1>5 DEF BecomeReady, NotifyCoordinator
  <2>8. healthy' = ~stop_requested' /\ (infrastructure_error' => stop_requested')
    BY <2>1, <1>0 DEF LifeInv
  <2> QED
    BY <2>1, <2>2, <2>6, <2>7, <2>8 DEF LifeInv
<1>6. ASSUME NEW w \in Workers, ReportInfrastructureFailure(w) PROVE LifeInv'
  <2>1. /\ owner' \in Building <=> owner \in Building
        /\ owner' = "alive" <=> owner = "alive"
    BY <1>6 DEF ReportInfrastructureFailure, NotifyCoordinator
  <2>2. \A v \in Workers :
          worker'[v] \in {"absent", "audit"} => worker[v] \in {"absent", "audit"}
    BY <1>6, <1>0 DEF ReportInfrastructureFailure, WorkNotified
  <2> QED
    BY <1>6, <2>1, <2>2, <1>0 DEF LifeInv, ReportInfrastructureFailure
<1>7. ASSUME NEW c \in Callers, NEW n \in 1 .. MaxJobs,
             NEW F \in SUBSET (0 .. n - 1), StartWave(c, n, F)
      PROVE  LifeInv'
  <2>1. /\ ~stop_requested /\ owner = "alive"
        /\ \A w \in Workers : worker'[w] = "woken"
    BY <1>7, StartOfWave
  <2> QED
    BY <1>7, <2>1, <1>0 DEF StartWave, LifeInv
<1>8. ASSUME CreateFails PROVE QuietForLife
  BY <1>8, <1>0 DEF CreateFails
<1>9. ASSUME CheckCreated PROVE QuietForLife
  BY <1>9, <1>0 DEF CheckCreated
<1>10. ASSUME Destroy PROVE QuietForLife
  BY <1>10, <1>0 DEF Destroy
<1>11. ASSUME NotifyStop PROVE QuietForLife
  BY <1>11, <1>0 DEF NotifyStop, WorkNotified
<1>12. ASSUME OwnerJoins PROVE QuietForLife
  BY <1>12, <1>0 DEF OwnerJoins
<1>13. ASSUME WakeOwner PROVE QuietForLife
  BY <1>13, <1>0 DEF WakeOwner
<1>14. ASSUME NEW c \in Callers, Refuse(c) PROVE QuietForLife
  BY <1>14, <1>0 DEF Refuse
<1>15. ASSUME NEW c \in Callers, KeepWaiting(c) PROVE QuietForLife
  BY <1>15, <1>0 DEF KeepWaiting
<1>16. ASSUME NEW c \in Callers, WaveReturns(c) PROVE QuietForLife
  BY <1>16, <1>0 DEF WaveReturns
<1>17. ASSUME NEW c \in Callers, CallerNotifies(c) PROVE QuietForLife
  BY <1>17, <1>0 DEF CallerNotifies, WorkNotified
<1>18. ASSUME NEW c \in Callers, CallerJoins(c) PROVE QuietForLife
  BY <1>18, <1>0 DEF CallerJoins
<1>19. ASSUME NEW c \in Callers, WakeCaller(c) PROVE QuietForLife
  BY <1>19, <1>0 DEF WakeCaller
<1>20. ASSUME NEW w \in Workers, CreateWorker(w) PROVE QuietForLife
  BY <1>20, <1>0 DEF CreateWorker
<1>21. ASSUME NEW w \in Workers, AuditFails(w) PROVE QuietForLife
  BY <1>21, <1>0 DEF AuditFails, Goto
<1>22. ASSUME NEW w \in Workers, RelockFails(w) PROVE QuietForLife
  BY <1>22, <1>0 DEF RelockFails, Goto
<1>23. ASSUME NEW w \in Workers, ExitUnready(w) PROVE QuietForLife
  BY <1>23, <1>0 DEF ExitUnready, Goto
<1>24. ASSUME NEW w \in Workers, Recheck(w) PROVE QuietForLife
  BY <1>24, <1>0 DEF Recheck, EnterLoop
<1>25. ASSUME NEW w \in Workers, LoadNextJob(w) PROVE QuietForLife
  BY <1>25, <1>0 DEF LoadNextJob, Goto
<1>26. ASSUME NEW w \in Workers, LoadLimit(w) PROVE QuietForLife
  BY <1>26, <1>0 DEF LoadLimit, Goto
<1>27. ASSUME NEW w \in Workers, ClaimJob(w) PROVE QuietForLife
  BY <1>27, <1>0 DEF ClaimJob, Goto
<1>28. ASSUME NEW w \in Workers, ClaimRetry(w) PROVE QuietForLife
  BY <1>28, <1>0 DEF ClaimRetry, Goto
<1>29. ASSUME NEW w \in Workers, DropJob(w) PROVE QuietForLife
  BY <1>29, <1>0 DEF DropJob, Goto
<1>30. ASSUME NEW w \in Workers, StartJob(w) PROVE QuietForLife
  BY <1>30, <1>0 DEF StartJob, Goto
<1>31. ASSUME NEW w \in Workers, CallReturns(w) PROVE QuietForLife
  BY <1>31, <1>0 DEF CallReturns, Goto
<1>32. ASSUME NEW w \in Workers, CallThrows(w) PROVE QuietForLife
  BY <1>32, <1>0 DEF CallThrows, Goto
<1>33. ASSUME NEW w \in Workers, LowEnough(w) PROVE QuietForLife
  BY <1>33, <1>0 DEF LowEnough, Goto
<1>34. ASSUME NEW w \in Workers, LowerCutoff(w) PROVE QuietForLife
  BY <1>34, <1>0 DEF LowerCutoff, Goto
<1>35. ASSUME NEW w \in Workers, LowerRetry(w) PROVE QuietForLife
  BY <1>35, <1>0 DEF LowerRetry
<1>36. ASSUME NEW w \in Workers, CompleteWave(w) PROVE QuietForLife
  BY <1>36, <1>0 DEF CompleteWave, EnterLoop, NotifyCoordinator
<1>37. ASSUME NEW w \in Workers, WakeWorker(w) PROVE QuietForLife
  BY <1>37, <1>0 DEF WakeWorker, Goto
<1>38. CASE UNCHANGED vars
  BY <1>38, <1>0, QuietLife
<1>39. ASSUME QuietForLife PROVE LifeInv'
  BY <1>39, <1>0, QuietLife
<1> QED
  BY <1>1, <1>2, <1>3, <1>4, <1>5, <1>6, <1>7, <1>8, <1>9, <1>10, <1>11,
     <1>12, <1>13, <1>14, <1>15, <1>16, <1>17, <1>18, <1>19, <1>20, <1>21,
     <1>22, <1>23, <1>24, <1>25, <1>26, <1>27, <1>28, <1>29, <1>30, <1>31,
     <1>32, <1>33, <1>34, <1>35, <1>36, <1>37, <1>38, <1>39
  DEF Next, OwnerStep, SpuriousWake, CallerStep, Call, WorkerStep, WorkerFault, Gone

----------------------------------------------------------------------------
(* Who is in which wave: WaveInv.                                          *)

\* A step by which nobody enters a wave or leaves one.
QuietForWave ==
  /\ UNCHANGED <<completed_workers, generation, wave_active, stop_requested,
                 infrastructure_error, observed>>
  /\ \/ owner' = owner
     \/ owner # "alive" /\ owner' # "alive"
  /\ \A w \in Workers :
       /\ Parked(w)' <=> Parked(w)
       /\ worker'[w] \in Executing \union {"relock"} =>
            worker[w] \in Executing \union {"relock"}
  /\ \A c \in Callers : /\ InWait(c)' <=> InWait(c)
                        /\ caller'[c] = "idle" => caller[c] = "idle"

LEMMA QuietWave ==
  ASSUME WaveInv, QuietForWave
  PROVE  WaveInv'
<1> USE DEF InWait, Parked
<1>1. /\ completed_workers' = completed_workers /\ generation' = generation
      /\ wave_active' = wave_active /\ stop_requested' = stop_requested
      /\ infrastructure_error' = infrastructure_error /\ observed' = observed
  BY DEF QuietForWave
<1>2. \A w \in Workers : Parked(w)' <=> Parked(w)
  BY DEF QuietForWave
<1>3. \A c \in Callers : InWait(c)' <=> InWait(c)
  BY DEF QuietForWave
<1>4. owner' = "alive" <=> owner = "alive"
  BY DEF QuietForWave
<1>5. \A w \in Workers : observed'[w] <= generation'
  BY <1>1 DEF WaveInv
<1>6. ~stop_requested' /\ ~wave_active' =>
       /\ \A w \in Workers : observed'[w] = generation'
       /\ owner' = "alive" => \A w \in Workers : Parked(w)'
  BY <1>1, <1>2, <1>4 DEF WaveInv
<1>7. wave_active' /\ ~stop_requested' =>
        completed_workers' = Cardinality({w \in Workers : Done(w)}')
  <2>1. {w \in Workers : Done(w)}' = {w \in Workers : Done(w)}
    BY <1>1, <1>2 DEF Done
  <2> QED
    BY <1>1, <2>1 DEF WaveInv
<1>8. wave_active' => \E c \in Callers : InWait(c)'
  BY <1>1, <1>3 DEF WaveInv
<1>9. \A c \in Callers : InWait(c)' =>
       /\ wave_active' /\ owner' = "alive"
       /\ stop_requested' => infrastructure_error'
  BY <1>1, <1>3, <1>4 DEF WaveInv
<1>10. \A c, d \in Callers : InWait(c)' /\ InWait(d)' => c = d
  BY <1>3 DEF WaveInv
<1>11. \A w \in Workers : worker'[w] \in Executing \union {"relock"} =>
        /\ observed'[w] = generation' /\ generation' # 0
        /\ \E c \in Callers : caller'[c] # "idle"
  <2>1. \A w \in Workers : worker'[w] \in Executing \union {"relock"} =>
          worker[w] \in Executing \union {"relock"}
    BY DEF QuietForWave
  <2>2. \A c \in Callers : caller'[c] = "idle" => caller[c] = "idle"
    BY DEF QuietForWave
  <2> QED
    BY <1>1, <2>1, <2>2 DEF WaveInv
<1> QED
  BY <1>5, <1>6, <1>7, <1>8, <1>9, <1>10, <1>11 DEF WaveInv

\* When every worker is back from a wave, every worker is parked.
LEMMA AllDone ==
  ASSUME WaveInv, ~stop_requested, wave_active, WaveDone, NEW w \in Workers
  PROVE  Parked(w) /\ observed[w] = generation
<1>1. Cardinality({v \in Workers : Done(v)}) = Cardinality(Workers)
  BY DEF WaveInv, WaveDone
<1>2. {v \in Workers : Done(v)} = Workers
  BY <1>1, FS_Subset, ConstantsAssumption
<1> QED
  BY <1>2 DEF Done

\* The caller that finds the wave done and the infrastructure sound is alone,
\* and the pool has not been stopped.
LEMMA AtWaveEnd ==
  ASSUME IInv, NEW c \in Callers, caller[c] = "woken", ~infrastructure_error, WaveDone
  PROVE  /\ ~stop_requested /\ wave_active /\ owner = "alive"
         /\ \A d \in Callers : InWait(d) => d = c
         /\ \A w \in Workers : Parked(w) /\ observed[w] = generation
<1>1. ~stop_requested /\ wave_active /\ owner = "alive"
      /\ \A d \in Callers : InWait(d) => d = c
  BY DEF IInv, WaveInv, InWait
<1> QED
  BY <1>1, AllDone DEF IInv

\* A worker back from its wave: the Done set gains it.
LEMMA WaveCompletes ==
  ASSUME IInv, NEW w \in Workers, CompleteWave(w)
  PROVE  WaveInv'
<1> USE DEF Executing, Parked, InWait, vars, mutexVars, waveVars, atomicVars,
      localVars, callVars, ownerVars
<1>0. /\ worker \in [Workers -> WorkerPlaces] /\ owner \in OwnerPlaces
      /\ caller \in [Callers -> CallerPlaces]
      /\ observed \in [Workers -> 0 .. MaxGeneration]
      /\ generation \in 0 .. MaxGeneration /\ completed_workers \in Nat
      /\ WaveInv
  BY DEF IInv, TypeOK
<1> HIDE DEF WaveInv
<1> DEFINE D == {v \in Workers : Done(v)}
<1>1. /\ worker[w] = "relock" /\ observed[w] = generation
      /\ observed' = observed /\ generation' = generation
      /\ completed_workers' = completed_workers + 1
      /\ wave_active' = wave_active /\ stop_requested' = stop_requested
      /\ infrastructure_error' = infrastructure_error
      /\ worker' = [worker EXCEPT ![w] = IF stop_requested THEN "exited" ELSE "asleep"]
  <2>1. observed[w] = generation
    BY <1>0 DEF WaveInv, CompleteWave
  <2>2. observed' = observed
    BY <2>1, <1>0 DEF CompleteWave, EnterLoop
  <2> QED
    BY <2>1, <2>2 DEF CompleteWave, EnterLoop
<1>2. /\ owner' = "alive" <=> owner = "alive"
      /\ \A c \in Callers : /\ InWait(c)' <=> InWait(c)
                            /\ caller'[c] = "idle" <=> caller[c] = "idle"
  BY <1>0 DEF CompleteWave, NotifyCoordinator
<1>3. ~stop_requested => D' = D \union {w} /\ w \notin D
  BY <1>0, <1>1 DEF Done
<1>4. IsFiniteSet(D)
  BY ConstantsAssumption, FS_Subset
<1>5. wave_active' /\ ~stop_requested' => completed_workers' = Cardinality(D')
  <2>1. wave_active /\ ~stop_requested => completed_workers = Cardinality(D)
    BY <1>0 DEF WaveInv
  <2>2. ~stop_requested => Cardinality(D') = Cardinality(D) + 1
    BY <1>3, <1>4, FS_AddElement
  <2> QED
    BY <2>1, <2>2, <1>1
<1>6. \A v \in Workers : /\ v # w => worker'[v] = worker[v]
                         /\ ~stop_requested => worker'[w] = "asleep"
                         /\ worker'[w] \notin Executing \union {"relock"}
  BY <1>0, <1>1
<1>7. ~stop_requested' /\ ~wave_active' =>
        /\ \A v \in Workers : observed'[v] = generation'
        /\ owner' = "alive" => \A v \in Workers : Parked(v)'
  BY <1>0, <1>1, <1>2, <1>6 DEF WaveInv
<1>8. \A c \in Callers : InWait(c)' =>
       /\ wave_active' /\ owner' = "alive"
       /\ stop_requested' => infrastructure_error'
  BY <1>0, <1>1, <1>2 DEF WaveInv
<1>9. /\ wave_active' => \E c \in Callers : InWait(c)'
      /\ \A c, d \in Callers : InWait(c)' /\ InWait(d)' => c = d
  BY <1>0, <1>1, <1>2 DEF WaveInv
<1>10. \A v \in Workers : worker'[v] \in Executing \union {"relock"} =>
        /\ observed'[v] = generation' /\ generation' # 0
        /\ \E c \in Callers : caller'[c] # "idle"
  BY <1>0, <1>1, <1>2, <1>6 DEF WaveInv
<1>11. \A v \in Workers : observed'[v] <= generation'
  BY <1>0, <1>1 DEF WaveInv
<1> QED
  BY <1>5, <1>7, <1>8, <1>9, <1>10, <1>11 DEF WaveInv

LEMMA WaveStarts ==
  ASSUME IInv, NEW c \in Callers, NEW n \in 1 .. MaxJobs,
         NEW F \in SUBSET (0 .. n - 1), StartWave(c, n, F)
  PROVE  WaveInv'
<1> USE DEF Executing, Parked, InWait, vars, mutexVars, waveVars, atomicVars,
      localVars, callVars, ownerVars
<1>0. /\ worker \in [Workers -> WorkerPlaces] /\ owner \in OwnerPlaces
      /\ caller \in [Callers -> CallerPlaces]
      /\ observed \in [Workers -> 0 .. MaxGeneration]
      /\ generation \in 0 .. MaxGeneration /\ completed_workers \in Nat
      /\ WaveInv
  BY DEF IInv, TypeOK
<1> HIDE DEF WaveInv
<1>1. /\ ~stop_requested /\ owner = "alive" /\ ~wave_active
      /\ \A w \in Workers : observed[w] = generation
      /\ \A w \in Workers : worker'[w] = "woken" /\ observed'[w] # generation'
      /\ generation' = generation + 1
  BY StartOfWave
<1>2. /\ completed_workers' = 0 /\ wave_active' = TRUE /\ owner' = owner
      /\ observed' = observed /\ stop_requested' = stop_requested
      /\ caller' = [caller EXCEPT ![c] = "waiting"]
  BY DEF StartWave, PrepareWave
<1>3. {w \in Workers : Done(w)}' = {}
  BY <1>1 DEF Done
<1>4. \A d \in Callers : InWait(d)' <=> d = c
  BY <1>0, <1>1, <1>2 DEF WaveInv
<1>5. \A w \in Workers : observed'[w] <= generation'
  BY <1>0, <1>1, <1>2
<1>6. completed_workers' = Cardinality({w \in Workers : Done(w)}')
  BY <1>2, <1>3, FS_EmptySet
<1> QED
  BY <1>1, <1>2, <1>4, <1>5, <1>6 DEF WaveInv

\* A worker that evaluates its predicate starts the wave it has not seen.
LEMMA WaveEntered ==
  ASSUME IInv, NEW w \in Workers, Recheck(w)
  PROVE  WaveInv'
<1> USE DEF Executing, Parked, InWait, vars, mutexVars, waveVars, atomicVars,
      localVars, callVars, ownerVars
<1>0. /\ worker \in [Workers -> WorkerPlaces] /\ owner \in OwnerPlaces
      /\ caller \in [Callers -> CallerPlaces]
      /\ observed \in [Workers -> 0 .. MaxGeneration]
      /\ generation \in 0 .. MaxGeneration /\ completed_workers \in Nat
      /\ WaveInv
  BY DEF IInv, TypeOK
<1> HIDE DEF WaveInv
<1>1. /\ worker[w] = "woken"
      /\ worker' = [worker EXCEPT ![w] = IF stop_requested THEN "exited"
                                         ELSE IF generation # observed[w] THEN "load"
                                         ELSE "asleep"]
      /\ observed' = [observed EXCEPT ![w] = IF stop_requested THEN @ ELSE generation]
      /\ UNCHANGED <<mutexVars, owner, caller>>
  BY DEF Recheck, EnterLoop
<1>2. CASE stop_requested
  <2>1. /\ \A v \in Workers : /\ worker'[v] = IF v = w THEN "exited" ELSE worker[v]
                              /\ observed'[v] = observed[v]
    BY <1>0, <1>1, <1>2
  <2> QED
    BY <1>0, <1>1, <1>2, <2>1 DEF WaveInv
<1>3. CASE ~stop_requested /\ generation = observed[w]
  <2>1. QuietForWave
    BY <1>0, <1>1, <1>3 DEF QuietForWave
  <2> QED
    BY <1>0, <2>1, QuietWave
<1>4. CASE ~stop_requested /\ generation # observed[w]
  <2>1. /\ worker' = [worker EXCEPT ![w] = "load"]
        /\ observed' = [observed EXCEPT ![w] = generation]
    BY <1>1, <1>4
  <2>2. wave_active /\ \E c \in Callers : InWait(c)
    BY <1>0, <1>4 DEF WaveInv
  <2>3. generation # 0
    BY <1>0, <1>4 DEF WaveInv
  <2>4. {v \in Workers : Done(v)}' = {v \in Workers : Done(v)}
    BY <1>0, <1>1, <1>4, <2>1 DEF Done
  <2>5. \A v \in Workers : observed'[v] <= generation'
    BY <1>0, <1>1, <2>1 DEF WaveInv
  <2>6. \A v \in Workers : worker'[v] \in Executing \union {"relock"} =>
          observed'[v] = generation'
    BY <1>0, <1>1, <2>1 DEF WaveInv
  <2> QED
    BY <1>0, <1>1, <1>4, <2>2, <2>3, <2>4, <2>5, <2>6 DEF WaveInv
<1> QED
  BY <1>2, <1>3, <1>4

LEMMA WaveStep == IInv /\ [Next]_vars => WaveInv'
<1> SUFFICES ASSUME IInv, [Next]_vars PROVE WaveInv'
  OBVIOUS
<1> USE DEF Executing, Parked, InWait, QuietForWave, vars, mutexVars, waveVars, atomicVars,
      localVars, callVars, ownerVars
<1>0. /\ worker \in [Workers -> WorkerPlaces] /\ owner \in OwnerPlaces
      /\ caller \in [Callers -> CallerPlaces]
      /\ observed \in [Workers -> 0 .. MaxGeneration]
      /\ generation \in 0 .. MaxGeneration /\ completed_workers \in Nat
      /\ WaveInv
  BY DEF IInv, TypeOK
<1> HIDE DEF WaveInv
<1>1. ASSUME CheckReady PROVE WaveInv'
  <2>1. CASE owner' # "alive"
    <3>1. QuietForWave
      BY <1>0, <1>1, <2>1 DEF CheckReady
    <3> QED
      BY <1>0, <3>1, QuietWave
  <2>2. CASE owner' = "alive"
    <3>1. /\ ready_workers = Cardinality(Workers) /\ owner = "checkReady"
          /\ ~infrastructure_error
      BY <1>1, <2>2 DEF CheckReady
    <3>2. Cardinality({w \in Workers : Parked(w)}) = Cardinality(Workers)
      BY <3>1 DEF IInv, LifeInv, Building
    <3>3. {w \in Workers : Parked(w)} = Workers
      BY <3>2, FS_Subset, ConstantsAssumption
    <3> QED
      BY <1>0, <1>1, <2>2, <3>1, <3>3 DEF WaveInv, CheckReady, Done
  <2> QED
    BY <2>1, <2>2
<1>2. ASSUME Destroy PROVE WaveInv'
  BY <1>0, <1>2 DEF WaveInv, Destroy, Done
<1>3. ASSUME RequestStop PROVE WaveInv'
  BY <1>0, <1>3 DEF WaveInv, RequestStop, Done
<1>4. ASSUME NEW c \in Callers, MeetBrokenPool(c) PROVE WaveInv'
  <2>1. infrastructure_error /\ stop_requested
    BY <1>4 DEF MeetBrokenPool, IInv, LifeInv
  <2>2. \A d \in Callers : /\ InWait(d)' <=> InWait(d)
                           /\ caller'[d] = "idle" => caller[d] = "idle"
    BY <1>0, <1>4 DEF MeetBrokenPool, StopPool, MayCall
  <2>3. QuietForWave
    BY <1>0, <1>4, <2>1, <2>2 DEF MeetBrokenPool, StopPool, IInv, TypeOK
  <2> QED
    BY <1>0, <2>3, QuietWave
<1>5. ASSUME NEW c \in Callers, WaveBroken(c) PROVE WaveInv'
  <2>1. \A d \in Callers : InWait(d) => d = c
    BY <1>0, <1>5 DEF WaveBroken, WaveInv
  <2>2. caller' = [caller EXCEPT ![c] = "notify"]
    BY <1>5 DEF WaveBroken, StopPool
  <2>3. \A d \in Callers : ~InWait(d)' /\ (caller'[d] = "idle" => caller[d] = "idle")
    BY <1>0, <2>1, <2>2
  <2>4. stop_requested' /\ ~wave_active' /\ generation' = generation
        /\ worker' = worker /\ observed' = observed
    BY <1>5 DEF WaveBroken, StopPool
  <2> QED
    BY <1>0, <2>3, <2>4 DEF WaveInv, Done
<1>6. ASSUME NEW c \in Callers, WaveReturns(c) \/ WaveThrows(c) PROVE WaveInv'
  <2>1. /\ \A d \in Callers : InWait(d) => d = c
        /\ \A w \in Workers : Parked(w) /\ observed[w] = generation
    BY <1>6, AtWaveEnd DEF WaveReturns, WaveThrows
  <2>2. caller' = [caller EXCEPT ![c] = "idle"] \/ caller' = [caller EXCEPT ![c] = "notify"]
    BY <1>6 DEF WaveReturns, WaveThrows, StopPool
  <2>3. \A d \in Callers : ~InWait(d)'
    BY <1>0, <2>1, <2>2
  <2>4. ~wave_active' /\ generation' = generation /\ worker' = worker
        /\ observed' = observed /\ owner' = owner
    BY <1>6 DEF WaveReturns, WaveThrows, StopPool
  <2> QED
    BY <1>0, <2>1, <2>3, <2>4 DEF WaveInv, Done
<1>7. ASSUME NEW c \in Callers, CallerJoins(c) PROVE WaveInv'
  <2>1. \A d \in Callers : InWait(d)' <=> InWait(d)
    BY <1>0, <1>7 DEF CallerJoins
  <2>2. \A w \in Workers : worker[w] \notin Executing \union {"relock"} /\ worker' = worker
    BY <1>7 DEF CallerJoins, AllExited
  <2>3. UNCHANGED <<mutexVars, observed, owner>>
    BY <1>7 DEF CallerJoins
  <2> QED
    BY <1>0, <2>1, <2>2, <2>3 DEF WaveInv, Done
<1>8. ASSUME NEW w \in Workers, BecomeReady(w) PROVE WaveInv'
  <2>1. /\ worker[w] = "audit" /\ ~stop_requested /\ generation = 0 /\ owner # "alive"
    BY <1>8 DEF BecomeReady, IInv, LifeInv
  <2>2. /\ worker' = [worker EXCEPT ![w] = "asleep"]
        /\ observed' = [observed EXCEPT ![w] = 0]
        /\ UNCHANGED <<generation, wave_active, stop_requested, infrastructure_error>>
    BY <1>8, <2>1 DEF BecomeReady, EnterLoop
  <2>3. owner' # "alive" /\ \A c \in Callers : InWait(c)' <=> InWait(c)
    BY <1>8, <1>0, <2>1 DEF BecomeReady, NotifyCoordinator
  <2>4. ~wave_active /\ \A c \in Callers : ~InWait(c)
    BY <1>0, <2>1 DEF WaveInv
  <2>5. \A v \in Workers : /\ observed'[v] <= generation' /\ observed'[v] = generation'
                           /\ worker'[v] \notin Executing \union {"relock"}
    BY <1>0, <2>1, <2>2, <2>4 DEF WaveInv
  <2> QED
    BY <2>2, <2>3, <2>4, <2>5 DEF WaveInv
<1>9. ASSUME NEW w \in Workers, ReportInfrastructureFailure(w) PROVE WaveInv'
  <2>1. /\ owner' = "alive" <=> owner = "alive"
        /\ \A c \in Callers : /\ InWait(c)' <=> InWait(c)
                              /\ caller'[c] = "idle" <=> caller[c] = "idle"
    BY <1>9, <1>0 DEF ReportInfrastructureFailure, NotifyCoordinator
  <2>2. \A v \in Workers : worker'[v] \in Executing \union {"relock"} =>
                           worker[v] \in Executing \union {"relock"}
    BY <1>9, <1>0 DEF ReportInfrastructureFailure, WorkNotified
  <2>3. stop_requested' /\ infrastructure_error'
        /\ UNCHANGED <<generation, wave_active, observed>>
    BY <1>9 DEF ReportInfrastructureFailure
  <2>4. \A v \in Workers : worker'[v] \in Executing \union {"relock"} =>
          /\ observed'[v] = generation' /\ generation' # 0
          /\ \E c \in Callers : caller'[c] # "idle"
    BY <1>0, <2>1, <2>2, <2>3 DEF WaveInv
  <2>5. \A c \in Callers : InWait(c)' =>
         /\ wave_active' /\ owner' = "alive"
         /\ stop_requested' => infrastructure_error'
    BY <1>0, <2>1, <2>3 DEF WaveInv
  <2>6. /\ wave_active' => \E c \in Callers : InWait(c)'
        /\ \A c, d \in Callers : InWait(c)' /\ InWait(d)' => c = d
    BY <1>0, <2>1, <2>3 DEF WaveInv
  <2>7. \A v \in Workers : observed'[v] <= generation'
    BY <1>0, <2>3 DEF WaveInv
  <2> QED
    BY <2>3, <2>4, <2>5, <2>6, <2>7 DEF WaveInv
<1>10. ASSUME NEW w \in Workers, Recheck(w) \/ CompleteWave(w) PROVE WaveInv'
  BY <1>10, WaveEntered, WaveCompletes
<1>11. ASSUME NEW c \in Callers, NEW n \in 1 .. MaxJobs,
             NEW F \in SUBSET (0 .. n - 1), StartWave(c, n, F)
      PROVE  WaveInv'
  BY <1>11, WaveStarts
<1>12. ASSUME CreateFails PROVE QuietForWave
  BY <1>12, <1>0 DEF CreateFails
<1>13. ASSUME CheckCreated PROVE QuietForWave
  BY <1>13, <1>0 DEF CheckCreated
<1>14. ASSUME NotifyStop PROVE QuietForWave
  BY <1>14, <1>0 DEF NotifyStop, WorkNotified
<1>15. ASSUME OwnerJoins PROVE QuietForWave
  BY <1>15, <1>0 DEF OwnerJoins
<1>16. ASSUME WakeOwner PROVE QuietForWave
  BY <1>16, <1>0 DEF WakeOwner
<1>17. ASSUME NEW c \in Callers, Refuse(c) PROVE QuietForWave
  BY <1>17, <1>0 DEF Refuse
<1>18. ASSUME NEW c \in Callers, KeepWaiting(c) PROVE QuietForWave
  BY <1>18, <1>0 DEF KeepWaiting
<1>19. ASSUME NEW c \in Callers, CallerNotifies(c) PROVE QuietForWave
  BY <1>19, <1>0 DEF CallerNotifies, WorkNotified
<1>20. ASSUME NEW c \in Callers, WakeCaller(c) PROVE QuietForWave
  BY <1>20, <1>0 DEF WakeCaller
<1>21. ASSUME NEW w \in Workers, CreateWorker(w) PROVE QuietForWave
  BY <1>21, <1>0 DEF CreateWorker
<1>22. ASSUME NEW w \in Workers, AuditFails(w) PROVE QuietForWave
  BY <1>22, <1>0 DEF AuditFails, Goto
<1>23. ASSUME NEW w \in Workers, RelockFails(w) PROVE QuietForWave
  BY <1>23, <1>0 DEF RelockFails, Goto
<1>24. ASSUME NEW w \in Workers, ExitUnready(w) PROVE QuietForWave
  BY <1>24, <1>0 DEF ExitUnready, Goto
<1>25. ASSUME NEW w \in Workers, LoadNextJob(w) PROVE QuietForWave
  BY <1>25, <1>0 DEF LoadNextJob, Goto
<1>26. ASSUME NEW w \in Workers, LoadLimit(w) PROVE QuietForWave
  BY <1>26, <1>0 DEF LoadLimit, Goto
<1>27. ASSUME NEW w \in Workers, ClaimJob(w) PROVE QuietForWave
  BY <1>27, <1>0 DEF ClaimJob, Goto
<1>28. ASSUME NEW w \in Workers, ClaimRetry(w) PROVE QuietForWave
  BY <1>28, <1>0 DEF ClaimRetry, Goto
<1>29. ASSUME NEW w \in Workers, DropJob(w) PROVE QuietForWave
  BY <1>29, <1>0 DEF DropJob, Goto
<1>30. ASSUME NEW w \in Workers, StartJob(w) PROVE QuietForWave
  BY <1>30, <1>0 DEF StartJob, Goto
<1>31. ASSUME NEW w \in Workers, CallReturns(w) PROVE QuietForWave
  BY <1>31, <1>0 DEF CallReturns, Goto
<1>32. ASSUME NEW w \in Workers, CallThrows(w) PROVE QuietForWave
  BY <1>32, <1>0 DEF CallThrows, Goto
<1>33. ASSUME NEW w \in Workers, LowEnough(w) PROVE QuietForWave
  BY <1>33, <1>0 DEF LowEnough, Goto
<1>34. ASSUME NEW w \in Workers, LowerCutoff(w) PROVE QuietForWave
  BY <1>34, <1>0 DEF LowerCutoff, Goto
<1>35. ASSUME NEW w \in Workers, LowerRetry(w) PROVE QuietForWave
  BY <1>35, <1>0 DEF LowerRetry
<1>36. ASSUME NEW w \in Workers, WakeWorker(w) PROVE QuietForWave
  BY <1>36, <1>0 DEF WakeWorker, Goto
<1>37. CASE UNCHANGED vars
  BY <1>37, <1>0, QuietWave
<1>38. ASSUME QuietForWave PROVE WaveInv'
  BY <1>38, <1>0, QuietWave
<1> QED
  BY <1>1, <1>2, <1>3, <1>4, <1>5, <1>6, <1>7, <1>8, <1>9, <1>10, <1>11,
     <1>12, <1>13, <1>14, <1>15, <1>16, <1>17, <1>18, <1>19, <1>20, <1>21,
     <1>22, <1>23, <1>24, <1>25, <1>26, <1>27, <1>28, <1>29, <1>30, <1>31,
     <1>32, <1>33, <1>34, <1>35, <1>36, <1>37, <1>38
  DEF Next, OwnerStep, SpuriousWake, CallerStep, Call, WorkerStep, WorkerFault, Gone

----------------------------------------------------------------------------
(* What a call that threw has told its caller: ReplyInv.                    *)

\* A step after which nobody has thrown a job's exception that had not before.
QuietForReply ==
  /\ UNCHANGED <<callback, raised, ran>>
  /\ stop_requested => stop_requested'
  /\ \A c \in Callers : reply'[c] = "job" => reply[c] = "job"

LEMMA QuietReply ==
  ASSUME ReplyInv, QuietForReply
  PROVE  ReplyInv'
BY DEF ReplyInv, DeterministicFailure, QuietForReply

\* At the end of a wave every job below the cutoff has run, none of them threw,
\* and the cutoff is the lowest recorded failure.
LEMMA WaveOutcome ==
  ASSUME IInv, \A w \in Workers : Parked(w) /\ observed[w] = generation
  PROVE  /\ \A j \in Jobs : j < failure_cutoff => ran[j] = 1 /\ j \notin callback
         /\ LowestFailure # NoJob => LowestFailure = failure_cutoff
         /\ LowestFailure = NoJob => failure_cutoff = job_count
<1> USE ConstantsAssumption DEF Jobs, NoJob
<1>0. /\ failure_cutoff \in 0 .. MaxJobs /\ next_job \in 0 .. MaxJobs
      /\ job_count \in 0 .. MaxJobs
      /\ failures \in [Workers -> 0 .. MaxJobs] /\ ran \in [Jobs -> {0, 1}]
      /\ callback \subseteq 0 .. job_count - 1
  BY DEF IInv, TypeOK, JobInv, WaveBounds
<1>1. failure_cutoff <= next_job
  <2>1. PICK w \in Workers : TRUE
    OBVIOUS
  <2>2. worker[w] \notin Executing /\ observed[w] = generation
    BY DEF Parked, Executing
  <2> QED
    BY <2>2 DEF IInv, JobInv, WorkerInv
<1>2. ASSUME NEW j \in Jobs, j < failure_cutoff PROVE ran[j] = 1 /\ j \notin callback
  <2>1. j < next_job /\ ~(failure_cutoff <= j)
    BY <1>0, <1>1, <1>2
  <2>2. ran[j] = 1
    BY <2>1 DEF IInv, JobInv, ClaimedJobs, Parked
  <2>3. j \notin callback
    BY <2>1, <2>2 DEF IInv, JobInv, FailedJobs, Parked
  <2> QED
    BY <2>2, <2>3
<1>3. /\ LowestFailure \in 0 .. MaxJobs
      /\ \E w \in Workers : LowestFailure = failures[w]
      /\ \A w \in Workers : LowestFailure <= failures[w]
  BY LowestExists DEF IInv
<1>4. ASSUME NEW w \in Workers, failures[w] # NoJob
      PROVE  failures[w] \in callback /\ failure_cutoff <= failures[w]
  BY <1>4 DEF IInv, JobInv, WorkerInv, Parked
<1>5. ASSUME failure_cutoff # job_count PROVE LowestFailure = failure_cutoff
  <2>1. PICK w \in Workers : failures[w] = failure_cutoff
    BY <1>5 DEF IInv, JobInv, CutoffRecorded
  <2>2. failure_cutoff < job_count
    BY <1>0, <1>5 DEF IInv, JobInv, WaveBounds
  <2>3. LowestFailure <= failure_cutoff /\ LowestFailure # NoJob
    BY <1>0, <1>3, <2>1, <2>2
  <2>4. failure_cutoff <= LowestFailure
    BY <1>3, <1>4, <2>3
  <2> QED
    BY <1>0, <1>3, <2>3, <2>4
<1>6. ASSUME LowestFailure # NoJob PROVE failure_cutoff # job_count
  <2>1. LowestFailure \in callback /\ failure_cutoff <= LowestFailure
    BY <1>3, <1>4, <1>6
  <2> QED
    BY <2>1, <1>0
<1>7. LowestFailure = NoJob => failure_cutoff = job_count
  <2>1. failure_cutoff # job_count => failure_cutoff \in callback
    BY DEF IInv, JobInv, WaveBounds
  <2> QED
    BY <2>1, <1>0, <1>5
<1> QED
  BY <1>2, <1>5, <1>6, <1>7

LEMMA ThrowingWave ==
  ASSUME IInv, NEW c \in Callers, WaveThrows(c)
  PROVE  ReplyInv'
<1> USE ConstantsAssumption DEF Jobs, NoJob
<1>1. \A w \in Workers : Parked(w) /\ observed[w] = generation
  BY AtWaveEnd DEF WaveThrows
<1>2. /\ raised' = LowestFailure /\ LowestFailure # NoJob
      /\ callback' = callback /\ ran' = ran /\ stop_requested' = TRUE
  BY DEF WaveThrows, StopPool, waveVars
<1>3. LowestFailure = failure_cutoff
  BY <1>1, <1>2, WaveOutcome
<1>4. failure_cutoff \in callback /\ callback \subseteq 0 .. job_count - 1
      /\ job_count \in 0 .. MaxJobs
  <2>1. PICK w \in Workers : LowestFailure = failures[w]
    BY LowestExists DEF IInv
  <2>2. failures[w] \in callback
    BY <2>1, <1>2 DEF IInv, JobInv, WorkerInv
  <2> QED
    BY <2>1, <2>2, <1>3 DEF IInv, TypeOK, JobInv, WaveBounds
<1>5. \A j \in Jobs : j < failure_cutoff => ran[j] = 1 /\ j \notin callback
  BY <1>1, WaveOutcome
<1>6. ran[failure_cutoff] = 1
  <2>1. PICK w \in Workers : LowestFailure = failures[w]
    BY LowestExists DEF IInv
  <2>2. failures[w] # NoJob /\ WorkerInv(w)
    BY <2>1, <1>2 DEF IInv, JobInv
  <2>3. ran[failures[w]] = 1
    BY <2>2 DEF WorkerInv
  <2> QED
    BY <2>1, <2>3, <1>3
<1>7. \A j \in callback : failure_cutoff <= j
  BY <1>4, <1>5
<1>8. \A j \in 0 .. failure_cutoff : ran[j] = 1
  BY <1>4, <1>5, <1>6
<1> QED
  BY <1>2, <1>3, <1>4, <1>7, <1>8 DEF ReplyInv, DeterministicFailure

LEMMA ReplyStep == IInv /\ [Next]_vars => ReplyInv'
<1> SUFFICES ASSUME IInv, [Next]_vars PROVE ReplyInv'
  OBVIOUS
<1> USE DEF QuietForReply, vars, mutexVars, waveVars, atomicVars, localVars,
      callVars, ownerVars
<1>0. reply \in [Callers -> Replies] /\ ran \in [Jobs -> {0, 1}] /\ ReplyInv
      /\ callback \subseteq 0 .. job_count - 1 /\ raised \in 0 .. MaxJobs
  BY DEF IInv, TypeOK, JobInv, WaveBounds
<1> HIDE DEF ReplyInv
<1>1. ASSUME NEW w \in Workers, StartJob(w) PROVE ReplyInv'
  <2>1. /\ callback' = callback /\ raised' = raised /\ reply' = reply
        /\ stop_requested' = stop_requested
        /\ ran' = [ran EXCEPT ![candidate[w]] = @ + 1]
    BY <1>1 DEF StartJob
  <2>2. ran[candidate[w]] = 0
    BY <1>1, HeldJobs DEF StartJob, IInv
  <2>3. \A j \in Jobs : ran[j] = 1 => ran'[j] = 1
    BY <1>0, <2>1, <2>2
  <2>4. \A c \in Callers : reply[c] = "job" => 0 .. raised \subseteq Jobs
    BY <1>0, ConstantsAssumption DEF ReplyInv, DeterministicFailure, Jobs, IInv, TypeOK
  <2> QED
    BY <1>0, <2>1, <2>3, <2>4 DEF ReplyInv, DeterministicFailure
<1>2. ASSUME NEW c \in Callers, WaveThrows(c) PROVE ReplyInv'
  BY <1>2, ThrowingWave
<1>3. ASSUME NEW c \in Callers, NEW n \in 1 .. MaxJobs,
             NEW F \in SUBSET (0 .. n - 1), StartWave(c, n, F)
      PROVE  ReplyInv'
  <2>1. ~stop_requested
    BY <1>3, StartOfWave
  <2>2. \A d \in Callers : reply'[d] # "job"
    BY <1>0, <1>3, <2>1 DEF StartWave, ReplyInv
  <2> QED
    BY <2>2 DEF ReplyInv, DeterministicFailure
<1>4. ASSUME CreateFails PROVE QuietForReply
  BY <1>4, <1>0 DEF CreateFails
<1>5. ASSUME CheckCreated PROVE QuietForReply
  BY <1>5, <1>0 DEF CheckCreated
<1>6. ASSUME CheckReady PROVE QuietForReply
  BY <1>6, <1>0 DEF CheckReady
<1>7. ASSUME Destroy PROVE QuietForReply
  BY <1>7, <1>0 DEF Destroy
<1>8. ASSUME RequestStop PROVE QuietForReply
  BY <1>8, <1>0 DEF RequestStop
<1>9. ASSUME NotifyStop PROVE QuietForReply
  BY <1>9, <1>0 DEF NotifyStop, WorkNotified
<1>10. ASSUME OwnerJoins PROVE QuietForReply
  BY <1>10, <1>0 DEF OwnerJoins
<1>11. ASSUME WakeOwner PROVE QuietForReply
  BY <1>11, <1>0 DEF WakeOwner
<1>12. ASSUME NEW c \in Callers, Refuse(c) PROVE QuietForReply
  BY <1>12, <1>0 DEF Refuse
<1>13. ASSUME NEW c \in Callers, MeetBrokenPool(c) PROVE QuietForReply
  BY <1>13, <1>0 DEF MeetBrokenPool, StopPool
<1>14. ASSUME NEW c \in Callers, KeepWaiting(c) PROVE QuietForReply
  BY <1>14, <1>0 DEF KeepWaiting
<1>15. ASSUME NEW c \in Callers, WaveBroken(c) PROVE QuietForReply
  BY <1>15, <1>0 DEF WaveBroken, StopPool
<1>16. ASSUME NEW c \in Callers, WaveReturns(c) PROVE QuietForReply
  BY <1>16, <1>0 DEF WaveReturns
<1>17. ASSUME NEW c \in Callers, CallerNotifies(c) PROVE QuietForReply
  BY <1>17, <1>0 DEF CallerNotifies, WorkNotified
<1>18. ASSUME NEW c \in Callers, CallerJoins(c) PROVE QuietForReply
  BY <1>18, <1>0 DEF CallerJoins
<1>19. ASSUME NEW c \in Callers, WakeCaller(c) PROVE QuietForReply
  BY <1>19, <1>0 DEF WakeCaller
<1>20. ASSUME NEW w \in Workers, CreateWorker(w) PROVE QuietForReply
  BY <1>20, <1>0 DEF CreateWorker
<1>21. ASSUME NEW w \in Workers, AuditFails(w) PROVE QuietForReply
  BY <1>21, <1>0 DEF AuditFails, Goto
<1>22. ASSUME NEW w \in Workers, RelockFails(w) PROVE QuietForReply
  BY <1>22, <1>0 DEF RelockFails, Goto
<1>23. ASSUME NEW w \in Workers, ExitUnready(w) PROVE QuietForReply
  BY <1>23, <1>0 DEF ExitUnready, Goto
<1>24. ASSUME NEW w \in Workers, BecomeReady(w) PROVE QuietForReply
  BY <1>24, <1>0 DEF BecomeReady, EnterLoop, NotifyCoordinator
<1>25. ASSUME NEW w \in Workers, Recheck(w) PROVE QuietForReply
  BY <1>25, <1>0 DEF Recheck, EnterLoop
<1>26. ASSUME NEW w \in Workers, LoadNextJob(w) PROVE QuietForReply
  BY <1>26, <1>0 DEF LoadNextJob, Goto
<1>27. ASSUME NEW w \in Workers, LoadLimit(w) PROVE QuietForReply
  BY <1>27, <1>0 DEF LoadLimit, Goto
<1>28. ASSUME NEW w \in Workers, ClaimJob(w) PROVE QuietForReply
  BY <1>28, <1>0 DEF ClaimJob, Goto
<1>29. ASSUME NEW w \in Workers, ClaimRetry(w) PROVE QuietForReply
  BY <1>29, <1>0 DEF ClaimRetry, Goto
<1>30. ASSUME NEW w \in Workers, DropJob(w) PROVE QuietForReply
  BY <1>30, <1>0 DEF DropJob, Goto
<1>31. ASSUME NEW w \in Workers, CallReturns(w) PROVE QuietForReply
  BY <1>31, <1>0 DEF CallReturns, Goto
<1>32. ASSUME NEW w \in Workers, CallThrows(w) PROVE QuietForReply
  BY <1>32, <1>0 DEF CallThrows, Goto
<1>33. ASSUME NEW w \in Workers, LowEnough(w) PROVE QuietForReply
  BY <1>33, <1>0 DEF LowEnough, Goto
<1>34. ASSUME NEW w \in Workers, LowerCutoff(w) PROVE QuietForReply
  BY <1>34, <1>0 DEF LowerCutoff, Goto
<1>35. ASSUME NEW w \in Workers, LowerRetry(w) PROVE QuietForReply
  BY <1>35, <1>0 DEF LowerRetry
<1>36. ASSUME NEW w \in Workers, CompleteWave(w) PROVE QuietForReply
  BY <1>36, <1>0 DEF CompleteWave, EnterLoop, NotifyCoordinator
<1>37. ASSUME NEW w \in Workers, ReportInfrastructureFailure(w) PROVE QuietForReply
  BY <1>37, <1>0 DEF ReportInfrastructureFailure, NotifyCoordinator, WorkNotified
<1>38. ASSUME NEW w \in Workers, WakeWorker(w) PROVE QuietForReply
  BY <1>38, <1>0 DEF WakeWorker, Goto
<1>39. CASE UNCHANGED vars
  BY <1>39, <1>0, QuietReply
<1>40. ASSUME QuietForReply PROVE ReplyInv'
  BY <1>40, <1>0, QuietReply
<1> QED
  BY <1>1, <1>2, <1>3, <1>4, <1>5, <1>6, <1>7, <1>8, <1>9, <1>10, <1>11,
     <1>12, <1>13, <1>14, <1>15, <1>16, <1>17, <1>18, <1>19, <1>20, <1>21,
     <1>22, <1>23, <1>24, <1>25, <1>26, <1>27, <1>28, <1>29, <1>30, <1>31,
     <1>32, <1>33, <1>34, <1>35, <1>36, <1>37, <1>38, <1>39, <1>40
  DEF Next, OwnerStep, SpuriousWake, CallerStep, Call, WorkerStep, WorkerFault, Gone

----------------------------------------------------------------------------
(* Who is in run_indexed: CallInv.                                         *)

\* A step by which nobody enters run_indexed or leaves it, and nothing breaks.
QuietForCalls ==
  /\ UNCHANGED <<stop_requested, infrastructure_error, reply, raised, built>>
  /\ \/ owner' = owner
     \/ /\ owner # "alive" /\ owner' # "alive"
        /\ owner' \in Building => owner \in Building
  /\ \A c \in Callers :
       /\ caller'[c] = "idle" <=> caller[c] = "idle"
       /\ caller'[c] \in {"notify", "join"} <=> caller[c] \in {"notify", "join"}
  /\ \A w \in Workers :
       /\ worker[w] = "exited" => worker'[w] = "exited"
       /\ owner = "alive" /\ worker'[w] = "report" => worker[w] = "report"
       /\ raised # NoJob /\ Resting(w) => Resting(w)'

LEMMA QuietCalls ==
  ASSUME CallInv, QuietForCalls
  PROVE  CallInv'
<1>1. InCall' <=> InCall
  BY DEF InCall, QuietForCalls
<1>2. owner' = "alive" <=> owner = "alive"
  BY DEF QuietForCalls
<1>3. /\ stop_requested' = stop_requested /\ infrastructure_error' = infrastructure_error
      /\ reply' = reply /\ raised' = raised /\ built' = built
  BY DEF QuietForCalls
<1>4. owner' \in Building => owner \in Building
  BY DEF QuietForCalls
<1>5. \A c \in Callers :
        /\ caller'[c] = "idle" <=> caller[c] = "idle"
        /\ caller'[c] \in {"notify", "join"} <=> caller[c] \in {"notify", "join"}
  BY DEF QuietForCalls
<1>6. \A w \in Workers :
       /\ worker[w] = "exited" => worker'[w] = "exited"
       /\ owner = "alive" /\ worker'[w] = "report" => worker[w] = "report"
       /\ raised # NoJob /\ Resting(w) => Resting(w)'
  BY DEF QuietForCalls
<1> HIDE DEF InCall, Resting
<1> QED
  BY <1>1, <1>2, <1>3, <1>4, <1>5, <1>6 DEF CallInv

\* A pool that is ready has all its workers in their loops.
LEMMA AllReady ==
  ASSUME IInv, CheckReady, owner' = "alive"
  PROVE  \A w \in Workers : Parked(w)
<1>1. /\ ready_workers = Cardinality(Workers) /\ owner = "checkReady"
      /\ ~infrastructure_error
  BY DEF CheckReady
<1>2. Cardinality({w \in Workers : Parked(w)}) = Cardinality(Workers)
  BY <1>1 DEF IInv, LifeInv, Building
<1> QED
  BY <1>2, FS_Subset, ConstantsAssumption

LEMMA CallStep == IInv /\ [Next]_vars => CallInv'
<1> SUFFICES ASSUME IInv, [Next]_vars PROVE CallInv'
  OBVIOUS
<1> USE DEF QuietForCalls, Resting, vars, mutexVars, waveVars, atomicVars, localVars,
      callVars, ownerVars
<1>0. /\ worker \in [Workers -> WorkerPlaces] /\ caller \in [Callers -> CallerPlaces]
      /\ CallInv
      /\ raised # NoJob => stop_requested /\ \A w \in Workers : Resting(w)
      /\ owner = "alive" => \A w \in Workers : worker[w] \notin {"absent", "audit"}
  BY DEF IInv, TypeOK, LifeInv, CallInv
<1> HIDE DEF CallInv
\* Nobody works for a call that nobody is in.
<1>1. owner = "alive" /\ ~InCall => \A w \in Workers : Resting(w)
  <2>1. wave_active => InCall
    BY DEF IInv, WaveInv, InCall, InWait
  <2> QED
    BY <2>1, <1>0 DEF IInv, CallInv, WaveInv, Parked
<1>2. ASSUME CheckReady PROVE CallInv'
  <2>1. owner = "checkReady" /\ ~built /\ ~InCall /\ ~InCall'
    BY <1>2, <1>0 DEF CheckReady, CallInv, InCall, Building
  <2>2. CASE owner' = "alive"
    <3>1. ~infrastructure_error /\ ~stop_requested
      BY <1>2, <2>1, <2>2 DEF CheckReady, IInv, LifeInv, Building
    <3>2. \A w \in Workers : Parked(w)
      BY <1>2, <2>1, <2>2, AllReady
    <3> QED
      BY <1>2, <2>1, <2>2, <3>1, <3>2, <1>0 DEF CheckReady, CallInv, Building,
         Parked, InCall
  <2>3. CASE owner' # "alive"
    BY <1>2, <2>1, <2>3, <1>0 DEF CheckReady, CallInv, InCall
  <2> QED
    BY <2>2, <2>3
<1>3. ASSUME Destroy PROVE CallInv'
  BY <1>3, <1>0 DEF Destroy, CallInv, InCall, Building
<1>4. ASSUME RequestStop PROVE CallInv'
  BY <1>4, <1>0 DEF RequestStop, CallInv, InCall, Building
<1>5. ASSUME NEW c \in Callers, Refuse(c) PROVE CallInv'
  <2>1. \A d \in Callers : caller[d] # "idle" => reply'[d] = reply[d]
    BY <1>5 DEF Refuse, MayCall, IInv, TypeOK
  <2> QED
    BY <1>5, <2>1, <1>0 DEF Refuse, CallInv, InCall
<1>6. ASSUME NEW c \in Callers, MeetBrokenPool(c) PROVE CallInv'
  <2>1. owner = "alive" /\ infrastructure_error /\ caller[c] = "idle"
    BY <1>6 DEF MeetBrokenPool, MayCall
  <2>2. \A d \in Callers : d = c
    BY <2>1, <1>0, ConstantsAssumption DEF CallInv
  <2>3. caller'[c] = "notify" /\ reply'[c] = "infra" /\ stop_requested'
    BY <1>6, <1>0 DEF MeetBrokenPool, StopPool, IInv, TypeOK
  <2> QED
    BY <1>6, <2>1, <2>2, <2>3, <1>0 DEF MeetBrokenPool, StopPool, CallInv, InCall
<1>7. ASSUME NEW c \in Callers, NEW n \in 1 .. MaxJobs,
             NEW F \in SUBSET (0 .. n - 1), StartWave(c, n, F)
      PROVE  CallInv'
  <2>1. /\ ~stop_requested /\ owner = "alive" /\ ~wave_active
        /\ \A w \in Workers : worker'[w] = "woken"
    BY <1>7, StartOfWave
  <2>2. ~InCall
    BY <2>1, <1>0 DEF IInv, WaveInv, CallInv, InCall, InWait, CallerPlaces
  <2>3. /\ caller' = [caller EXCEPT ![c] = "waiting"] /\ raised' = NoJob
        /\ UNCHANGED <<stop_requested, infrastructure_error, owner, built>>
    BY <1>7 DEF StartWave
  <2> QED
    BY <2>1, <2>2, <2>3, <1>0 DEF CallInv, InCall
<1>8. ASSUME NEW c \in Callers, WaveBroken(c) PROVE CallInv'
  <2>1. infrastructure_error /\ caller[c] = "woken" /\ owner = "alive"
    BY <1>8, <1>0 DEF WaveBroken, CallInv, InCall
  <2>2. \A d \in Callers \ {c} : caller[d] = "idle"
    BY <2>1, <1>0 DEF CallInv
  <2>3. /\ caller' = [caller EXCEPT ![c] = "notify"] /\ reply'[c] = "infra"
        /\ stop_requested' /\ raised' = raised
        /\ UNCHANGED <<infrastructure_error, owner, built, worker>>
    BY <1>8, <1>0 DEF WaveBroken, StopPool, IInv, TypeOK
  <2> QED
    BY <2>1, <2>2, <2>3, <1>0 DEF CallInv, InCall
<1>9. ASSUME NEW c \in Callers, WaveReturns(c) PROVE CallInv'
  <2>1. ~stop_requested /\ owner = "alive"
    BY <1>9, AtWaveEnd DEF WaveReturns
  <2>2. \A d \in Callers \ {c} : caller[d] = "idle"
    BY <1>9, <1>0 DEF WaveReturns, CallInv
  <2>3. /\ caller' = [caller EXCEPT ![c] = "idle"]
        /\ UNCHANGED <<stop_requested, infrastructure_error, owner, built, worker, raised>>
    BY <1>9 DEF WaveReturns
  <2> QED
    BY <2>1, <2>2, <2>3, <1>0 DEF CallInv, InCall
<1>10. ASSUME NEW c \in Callers, WaveThrows(c) PROVE CallInv'
  <2>1. /\ owner = "alive" /\ \A w \in Workers : Parked(w)
        /\ ~infrastructure_error /\ caller[c] = "woken"
    BY <1>10, AtWaveEnd DEF WaveThrows
  <2>2. \A d \in Callers \ {c} : caller[d] = "idle"
    BY <2>1, <1>0 DEF CallInv
  <2>3. /\ caller' = [caller EXCEPT ![c] = "notify"] /\ reply'[c] = "job"
        /\ stop_requested'
        /\ UNCHANGED <<infrastructure_error, owner, built, worker>>
    BY <1>10, <1>0 DEF WaveThrows, StopPool, IInv, TypeOK
  <2> QED
    BY <2>1, <2>2, <2>3, <1>0 DEF CallInv, InCall, Parked
<1>11. ASSUME NEW c \in Callers, CallerJoins(c) PROVE CallInv'
  <2>1. owner = "alive" /\ caller[c] = "join"
    BY <1>11, <1>0 DEF CallerJoins, CallInv, InCall
  <2>2. \A w \in Workers : worker[w] = "exited"
    BY <1>11, <2>1, <1>0 DEF CallerJoins, AllExited
  <2>3. \A d \in Callers \ {c} : caller[d] = "idle"
    BY <2>1, <1>0 DEF CallInv
  <2>4. /\ caller' = [caller EXCEPT ![c] = "idle"]
        /\ UNCHANGED <<stop_requested, infrastructure_error, owner, built, worker, raised>>
    BY <1>11 DEF CallerJoins
  <2> QED
    BY <2>1, <2>2, <2>3, <2>4, <1>0 DEF CallInv, InCall
<1>12. ASSUME NEW w \in Workers, RelockFails(w) PROVE CallInv'
  <2>1. raised = NoJob /\ "relock" \in Faults /\ worker[w] = "relock"
    BY <1>12, <1>0 DEF RelockFails
  <2>2. worker' = [worker EXCEPT ![w] = "report"]
        /\ UNCHANGED <<stop_requested, infrastructure_error, owner, built, raised,
                       caller, reply>>
    BY <1>12 DEF RelockFails, Goto
  <2> QED
    BY <2>1, <2>2, <1>0 DEF CallInv, InCall
<1>13. ASSUME NEW w \in Workers, ReportInfrastructureFailure(w) PROVE CallInv'
  <2>1. /\ raised = NoJob /\ worker[w] = "report"
        /\ owner = "alive" => InCall /\ "relock" \in Faults
    BY <1>13, <1>1, <1>0 DEF ReportInfrastructureFailure, CallInv
  <2>2. /\ owner' = "alive" <=> owner = "alive"
        /\ owner' \in Building <=> owner \in Building
        /\ UNCHANGED <<built, raised, reply>> /\ infrastructure_error' /\ stop_requested'
    BY <1>13 DEF ReportInfrastructureFailure, NotifyCoordinator, Building
  <2>3. \A d \in Callers :
          /\ caller'[d] = "idle" <=> caller[d] = "idle"
          /\ caller'[d] \in {"notify", "join"} <=> caller[d] \in {"notify", "join"}
    BY <1>13, <1>0 DEF ReportInfrastructureFailure, NotifyCoordinator
  <2>4. InCall' <=> InCall
    BY <2>3 DEF InCall
  <2> HIDE DEF InCall
  <2> QED
    BY <2>1, <2>2, <2>3, <2>4, <1>0 DEF CallInv
<1>14. ASSUME CreateFails PROVE QuietForCalls
  BY <1>14, <1>0 DEF CreateFails, Building
<1>15. ASSUME CheckCreated PROVE QuietForCalls
  BY <1>15, <1>0 DEF CheckCreated, Building
<1>16. ASSUME NotifyStop PROVE QuietForCalls
  BY <1>16, <1>0 DEF NotifyStop, WorkNotified, Building
<1>17. ASSUME OwnerJoins PROVE QuietForCalls
  BY <1>17, <1>0 DEF OwnerJoins, Building
<1>18. ASSUME WakeOwner PROVE QuietForCalls
  BY <1>18, <1>0 DEF WakeOwner, Building
<1>19. ASSUME NEW c \in Callers, KeepWaiting(c) PROVE QuietForCalls
  BY <1>19, <1>0 DEF KeepWaiting
<1>20. ASSUME NEW c \in Callers, CallerNotifies(c) PROVE QuietForCalls
  BY <1>20, <1>0 DEF CallerNotifies, WorkNotified
<1>21. ASSUME NEW c \in Callers, WakeCaller(c) PROVE QuietForCalls
  BY <1>21, <1>0 DEF WakeCaller
<1>22. ASSUME NEW w \in Workers, CreateWorker(w) PROVE QuietForCalls
  BY <1>22, <1>0 DEF CreateWorker, Building
<1>23. ASSUME NEW w \in Workers, AuditFails(w) PROVE QuietForCalls
  BY <1>23, <1>0 DEF AuditFails, Goto
<1>24. ASSUME NEW w \in Workers, ExitUnready(w) PROVE QuietForCalls
  BY <1>24, <1>0 DEF ExitUnready, Goto
<1>25. ASSUME NEW w \in Workers, BecomeReady(w) PROVE QuietForCalls
  BY <1>25, <1>0 DEF BecomeReady, EnterLoop, NotifyCoordinator, Building
<1>26. ASSUME NEW w \in Workers, Recheck(w) PROVE QuietForCalls
  BY <1>26, <1>0 DEF Recheck, EnterLoop
<1>27. ASSUME NEW w \in Workers, LoadNextJob(w) PROVE QuietForCalls
  BY <1>27, <1>0 DEF LoadNextJob, Goto
<1>28. ASSUME NEW w \in Workers, LoadLimit(w) PROVE QuietForCalls
  BY <1>28, <1>0 DEF LoadLimit, Goto
<1>29. ASSUME NEW w \in Workers, ClaimJob(w) PROVE QuietForCalls
  BY <1>29, <1>0 DEF ClaimJob, Goto
<1>30. ASSUME NEW w \in Workers, ClaimRetry(w) PROVE QuietForCalls
  BY <1>30, <1>0 DEF ClaimRetry, Goto
<1>31. ASSUME NEW w \in Workers, DropJob(w) PROVE QuietForCalls
  BY <1>31, <1>0 DEF DropJob, Goto
<1>32. ASSUME NEW w \in Workers, StartJob(w) PROVE QuietForCalls
  BY <1>32, <1>0 DEF StartJob, Goto
<1>33. ASSUME NEW w \in Workers, CallReturns(w) PROVE QuietForCalls
  BY <1>33, <1>0 DEF CallReturns, Goto
<1>34. ASSUME NEW w \in Workers, CallThrows(w) PROVE QuietForCalls
  BY <1>34, <1>0 DEF CallThrows, Goto
<1>35. ASSUME NEW w \in Workers, LowEnough(w) PROVE QuietForCalls
  BY <1>35, <1>0 DEF LowEnough, Goto
<1>36. ASSUME NEW w \in Workers, LowerCutoff(w) PROVE QuietForCalls
  BY <1>36, <1>0 DEF LowerCutoff, Goto
<1>37. ASSUME NEW w \in Workers, LowerRetry(w) PROVE QuietForCalls
  BY <1>37, <1>0 DEF LowerRetry
<1>38. ASSUME NEW w \in Workers, CompleteWave(w) PROVE QuietForCalls
  BY <1>38, <1>0 DEF CompleteWave, EnterLoop, NotifyCoordinator, Building
<1>39. ASSUME NEW w \in Workers, WakeWorker(w) PROVE QuietForCalls
  BY <1>39, <1>0 DEF WakeWorker, Goto
<1>40. CASE UNCHANGED vars
  BY <1>40, <1>0, QuietCalls
<1>41. ASSUME QuietForCalls PROVE CallInv'
  BY <1>41, <1>0, QuietCalls
<1> QED
  BY <1>2, <1>3, <1>4, <1>5, <1>6, <1>7, <1>8, <1>9, <1>10, <1>11, <1>12, <1>13,
     <1>14, <1>15, <1>16, <1>17, <1>18, <1>19, <1>20, <1>21, <1>22, <1>23,
     <1>24, <1>25, <1>26, <1>27, <1>28, <1>29, <1>30, <1>31, <1>32, <1>33,
     <1>34, <1>35, <1>36, <1>37, <1>38, <1>39, <1>40, <1>41
  DEF Next, OwnerStep, SpuriousWake, CallerStep, Call, WorkerStep, WorkerFault, Gone

----------------------------------------------------------------------------
(* The theorems.                                                           *)

LEMMA InitInv == Init => IInv
<1> SUFFICES ASSUME Init PROVE IInv
  OBVIOUS
<1> USE ConstantsAssumption DEF Init
<1>1. TypeOK
  <2>1. 0 \in 0 .. MaxJobs /\ NoJob \in 0 .. MaxJobs /\ 0 \in 0 .. MaxGeneration
    BY DEF NoJob
  <2>2. /\ failures \in [Workers -> 0 .. MaxJobs]
        /\ caller \in [Callers -> CallerPlaces] /\ worker \in [Workers -> WorkerPlaces]
        /\ observed \in [Workers -> 0 .. MaxGeneration]
    BY <2>1 DEF CallerPlaces, WorkerPlaces
  <2>3. /\ candidate \in [Workers -> 0 .. MaxJobs] /\ cutoff \in [Workers -> 0 .. MaxJobs]
        /\ reply \in [Callers -> Replies] /\ ran \in [Jobs -> {0, 1}]
    BY <2>1 DEF Replies
  <2> QED
    BY <2>1, <2>2, <2>3 DEF TypeOK, OwnerPlaces
<1>2. LifeInv
  <2>1. {w \in Workers : Parked(w)} = {}
    BY DEF Parked
  <2> QED
    BY <2>1, FS_EmptySet DEF LifeInv, Building
<1>3. WaveInv
  BY DEF WaveInv, InWait, Executing, Parked
<1>4. JobInv
  BY DEF JobInv, WaveBounds, ClaimedJobs, FailedJobs, CutoffRecorded, HeldOnce, WorkerInv,
       Executing, Holding, Jobs, NoJob
<1>5. ReplyInv
  BY DEF ReplyInv, DeterministicFailure
<1>6. CallInv
  BY DEF CallInv, InCall, Building, Resting, NoJob
<1> QED
  BY <1>1, <1>2, <1>3, <1>4, <1>5, <1>6 DEF IInv

\* The inductive invariant holds in every state, for any number of workers,
\* callers, jobs and waves and any choice of faults.
THEOREM Invariance == Spec => []IInv
<1>1. IInv /\ [Next]_vars => IInv'
  BY TypeStep, LifeStep, WaveStep, JobStep, ReplyStep, CallStep DEF IInv
<1> QED
  BY <1>1, InitInv, PTL DEF Spec

\* Every variable has its type; next_job_ never passes the number of jobs.
THEOREM TypeCorrect == Spec => []TypeOK
<1>1. IInv => TypeOK
  BY DEF IInv
<1> QED
  BY <1>1, Invariance, PTL

\* The exception run_indexed throws is that of the lowest job that throws at
\* all, and every job up to it has run, whatever the scheduling of the workers.
THEOREM FailureIsDeterministic == Spec => []DeterministicFailure
<1>1. IInv => DeterministicFailure
  BY DEF IInv, ReplyInv
<1> QED
  BY <1>1, Invariance, PTL

\* No worker uses the callback, its context or the wave's fields once the call
\* that owns them has returned.
THEOREM CallbackOutlivesUse == Spec => []NoUseAfterReturn
<1>1. IInv => NoUseAfterReturn
  BY DEF IInv, WaveInv, NoUseAfterReturn
<1> QED
  BY <1>1, Invariance, PTL

\* A call that returns normally has run every job, and no job threw.
THEOREM ReturnedWavesComplete == Spec => CompleteWaves
<1>1. ASSUME IInv, [Next]_vars, NEW c \in Callers,
             caller[c] = "woken", caller'[c] = "idle"
      PROVE  callback = {} /\ \A j \in 0 .. job_count - 1 : ran[j] = 1
  <2> USE DEF vars, mutexVars, waveVars, atomicVars, localVars, callVars, ownerVars
  <2>0. caller \in [Callers -> CallerPlaces]
    BY <1>1 DEF IInv, TypeOK
  <2>1. WaveReturns(c)
    <3>1. ASSUME CreateFails PROVE FALSE
      BY <3>1, <1>1, <2>0 DEF CreateFails
    <3>2. ASSUME CheckCreated PROVE FALSE
      BY <3>2, <1>1, <2>0 DEF CheckCreated
    <3>3. ASSUME CheckReady PROVE FALSE
      BY <3>3, <1>1, <2>0 DEF CheckReady
    <3>4. ASSUME Destroy PROVE FALSE
      BY <3>4, <1>1, <2>0 DEF Destroy
    <3>5. ASSUME RequestStop PROVE FALSE
      BY <3>5, <1>1, <2>0 DEF RequestStop
    <3>6. ASSUME NotifyStop PROVE FALSE
      BY <3>6, <1>1, <2>0 DEF NotifyStop, WorkNotified
    <3>7. ASSUME OwnerJoins PROVE FALSE
      BY <3>7, <1>1, <2>0 DEF OwnerJoins
    <3>8. ASSUME WakeOwner PROVE FALSE
      BY <3>8, <1>1, <2>0 DEF WakeOwner
    <3>9. ASSUME NEW d \in Callers, Refuse(d) PROVE FALSE
      BY <3>9, <1>1, <2>0 DEF Refuse
    <3>10. ASSUME NEW d \in Callers, MeetBrokenPool(d) PROVE FALSE
      BY <3>10, <1>1, <2>0 DEF MeetBrokenPool, StopPool
    <3>11. ASSUME NEW d \in Callers, KeepWaiting(d) PROVE FALSE
      BY <3>11, <1>1, <2>0 DEF KeepWaiting
    <3>12. ASSUME NEW d \in Callers, WaveBroken(d) PROVE FALSE
      BY <3>12, <1>1, <2>0 DEF WaveBroken, StopPool
    <3>13. ASSUME NEW d \in Callers, WaveThrows(d) PROVE FALSE
      BY <3>13, <1>1, <2>0 DEF WaveThrows, StopPool
    <3>14. ASSUME NEW d \in Callers, CallerNotifies(d) PROVE FALSE
      BY <3>14, <1>1, <2>0 DEF CallerNotifies, WorkNotified
    <3>15. ASSUME NEW d \in Callers, CallerJoins(d) PROVE FALSE
      BY <3>15, <1>1, <2>0 DEF CallerJoins
    <3>16. ASSUME NEW d \in Callers, WakeCaller(d) PROVE FALSE
      BY <3>16, <1>1, <2>0 DEF WakeCaller
    <3>17. ASSUME NEW w \in Workers, CreateWorker(w) PROVE FALSE
      BY <3>17, <1>1, <2>0 DEF CreateWorker
    <3>18. ASSUME NEW w \in Workers, AuditFails(w) PROVE FALSE
      BY <3>18, <1>1, <2>0 DEF AuditFails, Goto
    <3>19. ASSUME NEW w \in Workers, RelockFails(w) PROVE FALSE
      BY <3>19, <1>1, <2>0 DEF RelockFails, Goto
    <3>20. ASSUME NEW w \in Workers, ExitUnready(w) PROVE FALSE
      BY <3>20, <1>1, <2>0 DEF ExitUnready, Goto
    <3>21. ASSUME NEW w \in Workers, BecomeReady(w) PROVE FALSE
      BY <3>21, <1>1, <2>0 DEF BecomeReady, EnterLoop, NotifyCoordinator
    <3>22. ASSUME NEW w \in Workers, Recheck(w) PROVE FALSE
      BY <3>22, <1>1, <2>0 DEF Recheck, EnterLoop
    <3>23. ASSUME NEW w \in Workers, LoadNextJob(w) PROVE FALSE
      BY <3>23, <1>1, <2>0 DEF LoadNextJob, Goto
    <3>24. ASSUME NEW w \in Workers, LoadLimit(w) PROVE FALSE
      BY <3>24, <1>1, <2>0 DEF LoadLimit, Goto
    <3>25. ASSUME NEW w \in Workers, ClaimJob(w) PROVE FALSE
      BY <3>25, <1>1, <2>0 DEF ClaimJob, Goto
    <3>26. ASSUME NEW w \in Workers, ClaimRetry(w) PROVE FALSE
      BY <3>26, <1>1, <2>0 DEF ClaimRetry, Goto
    <3>27. ASSUME NEW w \in Workers, DropJob(w) PROVE FALSE
      BY <3>27, <1>1, <2>0 DEF DropJob, Goto
    <3>28. ASSUME NEW w \in Workers, StartJob(w) PROVE FALSE
      BY <3>28, <1>1, <2>0 DEF StartJob, Goto
    <3>29. ASSUME NEW w \in Workers, CallReturns(w) PROVE FALSE
      BY <3>29, <1>1, <2>0 DEF CallReturns, Goto
    <3>30. ASSUME NEW w \in Workers, CallThrows(w) PROVE FALSE
      BY <3>30, <1>1, <2>0 DEF CallThrows, Goto
    <3>31. ASSUME NEW w \in Workers, LowEnough(w) PROVE FALSE
      BY <3>31, <1>1, <2>0 DEF LowEnough, Goto
    <3>32. ASSUME NEW w \in Workers, LowerCutoff(w) PROVE FALSE
      BY <3>32, <1>1, <2>0 DEF LowerCutoff, Goto
    <3>33. ASSUME NEW w \in Workers, LowerRetry(w) PROVE FALSE
      BY <3>33, <1>1, <2>0 DEF LowerRetry
    <3>34. ASSUME NEW w \in Workers, CompleteWave(w) PROVE FALSE
      BY <3>34, <1>1, <2>0 DEF CompleteWave, EnterLoop, NotifyCoordinator
    <3>35. ASSUME NEW w \in Workers, ReportInfrastructureFailure(w) PROVE FALSE
      BY <3>35, <1>1, <2>0 DEF ReportInfrastructureFailure, NotifyCoordinator, WorkNotified
    <3>36. ASSUME NEW w \in Workers, WakeWorker(w) PROVE FALSE
      BY <3>36, <1>1, <2>0 DEF WakeWorker, Goto
    <3>37. ASSUME NEW d \in Callers, d # c, WaveReturns(d) PROVE FALSE
      BY <3>37, <1>1, <2>0 DEF WaveReturns
    <3>38. ASSUME NEW d \in Callers, NEW n \in 1 .. MaxJobs,
                 NEW F \in SUBSET (0 .. n - 1), StartWave(d, n, F)
          PROVE FALSE
      BY <3>38, <1>1, <2>0 DEF StartWave, MayCall
    <3>39. ~ UNCHANGED vars
      BY <1>1
    <3> QED
      BY <1>1, <3>1, <3>2, <3>3, <3>4, <3>5, <3>6, <3>7, <3>8, <3>9, <3>10,
         <3>11, <3>12, <3>13, <3>14, <3>15, <3>16, <3>17, <3>18, <3>19, <3>20,
         <3>21, <3>22, <3>23, <3>24, <3>25, <3>26, <3>27, <3>28, <3>29, <3>30,
         <3>31, <3>32, <3>33, <3>34, <3>35, <3>36, <3>37, <3>38, <3>39
      DEF Next, OwnerStep, SpuriousWake, CallerStep, Call, WorkerStep, WorkerFault, Gone
  <2>2. /\ \A w \in Workers : Parked(w) /\ observed[w] = generation
        /\ LowestFailure = NoJob
    BY <1>1, <2>1, AtWaveEnd DEF WaveReturns
  <2>3. /\ \A j \in Jobs : j < failure_cutoff => ran[j] = 1 /\ j \notin callback
        /\ failure_cutoff = job_count
    BY <1>1, <2>2, WaveOutcome
  <2>4. callback \subseteq 0 .. job_count - 1 /\ job_count \in 0 .. MaxJobs
    BY <1>1 DEF IInv, TypeOK, JobInv, WaveBounds
  <2> QED
    BY <2>3, <2>4, ConstantsAssumption DEF Jobs
<1>2. IInv /\ [Next]_vars =>
        [\A c \in Callers : caller[c] = "woken" /\ caller'[c] = "idle" =>
           callback = {} /\ \A j \in 0 .. job_count - 1 : ran[j] = 1]_vars
  BY <1>1
<1> QED
  BY <1>2, Invariance, PTL DEF Spec, CompleteWaves

\* A wave starts only when every worker has come back from the one before.
THEOREM WavesAreSeparate == Spec => WavesDoNotOverlap
<1>1. ASSUME IInv, [Next]_vars, generation' # generation
      PROVE  \A w \in Workers : /\ worker[w] \in {"asleep", "woken"}
                                /\ observed[w] = generation
  <2> USE DEF vars, mutexVars, waveVars, atomicVars, localVars, callVars, ownerVars
  <2>1. \E c \in Callers : \E n \in 1 .. MaxJobs : \E F \in SUBSET (0 .. n - 1) :
          StartWave(c, n, F)
    <3>1. ASSUME CreateFails PROVE FALSE
      BY <3>1, <1>1 DEF CreateFails
    <3>2. ASSUME CheckCreated PROVE FALSE
      BY <3>2, <1>1 DEF CheckCreated
    <3>3. ASSUME CheckReady PROVE FALSE
      BY <3>3, <1>1 DEF CheckReady
    <3>4. ASSUME Destroy PROVE FALSE
      BY <3>4, <1>1 DEF Destroy
    <3>5. ASSUME RequestStop PROVE FALSE
      BY <3>5, <1>1 DEF RequestStop
    <3>6. ASSUME NotifyStop PROVE FALSE
      BY <3>6, <1>1 DEF NotifyStop, WorkNotified
    <3>7. ASSUME OwnerJoins PROVE FALSE
      BY <3>7, <1>1 DEF OwnerJoins
    <3>8. ASSUME WakeOwner PROVE FALSE
      BY <3>8, <1>1 DEF WakeOwner
    <3>9. ASSUME NEW c \in Callers, Refuse(c) PROVE FALSE
      BY <3>9, <1>1 DEF Refuse
    <3>10. ASSUME NEW c \in Callers, MeetBrokenPool(c) PROVE FALSE
      BY <3>10, <1>1 DEF MeetBrokenPool, StopPool
    <3>11. ASSUME NEW c \in Callers, KeepWaiting(c) PROVE FALSE
      BY <3>11, <1>1 DEF KeepWaiting
    <3>12. ASSUME NEW c \in Callers, WaveBroken(c) PROVE FALSE
      BY <3>12, <1>1 DEF WaveBroken, StopPool
    <3>13. ASSUME NEW c \in Callers, WaveReturns(c) PROVE FALSE
      BY <3>13, <1>1 DEF WaveReturns
    <3>14. ASSUME NEW c \in Callers, WaveThrows(c) PROVE FALSE
      BY <3>14, <1>1 DEF WaveThrows, StopPool
    <3>15. ASSUME NEW c \in Callers, CallerNotifies(c) PROVE FALSE
      BY <3>15, <1>1 DEF CallerNotifies, WorkNotified
    <3>16. ASSUME NEW c \in Callers, CallerJoins(c) PROVE FALSE
      BY <3>16, <1>1 DEF CallerJoins
    <3>17. ASSUME NEW c \in Callers, WakeCaller(c) PROVE FALSE
      BY <3>17, <1>1 DEF WakeCaller
    <3>18. ASSUME NEW w \in Workers, CreateWorker(w) PROVE FALSE
      BY <3>18, <1>1 DEF CreateWorker
    <3>19. ASSUME NEW w \in Workers, AuditFails(w) PROVE FALSE
      BY <3>19, <1>1 DEF AuditFails, Goto
    <3>20. ASSUME NEW w \in Workers, RelockFails(w) PROVE FALSE
      BY <3>20, <1>1 DEF RelockFails, Goto
    <3>21. ASSUME NEW w \in Workers, ExitUnready(w) PROVE FALSE
      BY <3>21, <1>1 DEF ExitUnready, Goto
    <3>22. ASSUME NEW w \in Workers, BecomeReady(w) PROVE FALSE
      BY <3>22, <1>1 DEF BecomeReady, EnterLoop, NotifyCoordinator
    <3>23. ASSUME NEW w \in Workers, Recheck(w) PROVE FALSE
      BY <3>23, <1>1 DEF Recheck, EnterLoop
    <3>24. ASSUME NEW w \in Workers, LoadNextJob(w) PROVE FALSE
      BY <3>24, <1>1 DEF LoadNextJob, Goto
    <3>25. ASSUME NEW w \in Workers, LoadLimit(w) PROVE FALSE
      BY <3>25, <1>1 DEF LoadLimit, Goto
    <3>26. ASSUME NEW w \in Workers, ClaimJob(w) PROVE FALSE
      BY <3>26, <1>1 DEF ClaimJob, Goto
    <3>27. ASSUME NEW w \in Workers, ClaimRetry(w) PROVE FALSE
      BY <3>27, <1>1 DEF ClaimRetry, Goto
    <3>28. ASSUME NEW w \in Workers, DropJob(w) PROVE FALSE
      BY <3>28, <1>1 DEF DropJob, Goto
    <3>29. ASSUME NEW w \in Workers, StartJob(w) PROVE FALSE
      BY <3>29, <1>1 DEF StartJob, Goto
    <3>30. ASSUME NEW w \in Workers, CallReturns(w) PROVE FALSE
      BY <3>30, <1>1 DEF CallReturns, Goto
    <3>31. ASSUME NEW w \in Workers, CallThrows(w) PROVE FALSE
      BY <3>31, <1>1 DEF CallThrows, Goto
    <3>32. ASSUME NEW w \in Workers, LowEnough(w) PROVE FALSE
      BY <3>32, <1>1 DEF LowEnough, Goto
    <3>33. ASSUME NEW w \in Workers, LowerCutoff(w) PROVE FALSE
      BY <3>33, <1>1 DEF LowerCutoff, Goto
    <3>34. ASSUME NEW w \in Workers, LowerRetry(w) PROVE FALSE
      BY <3>34, <1>1 DEF LowerRetry
    <3>35. ASSUME NEW w \in Workers, CompleteWave(w) PROVE FALSE
      BY <3>35, <1>1 DEF CompleteWave, EnterLoop, NotifyCoordinator
    <3>36. ASSUME NEW w \in Workers, ReportInfrastructureFailure(w) PROVE FALSE
      BY <3>36, <1>1 DEF ReportInfrastructureFailure, NotifyCoordinator, WorkNotified
    <3>37. ASSUME NEW w \in Workers, WakeWorker(w) PROVE FALSE
      BY <3>37, <1>1 DEF WakeWorker, Goto
    <3>38. ~ UNCHANGED vars
      BY <1>1
    <3> QED
      BY <1>1, <3>1, <3>2, <3>3, <3>4, <3>5, <3>6, <3>7, <3>8, <3>9, <3>10,
         <3>11, <3>12, <3>13, <3>14, <3>15, <3>16, <3>17, <3>18, <3>19, <3>20,
         <3>21, <3>22, <3>23, <3>24, <3>25, <3>26, <3>27, <3>28, <3>29, <3>30,
         <3>31, <3>32, <3>33, <3>34, <3>35, <3>36, <3>37, <3>38
      DEF Next, OwnerStep, SpuriousWake, CallerStep, Call, WorkerStep, WorkerFault, Gone
  <2> QED
    BY <1>1, <2>1, StartOfWave DEF Parked
<1>2. IInv /\ [Next]_vars =>
        [generation' # generation =>
           \A w \in Workers : /\ worker[w] \in {"asleep", "woken"}
                              /\ observed[w] = generation]_vars
  BY <1>1
<1> QED
  BY <1>2, Invariance, PTL DEF Spec, WavesDoNotOverlap

----------------------------------------------------------------------------
(* FixedExecutor implements IndexedWaves: WavesSpec.                       *)

\* A step that neither starts nor ends a call, a job or a place of the pool.
QuietForWaves ==
  /\ UNCHANGED <<job_count, callback, ran, reply, raised>>
  /\ \/ owner' = owner /\ built' = built
     \/ {owner, owner'} \intersect {"alive", "gone"} = {} /\ built' = built
  /\ \A c \in Callers : caller'[c] = "idle" <=> caller[c] = "idle"
  /\ owner = "alive" =>
       \A w \in Workers : worker'[w] = "exited" <=> worker[w] = "exited"

\* What a step tells the callers when nobody enters or leaves run_indexed.
LEMMA SameCalls ==
  ASSUME \A c \in Callers : caller'[c] = "idle" <=> caller[c] = "idle",
         UNCHANGED <<reply, raised>>
  PROVE  /\ InCall' <=> InCall
         /\ UNCHANGED <<Calling, Told, Thrown>>
<1>1. InCall' <=> InCall
  BY DEF InCall
<1>2. Calling' = Calling
  BY DEF Calling
<1>3. Told' = Told
  BY DEF Told
<1> QED
  BY <1>1, <1>2, <1>3 DEF Thrown

LEMMA SamePool ==
  ASSUME owner' = "alive" <=> owner = "alive",
         owner' = "gone" <=> owner = "gone",
         built' = built,
         owner = "alive" =>
           ((\A w \in Workers : worker'[w] = "exited")
              <=> (\A w \in Workers : worker[w] = "exited"))
  PROVE  PoolState' = PoolState
BY DEF PoolState

LEMMA QuietWaves ==
  ASSUME QuietForWaves
  PROVE  UNCHANGED Waves!vars
<1>1. PoolState' = PoolState
  <2>1. /\ owner' = "alive" <=> owner = "alive"
        /\ owner' = "gone" <=> owner = "gone"
        /\ built' = built
    BY DEF QuietForWaves
  <2> QED
    BY <2>1, SamePool DEF QuietForWaves
<1>2. UNCHANGED <<Calling, Told, Thrown>>
  BY SameCalls DEF QuietForWaves
<1> QED
  BY <1>1, <1>2 DEF QuietForWaves, Waves!vars

\* A worker that leaves its loop while a call is in progress: the last one to
\* go stops the pool.
LEMMA WorkerLeaves ==
  ASSUME IInv, NEW w \in Workers, worker[w] # "exited",
         owner = "alive" => InCall,
         UNCHANGED <<job_count, callback, ran, reply, raised, built>>,
         owner' = "alive" <=> owner = "alive",
         owner' = "gone" <=> owner = "gone",
         \A c \in Callers : caller'[c] = "idle" <=> caller[c] = "idle"
  PROVE  [Waves!Next]_(Waves!vars)
<1>1. UNCHANGED <<Calling, Told, Thrown>>
  BY SameCalls
<1>2. CASE owner = "alive" /\ \A v \in Workers : worker'[v] = "exited"
  <2>1. PoolState = "ready" /\ PoolState' = "stopped"
    BY <1>2 DEF PoolState
  <2>2. Waves!Busy
    BY <1>2 DEF Waves!Busy, Calling, InCall
  <2>3. Waves!Stop
    BY <2>1, <2>2, <1>1 DEF Waves!Stop
  <2> QED
    BY <2>3 DEF Waves!Next
<1>3. CASE ~ (owner = "alive" /\ \A v \in Workers : worker'[v] = "exited")
  <2>1. PoolState' = PoolState
    BY <1>3, SamePool
  <2> QED
    BY <2>1, <1>1 DEF Waves!vars
<1> QED
  BY <1>2, <1>3

\* The caller that is in run_indexed with the workers back is answered.
LEMMA WaveOfNoFailure ==
  ASSUME IInv, NEW c \in Callers, WaveReturns(c)
  PROVE  callback = {} /\ \A j \in 0 .. job_count - 1 : ran[j] = 1
<1>1. /\ \A w \in Workers : Parked(w) /\ observed[w] = generation
      /\ LowestFailure = NoJob
  BY AtWaveEnd DEF WaveReturns
<1>2. /\ \A j \in Jobs : j < failure_cutoff => ran[j] = 1 /\ j \notin callback
      /\ failure_cutoff = job_count
  BY <1>1, WaveOutcome
<1>3. callback \subseteq 0 .. job_count - 1 /\ job_count \in 0 .. MaxJobs
  BY DEF IInv, TypeOK, JobInv, WaveBounds
<1> QED
  BY <1>2, <1>3, ConstantsAssumption DEF Jobs

LEMMA InitWaves == Init => Waves!Init
<1> SUFFICES ASSUME Init PROVE Waves!Init
  OBVIOUS
<1>1. PoolState = "building"
  BY DEF Init, PoolState
<1>2. ~InCall /\ Calling = [c \in Callers |-> FALSE]
  BY DEF Init, InCall, Calling
<1>3. Told = [c \in Callers |-> "none"]
  BY DEF Init, Told
<1>4. Thrown = MaxJobs
  BY <1>2 DEF Init, Thrown, NoJob
<1> QED
  BY <1>1, <1>2, <1>3, <1>4 DEF Init, Waves!Init, Waves!Jobs, Waves!NoJob, Jobs

\* What a step of the pool is to IndexedWaves.
Mapped == [Waves!Next]_(Waves!vars)

LEMMA WavesStep == IInv /\ [Next]_vars => [Waves!Next]_(Waves!vars)
<1> SUFFICES ASSUME IInv, [Next]_vars PROVE [Waves!Next]_(Waves!vars)
  OBVIOUS
<1> USE DEF vars, mutexVars, waveVars, atomicVars, localVars, callVars, ownerVars
<1>0. /\ worker \in [Workers -> WorkerPlaces] /\ caller \in [Callers -> CallerPlaces]
      /\ reply \in [Callers -> Replies] /\ ran \in [Jobs -> {0, 1}] /\ CallInv
      /\ owner = "alive" => \A w \in Workers : worker[w] \notin {"absent", "audit"}
      /\ Workers # {}
  BY ConstantsAssumption DEF IInv, TypeOK, LifeInv
<1> HIDE DEF CallInv
\* A worker on its way through a wave works for somebody.
<1>1. owner = "alive" /\ ~InCall => \A w \in Workers : Resting(w)
  <2>1. wave_active => InCall
    BY DEF IInv, WaveInv, InCall, InWait
  <2> QED
    BY <2>1, <1>0 DEF IInv, CallInv, WaveInv, Parked, Resting
<1>2. ASSUME CheckReady PROVE Mapped
  <2>1. owner = "checkReady" /\ ~built
    BY <1>2, <1>0 DEF CheckReady, CallInv, Building
  <2>2. UNCHANGED <<Calling, Told, Thrown, job_count, callback, ran>>
    BY <1>2, SameCalls DEF CheckReady
  <2>3. CASE owner' = "alive"
    <3>1. PoolState = "building"
      BY <2>1 DEF PoolState
    <3>2. \E w \in Workers : worker'[w] # "exited"
      BY <1>2, <2>3, <1>0, AllReady DEF CheckReady, Parked
    <3>3. PoolState' = "ready"
      BY <2>3, <3>2 DEF PoolState
    <3>4. Waves!Build
      BY <2>2, <3>1, <3>3 DEF Waves!Build
    <3> QED
      BY <3>4 DEF Waves!Next, Mapped
  <2>4. CASE owner' # "alive"
    <3>1. PoolState' = PoolState
      BY <1>2, <2>1, <2>4 DEF CheckReady, PoolState
    <3> QED
      BY <2>2, <3>1 DEF Waves!vars, Mapped
  <2> QED
    BY <2>3, <2>4
<1>3. ASSUME Destroy PROVE Mapped
  <2>1. PoolState \in {"ready", "stopped"} /\ PoolState' = "closing"
    BY <1>3, <1>0 DEF Destroy, CallInv, PoolState
  <2>2. UNCHANGED <<Calling, Told, Thrown, job_count, callback, ran>>
    BY <1>3, SameCalls DEF Destroy
  <2>3. ~Waves!Busy
    BY <1>3 DEF Destroy, Waves!Busy, Calling
  <2>4. Waves!Close
    BY <2>1, <2>2, <2>3 DEF Waves!Close
  <2> QED
    BY <2>4 DEF Waves!Next, Mapped
<1>4. ASSUME OwnerJoins PROVE Mapped
  <2>1. PoolState \in {"closing", "building"} /\ PoolState' = "gone"
    BY <1>4 DEF OwnerJoins, PoolState
  <2>2. UNCHANGED <<Calling, Told, Thrown, job_count, callback, ran>>
    BY <1>4, SameCalls DEF OwnerJoins
  <2>3. Waves!Close \/ Waves!Build
    BY <2>1, <2>2 DEF Waves!Close, Waves!Build
  <2> QED
    BY <2>3 DEF Waves!Next, Mapped
<1>5. ASSUME NEW c \in Callers, Refuse(c) PROVE Mapped
  <2>1. owner = "alive" /\ caller[c] = "idle" /\ ~infrastructure_error
    BY <1>5 DEF Refuse, MayCall
  <2>2. UNCHANGED <<PoolState, Calling, Thrown, job_count, callback, ran>>
    BY <1>5 DEF Refuse, PoolState, Calling, Thrown, InCall
  <2>3. PICK why \in {"overlap", "poisoned", "empty", "overflow"} :
          /\ reply' = [reply EXCEPT ![c] = why]
          /\ why = "poisoned" => ~healthy
          /\ why = "overlap" => healthy /\ wave_active
          /\ why \in {"empty", "overflow"} => MayStart
    BY <1>5 DEF Refuse
  <2>4. Told' = [Told EXCEPT ![c] = why]
    BY <1>5, <2>1, <2>3, <1>0 DEF Told, Refuse
  <2>5. PoolState \in {"ready", "stopped"} /\ ~Calling[c]
    BY <2>1 DEF PoolState, Calling
  <2>6. Waves!Busy <=> InCall
    BY DEF Waves!Busy, Calling, InCall
  <2>7. why = "overlap" => InCall
    BY <2>3 DEF IInv, WaveInv, InCall, InWait
  <2>8. why = "poisoned" => InCall \/ PoolState = "stopped"
    BY <2>1, <2>3, <1>0 DEF IInv, LifeInv, CallInv, PoolState
  <2>9. MayStart => PoolState = "ready" /\ ~InCall
    <3>1. MayStart => ~stop_requested /\ ~wave_active
      BY DEF MayStart, IInv, LifeInv
    <3>2. MayStart => \A w \in Workers : Parked(w)
      BY <3>1, <2>1 DEF IInv, WaveInv
    <3>3. MayStart => ~InCall
      BY <3>1, <1>0 DEF IInv, WaveInv, CallInv, InCall, InWait, CallerPlaces
    <3> QED
      BY <3>2, <3>3, <2>1, <1>0 DEF PoolState, Parked
  <2>10. Waves!Refuse(c, why)
    BY <2>2, <2>3, <2>4, <2>5, <2>6, <2>7, <2>8, <2>9 DEF Waves!Refuse
  <2> QED
    BY <2>10 DEF Waves!Next, Mapped
<1>6. ASSUME NEW c \in Callers, MeetBrokenPool(c) PROVE Mapped
  <2>1. owner = "alive" /\ caller[c] = "idle" /\ infrastructure_error /\ stop_requested
    BY <1>6 DEF MeetBrokenPool, MayCall, IInv, LifeInv
  <2>2. ~InCall
    BY <2>1, <1>0, ConstantsAssumption DEF CallInv, InCall
  <2>3. PoolState = "stopped" /\ ~Waves!Busy
    BY <2>1, <2>2, <1>0 DEF CallInv, PoolState, Waves!Busy, Calling, InCall
  <2>4. /\ caller' = [caller EXCEPT ![c] = "notify"]
        /\ reply' = [reply EXCEPT ![c] = "infra"]
        /\ UNCHANGED <<owner, built, worker, raised, job_count, callback, ran>>
    BY <1>6 DEF MeetBrokenPool, StopPool
  <2>5. PoolState' = PoolState
    BY <2>4 DEF PoolState
  <2>6. Calling' = [Calling EXCEPT ![c] = TRUE] /\ Told' = [Told EXCEPT ![c] = "none"]
    BY <2>4, <1>0 DEF Calling, Told
  <2>7. Thrown' = Thrown
    BY <2>1, <2>4, <1>0 DEF CallInv, Thrown
  <2>8. Waves!Reenter(c)
    BY <2>3, <2>4, <2>5, <2>6, <2>7 DEF Waves!Reenter
  <2> QED
    BY <2>8 DEF Waves!Next, Mapped
<1>7. ASSUME NEW c \in Callers, NEW n \in 1 .. MaxJobs,
             NEW F \in SUBSET (0 .. n - 1), StartWave(c, n, F)
      PROVE  Mapped
  <2>1. /\ ~stop_requested /\ owner = "alive" /\ ~wave_active
        /\ \A w \in Workers : Parked(w) /\ worker'[w] = "woken"
    BY <1>7, StartOfWave
  <2>2. ~InCall
    BY <2>1, <1>0 DEF IInv, WaveInv, CallInv, InCall, InWait, CallerPlaces
  <2>3. /\ caller' = [caller EXCEPT ![c] = "waiting"]
        /\ reply' = [reply EXCEPT ![c] = "none"]
        /\ raised' = NoJob /\ job_count' = n /\ callback' = F
        /\ ran' = [j \in Jobs |-> 0]
        /\ UNCHANGED <<owner, built>>
    BY <1>7 DEF StartWave, PrepareWave
  <2>4. PoolState = "ready" /\ PoolState' = "ready"
    BY <2>1, <2>3, <1>0 DEF PoolState, Parked
  <2>5. Calling' = [Calling EXCEPT ![c] = TRUE] /\ Told' = [Told EXCEPT ![c] = "none"]
    BY <2>3, <1>0 DEF Calling, Told
  <2>6. Thrown' = MaxJobs
    BY <2>3 DEF Thrown, NoJob
  <2>7. ~Waves!Busy
    BY <2>2 DEF Waves!Busy, Calling, InCall
  <2>8. Waves!Start(c, n, F)
    BY <2>3, <2>4, <2>5, <2>6, <2>7 DEF Waves!Start, Waves!Jobs, Waves!NoJob, Jobs
  <2> QED
    BY <2>8 DEF Waves!Next, Mapped
<1>8. ASSUME NEW c \in Callers, WaveBroken(c) \/ WaveThrows(c) PROVE Mapped
  <2>1. /\ caller[c] = "woken" /\ caller' = [caller EXCEPT ![c] = "notify"]
        /\ \A d \in Callers \ {c} : reply'[d] = reply[d]
        /\ UNCHANGED <<owner, built, worker, job_count, callback, ran>>
    BY <1>8, <1>0 DEF WaveBroken, WaveThrows, StopPool
  <2>2. InCall /\ InCall'
    BY <2>1, <1>0 DEF InCall
  <2>3. UNCHANGED <<PoolState, Calling, Told, Thrown>>
    BY <2>1, <2>2, <1>0 DEF PoolState, Calling, Told, Thrown
  <2> QED
    BY <2>1, <2>3 DEF Waves!vars, Mapped
<1>9. ASSUME NEW c \in Callers, WaveReturns(c) PROVE Mapped
  <2>1. /\ owner = "alive" /\ ~stop_requested /\ caller[c] = "woken"
        /\ \A w \in Workers : Parked(w)
    BY <1>9, AtWaveEnd DEF WaveReturns
  <2>2. callback = {} /\ \A j \in 0 .. job_count - 1 : ran[j] = 1
    BY <1>9, WaveOfNoFailure
  <2>3. /\ caller' = [caller EXCEPT ![c] = "idle"]
        /\ reply' = [reply EXCEPT ![c] = "ok"]
        /\ UNCHANGED <<owner, built, worker, raised, job_count, callback, ran>>
    BY <1>9 DEF WaveReturns
  <2>4. PoolState = "ready" /\ PoolState' = PoolState
    BY <2>1, <2>3, <1>0 DEF PoolState, Parked
  <2>5. Thrown' = MaxJobs
    BY <2>1, <2>3, <1>0 DEF CallInv, Thrown, NoJob
  <2>6. /\ Calling[c] /\ Calling' = [Calling EXCEPT ![c] = FALSE]
        /\ Told' = [Told EXCEPT ![c] = "ok"]
    BY <2>1, <2>3, <1>0 DEF Calling, Told
  <2>7. Waves!ReturnOk(c)
    BY <2>2, <2>3, <2>4, <2>5, <2>6 DEF Waves!ReturnOk, Waves!Finish, Waves!NoJob
  <2> QED
    BY <2>7 DEF Waves!Next, Mapped
<1>10. ASSUME NEW c \in Callers, CallerJoins(c) PROVE Mapped
  <2>1. owner = "alive" /\ caller[c] = "join"
    BY <1>10, <1>0 DEF CallerJoins, CallInv, InCall
  <2>2. \A w \in Workers : worker[w] = "exited"
    BY <1>10, <2>1, <1>0 DEF CallerJoins, AllExited
  <2>3. /\ caller' = [caller EXCEPT ![c] = "idle"]
        /\ UNCHANGED <<owner, built, worker, reply, raised, job_count, callback, ran>>
    BY <1>10 DEF CallerJoins
  <2>4. PoolState = "stopped" /\ PoolState' = PoolState
    BY <2>1, <2>2, <2>3 DEF PoolState
  <2>5. ~InCall'
    BY <2>1, <2>3, <1>0 DEF CallInv, InCall
  <2>6. /\ Calling[c] /\ Calling' = [Calling EXCEPT ![c] = FALSE]
        /\ Told' = [Told EXCEPT ![c] = reply[c]] /\ Thrown' = raised
    BY <2>1, <2>3, <2>5, <1>0 DEF Calling, Told, Thrown
  <2>7. CASE reply[c] = "job"
    <3>1. /\ raised \in callback /\ \A j \in callback : raised <= j
          /\ \A j \in 0 .. raised : ran[j] = 1
      BY <2>7 DEF IInv, ReplyInv, DeterministicFailure
    <3>2. raised \in Waves!Jobs
      BY <3>1 DEF IInv, TypeOK, Waves!Jobs, Jobs
    <3>3. Waves!ThrowJob(c, raised)
      BY <2>3, <2>4, <2>6, <2>7, <3>1 DEF Waves!ThrowJob, Waves!Finish
    <3>4. \E k \in Waves!Jobs : Waves!ThrowJob(c, k)
      BY <2>3, <2>4, <2>6, <2>7, <3>1, <3>2 DEF Waves!ThrowJob, Waves!Finish
    <3> QED
      BY <3>4 DEF Waves!Next, Mapped
  <2>8. CASE reply[c] # "job"
    <3>1. reply[c] = "infra" /\ raised = MaxJobs
      BY <2>1, <2>8, <1>0 DEF CallInv, NoJob
    <3>2. Waves!ThrowInfrastructure(c)
      BY <2>3, <2>4, <2>6, <3>1
      DEF Waves!ThrowInfrastructure, Waves!Finish, Waves!NoJob
    <3> QED
      BY <3>2 DEF Waves!Next, Mapped
  <2> QED
    BY <2>7, <2>8
<1>11. ASSUME NEW w \in Workers, StartJob(w) PROVE Mapped
  <2>1. /\ worker[w] = "recheck" /\ worker' = [worker EXCEPT ![w] = "call"]
        /\ ran' = [ran EXCEPT ![candidate[w]] = @ + 1]
        /\ UNCHANGED <<owner, built, caller, reply, raised, job_count, callback>>
    BY <1>11 DEF StartJob, Goto
  <2>2. InCall /\ owner = "alive"
    BY <2>1, <1>0 DEF IInv, WaveInv, InCall, Executing, CallInv
  <2>3. /\ candidate[w] \in Waves!Jobs /\ candidate[w] < job_count
        /\ ran[candidate[w]] = 0
    <3>1. candidate[w] \in Jobs /\ ran[candidate[w]] = 0
      BY <2>1, HeldJobs DEF IInv, Holding
    <3>2. candidate[w] < next_job /\ next_job <= job_count
      BY <2>1 DEF IInv, JobInv, WaveBounds, WorkerInv, Holding
    <3>3. next_job \in Nat /\ job_count \in Nat
      BY DEF IInv, TypeOK
    <3> QED
      BY <3>1, <3>2, <3>3, ConstantsAssumption DEF Waves!Jobs, Jobs
  <2>4. ran' = [ran EXCEPT ![candidate[w]] = 1]
    BY <2>1, <2>3, <1>0
  <2>5. UNCHANGED <<Calling, Told, Thrown>>
    BY <2>1, SameCalls
  <2>6. PoolState = "ready" /\ PoolState' = "ready"
    BY <2>1, <2>2, <1>0 DEF PoolState
  <2>7. Waves!Busy
    BY <2>2 DEF Waves!Busy, Calling, InCall
  <2>8. \E j \in Waves!Jobs : Waves!RunJob(j)
    BY <2>1, <2>3, <2>4, <2>5, <2>6, <2>7 DEF Waves!RunJob
  <2> QED
    BY <2>8 DEF Waves!Next, Mapped
<1>12. ASSUME NEW w \in Workers, Recheck(w) PROVE Mapped
  <2>1. /\ worker[w] = "woken"
        /\ worker'[w] = "exited" => stop_requested
        /\ \A v \in Workers \ {w} : worker'[v] = worker[v]
        /\ UNCHANGED <<owner, built, caller, reply, raised, job_count, callback, ran>>
    BY <1>12, <1>0 DEF Recheck, EnterLoop
  <2>2. CASE worker'[w] = "exited"
    <3>1. owner = "alive" => InCall
      BY <2>1, <2>2, <1>0 DEF CallInv
    <3> QED
      BY <2>1, <3>1, WorkerLeaves DEF Mapped
  <2>3. CASE worker'[w] # "exited"
    <3>1. QuietForWaves
      BY <2>1, <2>3, <1>0 DEF QuietForWaves
    <3> QED
      BY <3>1, QuietWaves DEF Mapped
  <2> QED
    BY <2>2, <2>3
<1>13. ASSUME NEW w \in Workers, CompleteWave(w) \/ ReportInfrastructureFailure(w)
       PROVE  Mapped
  <2>1. /\ worker[w] \in {"relock", "report"}
        /\ owner' = "alive" <=> owner = "alive"
        /\ owner' = "gone" <=> owner = "gone"
        /\ \A c \in Callers : caller'[c] = "idle" <=> caller[c] = "idle"
        /\ UNCHANGED <<built, reply, raised, job_count, callback, ran>>
    BY <1>13, <1>0 DEF CompleteWave, ReportInfrastructureFailure, NotifyCoordinator
  <2>2. owner = "alive" => InCall
    BY <2>1, <1>1 DEF Resting
  <2> QED
    BY <2>1, <2>2, WorkerLeaves DEF Mapped
<1>14. ASSUME CreateFails PROVE QuietForWaves
  BY <1>14, <1>0 DEF QuietForWaves, CreateFails
<1>15. ASSUME CheckCreated PROVE QuietForWaves
  BY <1>15, <1>0 DEF QuietForWaves, CheckCreated
<1>16. ASSUME NotifyStop PROVE QuietForWaves
  BY <1>16, <1>0 DEF QuietForWaves, NotifyStop, WorkNotified
<1>17. ASSUME WakeOwner PROVE QuietForWaves
  BY <1>17, <1>0 DEF QuietForWaves, WakeOwner
<1>18. ASSUME NEW c \in Callers, KeepWaiting(c) PROVE QuietForWaves
  BY <1>18, <1>0 DEF QuietForWaves, KeepWaiting
<1>19. ASSUME NEW c \in Callers, CallerNotifies(c) PROVE QuietForWaves
  BY <1>19, <1>0 DEF QuietForWaves, CallerNotifies, WorkNotified
<1>20. ASSUME NEW c \in Callers, WakeCaller(c) PROVE QuietForWaves
  BY <1>20, <1>0 DEF QuietForWaves, WakeCaller
<1>21. ASSUME NEW w \in Workers, CreateWorker(w) PROVE QuietForWaves
  BY <1>21, <1>0 DEF QuietForWaves, CreateWorker
<1>22. ASSUME NEW w \in Workers, AuditFails(w) PROVE QuietForWaves
  BY <1>22, <1>0 DEF QuietForWaves, AuditFails, Goto
<1>23. ASSUME NEW w \in Workers, ExitUnready(w) PROVE QuietForWaves
  BY <1>23, <1>0 DEF QuietForWaves, ExitUnready, Goto
<1>24. ASSUME NEW w \in Workers, BecomeReady(w) PROVE QuietForWaves
  BY <1>24, <1>0 DEF QuietForWaves, BecomeReady, EnterLoop, NotifyCoordinator
<1>25. ASSUME NEW w \in Workers, LoadNextJob(w) PROVE QuietForWaves
  BY <1>25, <1>0 DEF QuietForWaves, LoadNextJob, Goto
<1>26. ASSUME NEW w \in Workers, LoadLimit(w) PROVE QuietForWaves
  BY <1>26, <1>0 DEF QuietForWaves, LoadLimit, Goto
<1>27. ASSUME NEW w \in Workers, ClaimJob(w) PROVE QuietForWaves
  BY <1>27, <1>0 DEF QuietForWaves, ClaimJob, Goto
<1>28. ASSUME NEW w \in Workers, ClaimRetry(w) PROVE QuietForWaves
  BY <1>28, <1>0 DEF QuietForWaves, ClaimRetry, Goto
<1>29. ASSUME NEW w \in Workers, DropJob(w) PROVE QuietForWaves
  BY <1>29, <1>0 DEF QuietForWaves, DropJob, Goto
<1>30. ASSUME NEW w \in Workers, CallReturns(w) PROVE QuietForWaves
  BY <1>30, <1>0 DEF QuietForWaves, CallReturns, Goto
<1>31. ASSUME NEW w \in Workers, CallThrows(w) PROVE QuietForWaves
  BY <1>31, <1>0 DEF QuietForWaves, CallThrows, Goto
<1>32. ASSUME NEW w \in Workers, LowEnough(w) PROVE QuietForWaves
  BY <1>32, <1>0 DEF QuietForWaves, LowEnough, Goto
<1>33. ASSUME NEW w \in Workers, LowerCutoff(w) PROVE QuietForWaves
  BY <1>33, <1>0 DEF QuietForWaves, LowerCutoff, Goto
<1>34. ASSUME NEW w \in Workers, LowerRetry(w) PROVE QuietForWaves
  BY <1>34, <1>0 DEF QuietForWaves, LowerRetry
<1>35. ASSUME NEW w \in Workers, WakeWorker(w) PROVE QuietForWaves
  BY <1>35, <1>0 DEF QuietForWaves, WakeWorker, Goto
<1>36. ASSUME RequestStop PROVE QuietForWaves
  BY <1>36, <1>0 DEF QuietForWaves, RequestStop
<1>37. ASSUME NEW w \in Workers, RelockFails(w) PROVE QuietForWaves
  BY <1>37, <1>0 DEF QuietForWaves, RelockFails, Goto
<1>38. CASE UNCHANGED vars
  <2>1. QuietForWaves
    BY <1>38 DEF QuietForWaves
  <2> QED
    BY <2>1, QuietWaves DEF Mapped
<1>39. ASSUME QuietForWaves PROVE Mapped
  BY <1>39, QuietWaves DEF Mapped
<1>40. CASE OwnerStep \/ CreateFails \/ Destroy \/ SpuriousWake
  BY <1>40, <1>2, <1>3, <1>4, <1>14, <1>15, <1>16, <1>17, <1>20, <1>21, <1>35,
     <1>36, <1>39
  DEF OwnerStep, SpuriousWake, Mapped
<1>41. ASSUME NEW c \in Callers, Call(c) \/ CallerStep(c) PROVE Mapped
  BY <1>41, <1>5, <1>6, <1>7, <1>8, <1>9, <1>10, <1>18, <1>19, <1>39
  DEF Call, CallerStep
<1>42. ASSUME NEW w \in Workers, WorkerStep(w) \/ WorkerFault(w) PROVE Mapped
  BY <1>42, <1>11, <1>12, <1>13, <1>22, <1>23, <1>24, <1>25, <1>26, <1>27,
     <1>28, <1>29, <1>30, <1>31, <1>32, <1>33, <1>34, <1>35, <1>36, <1>37, <1>39
  DEF WorkerStep, WorkerFault
<1>43. CASE Gone
  BY <1>43, <1>38 DEF Gone
<1> QED
  BY <1>38, <1>40, <1>41, <1>42, <1>43 DEF Next, Mapped

\* Every behaviour of the pool is one that IndexedWaves allows: with any number
\* of workers and whatever they race for, a caller sees its jobs run once, its
\* call return, or the pool stopped for good and the lowest failure thrown.
THEOREM ExecutorImplementsWaves == Spec => WavesSpec
<1>1. IInv /\ [Next]_vars => [Waves!Next]_(Waves!vars)
  BY WavesStep
<1> QED
  BY <1>1, InitWaves, Invariance, PTL DEF Spec, WavesSpec, Waves!Spec
============================================================================

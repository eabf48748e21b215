--------------------------- MODULE FixedExecutor ---------------------------
(***************************************************************************)
(* The fixed pthread pool of src/src/parallel/fixed_executor.cpp.          *)
(*                                                                         *)
(* An owner constructs and destroys the pool, callers call run_indexed,    *)
(* workers execute the waves.  A critical section of mutex_ is one action; *)
(* code outside the mutex is one action per access to an atomic.  Both     *)
(* condition variables are modelled with their sets of sleepers, so a      *)
(* notification nobody waits for is lost and a sleeper may wake for no     *)
(* reason.  Atomics are sequentially consistent: the code refuses to build *)
(* worker stacks on anything but x86-64, where every write of next_job_    *)
(* and failure_cutoff_ inside a wave is a locked instruction.              *)
(***************************************************************************)
EXTENDS Naturals, FiniteSets

CONSTANTS
  Workers,        \* the pool's threads; config_.worker_count is their number
  Callers,        \* the threads that may call run_indexed
  MaxJobs,        \* bound on job_count
  MaxGeneration,  \* the largest value generation_ can hold
  Faults          \* which external calls may fail, of AllFaults

AllFaults == {"pthread_create", "audit", "relock"}

\* A broken infrastructure is joined by the call that meets it, so overlapping
\* calls, which the header forbids, are only modelled without that fault.
ASSUME ConstantsAssumption ==
  /\ IsFiniteSet(Workers) /\ Workers # {}
  /\ MaxJobs \in Nat
  /\ MaxGeneration \in Nat
  /\ Faults \subseteq AllFaults
  /\ "relock" \in Faults => \A c, d \in Callers : c = d

Jobs  == 0 .. MaxJobs - 1
NoJob == MaxJobs            \* numeric_limits::max(): above every job index

VARIABLES
  \* under mutex_
  ready_workers, completed_workers, generation, wave_active, stop_requested,
  infrastructure_error,
  healthy,           \* atomic, written under mutex_ only
  job_count,         \* written under mutex_, read by workers without it
  callback,          \* callback_ and context_: the set of jobs that throw
  next_job, failure_cutoff,  \* atomics
  failures,          \* failures_[w].job_index
  owner, built,      \* the owner's place; whether the constructor succeeded
  caller,            \* each caller's place in run_indexed
  worker,            \* each worker's place in worker_main
  observed,          \* observed_generation of each worker
  candidate,         \* claim_job's candidate, then the claimed job index
  cutoff,            \* the cutoff last loaded by the CAS-minimum loop
  reply,             \* what each caller's last call returned or threw
  raised,            \* the job index of the exception select_... chose
  ran                \* history: how often each job of this wave was started

mutexVars  == <<ready_workers, completed_workers, generation, wave_active,
                stop_requested, infrastructure_error, healthy>>
waveVars   == <<job_count, callback>>
atomicVars == <<next_job, failure_cutoff>>
localVars  == <<observed, candidate, cutoff>>
callVars   == <<caller, reply, raised>>
ownerVars  == <<owner, built>>
vars == <<mutexVars, waveVars, atomicVars, failures, ownerVars, callVars,
          worker, localVars, ran>>

OwnerPlaces  == {"create", "created", "checkReady", "waitReady", "alive",
                 "stop", "notify", "join", "gone"}
CallerPlaces == {"idle", "waiting", "woken", "notify", "join"}
Executing    == {"load", "limit", "claim", "recheck", "call", "lower"}
WorkerPlaces == {"absent", "audit", "report", "asleep", "woken", "relock",
                 "exited"} \union Executing
Replies      == {"none", "ok", "empty", "job", "infra", "poisoned", "overlap",
                 "overflow"}

----------------------------------------------------------------------------
(* Condition variables.                                                    *)

\* Mutant: the notification is lost.
WorkNotified_Lost(place) == place

\* work_condition_.notify_all()
WorkNotified(place) ==
  [w \in Workers |-> IF place[w] = "asleep" THEN "woken" ELSE place[w]]

\* Mutant: the notification is lost.
NotifyCoordinator_Lost == UNCHANGED <<owner, caller>>

\* coordinator_condition_.notify_all()
NotifyCoordinator ==
  /\ owner'  = IF owner = "waitReady" THEN "checkReady" ELSE owner
  /\ caller' = [c \in Callers |->
                  IF caller[c] = "waiting" THEN "woken" ELSE caller[c]]

\* The loop of worker_main, entered with the mutex held and the generation
\* seen: stop, start the wave that is new, or sleep on work_condition_.
EnterLoop(w, seen) ==
  /\ worker' = [worker EXCEPT ![w] = IF stop_requested THEN "exited"
                                     ELSE IF generation # seen THEN "load"
                                     ELSE "asleep"]
  /\ observed' = [observed EXCEPT ![w] =
                    IF stop_requested THEN @ ELSE generation]

----------------------------------------------------------------------------
(* Construction and destruction.                                           *)

Init ==
  /\ ready_workers = 0 /\ completed_workers = 0 /\ generation = 0
  /\ wave_active = FALSE /\ stop_requested = FALSE
  /\ infrastructure_error = FALSE /\ healthy = TRUE
  /\ job_count = 0 /\ callback = {}
  /\ next_job = 0 /\ failure_cutoff = 0
  /\ failures = [w \in Workers |-> NoJob]
  /\ owner = "create" /\ built = FALSE
  /\ caller = [c \in Callers |-> "idle"]
  /\ worker = [w \in Workers |-> "absent"]
  /\ observed = [w \in Workers |-> 0]
  /\ candidate = [w \in Workers |-> 0]
  /\ cutoff = [w \in Workers |-> 0]
  /\ reply = [c \in Callers |-> "none"]
  /\ raised = NoJob
  /\ ran = [j \in Jobs |-> 0]

CreateWorker(w) ==
  /\ owner = "create"
  /\ worker[w] = "absent"
  /\ worker' = [worker EXCEPT ![w] = "audit"]
  /\ owner' = "created"
  /\ UNCHANGED <<mutexVars, waveVars, atomicVars, failures, built, callVars,
                 localVars, ran>>

\* A stack mapping, a pthread_create, or the attributes' destruction after it.
CreateFails ==
  /\ "pthread_create" \in Faults
  /\ \/ owner = "create"
     \/ owner = "created" /\ \A w \in Workers : worker[w] # "absent"
  /\ owner' = "stop"
  /\ UNCHANGED <<mutexVars, waveVars, atomicVars, failures, built, callVars,
                 worker, localVars, ran>>

\* The lock_guard after each pthread_create, and the end of the loop.
CheckCreated ==
  /\ owner = "created"
  /\ owner' = IF infrastructure_error THEN "stop"
              ELSE IF \E w \in Workers : worker[w] = "absent" THEN "create"
              ELSE "checkReady"
  /\ UNCHANGED <<mutexVars, waveVars, atomicVars, failures, built, callVars,
                 worker, localVars, ran>>

\* wait_until_ready: the predicate, evaluated with the mutex held.
CheckReady ==
  /\ owner = "checkReady"
  /\ owner' = IF infrastructure_error THEN "stop"
              ELSE IF ready_workers = Cardinality(Workers) THEN "alive"
              ELSE "waitReady"
  /\ built' = (owner' = "alive")
  /\ UNCHANGED <<mutexVars, waveVars, atomicVars, failures, callVars, worker,
                 localVars, ran>>

Destroy ==
  /\ owner = "alive"
  /\ \A c \in Callers : caller[c] = "idle"
  /\ owner' = "stop"
  /\ UNCHANGED <<mutexVars, waveVars, atomicVars, failures, built, callVars,
                 worker, localVars, ran>>

RequestStop ==
  /\ owner = "stop"
  /\ stop_requested' = TRUE /\ healthy' = FALSE
  /\ owner' = "notify"
  /\ UNCHANGED <<ready_workers, completed_workers, generation, wave_active,
                 infrastructure_error, waveVars, atomicVars, failures, built,
                 callVars, worker, localVars, ran>>

\* notify_all is called after the mutex is released.
NotifyStop ==
  /\ owner = "notify"
  /\ worker' = WorkNotified(worker)
  /\ owner' = "join"
  /\ UNCHANGED <<mutexVars, waveVars, atomicVars, failures, built, callVars,
                 localVars, ran>>

\* Mutant: nothing is joined.
AllExited_Unchecked == TRUE

\* join_workers_noexcept returns once every created worker has exited.
AllExited == \A w \in Workers : worker[w] \in {"absent", "exited"}

OwnerJoins ==
  /\ owner = "join"
  /\ AllExited
  /\ owner' = "gone"
  /\ UNCHANGED <<mutexVars, waveVars, atomicVars, failures, built, callVars,
                 worker, localVars, ran>>

----------------------------------------------------------------------------
(* run_indexed, by caller c.                                               *)

MayCall(c) == owner = "alive" /\ caller[c] = "idle"

\* Mutant: wave_active_ is not checked.
MayStart_Overlapping == ~infrastructure_error /\ healthy

MayStart == ~infrastructure_error /\ healthy /\ ~wave_active

\* The calls that return or throw without touching the pool.
Refuse(c) ==
  /\ MayCall(c)
  /\ ~infrastructure_error
  /\ \/ ~healthy /\ reply' = [reply EXCEPT ![c] = "poisoned"]
     \/ healthy /\ wave_active /\ reply' = [reply EXCEPT ![c] = "overlap"]
     \/ MayStart /\ reply' = [reply EXCEPT ![c] = "empty"]
     \/ /\ MayStart /\ generation = MaxGeneration
        /\ reply' = [reply EXCEPT ![c] = "overflow"]
  /\ UNCHANGED <<mutexVars, waveVars, atomicVars, failures, ownerVars, caller,
                 raised, worker, localVars, ran>>

\* stop_requested_ is set and the mutex released; the exception is thrown once
\* the workers are joined.
StopPool(c, why) ==
  /\ stop_requested' = TRUE /\ healthy' = FALSE
  /\ caller' = [caller EXCEPT ![c] = "notify"]
  /\ reply' = [reply EXCEPT ![c] = why]
  /\ UNCHANGED <<ready_workers, completed_workers, generation,
                 infrastructure_error, waveVars, atomicVars, failures,
                 ownerVars, worker, localVars, ran>>

\* A call after the infrastructure broke.
MeetBrokenPool(c) ==
  /\ MayCall(c)
  /\ infrastructure_error
  /\ StopPool(c, "infra")
  /\ UNCHANGED <<wave_active, raised>>

\* prepare_wave_locked
PrepareWave(n, throwing) ==
  /\ failures' = [w \in Workers |-> NoJob]
  /\ job_count' = n /\ callback' = throwing
  /\ next_job' = 0 /\ failure_cutoff' = n
  /\ completed_workers' = 0
  /\ wave_active' = TRUE

\* Prepare, ++generation_, notify_all, and the first evaluation of the wait
\* predicate, which is false.
StartWave(c, n, throwing) ==
  /\ MayCall(c)
  /\ MayStart
  /\ generation < MaxGeneration
  /\ PrepareWave(n, throwing)
  /\ generation' = generation + 1
  /\ worker' = WorkNotified(worker)
  /\ caller' = [caller EXCEPT ![c] = "waiting"]
  /\ reply' = [reply EXCEPT ![c] = "none"]
  /\ raised' = NoJob
  /\ ran' = [j \in Jobs |-> 0]
  /\ UNCHANGED <<ready_workers, stop_requested, infrastructure_error, healthy,
                 ownerVars, localVars>>

\* Mutant: the comparison is the wrong way round.
LowestFailure_Highest ==
  LET recorded == {failures[w] : w \in Workers} \ {NoJob}
  IN  IF recorded = {} THEN NoJob
      ELSE CHOOSE k \in recorded : \A j \in recorded : j <= k

\* select_lowest_index_failure_locked; NoJob when no worker recorded one.
LowestFailure ==
  CHOOSE k \in {failures[w] : w \in Workers} : \A w \in Workers : k <= failures[w]

\* Mutant: one worker back is enough.
WaveDone_FirstWorker == completed_workers > 0

WaveDone == completed_workers = Cardinality(Workers)

KeepWaiting(c) ==
  /\ caller[c] = "woken"
  /\ ~WaveDone /\ ~infrastructure_error
  /\ caller' = [caller EXCEPT ![c] = "waiting"]
  /\ UNCHANGED <<mutexVars, waveVars, atomicVars, failures, ownerVars, reply,
                 raised, worker, localVars, ran>>

WaveBroken(c) ==
  /\ caller[c] = "woken"
  /\ infrastructure_error
  /\ wave_active' = FALSE
  /\ StopPool(c, "infra")
  /\ raised' = raised

WaveReturns(c) ==
  /\ caller[c] = "woken"
  /\ ~infrastructure_error /\ WaveDone
  /\ LowestFailure = NoJob
  /\ wave_active' = FALSE
  /\ caller' = [caller EXCEPT ![c] = "idle"]
  /\ reply' = [reply EXCEPT ![c] = "ok"]
  /\ UNCHANGED <<ready_workers, completed_workers, generation, stop_requested,
                 infrastructure_error, healthy, waveVars, atomicVars, failures,
                 ownerVars, raised, worker, localVars, ran>>

WaveThrows(c) ==
  /\ caller[c] = "woken"
  /\ ~infrastructure_error /\ WaveDone
  /\ LowestFailure # NoJob
  /\ raised' = LowestFailure
  /\ wave_active' = FALSE
  /\ StopPool(c, "job")

CallerNotifies(c) ==
  /\ caller[c] = "notify"
  /\ worker' = WorkNotified(worker)
  /\ caller' = [caller EXCEPT ![c] = "join"]
  /\ UNCHANGED <<mutexVars, waveVars, atomicVars, failures, ownerVars, reply,
                 raised, localVars, ran>>

CallerJoins(c) ==
  /\ caller[c] = "join"
  /\ AllExited
  /\ caller' = [caller EXCEPT ![c] = "idle"]
  /\ UNCHANGED <<mutexVars, waveVars, atomicVars, failures, ownerVars, reply,
                 raised, worker, localVars, ran>>

----------------------------------------------------------------------------
(* worker_main, by worker w.                                               *)

Goto(w, place) == worker' = [worker EXCEPT ![w] = place]

AuditFails(w) ==
  /\ "audit" \in Faults
  /\ worker[w] = "audit"
  /\ Goto(w, "report")
  /\ UNCHANGED <<mutexVars, waveVars, atomicVars, failures, ownerVars, callVars,
                 localVars, ran>>

ExitUnready(w) ==
  /\ worker[w] = "audit"
  /\ stop_requested
  /\ Goto(w, "exited")
  /\ UNCHANGED <<mutexVars, waveVars, atomicVars, failures, ownerVars, callVars,
                 localVars, ran>>

BecomeReady(w) ==
  /\ worker[w] = "audit"
  /\ ~stop_requested
  /\ ready_workers' = ready_workers + 1
  /\ NotifyCoordinator
  /\ EnterLoop(w, 0)
  /\ UNCHANGED <<completed_workers, generation, wave_active, stop_requested,
                 infrastructure_error, healthy, waveVars, atomicVars, failures,
                 built, reply, raised, candidate, cutoff, ran>>

\* A notified or spuriously woken worker evaluates its predicate again.
Recheck(w) ==
  /\ worker[w] = "woken"
  /\ EnterLoop(w, observed[w])
  /\ UNCHANGED <<mutexVars, waveVars, atomicVars, failures, ownerVars, callVars,
                 candidate, cutoff, ran>>

LoadNextJob(w) ==
  /\ worker[w] = "load"
  /\ candidate' = [candidate EXCEPT ![w] = next_job]
  /\ Goto(w, "limit")
  /\ UNCHANGED <<mutexVars, waveVars, atomicVars, failures, ownerVars, callVars,
                 observed, cutoff, ran>>

LoadLimit(w) ==
  /\ worker[w] = "limit"
  /\ Goto(w, IF candidate[w] >= job_count \/ candidate[w] >= failure_cutoff
               THEN "relock" ELSE "claim")
  /\ UNCHANGED <<mutexVars, waveVars, atomicVars, failures, ownerVars, callVars,
                 localVars, ran>>

\* The compare-exchange of claim_job ...
ClaimJob(w) ==
  /\ worker[w] = "claim"
  /\ next_job = candidate[w]
  /\ next_job' = next_job + 1
  /\ Goto(w, "recheck")
  /\ UNCHANGED <<mutexVars, waveVars, failure_cutoff, failures, ownerVars,
                 callVars, localVars, ran>>

\* ... which loads the current value and tries again when it fails.
ClaimRetry(w) ==
  /\ worker[w] = "claim"
  /\ next_job # candidate[w]
  /\ candidate' = [candidate EXCEPT ![w] = next_job]
  /\ Goto(w, "limit")
  /\ UNCHANGED <<mutexVars, waveVars, atomicVars, failures, ownerVars, callVars,
                 observed, cutoff, ran>>

\* Mutant: any failure drops the claimed job, not only that of a lower one.
Dropped_AnyFailure(w) == failure_cutoff # job_count

\* The cutoff is read again after the claim: a job at or above it is dropped.
Dropped(w) == candidate[w] >= failure_cutoff

DropJob(w) ==
  /\ worker[w] = "recheck"
  /\ Dropped(w)
  /\ Goto(w, "relock")
  /\ UNCHANGED <<mutexVars, waveVars, atomicVars, failures, ownerVars, callVars,
                 localVars, ran>>

StartJob(w) ==
  /\ worker[w] = "recheck"
  /\ ~Dropped(w)
  /\ Goto(w, "call")
  /\ ran' = [ran EXCEPT ![candidate[w]] = @ + 1]
  /\ UNCHANGED <<mutexVars, waveVars, atomicVars, failures, ownerVars, callVars,
                 localVars>>

CallReturns(w) ==
  /\ worker[w] = "call"
  /\ candidate[w] \notin callback
  /\ Goto(w, "load")
  /\ UNCHANGED <<mutexVars, waveVars, atomicVars, failures, ownerVars, callVars,
                 localVars, ran>>

CallThrows(w) ==
  /\ worker[w] = "call"
  /\ candidate[w] \in callback
  /\ failures' = [failures EXCEPT ![w] = candidate[w]]
  /\ cutoff' = [cutoff EXCEPT ![w] = failure_cutoff]
  /\ Goto(w, "lower")
  /\ UNCHANGED <<mutexVars, waveVars, atomicVars, ownerVars, callVars, observed,
                 candidate, ran>>

\* Mutant: the cutoff is stored without comparing, and may rise.
LowerCutoff_Store(w) ==
  /\ worker[w] = "lower"
  /\ failure_cutoff' = candidate[w]
  /\ Goto(w, "relock")
  /\ UNCHANGED <<mutexVars, waveVars, next_job, failures, ownerVars, callVars,
                 localVars, ran>>

\* The compare-exchange loop that lowers failure_cutoff_ to the failed index:
\* it is low enough already, it is lowered, or it changed and is loaded again.
LowEnough(w) ==
  /\ worker[w] = "lower"
  /\ candidate[w] >= cutoff[w]
  /\ Goto(w, "relock")
  /\ UNCHANGED <<mutexVars, waveVars, atomicVars, failures, ownerVars, callVars,
                 localVars, ran>>

LowerCutoff(w) ==
  /\ worker[w] = "lower"
  /\ candidate[w] < cutoff[w]
  /\ failure_cutoff = cutoff[w]
  /\ failure_cutoff' = candidate[w]
  /\ Goto(w, "relock")
  /\ UNCHANGED <<mutexVars, waveVars, next_job, failures, ownerVars, callVars,
                 localVars, ran>>

LowerRetry(w) ==
  /\ worker[w] = "lower"
  /\ candidate[w] < cutoff[w]
  /\ failure_cutoff # cutoff[w]
  /\ cutoff' = [cutoff EXCEPT ![w] = failure_cutoff]
  /\ UNCHANGED <<mutexVars, waveVars, atomicVars, failures, ownerVars, callVars,
                 worker, observed, candidate, ran>>

RelockFails(w) ==
  /\ "relock" \in Faults
  /\ worker[w] = "relock"
  /\ Goto(w, "report")
  /\ UNCHANGED <<mutexVars, waveVars, atomicVars, failures, ownerVars, callVars,
                 localVars, ran>>

\* lock, ++completed_workers_, notify, and round the loop to the next wait.
CompleteWave(w) ==
  /\ worker[w] = "relock"
  /\ completed_workers' = completed_workers + 1
  /\ NotifyCoordinator
  /\ EnterLoop(w, observed[w])
  /\ UNCHANGED <<ready_workers, generation, wave_active, stop_requested,
                 infrastructure_error, healthy, waveVars, atomicVars, failures,
                 built, reply, raised, candidate, cutoff, ran>>

ReportInfrastructureFailure(w) ==
  /\ worker[w] = "report"
  /\ infrastructure_error' = TRUE
  /\ stop_requested' = TRUE /\ healthy' = FALSE
  /\ NotifyCoordinator
  /\ worker' = [WorkNotified(worker) EXCEPT ![w] = "exited"]
  /\ UNCHANGED <<ready_workers, completed_workers, generation, wave_active,
                 waveVars, atomicVars, failures, built, reply, raised,
                 localVars, ran>>

----------------------------------------------------------------------------
(* Spurious wakeups of the three waits.                                    *)

WakeWorker(w) ==
  /\ worker[w] = "asleep"
  /\ Goto(w, "woken")
  /\ UNCHANGED <<mutexVars, waveVars, atomicVars, failures, ownerVars, callVars,
                 localVars, ran>>

WakeCaller(c) ==
  /\ caller[c] = "waiting"
  /\ caller' = [caller EXCEPT ![c] = "woken"]
  /\ UNCHANGED <<mutexVars, waveVars, atomicVars, failures, ownerVars, reply,
                 raised, worker, localVars, ran>>

WakeOwner ==
  /\ owner = "waitReady"
  /\ owner' = "checkReady"
  /\ UNCHANGED <<mutexVars, waveVars, atomicVars, failures, built, callVars,
                 worker, localVars, ran>>

SpuriousWake ==
  \/ WakeOwner
  \/ \E c \in Callers : WakeCaller(c)
  \/ \E w \in Workers : WakeWorker(w)

----------------------------------------------------------------------------
OwnerStep ==
  \/ \E w \in Workers : CreateWorker(w)
  \/ CheckCreated \/ CheckReady \/ RequestStop \/ NotifyStop \/ OwnerJoins

CallerStep(c) ==
  \/ KeepWaiting(c) \/ WaveBroken(c) \/ WaveReturns(c) \/ WaveThrows(c)
  \/ CallerNotifies(c) \/ CallerJoins(c)

Call(c) ==
  \/ Refuse(c) \/ MeetBrokenPool(c)
  \/ \E n \in 1 .. MaxJobs : \E throwing \in SUBSET (0 .. n - 1) :
       StartWave(c, n, throwing)

WorkerStep(w) ==
  \/ ExitUnready(w) \/ BecomeReady(w) \/ Recheck(w)
  \/ LoadNextJob(w) \/ LoadLimit(w) \/ ClaimJob(w) \/ ClaimRetry(w)
  \/ DropJob(w) \/ StartJob(w) \/ CallReturns(w) \/ CallThrows(w)
  \/ LowEnough(w) \/ LowerCutoff(w) \/ LowerRetry(w)
  \/ CompleteWave(w) \/ ReportInfrastructureFailure(w)

WorkerFault(w) == AuditFails(w) \/ RelockFails(w)

Gone == owner = "gone" /\ UNCHANGED vars

Next ==
  \/ OwnerStep \/ CreateFails \/ Destroy \/ SpuriousWake \/ Gone
  \/ \E c \in Callers : Call(c) \/ CallerStep(c)
  \/ \E w \in Workers : WorkerStep(w) \/ WorkerFault(w)

Spec == Init /\ [][Next]_vars

\* Every thread that can run does: the scheduler is fair, callbacks end, and
\* a mutex whose critical sections all end is granted in the end.  Nobody has
\* to call run_indexed, to destroy the pool, or to wake for no reason.
Fairness ==
  /\ WF_vars(OwnerStep)
  /\ \A c \in Callers : WF_vars(CallerStep(c))
  /\ \A w \in Workers : WF_vars(WorkerStep(w))

FairSpec == Spec /\ Fairness

----------------------------------------------------------------------------
(* Properties.                                                             *)

\* Types of the variables; next_job_ never runs past the wave's jobs.
TypeOK ==
  /\ ready_workers \in Nat /\ completed_workers \in Nat
  /\ generation \in 0 .. MaxGeneration
  /\ wave_active \in BOOLEAN /\ stop_requested \in BOOLEAN
  /\ infrastructure_error \in BOOLEAN /\ healthy \in BOOLEAN
  /\ built \in BOOLEAN
  /\ job_count \in 0 .. MaxJobs
  /\ callback \in SUBSET Jobs
  /\ next_job \in 0 .. MaxJobs /\ failure_cutoff \in 0 .. MaxJobs
  /\ failures \in [Workers -> 0 .. MaxJobs]
  /\ owner \in OwnerPlaces
  /\ caller \in [Callers -> CallerPlaces]
  /\ worker \in [Workers -> WorkerPlaces]
  /\ observed \in [Workers -> 0 .. MaxGeneration]
  /\ candidate \in [Workers -> 0 .. MaxJobs]
  /\ cutoff \in [Workers -> 0 .. MaxJobs]
  /\ reply \in [Callers -> Replies]
  /\ raised \in 0 .. MaxJobs
  /\ ran \in [Jobs -> {0, 1}]

\* The exception run_indexed throws for a failed wave is that of the lowest job
\* that throws at all, whichever workers met which failures in which order.
DeterministicFailure ==
  \A c \in Callers : reply[c] = "job" =>
    /\ raised \in callback
    /\ \A j \in callback : raised <= j
    /\ \A j \in 0 .. raised : ran[j] = 1

\* A wave that returns normally had no throwing job and ran every job once.
CompleteWaves ==
  [][\A c \in Callers : caller[c] = "woken" /\ caller'[c] = "idle" =>
       callback = {} /\ \A j \in 0 .. job_count - 1 : ran[j] = 1]_vars

\* The callback, its context and the wave's fields, all read without the mutex,
\* are used by a worker only while the call that owns them has not returned.
NoUseAfterReturn ==
  (\E w \in Workers : worker[w] \in Executing) =>
    \E c \in Callers : caller[c] # "idle"

\* A wave is prepared only when every worker has taken part in the one before
\* and none is still reading the fields that prepare_wave_locked overwrites.
WavesDoNotOverlap ==
  [][generation' # generation =>
       \A w \in Workers : /\ worker[w] \in {"asleep", "woken"}
                          /\ observed[w] = generation]_vars

\* Every call of run_indexed returns or throws: no wakeup is lost, and no join
\* waits for a worker that sleeps.
CallsReturn == \A c \in Callers : caller[c] # "idle" ~> caller[c] = "idle"

\* Construction and destruction end, also when threads cannot be created, audits
\* fail or the infrastructure breaks.
OwnerFinishes == owner \notin {"alive", "gone"} ~> owner \in {"alive", "gone"}

----------------------------------------------------------------------------
(* The inductive invariant behind these properties.                        *)

Building  == {"create", "created", "checkReady", "waitReady"}
Holding   == {"recheck", "call", "lower"}   \* places that own a claimed job
Parked(w) == worker[w] \in {"asleep", "woken"}
Done(w)   == Parked(w) /\ observed[w] = generation
InWait(c) == caller[c] \in {"waiting", "woken"}

\* The pool's life: stopping is one way, and a pool is alive only once every
\* worker has reached its loop.
LifeInv ==
  /\ healthy = ~stop_requested
  /\ infrastructure_error => stop_requested
  /\ owner \in Building =>
       /\ generation = 0
       /\ stop_requested => infrastructure_error
       /\ ~stop_requested =>
            ready_workers = Cardinality({w \in Workers : Parked(w)})
  /\ \A w \in Workers : worker[w] \in {"absent", "audit"} =>
       generation = 0 /\ owner # "alive"

\* Who is in which wave: between waves every worker has seen the generation, in
\* a wave completed_workers_ counts those that have come back from it.
WaveInv ==
  /\ \A w \in Workers : observed[w] <= generation
  /\ ~stop_requested /\ ~wave_active =>
       /\ \A w \in Workers : observed[w] = generation
       /\ owner = "alive" => \A w \in Workers : Parked(w)
  /\ wave_active /\ ~stop_requested =>
       completed_workers = Cardinality({w \in Workers : Done(w)})
  /\ wave_active => \E c \in Callers : InWait(c)
  /\ \A c \in Callers : InWait(c) =>
       /\ wave_active /\ owner = "alive"
       /\ stop_requested => infrastructure_error
  /\ \A c, d \in Callers : InWait(c) /\ InWait(d) => c = d
  /\ \A w \in Workers : worker[w] \in Executing \union {"relock"} =>
       /\ observed[w] = generation /\ generation # 0
       /\ \E c \in Callers : caller[c] # "idle"

\* What worker w knows of the job it holds and of the failure it recorded.
WorkerInv(w) ==
  /\ worker[w] \in {"limit", "claim"} => candidate[w] <= next_job
  /\ worker[w] = "claim" => candidate[w] < job_count
  /\ worker[w] \in Holding => candidate[w] < next_job
  /\ worker[w] = "recheck" => ran[candidate[w]] = 0
  /\ worker[w] \in {"call", "lower"} => ran[candidate[w]] = 1
  /\ worker[w] = "lower" => /\ failures[w] = candidate[w]
                            /\ failure_cutoff <= cutoff[w]
  /\ worker[w] \in Executing \ {"lower"} => failures[w] = NoJob
  /\ observed[w] # generation => failures[w] = NoJob
  /\ failures[w] # NoJob =>
       /\ failures[w] \in callback
       /\ ran[failures[w]] = 1
       /\ worker[w] # "lower" => failure_cutoff <= failures[w]
  /\ observed[w] = generation /\ worker[w] \notin Executing =>
       failure_cutoff <= next_job

WaveBounds ==
  /\ callback \subseteq 0 .. job_count - 1
  /\ failure_cutoff \in callback \union {job_count}
  /\ next_job <= job_count

\* Where every claimed job is: it has run, it is held by the worker that claimed
\* it, or it is at or above the cutoff and may be dropped.
ClaimedJobs ==
  /\ \A j \in Jobs : ran[j] = 1 => j < next_job
  /\ \A j \in Jobs : j < next_job =>
       \/ ran[j] = 1
       \/ failure_cutoff <= j
       \/ \E w \in Workers : worker[w] = "recheck" /\ candidate[w] = j

\* A job that threw has lowered the cutoff, or its worker is about to.
FailedJobs ==
  \A j \in callback : ran[j] = 1 =>
    \/ failure_cutoff <= j
    \/ \E w \in Workers : worker[w] \in {"call", "lower"} /\ candidate[w] = j

\* The cutoff is the job of some worker's failure record.
CutoffRecorded ==
  failure_cutoff # job_count => \E w \in Workers : failures[w] = failure_cutoff

HeldOnce ==
  \A v, w \in Workers :
    v # w /\ {worker[v], worker[w]} \subseteq Holding => candidate[v] # candidate[w]

JobInv ==
  /\ WaveBounds /\ ClaimedJobs /\ FailedJobs /\ CutoffRecorded /\ HeldOnce
  /\ \A w \in Workers : WorkerInv(w)

\* A call that threw a job's exception left the pool stopped for good.
ReplyInv == /\ \A c \in Callers : reply[c] = "job" => stop_requested
            /\ DeterministicFailure

InCall     == \E c \in Callers : caller[c] # "idle"
Resting(w) == worker[w] \in {"asleep", "woken", "exited"}

\* Who is in run_indexed: one caller at most, of a pool that is alive.  A caller
\* on its way out has stopped the pool, and a stopped pool that nobody is in has
\* been joined.  A job's exception leaves no worker that may still break down.
CallInv ==
  /\ owner \in Building => ~built
  /\ owner = "alive" => built
  /\ \A c, d \in Callers : caller[c] # "idle" /\ caller[d] # "idle" => c = d
  /\ InCall => owner = "alive"
  /\ \A c \in Callers : caller[c] \in {"notify", "join"} =>
       /\ stop_requested
       /\ reply[c] = "job" \/ (reply[c] = "infra" /\ infrastructure_error)
  /\ owner = "alive" /\ stop_requested /\ ~InCall =>
       \A w \in Workers : worker[w] = "exited"
  /\ owner = "alive" /\ infrastructure_error => "relock" \in Faults
  /\ \A w \in Workers : owner = "alive" /\ worker[w] = "report" => "relock" \in Faults
  /\ raised # NoJob =>
       stop_requested /\ ~infrastructure_error /\ \A w \in Workers : Resting(w)

\* Everything above: the invariant that every step preserves, of which type
\* correctness, DeterministicFailure and NoUseAfterReturn are consequences.
IInv == TypeOK /\ LifeInv /\ WaveInv /\ JobInv /\ ReplyInv /\ CallInv

----------------------------------------------------------------------------
(* FixedExecutor implements IndexedWaves: a call ends, for its caller, at  *)
(* the step that leaves run_indexed, and the pool is stopped when its last *)
(* worker has exited.                                                      *)

PoolState ==
  CASE owner = "alive" ->
         IF \A w \in Workers : worker[w] = "exited" THEN "stopped" ELSE "ready"
    [] owner = "gone" -> "gone"
    [] owner \notin {"alive", "gone"} -> IF built THEN "closing" ELSE "building"
Calling == [c \in Callers |-> caller[c] # "idle"]
Told    == [c \in Callers |-> IF caller[c] = "idle" THEN reply[c] ELSE "none"]
Thrown  == IF InCall THEN NoJob ELSE raised

Waves == INSTANCE IndexedWaves WITH
  pool     <- PoolState,
  running  <- Calling,
  jobs     <- job_count,
  throwing <- callback,
  reply    <- Told,
  raised   <- Thrown

\* Every behaviour of the pool is one that IndexedWaves allows.
WavesSpec == Waves!Spec
============================================================================

---------------------------- MODULE IndexedWaves ----------------------------
(***************************************************************************)
(* What FixedExecutor promises its callers, without workers, atomics or    *)
(* condition variables: a call runs every job of its wave once and         *)
(* returns, or stops the pool for good and then throws, and the exception  *)
(* of a failed job is that of the lowest job that throws, whatever the     *)
(* order in which the jobs ran.                                            *)
(***************************************************************************)
EXTENDS Naturals

CONSTANTS Callers, MaxJobs

Jobs  == 0 .. MaxJobs - 1
NoJob == MaxJobs

VARIABLES
  pool,      \* "building", "ready", "stopped", "closing", "gone"
  running,   \* running[c]: c is inside run_indexed with a wave or a dead pool
  jobs,      \* how many jobs the wave has
  throwing,  \* which of them throw
  ran,       \* how often each was run
  reply,     \* the outcome of each caller's last call
  raised     \* the job whose exception the last wave threw

vars == <<pool, running, jobs, throwing, ran, reply, raised>>

Init ==
  /\ pool = "building"
  /\ running = [c \in Callers |-> FALSE]
  /\ jobs = 0 /\ throwing = {}
  /\ ran = [j \in Jobs |-> 0]
  /\ reply = [c \in Callers |-> "none"]
  /\ raised = NoJob

Busy == \E c \in Callers : running[c]

Build ==
  /\ pool = "building"
  /\ pool' \in {"ready", "gone"}
  /\ UNCHANGED <<running, jobs, throwing, ran, reply, raised>>

Start(c, n, F) ==
  /\ pool = "ready" /\ ~Busy
  /\ running' = [running EXCEPT ![c] = TRUE]
  /\ jobs' = n /\ throwing' = F
  /\ ran' = [j \in Jobs |-> 0]
  /\ reply' = [reply EXCEPT ![c] = "none"]
  /\ raised' = NoJob
  /\ UNCHANGED pool

\* A job runs at most once, only for a call in progress, on a live pool.
RunJob(j) ==
  /\ pool = "ready" /\ Busy
  /\ j < jobs /\ ran[j] = 0
  /\ ran' = [ran EXCEPT ![j] = 1]
  /\ UNCHANGED <<pool, running, jobs, throwing, reply, raised>>

Stop ==
  /\ pool = "ready" /\ Busy
  /\ pool' = "stopped"
  /\ UNCHANGED <<running, jobs, throwing, ran, reply, raised>>

Finish(c, answer) ==
  /\ running[c]
  /\ running' = [running EXCEPT ![c] = FALSE]
  /\ reply' = [reply EXCEPT ![c] = answer]
  /\ UNCHANGED <<pool, jobs, throwing, ran>>

ReturnOk(c) ==
  /\ pool = "ready"
  /\ throwing = {}
  /\ \A j \in 0 .. jobs - 1 : ran[j] = 1
  /\ raised' = NoJob
  /\ Finish(c, "ok")

ThrowJob(c, k) ==
  /\ pool = "stopped"
  /\ k \in throwing /\ \A j \in throwing : k <= j
  /\ \A j \in 0 .. k : ran[j] = 1
  /\ raised' = k
  /\ Finish(c, "job")

ThrowInfrastructure(c) ==
  /\ pool = "stopped"
  /\ raised' = NoJob
  /\ Finish(c, "infra")

\* A stopped pool is entered again only to throw.
Reenter(c) ==
  /\ pool = "stopped" /\ ~Busy
  /\ running' = [running EXCEPT ![c] = TRUE]
  /\ reply' = [reply EXCEPT ![c] = "none"]
  /\ UNCHANGED <<pool, jobs, throwing, ran, raised>>

Refuse(c, why) ==
  /\ pool \in {"ready", "stopped"} /\ ~running[c]
  /\ why = "overlap"  => Busy
  /\ why = "poisoned" => Busy \/ pool = "stopped"
  /\ why \in {"empty", "overflow"} => pool = "ready" /\ ~Busy
  /\ reply' = [reply EXCEPT ![c] = why]
  /\ UNCHANGED <<pool, running, jobs, throwing, ran, raised>>

Close ==
  /\ \/ pool \in {"ready", "stopped"} /\ ~Busy /\ pool' = "closing"
     \/ pool = "closing" /\ pool' = "gone"
  /\ UNCHANGED <<running, jobs, throwing, ran, reply, raised>>

Next ==
  \/ Build \/ Stop \/ Close
  \/ \E j \in Jobs : RunJob(j)
  \/ \E c \in Callers :
       \/ \E n \in 1 .. MaxJobs : \E F \in SUBSET (0 .. n - 1) : Start(c, n, F)
       \/ ReturnOk(c) \/ ThrowInfrastructure(c) \/ Reenter(c)
       \/ \E k \in Jobs : ThrowJob(c, k)
       \/ \E why \in {"overlap", "poisoned", "empty", "overflow"} : Refuse(c, why)

Spec == Init /\ [][Next]_vars
============================================================================

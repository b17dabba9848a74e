------------------------------ MODULE JobQueue ------------------------------
(***************************************************************************)
(* The durable job queue of the runtime: the tables jobs and job_attempts, *)
(* the workers that claim, heartbeat, execute, complete and fail jobs      *)
(* (apps/runtime/src/jobs/worker.ts), the recovery of expired leases       *)
(* (jobs/recovery.ts), the fence every committing transaction begins with  *)
(* (services/analysis-checkpoint.ts), the deferral of jobs that wait for   *)
(* model capacity (services/model-job-defer.ts), and the two routes that   *)
(* move jobs by hand: deleting the repository and retrying a history       *)
(* collection.                                                             *)
(*                                                                         *)
(* Every SQL transaction is one action.  What a worker remembers between   *)
(* two transactions is a record of runs, so an executor whose lease is     *)
(* gone keeps acting on the job until a fence stops it.  Several runs of   *)
(* one job may be alive at once, even in one process: executors name       *)
(* processes, not runs.                                                    *)
(***************************************************************************)
EXTENDS Naturals, Sequences, FiniteSets

CONSTANTS
  Jobs,                   \* rows of the table jobs, all of one repository
  Executors,              \* worker processes, HOSTNAME:pid
  NoExecutor,             \* lease_owner is null
  Type,                   \* jobs.type
  DefaultMaxAttempts,     \* default of jobs.max_attempts, 3 in the code
  PublicationMaxAttempts, \* max_attempts of a publication job, 5 in the code
  RecoveryLimit,          \* leases recovered before a job is given up, 3
  DeferLimit,             \* capacity deferrals, 50
  RetryGrant,             \* attempts a history retry adds, 3
  LeaseTTL,               \* heartbeats missed before a lease expires, 30s/10s
  Concurrency,            \* WORKER_CONCURRENCY
  MaxRetries,             \* bound of the model on history retries per job
  Deletable               \* bound of the model: is the repository ever deleted?

JobTypes == {"snapshot.materialize", "analysis.run",
             "github.review.publish", "history.collect"}

ASSUME TypeAssumption == Type \in [Jobs -> JobTypes]

ASSUME ExecutorAssumption == NoExecutor \notin Executors

ASSUME LimitAssumption ==
  /\ DefaultMaxAttempts \in Nat \ {0}
  /\ PublicationMaxAttempts \in Nat \ {0}
  /\ RecoveryLimit \in Nat
  /\ DeferLimit \in Nat
  /\ RetryGrant \in Nat \ {0}
  /\ LeaseTTL \in Nat \ {0}
  /\ Concurrency \in Nat \ {0}
  /\ MaxRetries \in Nat
  /\ Deletable \in BOOLEAN

VARIABLES
  jobs,      \* the table jobs
  attempts,  \* job_attempts, by job and attempt_number
  commits,   \* attempts whose body transaction committed its result
  runs,      \* executeJob calls in progress, in every worker
  draining,  \* workers whose stop signal has arrived
  retrying,  \* history retries authorized and not yet applied
  retries,   \* history retries applied to each job
  deletion   \* the deletion of the repository

vars == <<jobs, attempts, commits, runs, draining, retrying, retries, deletion>>

-----------------------------------------------------------------------------
(* Types *)

States == {"absent", "queued", "running", "completed", "failed"}
Outcomes == {"open", "completed", "retry", "failed", "interrupted"}
Errors == {"retryable", "fatal", "capacity"}

Job == [state : States, owner : Executors \cup {NoExecutor}, lease : 0..LeaseTTL,
        due : BOOLEAN, attemptCount : Nat, maxAttempts : Nat,
        recoveryCount : 0..RecoveryLimit, deferCount : 0..DeferLimit]

Attempt == [executor : Executors, outcome : Outcomes]

\* Where a run is: in its body, in the last transaction of a collection, in
\* completeJob, or in failJob before and after its look for a report.
Pcs == {"executing", "collecting", "completing", "failing", "reported", "unreported"}

Run == [job : Jobs, attempt : Nat \ {0}, maxAttempts : Nat, executor : Executors,
        pc : Pcs, error : Errors]

\* The jobs that a deletion saw active, while its transaction lasts and after.
Deletion == [stage : {"none", "reading", "done"}, seen : SUBSET Jobs]

TypeOK ==
  /\ jobs \in [Jobs -> Job]
  /\ attempts \in [Jobs -> Seq(Attempt)]
  /\ commits \in [Jobs -> SUBSET (Nat \ {0})]
  /\ runs \in SUBSET Run
  /\ draining \in SUBSET Executors
  /\ retrying \in SUBSET Jobs
  /\ retries \in [Jobs -> 0..MaxRetries]
  /\ deletion \in Deletion

-----------------------------------------------------------------------------
(* Helpers *)

InitialMaxAttempts(j) ==
  IF Type[j] = "github.review.publish" THEN PublicationMaxAttempts
                                       ELSE DefaultMaxAttempts

\* The body of these jobs commits its result in a transaction that begins
\* with the fence; the publication body is not fenced.
Fenced(j) == Type[j] # "github.review.publish"

\* A report or a collected history item already exists.
AlreadyDone(j) ==
  Type[j] \in {"analysis.run", "history.collect"} /\ commits[j] # {}

Published(j) == Type[j] = "analysis.run" /\ commits[j] # {}

\* A fence that compares the owner and not the attempt (a fault).
LeaseHeldByOwner(r) ==
  LET row == jobs[r.job]
  IN row.state = "running" /\ row.owner = r.executor /\ row.lease > 0

\* The fence: the row of this attempt still owns an unexpired lease.
LeaseHeld(r) ==
  LET row == jobs[r.job]
      attempt == attempts[r.job][r.attempt]
  IN /\ row.state = "running"
     /\ row.attemptCount = r.attempt
     /\ row.owner = attempt.executor
     /\ attempt.outcome = "open"
     /\ row.lease > 0

deleted == deletion.stage = "done"

NoDeletion == [stage |-> "none", seen |-> {}]

RunsOf(w) == {r \in runs : r.executor = w}

GoTo(r, pc) == runs' = (runs \ {r}) \cup {[r EXCEPT !.pc = pc]}

Leave(r) == runs' = runs \ {r}

EndAttempt(r, outcome) ==
  attempts' = [attempts EXCEPT ![r.job][r.attempt].outcome = outcome]

\* A recovery that leaves the attempt open, and one that rewrites every attempt
\* (faults).
EndNoAttempts(j, outcome) == UNCHANGED attempts

EndAllAttempts(j, outcome) ==
  attempts' = [attempts EXCEPT ![j] =
    [n \in DOMAIN attempts[j] |-> [attempts[j][n] EXCEPT !.outcome = outcome]]]

EndOpenAttempts(j, outcome) ==
  attempts' = [attempts EXCEPT ![j] =
    [n \in DOMAIN attempts[j] |->
      IF attempts[j][n].outcome = "open"
      THEN [attempts[j][n] EXCEPT !.outcome = outcome]
      ELSE attempts[j][n]]]

\* The job leaves its lease and enters the given state.
Released(row, state) == [row EXCEPT !.state = state, !.owner = NoExecutor, !.lease = 0]

-----------------------------------------------------------------------------
Init ==
  /\ jobs = [j \in Jobs |->
       [state |-> "absent", owner |-> NoExecutor, lease |-> 0, due |-> FALSE,
        attemptCount |-> 0, maxAttempts |-> InitialMaxAttempts(j),
        recoveryCount |-> 0, deferCount |-> 0]]
  /\ attempts = [j \in Jobs |-> << >>]
  /\ commits = [j \in Jobs |-> {}]
  /\ runs = {}
  /\ draining = {}
  /\ retrying = {}
  /\ retries = [j \in Jobs |-> 0]
  /\ deletion = NoDeletion

-----------------------------------------------------------------------------
(* The clock *)

\* A heartbeat period passes without the lease being extended.
Elapse(j) ==
  /\ jobs[j].state = "running"
  /\ jobs[j].lease > 0
  /\ jobs' = [jobs EXCEPT ![j].lease = @ - 1]
  /\ UNCHANGED <<attempts, commits, runs, draining, retrying, retries, deletion>>

\* available_at is reached.
BecomeDue(j) ==
  /\ jobs[j].state = "queued"
  /\ ~jobs[j].due
  /\ jobs' = [jobs EXCEPT ![j].due = TRUE]
  /\ UNCHANGED <<attempts, commits, runs, draining, retrying, retries, deletion>>

-----------------------------------------------------------------------------
(* The server *)

\* A snapshot is enqueued under a share of the lock of the live repository, and
\* a publication reads that the repository is live.  A reanalysis looks at the
\* snapshot only, and a history collection is authorized earlier.
Enqueue(j) ==
  /\ jobs[j].state = "absent"
  /\ Type[j] = "snapshot.materialize" => deletion.stage = "none"
  /\ Type[j] = "github.review.publish" => ~deleted
  /\ jobs' = [jobs EXCEPT ![j].state = "queued", ![j].due = TRUE]
  /\ UNCHANGED <<attempts, commits, runs, draining, retrying, retries, deletion>>

Active(j) == jobs[j].state \in {"queued", "running"}

\* The deletion locks the repository and its query for the active jobs begins:
\* it sees the jobs of this moment, and waits for the locks of their rows.
ListJobs ==
  /\ Deletable
  /\ deletion.stage = "none"
  /\ deletion' = [stage |-> "reading", seen |-> {j \in Jobs : Active(j)}]
  /\ UNCHANGED <<jobs, attempts, commits, runs, draining, retrying, retries>>

\* A deletion that looks at no job again (a fault).
CancellableUnchecked(j) == TRUE

\* The rows are looked at again under their locks, so that no claim comes
\* between the check and the update.
Cancellable(j) == jobs[j].state # "running"

\* What is still active of the jobs it saw is cancelled.  It does not see jobs
\* that were enqueued or reopened in the meantime.
DeleteRepository ==
  /\ deletion.stage = "reading"
  /\ \A j \in deletion.seen : Cancellable(j)
  /\ deletion' = [deletion EXCEPT !.stage = "done"]
  /\ jobs' = [j \in Jobs |->
       IF j \in deletion.seen /\ jobs[j].state = "queued"
       THEN [jobs[j] EXCEPT !.state = "failed"] ELSE jobs[j]]
  /\ UNCHANGED <<attempts, commits, runs, draining, retrying, retries>>

\* One of them runs, a lock takes too long or the server dies: nothing is written.
RollBackDeletion ==
  /\ deletion.stage = "reading"
  /\ deletion' = NoDeletion
  /\ UNCHANGED <<jobs, attempts, commits, runs, draining, retrying, retries>>

\* The retry route authorizes against the repository, then updates the jobs
\* in a statement of its own that no longer looks at the repository.
AuthorizeRetry(j) ==
  /\ Type[j] = "history.collect"
  /\ ~deleted
  /\ jobs[j].state # "absent"
  /\ retrying' = retrying \cup {j}
  /\ UNCHANGED <<jobs, attempts, commits, runs, draining, retries, deletion>>

ApplyRetry(j) ==
  /\ j \in retrying
  /\ retrying' = retrying \ {j}
  /\ IF jobs[j].state = "failed" /\ commits[j] = {} /\ retries[j] < MaxRetries
     THEN /\ jobs' = [jobs EXCEPT ![j] =
               [@ EXCEPT !.state = "queued", !.due = TRUE, !.recoveryCount = 0,
                         !.maxAttempts = jobs[j].attemptCount + RetryGrant]]
          /\ retries' = [retries EXCEPT ![j] = @ + 1]
     ELSE UNCHANGED <<jobs, retries>>
  /\ UNCHANGED <<attempts, commits, runs, draining, deletion>>

-----------------------------------------------------------------------------
(* The worker *)

Claim(w, j) ==
  /\ w \notin draining
  /\ Cardinality(RunsOf(w)) < Concurrency
  /\ jobs[j].state = "queued"
  /\ jobs[j].due
  /\ jobs[j].attemptCount < jobs[j].maxAttempts
  /\ jobs' = [jobs EXCEPT ![j] =
       [@ EXCEPT !.state = "running", !.owner = w, !.lease = LeaseTTL,
                 !.attemptCount = jobs[j].attemptCount + 1]]
  /\ attempts' = [attempts EXCEPT ![j] = Append(@, [executor |-> w, outcome |-> "open"])]
  /\ runs' = runs \cup
       {[job |-> j, attempt |-> jobs[j].attemptCount + 1,
         maxAttempts |-> jobs[j].maxAttempts, executor |-> w,
         pc |-> "executing", error |-> "retryable"]}
  /\ UNCHANGED <<commits, draining, retrying, retries, deletion>>

Heartbeat(r) ==
  LET row == jobs[r.job]
  IN /\ row.state = "running"
     /\ row.owner = r.executor
     /\ row.attemptCount = r.attempt
     /\ row.lease > 0
     /\ jobs' = [jobs EXCEPT ![r.job].lease = LeaseTTL]
     /\ UNCHANGED <<attempts, commits, runs, draining, retrying, retries, deletion>>

\* A collection finds that its item is not completed and that its user still has
\* the repository, reads the messages and stores them.
Collect(r) ==
  /\ r.pc = "executing"
  /\ Type[r.job] = "history.collect"
  /\ LeaseHeld(r)
  /\ ~AlreadyDone(r.job)
  /\ ~deleted
  /\ GoTo(r, "collecting")
  /\ UNCHANGED <<jobs, attempts, commits, draining, retrying, retries, deletion>>

\* The fenced transaction that stores the result.  That of an analysis looks for
\* a report, that of a collection does not look at its item again.
CommitBody(r) ==
  /\ r.pc = IF Type[r.job] = "history.collect" THEN "collecting" ELSE "executing"
  /\ Fenced(r.job)
  /\ LeaseHeld(r)
  /\ ~Published(r.job)
  /\ commits' = [commits EXCEPT ![r.job] = @ \cup {r.attempt}]
  /\ GoTo(r, "completing")
  /\ UNCHANGED <<jobs, attempts, draining, retrying, retries, deletion>>

\* The result is there already: the body returns without a transaction.
SkipBody(r) ==
  /\ r.pc = "executing"
  /\ AlreadyDone(r.job)
  /\ GoTo(r, "completing")
  /\ UNCHANGED <<jobs, attempts, commits, draining, retrying, retries, deletion>>

\* The publication body ends; it never looks at the lease.
FinishPublication(r) ==
  /\ r.pc = "executing"
  /\ ~Fenced(r.job)
  /\ GoTo(r, "completing")
  /\ UNCHANGED <<jobs, attempts, commits, draining, retrying, retries, deletion>>

\* failJob looks for the report of an analysis, before its transaction.
FailurePc(j) == IF Type[j] = "analysis.run" THEN "failing" ELSE "unreported"

\* The body throws, or completeJob does.  Only an analysis waits for model
\* capacity.
Throw(r, error) ==
  /\ r.pc \in {"executing", "collecting", "completing"}
  /\ error = "capacity" => Type[r.job] = "analysis.run" /\ r.pc = "executing"
  /\ error = "fatal" => r.pc # "completing"
  /\ runs' = (runs \ {r}) \cup {[r EXCEPT !.pc = FailurePc(r.job), !.error = error]}
  /\ UNCHANGED <<jobs, attempts, commits, draining, retrying, retries, deletion>>

\* A fence throws job_lease_lost and the run ends without a trace.
LoseLease(r) ==
  /\ r.pc = "executing" => Fenced(r.job)
  /\ r.pc # "failing"
  /\ ~LeaseHeld(r)
  /\ Leave(r)
  /\ UNCHANGED <<jobs, attempts, commits, draining, retrying, retries, deletion>>

CompleteJob(r) ==
  /\ r.pc = "completing"
  /\ LeaseHeld(r)
  /\ EndAttempt(r, "completed")
  /\ jobs' = [jobs EXCEPT ![r.job] = Released(@, "completed")]
  /\ Leave(r)
  /\ UNCHANGED <<commits, draining, retrying, retries, deletion>>

LookForReport(r) ==
  /\ r.pc = "failing"
  /\ GoTo(r, IF Published(r.job) THEN "reported" ELSE "unreported")
  /\ UNCHANGED <<jobs, attempts, commits, draining, retrying, retries, deletion>>

\* The failure came after the report.
CompleteOnFailure(r) ==
  /\ r.pc = "reported"
  /\ LeaseHeld(r)
  /\ EndAttempt(r, "completed")
  /\ jobs' = [jobs EXCEPT ![r.job] = Released(@, "completed")]
  /\ Leave(r)
  /\ UNCHANGED <<commits, draining, retrying, retries, deletion>>

\* Waiting for model capacity gives the attempt back.
DeferJob(r) ==
  /\ r.pc = "unreported"
  /\ r.error = "capacity"
  /\ LeaseHeld(r)
  /\ jobs[r.job].deferCount < DeferLimit
  /\ EndAttempt(r, "retry")
  /\ jobs' = [jobs EXCEPT ![r.job] =
       [Released(@, "queued") EXCEPT
          !.due = FALSE,
          !.deferCount = jobs[r.job].deferCount + 1,
          !.maxAttempts = jobs[r.job].maxAttempts + 1]]
  /\ Leave(r)
  /\ UNCHANGED <<commits, draining, retrying, retries, deletion>>

\* One attempt too many (a fault).
TerminalLate(r) == r.attempt > r.maxAttempts \/ r.error = "fatal"

Terminal(r) == r.attempt >= r.maxAttempts \/ r.error = "fatal"

\* A capacity error comes here too: its deferrals may be used up, or the job
\* may be older than a day.
RecordJobFailure(r) ==
  /\ r.pc = "unreported"
  /\ LeaseHeld(r)
  /\ EndAttempt(r, IF Terminal(r) THEN "failed" ELSE "retry")
  /\ jobs' = [jobs EXCEPT ![r.job] =
       [Released(@, IF Terminal(r) THEN "failed" ELSE "queued") EXCEPT !.due = FALSE]]
  /\ Leave(r)
  /\ UNCHANGED <<commits, draining, retrying, retries, deletion>>

\* failJob itself fails: the run ends and the row waits for its lease.
Abandon(r) ==
  /\ r.pc \in {"failing", "reported", "unreported"}
  /\ Leave(r)
  /\ UNCHANGED <<jobs, attempts, commits, draining, retrying, retries, deletion>>

-----------------------------------------------------------------------------
(* Recovery of expired leases, by any worker *)

\* A recovery that does not look for the report (a fault).
RecoveredStateBlind(j) ==
  IF jobs[j].recoveryCount < RecoveryLimit THEN "queued" ELSE "failed"

\* A recovery too many (a fault).
RecoveredStateLate(j) ==
  IF Published(j) THEN "completed"
  ELSE IF jobs[j].recoveryCount <= RecoveryLimit THEN "queued" ELSE "failed"

RecoveredState(j) ==
  IF Published(j) THEN "completed"
  ELSE IF jobs[j].recoveryCount < RecoveryLimit THEN "queued" ELSE "failed"

\* A recovery that grants nothing (a fault).
RecoveredMaxAttemptsKept(j) == jobs[j].maxAttempts

\* max_attempts after a recovery: a requeued job can always be claimed.
RecoveredMaxAttempts(j) ==
  IF RecoveredState(j) = "queued" /\ jobs[j].maxAttempts <= jobs[j].attemptCount
  THEN jobs[j].attemptCount + 1
  ELSE jobs[j].maxAttempts

\* A recovery that is not counted (a fault).
RecoveredCountKept(j) == jobs[j].recoveryCount

RecoveredCount(j) ==
  IF RecoveredState(j) = "queued" THEN jobs[j].recoveryCount + 1
                                  ELSE jobs[j].recoveryCount

Recover(j) ==
  /\ jobs[j].state = "running"
  /\ jobs[j].lease = 0
  /\ EndOpenAttempts(j, IF RecoveredState(j) = "completed" THEN "completed"
                                                           ELSE "interrupted")
  /\ jobs' = [jobs EXCEPT ![j] =
       [Released(@, RecoveredState(j)) EXCEPT
          !.due = TRUE,
          !.recoveryCount = RecoveredCount(j),
          !.maxAttempts = RecoveredMaxAttempts(j)]]
  /\ UNCHANGED <<commits, runs, draining, retrying, retries, deletion>>

-----------------------------------------------------------------------------
(* Stopping and crashing *)

BeginDrain(w) ==
  /\ w \notin draining
  /\ draining' = draining \cup {w}
  /\ UNCHANGED <<jobs, attempts, commits, runs, retrying, retries, deletion>>

\* An analysis of a stopping worker expires its own lease and returns.
ReturnOnDrain(r) ==
  LET row == jobs[r.job]
  IN /\ r.executor \in draining
     /\ r.pc = "executing"
     /\ Type[r.job] = "analysis.run"
     /\ IF row.state = "running" /\ row.owner = r.executor /\ row.attemptCount = r.attempt
        THEN jobs' = [jobs EXCEPT ![r.job].lease = 0]
        ELSE UNCHANGED jobs
     /\ Leave(r)
     /\ UNCHANGED <<attempts, commits, draining, retrying, retries, deletion>>

\* The drained process ends; its replacement takes its place.
Restart(w) ==
  /\ w \in draining
  /\ RunsOf(w) = {}
  /\ draining' = draining \ {w}
  /\ UNCHANGED <<jobs, attempts, commits, runs, retrying, retries, deletion>>

Crash(w) ==
  /\ RunsOf(w) # {}
  /\ runs' = runs \ RunsOf(w)
  /\ draining' = draining \ {w}
  /\ UNCHANGED <<jobs, attempts, commits, retrying, retries, deletion>>

-----------------------------------------------------------------------------
\* The next step of a run, other than a heartbeat.
RunStep(r) ==
  \/ Collect(r)
  \/ CommitBody(r)
  \/ SkipBody(r)
  \/ FinishPublication(r)
  \/ \E error \in Errors : Throw(r, error)
  \/ LoseLease(r)
  \/ CompleteJob(r)
  \/ LookForReport(r)
  \/ CompleteOnFailure(r)
  \/ DeferJob(r)
  \/ RecordJobFailure(r)
  \/ Abandon(r)
  \/ ReturnOnDrain(r)

JobStep(j) ==
  \/ Elapse(j)
  \/ BecomeDue(j)
  \/ Enqueue(j)
  \/ AuthorizeRetry(j)
  \/ ApplyRetry(j)
  \/ Recover(j)

WorkerStep(w) ==
  \/ \E j \in Jobs : Claim(w, j)
  \/ BeginDrain(w)
  \/ Restart(w)
  \/ Crash(w)

Next ==
  \/ \E j \in Jobs : JobStep(j)
  \/ \E w \in Executors : WorkerStep(w)
  \/ \E r \in runs : RunStep(r) \/ Heartbeat(r)
  \/ ListJobs \/ DeleteRepository \/ RollBackDeletion

Spec == Init /\ [][Next]_vars

\* What a job can be granted in all: its first attempts, one per deferral, one
\* per recovery and, for each history retry, a new grant and new recoveries.
AttemptLimit(j) ==
  InitialMaxAttempts(j) + DeferLimit + RecoveryLimit
    + MaxRetries * (RetryGrant + RecoveryLimit)

\* Leases run out and jobs become due as time passes.  Every worker looks for
\* expired leases each 10 seconds and for work each 500 milliseconds as long as
\* it is up: a stop may interrupt that, hence strong fairness of the claims.
\* A run ends: every wait of a body has a timeout.
Fairness ==
  /\ \A j \in Jobs : /\ WF_vars(Elapse(j))
                     /\ WF_vars(BecomeDue(j))
                     /\ WF_vars(Recover(j))
                     /\ SF_vars(\E w \in Executors : Claim(w, j))
  /\ \A w \in Executors : WF_vars(Restart(w))
  /\ \A j \in Jobs : \A n \in 1..AttemptLimit(j) :
       WF_vars(\E r \in runs : r.job = j /\ r.attempt = n /\ RunStep(r))

FairSpec == Spec /\ Fairness

-----------------------------------------------------------------------------
(* Safety *)

\* A running job has exactly one open attempt, its last; any other job has
\* none.  The two tables are written by different statements of claimJob,
\* completeJob, failJob, deferModelJob and recoverExpiredJobs.
OneOpenAttempt ==
  \A j \in Jobs :
    /\ Len(attempts[j]) = jobs[j].attemptCount
    /\ {n \in DOMAIN attempts[j] : attempts[j][n].outcome = "open"}
         = IF jobs[j].state = "running" THEN {jobs[j].attemptCount} ELSE {}

\* A queued job can be claimed once it is due: no failure, deferral, recovery
\* or retry leaves a job queued with its attempts used up, where claimJob would
\* never look at it again.
NoStrandedJob ==
  \A j \in Jobs : jobs[j].state = "queued" =>
    jobs[j].attemptCount < jobs[j].maxAttempts

\* Deferrals, recoveries and retries each add a bounded number of attempts:
\* max_attempts cannot grow by any other way, and no job runs for ever.
AttemptBudget ==
  \A j \in Jobs :
    /\ Len(attempts[j]) <= jobs[j].maxAttempts
    /\ jobs[j].maxAttempts <=
         InitialMaxAttempts(j) + jobs[j].deferCount + jobs[j].recoveryCount
           + retries[j] * (RetryGrant + RecoveryLimit)

\* An analysis publishes one report and a history item is completed once, over
\* all attempts, crashes, recoveries and stale workers.  Nothing but the fence
\* sees to that for a collection: it looks at its item only when it begins.
CommitOnce ==
  \A j \in Jobs : Type[j] \in {"analysis.run", "history.collect"} =>
    Cardinality(commits[j]) <= 1

\* A completed job has done what it is for; the retry of a crash between the
\* body and completeJob, and the completion by recovery, do not lose it.
CompletedIsDone ==
  \A j \in Jobs : jobs[j].state = "completed" /\ Fenced(j) => commits[j] # {}

\* An analysis that published its report is never given up, retried or
\* cancelled: its job is running or completed, whatever fails afterwards.
PublishedIsKept ==
  \A j \in Jobs : Published(j) => jobs[j].state \in {"running", "completed"}

\* A deletion is done with every job it saw active, whether the job was claimed,
\* recovered, put off or ended between the query, the locks and the update: none
\* of them waits or runs when the repository is gone, where it would publish for
\* it.  Not for ever: a retry authorized before may reopen a history collection.
\* Jobs it could not see are not cancelled.
SeenAreEnded ==
  deleted => \A j \in deletion.seen : Type[j] # "history.collect" => ~Active(j)

-----------------------------------------------------------------------------
(* Action properties *)

\* A result is committed only by the last attempt of a running job, while its
\* lease is alive and its attempt open: a worker that lost its lease, even to a
\* later run in its own process, commits nothing.
OnlyHolderCommits ==
  [][\A j \in Jobs : commits'[j] # commits[j] =>
       /\ commits'[j] = commits[j] \cup {jobs[j].attemptCount}
       /\ jobs[j].state = "running" /\ jobs[j].lease > 0
       /\ attempts[j][jobs[j].attemptCount].outcome = "open"]_vars

\* The end of an attempt is written once, a completed job stays completed, and
\* a failed one is reopened by a history retry only.
Endings ==
  \A j \in Jobs :
    /\ \A n \in DOMAIN attempts[j] :
         attempts[j][n].outcome # "open" => attempts'[j][n] = attempts[j][n]
    /\ jobs[j].state = "completed" => jobs'[j].state = "completed"
    /\ jobs[j].state = "failed" /\ Type[j] # "history.collect"
         => jobs'[j].state = "failed"

\* Late failures, recoveries and stale workers rewrite no end.
EndingsAreFinal == [][Endings]_vars

-----------------------------------------------------------------------------
(* Refinement *)

JobsOfTypes(types) == {j \in Jobs : Type[j] \in types}

phases == [j \in Jobs |-> jobs[j].state]

tokens == [j \in Jobs |-> jobs[j].attemptCount]

Lease == INSTANCE JobLease WITH
  Results <- {j \in Jobs : Fenced(j)},
  OneShot <- JobsOfTypes({"analysis.run", "history.collect"}),
  Kept <- JobsOfTypes({"analysis.run"}),
  Reopenable <- JobsOfTypes({"history.collect"}),
  phase <- phases,
  token <- tokens,
  committed <- commits

\* The queue with its stale runs, crashes and recoveries behaves as jobs granted
\* under increasing tokens and committed only under the token that is held.
ImplementsJobLease == Lease!Spec

-----------------------------------------------------------------------------
(* Liveness *)

\* Every job ends: crashes, lost leases, drains, deferrals and failures delay
\* it no more often than its budgets allow.
EveryJobEnds ==
  \A j \in Jobs :
    jobs[j].state \in {"queued", "running"} ~> jobs[j].state \in {"completed", "failed"}

=============================================================================

--------------------------- MODULE PipelineLease ---------------------------
(***************************************************************************)
(* The jobs of the review pipeline against the promise of the queue: the   *)
(* bodies of ReviewPipeline, which run again after a commit and go on      *)
(* after they lost their job, and its reduced queue implement the same     *)
(* JobLease as JobQueue.  What an analysis job commits is its report.      *)
(***************************************************************************)
EXTENDS ReviewPipeline

VARIABLE committed  \* history: for each job, the attempts of the runs that wrote its report

leasePipelineVars == <<vars, committed>>

\* A snapshot job is known by its operation, an analysis job by its analysis.
ReportJobs == {"analysis"} \X (1..MaxAnalyses)
LeaseJobs == ReportJobs \cup {"snapshot"} \X (1..MaxOperations)

LeaseJob(job) ==
  IF job.analysis = None THEN <<"snapshot", job.operation>> ELSE <<"analysis", job.analysis>>

\* The run that moves on while its analysis gets a report.
Publishes(r) ==
  LET a == jobs[r.job].analysis IN
  /\ a # None
  /\ ~analyses[a].report /\ analyses'[a].report
  /\ r \notin runs'

LeaseInit == Init /\ committed = [id \in LeaseJobs |-> {}]

\* The attempts that write the report of job id in this step.
Published(id) == {r.attempt : r \in {s \in runs : LeaseJob(jobs[s.job]) = id /\ Publishes(s)}}

Recording == committed' = [id \in LeaseJobs |-> committed[id] \cup Published(id)]

LeaseNext == Next /\ Recording

LeaseSpec == LeaseInit /\ [][LeaseNext]_leasePipelineVars

-----------------------------------------------------------------------------
(* Refinement of JobLease *)

NoJob == [state |-> "absent", attempt |-> 0]

\* The row of a job among some rows.
LeaseRow(rows, id) ==
  IF \E j \in DOMAIN rows : LeaseJob(rows[j]) = id
  THEN rows[CHOOSE j \in DOMAIN rows : LeaseJob(rows[j]) = id]
  ELSE NoJob

Phase == [id \in LeaseJobs |-> LeaseRow(jobs, id).state]
Token == [id \in LeaseJobs |-> LeaseRow(jobs, id).attempt]

Lease == INSTANCE JobLease WITH
  Jobs <- LeaseJobs,
  Results <- ReportJobs,
  OneShot <- ReportJobs,
  Kept <- ReportJobs,
  Reopenable <- {},
  phase <- Phase,
  token <- Token

\* However often the bodies run, stop half way or go on without their job, a
\* report is written once, by the run that holds its job, and a job whose
\* report is there is never given up; jobs end once and are handed from the
\* snapshot to the analysis without a second holder.
ImplementsJobLease == Lease!Spec

=============================================================================

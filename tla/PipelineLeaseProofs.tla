------------------------ MODULE PipelineLeaseProofs ------------------------
(***************************************************************************)
(* For any heads, users, limits and bounds, the jobs of the pipeline are   *)
(* the jobs of JobLease.  LInv adds to the invariant of the pipeline that  *)
(* a job has one row, and that a report is there exactly when an attempt   *)
(* was recorded for it.                                                    *)
(***************************************************************************)
EXTENDS PipelineLease, ReviewPipelineProofs

\* No two rows are about the same job.
Distinct(rows) == \A i, j \in DOMAIN rows : LeaseJob(rows[i]) = LeaseJob(rows[j]) => i = j

RecordedInv ==
  /\ committed \in [LeaseJobs -> SUBSET Nat]
  /\ \A a \in 1..MaxAnalyses :
       committed[<<"analysis", a>>] # {} <=> a \in DOMAIN analyses /\ analyses[a].report

LInv == Inv /\ Distinct(jobs) /\ RecordedInv

-----------------------------------------------------------------------------
(* Rows *)

LEMMA RowOf == ASSUME NEW S, NEW rows \in Seq(S), NEW n \in DOMAIN rows PROVE rows[n] \in S
  OBVIOUS

LEMMA RowFound ==
  ASSUME NEW rows, Distinct(rows), NEW j \in DOMAIN rows
  PROVE  LeaseRow(rows, LeaseJob(rows[j])) = rows[j]
<1> DEFINE id == LeaseJob(rows[j])
           k == CHOOSE i \in DOMAIN rows : LeaseJob(rows[i]) = id
<1>1. \E i \in DOMAIN rows : LeaseJob(rows[i]) = id
  OBVIOUS
<1>2. k \in DOMAIN rows /\ LeaseJob(rows[k]) = id
  BY <1>1
<1>3. k = j
  BY <1>2 DEF Distinct
<1>4. LeaseRow(rows, id) = rows[k]
  BY <1>1 DEF LeaseRow
<1> QED
  BY <1>3, <1>4

LEMMA RowAbsent ==
  ASSUME NEW rows, NEW id, \A j \in DOMAIN rows : LeaseJob(rows[j]) # id
  PROVE  LeaseRow(rows, id) = NoJob
  BY DEF LeaseRow

\* The jobs that a step leaves alone.
LEMMA RowKept ==
  ASSUME NEW rows, NEW next, Distinct(rows), Distinct(next), NEW id,
         \A j \in DOMAIN rows : j \in DOMAIN next /\ LeaseJob(next[j]) = LeaseJob(rows[j]),
         \A j \in DOMAIN next : LeaseJob(next[j]) = id => j \in DOMAIN rows /\ next[j] = rows[j]
  PROVE  LeaseRow(next, id) = LeaseRow(rows, id)
<1>1. CASE \E j \in DOMAIN next : LeaseJob(next[j]) = id
  <2>1. PICK j \in DOMAIN next : LeaseJob(next[j]) = id
    BY <1>1
  <2>2. j \in DOMAIN rows /\ next[j] = rows[j]
    BY <2>1
  <2>3. LeaseRow(next, LeaseJob(next[j])) = next[j] /\ LeaseRow(rows, LeaseJob(rows[j])) = rows[j]
    BY <2>1, <2>2, RowFound
  <2> QED
    BY <2>1, <2>2, <2>3
<1>2. CASE \A j \in DOMAIN next : LeaseJob(next[j]) # id
  <2>1. \A j \in DOMAIN rows : LeaseJob(rows[j]) # id
    BY <1>2
  <2> QED
    BY <1>2, <2>1, RowAbsent
<1> QED
  BY <1>1, <1>2

\* One row moves.
LEMMA RowMoved ==
  ASSUME NEW rows, NEW next, Distinct(rows), DOMAIN next = DOMAIN rows, NEW j \in DOMAIN rows,
         next[j].operation = rows[j].operation, next[j].analysis = rows[j].analysis,
         \A i \in DOMAIN rows : i # j => next[i] = rows[i]
  PROVE  /\ Distinct(next)
         /\ LeaseRow(next, LeaseJob(rows[j])) = next[j]
         /\ \A id : id # LeaseJob(rows[j]) => LeaseRow(next, id) = LeaseRow(rows, id)
<1>1. \A i \in DOMAIN rows : LeaseJob(next[i]) = LeaseJob(rows[i])
  BY DEF LeaseJob
<1>2. Distinct(next)
  BY <1>1 DEF Distinct
<1>3. LeaseRow(next, LeaseJob(rows[j])) = next[j]
  <2>1. LeaseRow(next, LeaseJob(next[j])) = next[j]
    BY <1>2, RowFound
  <2> QED
    BY <1>1, <2>1
<1>4. ASSUME NEW id, id # LeaseJob(rows[j]) PROVE LeaseRow(next, id) = LeaseRow(rows, id)
  <2>1. \A i \in DOMAIN next : LeaseJob(next[i]) = id => i \in DOMAIN rows /\ next[i] = rows[i]
    BY <1>1, <1>4
  <2> QED
    BY <1>1, <1>2, <2>1, RowKept
<1> QED
  BY <1>2, <1>3, <1>4

\* A row is added, of a job that had none.
LEMMA RowAdded ==
  ASSUME NEW rows, NEW next, Distinct(rows), NEW n, n \notin DOMAIN rows,
         DOMAIN next = DOMAIN rows \cup {n},
         \A i \in DOMAIN rows : next[i] = rows[i],
         \A i \in DOMAIN rows : LeaseJob(rows[i]) # LeaseJob(next[n])
  PROVE  /\ Distinct(next)
         /\ LeaseRow(rows, LeaseJob(next[n])) = NoJob
         /\ LeaseRow(next, LeaseJob(next[n])) = next[n]
         /\ \A id : id # LeaseJob(next[n]) => LeaseRow(next, id) = LeaseRow(rows, id)
<1>1. \A i \in DOMAIN rows : LeaseJob(next[i]) = LeaseJob(rows[i])
  OBVIOUS
<1>2. Distinct(next)
  BY <1>1 DEF Distinct
<1>3. LeaseRow(next, LeaseJob(next[n])) = next[n]
  BY <1>2, RowFound
<1>4. LeaseRow(rows, LeaseJob(next[n])) = NoJob
  BY RowAbsent
<1>5. ASSUME NEW id, id # LeaseJob(next[n]) PROVE LeaseRow(next, id) = LeaseRow(rows, id)
  <2>1. \A i \in DOMAIN next : LeaseJob(next[i]) = id => i \in DOMAIN rows /\ next[i] = rows[i]
    BY <1>5
  <2> QED
    BY <1>1, <1>2, <2>1, RowKept
<1> QED
  BY <1>2, <1>3, <1>4, <1>5

\* The jobs of the rows, and which of them have a report.
LEMMA Ids ==
  ASSUME TypeOK, NEW j \in DOMAIN jobs
  PROVE  /\ LeaseJob(jobs[j]) \in LeaseJobs
         /\ LeaseJob(jobs[j]) \in ReportJobs <=> jobs[j].analysis # None
         /\ jobs[j].analysis # None => /\ jobs[j].analysis \in 1..MaxAnalyses
                                       /\ LeaseJob(jobs[j]) = <<"analysis", jobs[j].analysis>>
<1>1. jobs[j] \in Job
  BY DEF TypeOK
<1>2. jobs[j].operation \in 1..MaxOperations /\ jobs[j].analysis \in 0..MaxAnalyses
  BY <1>1 DEF Job
<1>3. CASE jobs[j].analysis = None
  BY <1>2, <1>3 DEF LeaseJob, LeaseJobs, ReportJobs
<1>4. CASE jobs[j].analysis # None
  <2>1. jobs[j].analysis \in 1..MaxAnalyses
    BY <1>2, <1>4, BoundAssumption DEF None
  <2> QED
    BY <1>4, <2>1 DEF LeaseJob, LeaseJobs, ReportJobs
<1> QED
  BY <1>3, <1>4

-----------------------------------------------------------------------------
(* Steps of the rows *)

Stepped == Distinct(jobs') /\ RecordedInv' /\ (Lease!Next \/ UNCHANGED Lease!leaseVars)

\* A step after which the same analyses have a report records nothing.
LEMMA NothingRecorded ==
  ASSUME LInv, Recording,
         \A a \in DOMAIN analyses :
           a \in DOMAIN analyses' /\ (analyses'[a].report <=> analyses[a].report),
         \A a \in DOMAIN analyses' \ DOMAIN analyses : ~analyses'[a].report
  PROVE  committed' = committed /\ RecordedInv'
<1>1. \A r \in runs : ~Publishes(r)
  <2> SUFFICES ASSUME NEW r \in runs, Publishes(r) PROVE FALSE
    OBVIOUS
  <2>1. r.job \in DOMAIN jobs
    BY Rows DEF LInv, Run
  <2>2. jobs[r.job].analysis \in DOMAIN analyses
    BY <2>1, Rows DEF LInv, Publishes
  <2> QED
    BY <2>2 DEF Publishes
<1>2. \A id : Published(id) = {}
  BY <1>1 DEF Published
<1>3. committed \in [LeaseJobs -> SUBSET Nat]
  BY DEF LInv, RecordedInv
<1>4. committed' = committed
  BY <1>2, <1>3 DEF Recording
<1>5. \A a : a \in DOMAIN analyses' /\ analyses'[a].report
              <=> a \in DOMAIN analyses /\ analyses[a].report
  OBVIOUS
<1> QED
  BY <1>4, <1>5 DEF LInv, RecordedInv

\* Job j is in another row now.
LEMMA Moved ==
  ASSUME LInv, NEW j \in DOMAIN jobs, DOMAIN jobs' = DOMAIN jobs,
         jobs'[j].operation = jobs[j].operation, jobs'[j].analysis = jobs[j].analysis,
         \A i \in DOMAIN jobs : i # j => jobs'[i] = jobs[i],
         NEW id, id = LeaseJob(jobs[j])
  PROVE  /\ Distinct(jobs')
         /\ id \in LeaseJobs
         /\ Phase[id] = jobs[j].state /\ Token[id] = jobs[j].attempt
         /\ Phase' = [Phase EXCEPT ![id] = jobs'[j].state]
         /\ Token' = [Token EXCEPT ![id] = jobs'[j].attempt]
<1>1. id \in LeaseJobs
  BY Ids DEF LInv, Inv
<1>2. LeaseRow(jobs, id) = jobs[j]
  BY RowFound DEF LInv
<1>3. /\ Distinct(jobs')
      /\ LeaseRow(jobs', id) = jobs'[j]
      /\ \A k : k # id => LeaseRow(jobs', k) = LeaseRow(jobs, k)
  BY RowMoved DEF LInv
<1>4. /\ Phase' = [k \in LeaseJobs |-> LeaseRow(jobs', k).state]
      /\ Token' = [k \in LeaseJobs |-> LeaseRow(jobs', k).attempt]
  BY DEF Phase, Token
<1>5. /\ Phase = [k \in LeaseJobs |-> LeaseRow(jobs, k).state]
      /\ Token = [k \in LeaseJobs |-> LeaseRow(jobs, k).attempt]
  BY DEF Phase, Token
<1> QED
  BY <1>1, <1>2, <1>3, <1>4, <1>5

\* A row of a new job.
LEMMA Submitted ==
  ASSUME LInv, TypeOK', committed' = committed, RecordedInv',
         NEW n, n \notin DOMAIN jobs, DOMAIN jobs' = DOMAIN jobs \cup {n},
         \A i \in DOMAIN jobs : jobs'[i] = jobs[i],
         \A i \in DOMAIN jobs : LeaseJob(jobs[i]) # LeaseJob(jobs'[n]),
         jobs'[n].state = "queued", jobs'[n].attempt = 0,
         LeaseJob(jobs'[n]) \in LeaseJobs
  PROVE  Stepped
<1>1. PICK id \in LeaseJobs : id = LeaseJob(jobs'[n])
  OBVIOUS
<1>2. /\ Distinct(jobs') /\ LeaseRow(jobs, id) = NoJob /\ LeaseRow(jobs', id) = jobs'[n]
      /\ \A k : k # id => LeaseRow(jobs', k) = LeaseRow(jobs, k)
  BY <1>1, RowAdded DEF LInv
<1>3. /\ Phase' = [k \in LeaseJobs |-> LeaseRow(jobs', k).state]
      /\ Token' = [k \in LeaseJobs |-> LeaseRow(jobs', k).attempt]
  BY DEF Phase, Token
<1>4. /\ Phase = [k \in LeaseJobs |-> LeaseRow(jobs, k).state]
      /\ Token = [k \in LeaseJobs |-> LeaseRow(jobs, k).attempt]
  BY DEF Phase, Token
<1>5. Phase[id] = "absent" /\ Token[id] = 0
  BY <1>1, <1>2, <1>4 DEF NoJob
<1>6. Phase' = [Phase EXCEPT ![id] = "queued"]
  BY <1>1, <1>2, <1>3, <1>4
<1>7. Token' = Token
  BY <1>1, <1>2, <1>3, <1>4, <1>5
<1>8. Lease!Submit(id)
  BY <1>5, <1>6, <1>7 DEF Lease!Submit, Lease!Move
<1>9. Lease!Next
  BY <1>1, <1>8 DEF Lease!Next
<1> QED
  BY <1>2, <1>9 DEF Stepped

\* A step that changes no job.
LEMMA Unmoved ==
  ASSUME LInv, UNCHANGED <<jobs, committed>>, RecordedInv'
  PROVE  Stepped
<1>1. Phase' = Phase /\ Token' = Token
  BY DEF Phase, Token
<1> QED
  BY <1>1 DEF Stepped, LInv, Lease!leaseVars

\* A running job goes back, is given up or ends.
LEMMA Put ==
  ASSUME LInv, NEW j \in DOMAIN jobs, NEW to, JobTo(j, to), jobs[j].state = "running",
         committed' = committed, RecordedInv',
         \/ to = "completed" /\ (jobs[j].analysis # None => Reported(jobs[j].analysis))
         \/ to \in {"queued", "failed"} /\ ~Reported(jobs[j].analysis)
  PROVE  Stepped
<1>1. PICK id : id = LeaseJob(jobs[j])
  OBVIOUS
<1>2. /\ DOMAIN jobs' = DOMAIN jobs
      /\ jobs'[j].operation = jobs[j].operation /\ jobs'[j].analysis = jobs[j].analysis
      /\ jobs'[j].attempt = jobs[j].attempt /\ jobs'[j].state = to
      /\ \A i \in DOMAIN jobs : i # j => jobs'[i] = jobs[i]
  BY DEF JobTo
<1>3. /\ Distinct(jobs') /\ id \in LeaseJobs
      /\ Phase[id] = "running" /\ Token[id] = jobs[j].attempt
      /\ Phase' = [Phase EXCEPT ![id] = to]
      /\ Token' = [Token EXCEPT ![id] = jobs[j].attempt]
  BY <1>1, <1>2, Moved
<1>4. Token' = Token
  <2>1. Token = [k \in LeaseJobs |-> LeaseRow(jobs, k).attempt]
    BY DEF Token
  <2> QED
    BY <1>3, <2>1
<1>5. id \in ReportJobs => (committed[id] # {} <=> Reported(jobs[j].analysis))
  <2> SUFFICES ASSUME id \in ReportJobs PROVE committed[id] # {} <=> Reported(jobs[j].analysis)
    OBVIOUS
  <2>1. jobs[j].analysis \in 1..MaxAnalyses /\ id = <<"analysis", jobs[j].analysis>>
    BY <1>1, Ids DEF LInv, Inv
  <2>2. jobs[j].analysis # None /\ jobs[j].analysis \in DOMAIN analyses
    BY <1>1, Ids, Rows DEF LInv, Inv
  <2> QED
    BY <2>1, <2>2 DEF LInv, RecordedInv, Reported
<1>6. CASE to = "completed" /\ (jobs[j].analysis # None => Reported(jobs[j].analysis))
  <2>1. id \in ReportJobs => jobs[j].analysis # None
    BY <1>1, Ids DEF LInv, Inv
  <2>2. Lease!Complete(id)
    BY <1>3, <1>4, <1>5, <1>6, <2>1 DEF Lease!Complete, Lease!Move
  <2> QED
    BY <1>3, <2>2 DEF Stepped, Lease!Next
<1>7. CASE to \in {"queued", "failed"} /\ ~Reported(jobs[j].analysis)
  <2>1. Lease!Release(id)
    BY <1>3, <1>4, <1>5, <1>7 DEF Lease!Release, Lease!Move
  <2> QED
    BY <1>3, <2>1 DEF Stepped, Lease!Next
<1> QED
  BY <1>6, <1>7

-----------------------------------------------------------------------------
(* The steps of the pipeline *)

LEMMA ClaimStep == ASSUME LInv, NEW j \in DOMAIN jobs, Claim(j), Recording PROVE Stepped
<1>1. PICK job : job = [jobs[j] EXCEPT !.state = "running", !.attempt = jobs[j].attempt + 1]
  OBVIOUS
<1>2. jobs \in Seq(Job) /\ jobs[j] \in Job /\ UNCHANGED analyses /\ jobs[j].state = "queued"
  BY DEF LInv, Inv, TypeOK, Claim
<1>3. /\ job.operation = jobs[j].operation /\ job.analysis = jobs[j].analysis
      /\ job.attempt = jobs[j].attempt + 1 /\ job.state = "running"
  BY <1>1, <1>2 DEF Job
<1>4. jobs' = [jobs EXCEPT ![j] = job]
  <2>1. jobs' = [jobs EXCEPT ![j] = [jobs[j] EXCEPT !.state = "running", !.attempt = jobs[j].attempt + 1]]
    BY DEF Claim
  <2> QED
    BY <1>1, <2>1
<1>5. /\ DOMAIN jobs' = DOMAIN jobs /\ jobs'[j] = job
      /\ \A i \in DOMAIN jobs : i # j => jobs'[i] = jobs[i]
  BY <1>2, <1>4
<1>6. committed' = committed /\ RecordedInv'
  BY <1>2, NothingRecorded
<1>7. PICK id : id = LeaseJob(jobs[j])
  OBVIOUS
<1>8. /\ Distinct(jobs') /\ id \in LeaseJobs
      /\ Phase[id] = "queued" /\ Token[id] = jobs[j].attempt
      /\ Phase' = [Phase EXCEPT ![id] = "running"]
      /\ Token' = [Token EXCEPT ![id] = jobs[j].attempt + 1]
  BY <1>2, <1>3, <1>5, <1>7, Moved
<1>9. Token' = [Token EXCEPT ![id] = @ + 1]
  <2>1. Token = [k \in LeaseJobs |-> LeaseRow(jobs, k).attempt]
    BY DEF Token
  <2> QED
    BY <1>8, <2>1
<1>10. Lease!Grant(id)
  BY <1>6, <1>8, <1>9 DEF Lease!Grant, Lease!Move
<1> QED
  BY <1>6, <1>8, <1>10 DEF Stepped, Lease!Next

\* What becomes of analyses when a job is given up.
LEMMA GivenUpReports ==
  ASSUME LInv, NEW j \in DOMAIN jobs, analyses' = GivenUp(j)
  PROVE  /\ DOMAIN analyses' = DOMAIN analyses
         /\ \A a \in DOMAIN analyses : analyses'[a].report = analyses[a].report
<1>1. CASE jobs[j].analysis = None
  BY <1>1 DEF GivenUp
<1>2. CASE jobs[j].analysis # None
  <2>1. PICK a \in DOMAIN analyses : a = jobs[j].analysis
    BY <1>2, Rows DEF LInv
  <2>2. AnalysisTo(a, "failed", analyses[a].report)
    BY <1>2, <2>1, AnalysisToState DEF GivenUp, LInv, Inv, AnalysisStates
  <2> QED
    BY <2>2 DEF AnalysisTo
<1> QED
  BY <1>1, <1>2

LEMMA RecoverStep == ASSUME LInv, NEW j \in DOMAIN jobs, Recover(j), Recording PROVE Stepped
<1>1. jobs[j].state = "running" /\ TypeOK
  BY DEF Recover, LInv, Inv
<1>2. CASE Reported(jobs[j].analysis)
  <2>1. jobs' = [jobs EXCEPT ![j].state = "completed"] /\ UNCHANGED analyses
    BY <1>2 DEF Recover
  <2>2. JobTo(j, "completed")
    BY <1>1, <2>1, JobToState DEF JobStates
  <2>3. committed' = committed /\ RecordedInv'
    BY <2>1, NothingRecorded
  <2> HIDE <2>1
  <2> QED
    BY <1>1, <1>2, <2>2, <2>3, Put
<1>3. CASE ~Reported(jobs[j].analysis) /\ Recoverable(j)
  <2>1. /\ jobs' = [jobs EXCEPT ![j].state = "queued", ![j].recoveries = @ + 1]
        /\ UNCHANGED analyses
    BY <1>3, Zenon DEF Recover
  <2>2. JobTo(j, "queued")
    BY <1>1, <1>3, <2>1, JobToRecovered, Zenon
  <2>3. UNCHANGED analyses
    BY <2>1
  <2> HIDE <2>1
  <2>4. committed' = committed /\ RecordedInv'
    BY <2>3, NothingRecorded
  <2> QED
    BY <1>1, <1>3, <2>2, <2>4, Put
<1>4. CASE ~Reported(jobs[j].analysis) /\ ~Recoverable(j)
  <2>1. jobs' = [jobs EXCEPT ![j].state = "failed"] /\ analyses' = GivenUp(j)
    BY <1>4 DEF Recover
  <2>2. JobTo(j, "failed")
    BY <1>1, <2>1, JobToState DEF JobStates
  <2>3. committed' = committed /\ RecordedInv'
    BY <2>1, GivenUpReports, NothingRecorded
  <2> HIDE <2>1
  <2> QED
    BY <1>1, <1>4, <2>2, <2>3, Put
<1> QED
  BY <1>2, <1>3, <1>4

LEMMA FailStep ==
  ASSUME LInv, NEW r \in runs, NEW terminal \in BOOLEAN, FailJob(r, terminal), Recording
  PROVE  Stepped
<1>1. PICK j \in DOMAIN jobs : j = r.job
  BY Rows DEF LInv, Run
<1>2. jobs[j].state = "running" /\ ~Reported(jobs[j].analysis) /\ TypeOK
  BY <1>1 DEF FailJob, Fenced, LInv, Inv, RunsInv, Looked
<1>3. CASE terminal
  <2>1. jobs' = [jobs EXCEPT ![j].state = "failed"] /\ analyses' = GivenUp(j)
    BY <1>1, <1>3 DEF FailJob
  <2>2. JobTo(j, "failed")
    BY <1>2, <2>1, JobToState DEF JobStates
  <2>3. committed' = committed /\ RecordedInv'
    BY <2>1, GivenUpReports, NothingRecorded
  <2> HIDE <2>1
  <2> QED
    BY <1>2, <2>2, <2>3, Put
<1>4. CASE ~terminal
  <2>1. jobs' = [jobs EXCEPT ![j].state = "queued"] /\ UNCHANGED analyses
    BY <1>1, <1>4 DEF FailJob
  <2>2. JobTo(j, "queued")
    BY <1>2, <2>1, JobToState DEF JobStates
  <2>3. committed' = committed /\ RecordedInv'
    BY <2>1, NothingRecorded
  <2> HIDE <2>1
  <2> QED
    BY <1>2, <2>2, <2>3, Put
<1> QED
  BY <1>3, <1>4

LEMMA CompleteStep ==
  ASSUME LInv, NEW r \in runs, CompleteJob(r) \/ FailReported(r), Recording
  PROVE  Stepped
<1>1. PICK j \in DOMAIN jobs : j = r.job
  BY Rows DEF LInv, Run
<1>2. jobs[j].state = "running" /\ TypeOK
  BY <1>1 DEF CompleteJob, FailReported, Fenced, LInv, Inv
<1>3. jobs[j].analysis # None => Reported(jobs[j].analysis)
  BY <1>1 DEF CompleteJob, FailReported, LInv, Inv, RunsInv, Materializes, Looked
<1>4. jobs' = [jobs EXCEPT ![j].state = "completed"] /\ UNCHANGED analyses
  BY <1>1 DEF CompleteJob, FailReported
<1>5. JobTo(j, "completed")
  BY <1>2, <1>4, JobToState DEF JobStates
<1>6. committed' = committed /\ RecordedInv'
  BY <1>4, NothingRecorded
<1> HIDE <1>4
<1> QED
  BY <1>2, <1>3, <1>5, <1>6, Put

\* Steps that change neither jobs nor analyses.
LEMMA AsideStep == ASSUME LInv, UNCHANGED <<jobs, analyses>>, Recording PROVE Stepped
<1>1. committed' = committed /\ RecordedInv'
  BY NothingRecorded
<1> QED
  BY <1>1, Unmoved

LEMMA StartStep == ASSUME LInv, NEW r \in runs, StartAnalysis(r), Recording PROVE Stepped
<1>1. PICK a \in DOMAIN analyses : a = jobs[r.job].analysis
  BY Rows DEF LInv, Run, StartAnalysis, Materializes
<1>2. UNCHANGED jobs /\ (UNCHANGED analyses \/ analyses' = [analyses EXCEPT ![a].state = "analyzing"])
  BY <1>1 DEF StartAnalysis, Opened
<1>3. /\ DOMAIN analyses' = DOMAIN analyses
      /\ \A b \in DOMAIN analyses : analyses'[b].report = analyses[b].report
  <2>1. CASE analyses' = [analyses EXCEPT ![a].state = "analyzing"]
    <3>1. AnalysisTo(a, "analyzing", analyses[a].report)
      BY <2>1, AnalysisToState DEF LInv, Inv, AnalysisStates
    <3> QED
      BY <3>1 DEF AnalysisTo
  <2> QED
    BY <1>2, <2>1
<1>4. committed' = committed /\ RecordedInv'
  BY <1>3, NothingRecorded
<1> QED
  BY <1>2, <1>4, Unmoved

\* The report is written under the attempt that holds the job, and only once.
LEMMA PersistAnalysisStep ==
  ASSUME LInv, NEW r \in runs, NEW state \in {"completed", "partial"},
         PersistAnalysis(r, state), Recording
  PROVE  Stepped
<1>1. PICK j \in DOMAIN jobs : j = r.job /\ r \in Run /\ runs \subseteq Run
  BY Rows DEF LInv, Run
<1>2. PICK a \in DOMAIN analyses : a = jobs[j].analysis /\ a # None
  BY <1>1, Rows DEF LInv, PersistAnalysis, Materializes
<1>3. UNCHANGED jobs /\ GoTo(r, "returned") /\ r.pc = "working" /\ Fenced(r)
  BY DEF PersistAnalysis
<1>4. CASE Reported(a)
  BY <1>1, <1>2, <1>3, <1>4, AsideStep DEF PersistAnalysis
<1>5. CASE ~Reported(a)
  <2>1. /\ DOMAIN analyses' = DOMAIN analyses /\ analyses'[a].report /\ ~analyses[a].report
        /\ \A b \in DOMAIN analyses : b # a => analyses'[b] = analyses[b]
    <3>1. analyses' = [analyses EXCEPT ![a].state = state, ![a].report = TRUE]
      BY <1>1, <1>2, <1>5, Zenon DEF PersistAnalysis
    <3>2. AnalysisTo(a, state, TRUE)
      BY <3>1, AnalysisToReport, Zenon DEF LInv, Inv, AnalysisStates
    <3>3. ~analyses[a].report
      BY <1>2, <1>5 DEF Reported
    <3> HIDE <3>1
    <3> QED
      BY <3>2, <3>3 DEF AnalysisTo
  <2>2. PICK id : id = LeaseJob(jobs[j])
    OBVIOUS
  <2>3. /\ id \in LeaseJobs /\ id \in ReportJobs /\ a \in 1..MaxAnalyses
        /\ id = <<"analysis", a>>
    BY <1>2, <2>2, Ids DEF LInv, Inv
  <2>4. r \notin runs' /\ \A s \in runs : s # r => s \in runs'
    <3>1. PICK x : x = [r EXCEPT !.pc = "returned"]
      OBVIOUS
    <3>2. x # r
      BY <1>1, <1>3, <3>1 DEF Run
    <3>3. runs' = (runs \ {r}) \cup {x}
      BY <1>3, <3>1 DEF GoTo
    <3> QED
      BY <3>2, <3>3
  <2>5. \A s \in runs : Publishes(s) <=> s = r
    BY <1>1, <1>2, <2>1, <2>4 DEF Publishes
  <2>6. \A k : Published(k) = IF k = id THEN {r.attempt} ELSE {}
    BY <1>1, <2>2, <2>5 DEF Published
  <2>7. committed \in [LeaseJobs -> SUBSET Nat] /\ committed[id] = {}
    BY <2>1, <2>3 DEF LInv, RecordedInv
  <2>8. committed' = [committed EXCEPT ![id] = @ \cup {r.attempt}]
    BY <2>3, <2>6, <2>7 DEF Recording
  <2>9. r.attempt \in Nat /\ r.attempt = jobs[j].attempt /\ jobs[j].state = "running"
    BY <1>1, <1>3, BoundAssumption DEF Run, Fenced
  <2>10. LeaseRow(jobs, id) = jobs[j]
    BY <2>2, RowFound DEF LInv
  <2>11. Phase[id] = "running" /\ Token[id] = r.attempt
    BY <2>3, <2>9, <2>10 DEF Phase, Token
  <2>12. Phase' = Phase /\ Token' = Token
    BY <1>3 DEF Phase, Token
  <2>13. Lease!Commit(id)
    BY <2>3, <2>7, <2>8, <2>11, <2>12 DEF Lease!Commit
  <2>14. RecordedInv'
    <3>1. committed' \in [LeaseJobs -> SUBSET Nat]
      BY <2>7, <2>8, <2>9
    <3>2. ASSUME NEW b \in 1..MaxAnalyses
          PROVE  committed'[<<"analysis", b>>] # {} <=> b \in DOMAIN analyses' /\ analyses'[b].report
      <4>1. <<"analysis", b>> \in LeaseJobs
        BY DEF LeaseJobs, ReportJobs
      <4>2. CASE b = a
        BY <2>1, <2>3, <2>7, <2>8, <4>2
      <4>3. CASE b # a
        <5>1. <<"analysis", b>> # id
          BY <2>3, <4>3
        <5>2. committed'[<<"analysis", b>>] = committed[<<"analysis", b>>]
          BY <2>7, <2>8, <4>1, <5>1
        <5>3. committed[<<"analysis", b>>] # {} <=> b \in DOMAIN analyses /\ analyses[b].report
          BY DEF LInv, RecordedInv
        <5> QED
          BY <2>1, <4>3, <5>2, <5>3
      <4> QED
        BY <4>2, <4>3
    <3> QED
      BY <3>1, <3>2 DEF RecordedInv
  <2> QED
    BY <1>3, <2>3, <2>13, <2>14 DEF Stepped, LInv, Lease!Next
<1> QED
  BY <1>4, <1>5

LEMMA PersistSnapshotStep ==
  ASSUME LInv, TypeOK', NEW r \in runs, PersistSnapshot(r), Recording
  PROVE  Stepped
<1>1. PICK o, a, n : o = jobs[r.job].operation /\ a = Len(analyses) + 1 /\ n = Len(jobs) + 1
  OBVIOUS
<1>2. PICK analysis : analysis =
        [head |-> operations[o].head, shared |-> operations[o].scope = Collective,
         state |-> "queued", report |-> FALSE, from |-> None]
  OBVIOUS
<1>3. PICK job : job = NewJob(o, a, FALSE)
  OBVIOUS
<1>4. /\ jobs' = Append(jobs, job) /\ analyses' = Append(analyses, analysis)
      /\ ~analysis.report
  BY <1>1, <1>2, <1>3 DEF PersistSnapshot
<1>5. job.analysis = a /\ job.state = "queued" /\ job.attempt = 0
  BY <1>3 DEF NewJob
<1>6. /\ DOMAIN analyses' = DOMAIN analyses \cup {a} /\ a \notin DOMAIN analyses
      /\ analyses'[a] = analysis
      /\ \A b \in DOMAIN analyses : analyses'[b] = analyses[b]
  BY <1>1, <1>4 DEF LInv, Inv, TypeOK
<1>7. /\ DOMAIN jobs' = DOMAIN jobs \cup {n} /\ n \notin DOMAIN jobs
      /\ jobs'[n] = job
      /\ \A j \in DOMAIN jobs : jobs'[j] = jobs[j]
  BY <1>1, <1>4 DEF LInv, Inv, TypeOK
<1>8. committed' = committed /\ RecordedInv'
  BY <1>4, <1>6, NothingRecorded
<1>9. a # None /\ LeaseJob(job) = <<"analysis", a>>
  BY <1>1, <1>5, Rows DEF LInv, None, LeaseJob
<1>10. \A i \in DOMAIN jobs : LeaseJob(jobs[i]) # LeaseJob(job)
  <2> SUFFICES ASSUME NEW i \in DOMAIN jobs, LeaseJob(jobs[i]) = LeaseJob(job) PROVE FALSE
    OBVIOUS
  <2>1. jobs[i].analysis # a
    BY <1>6, <1>9, Rows DEF LInv
  <2> QED
    BY <1>9, <2>1 DEF LeaseJob
<1>11. LeaseJob(job) \in LeaseJobs
  <2>1. job \in Job
    <3>1. jobs' \in Seq(Job) /\ n \in DOMAIN jobs'
      BY <1>7 DEF TypeOK
    <3> QED
      BY <1>7, <3>1, RowOf
  <2>2. a \in 1..MaxAnalyses
    BY <1>5, <1>9, <2>1, BoundAssumption DEF Job, None
  <2> QED
    BY <1>9, <2>2 DEF LeaseJobs, ReportJobs
<1> HIDE <1>4
<1> QED
  BY <1>5, <1>7, <1>8, <1>10, <1>11, Submitted

LEMMA ContinueStep ==
  ASSUME LInv, TypeOK', NEW b \in DOMAIN analyses, NEW state, NEW from,
         Continue(b, state, from), Recording
  PROVE  Stepped
<1>1. PICK o, a, n : o = Len(operations) + 1 /\ a = Len(analyses) + 1 /\ n = Len(jobs) + 1
  OBVIOUS
<1>2. PICK analysis : analysis = [analyses[b] EXCEPT !.state = "queued", !.report = FALSE, !.from = from]
  OBVIOUS
<1>3. PICK job : job = NewJob(o, a, FALSE)
  OBVIOUS
<1>4. jobs' = Append(jobs, job) /\ analyses' = Append(analyses, analysis)
  BY <1>1, <1>2, <1>3 DEF Continue
<1>5. ~analysis.report
  <2>1. analyses[b] \in Analysis
    BY DEF LInv, Inv, TypeOK
  <2> QED
    BY <1>2, <2>1 DEF Analysis
<1>6. job.analysis = a /\ job.state = "queued" /\ job.attempt = 0
  BY <1>3 DEF NewJob
<1>7. /\ DOMAIN analyses' = DOMAIN analyses \cup {a} /\ a \notin DOMAIN analyses
      /\ analyses'[a] = analysis
      /\ \A c \in DOMAIN analyses : analyses'[c] = analyses[c]
  BY <1>1, <1>4 DEF LInv, Inv, TypeOK
<1>8. /\ DOMAIN jobs' = DOMAIN jobs \cup {n} /\ n \notin DOMAIN jobs
      /\ jobs'[n] = job
      /\ \A j \in DOMAIN jobs : jobs'[j] = jobs[j]
  BY <1>1, <1>4 DEF LInv, Inv, TypeOK
<1>9. committed' = committed /\ RecordedInv'
  BY <1>5, <1>7, NothingRecorded
<1>10. a # None /\ LeaseJob(job) = <<"analysis", a>>
  BY <1>1, <1>6, Rows DEF LInv, None, LeaseJob
<1>11. \A i \in DOMAIN jobs : LeaseJob(jobs[i]) # LeaseJob(job)
  <2> SUFFICES ASSUME NEW i \in DOMAIN jobs, LeaseJob(jobs[i]) = LeaseJob(job) PROVE FALSE
    OBVIOUS
  <2>1. jobs[i].analysis # a
    BY <1>7, <1>10, Rows DEF LInv
  <2> QED
    BY <1>10, <2>1 DEF LeaseJob
<1>12. LeaseJob(job) \in LeaseJobs
  <2>1. job \in Job
    <3>1. jobs' \in Seq(Job) /\ n \in DOMAIN jobs'
      BY <1>8 DEF TypeOK
    <3> QED
      BY <1>8, <3>1, RowOf
  <2>2. a \in 1..MaxAnalyses
    BY <1>6, <1>10, <2>1, BoundAssumption DEF Job, None
  <2> QED
    BY <1>10, <2>2 DEF LeaseJobs, ReportJobs
<1> HIDE <1>4
<1> QED
  BY <1>6, <1>8, <1>9, <1>11, <1>12, Submitted

LEMMA EnqueueStep ==
  ASSUME LInv, TypeOK', NEW h, NEW scope, EnqueueSnapshot(h, scope), UNCHANGED analyses, Recording
  PROVE  Stepped
<1>1. committed' = committed /\ RecordedInv'
  BY NothingRecorded
<1>2. PICK o, n : o = Len(operations) + 1 /\ n = Len(jobs) + 1
  OBVIOUS
<1>3. PICK job : job = NewJob(o, None, scope = Collective)
  OBVIOUS
<1>4. CASE jobs' = jobs
  BY <1>1, <1>4, Unmoved
<1>5. CASE jobs' = Append(jobs, job) /\ o <= MaxOperations
  <2>1. job.analysis = None /\ job.operation = o /\ job.state = "queued" /\ job.attempt = 0
    BY <1>3 DEF NewJob
  <2>2. /\ DOMAIN jobs' = DOMAIN jobs \cup {n} /\ n \notin DOMAIN jobs
        /\ jobs'[n] = job
        /\ \A j \in DOMAIN jobs : jobs'[j] = jobs[j]
    BY <1>2, <1>5 DEF LInv, Inv, TypeOK
  <2>3. o \notin DOMAIN operations /\ o \in 1..MaxOperations
    BY <1>2, <1>5, Rows, BoundAssumption DEF LInv
  <2>4. LeaseJob(job) = <<"snapshot", o>> /\ LeaseJob(job) \in LeaseJobs
    BY <2>1, <2>3 DEF LeaseJob, LeaseJobs
  <2>5. \A i \in DOMAIN jobs : LeaseJob(jobs[i]) # LeaseJob(job)
    <3>1. \A i \in DOMAIN jobs : jobs[i].operation # o
      BY <2>3, Rows DEF LInv
    <3> QED
      BY <2>4, <3>1 DEF LeaseJob
  <2> QED
    BY <1>1, <2>1, <2>2, <2>4, <2>5, Submitted
<1>6. jobs' = jobs \/ (jobs' = Append(jobs, job) /\ o <= MaxOperations)
  BY <1>2, <1>3, Zenon DEF EnqueueSnapshot
<1> QED
  BY <1>4, <1>5, <1>6

\* A deletion cancels the waiting jobs that it saw.
LEMMA DeleteStep == ASSUME LInv, DeleteRepository, Recording PROVE Stepped
<1>1. /\ DOMAIN analyses' = DOMAIN analyses
      /\ \A a \in DOMAIN analyses : analyses'[a].report = analyses[a].report
  <2>1. \A a \in DOMAIN analyses : analyses[a] \in Analysis
    BY DEF LInv, Inv, TypeOK
  <2>2. analyses' = [a \in DOMAIN analyses |->
          IF analyses[a].state = "queued" THEN [analyses[a] EXCEPT !.state = "cancelled"]
          ELSE analyses[a]]
    BY DEF DeleteRepository
  <2>3. \A a \in DOMAIN analyses :
          [analyses[a] EXCEPT !.state = "cancelled"].report = analyses[a].report
    BY <2>1 DEF Analysis
  <2> QED
    BY <2>2, <2>3
<1>2. committed' = committed /\ RecordedInv'
  BY <1>1, NothingRecorded
<1>3. /\ DOMAIN jobs' = DOMAIN jobs
      /\ \A j \in DOMAIN jobs :
           /\ jobs'[j].operation = jobs[j].operation
           /\ jobs'[j].analysis = jobs[j].analysis
           /\ jobs'[j].attempt = jobs[j].attempt
           /\ \/ jobs'[j].state = jobs[j].state
              \/ jobs[j].state = "queued" /\ jobs'[j].state = "failed"
  <2>1. \A j \in DOMAIN jobs :
          /\ jobs[j].state \in JobStates
          /\ [jobs[j] EXCEPT !.state = "failed"].operation = jobs[j].operation
          /\ [jobs[j] EXCEPT !.state = "failed"].analysis = jobs[j].analysis
          /\ [jobs[j] EXCEPT !.state = "failed"].attempt = jobs[j].attempt
          /\ [jobs[j] EXCEPT !.state = "failed"].state = "failed"
    BY Rows DEF LInv, Job
  <2>2. /\ \A j \in DOMAIN jobs : j \in deletion.seen => jobs[j].state # "running"
        /\ jobs' = [j \in DOMAIN jobs |->
                      IF j \in deletion.seen /\ JobActive(j)
                      THEN [jobs[j] EXCEPT !.state = "failed"] ELSE jobs[j]]
    BY DEF DeleteRepository
  <2> QED
    BY <2>1, <2>2 DEF JobActive
<1>4. \A j \in DOMAIN jobs : LeaseJob(jobs'[j]) = LeaseJob(jobs[j])
  BY <1>3 DEF LeaseJob
<1>5. Distinct(jobs')
  BY <1>3, <1>4 DEF LInv, Distinct
<1>6. ASSUME NEW id \in LeaseJobs
      PROVE  /\ LeaseRow(jobs', id).attempt = LeaseRow(jobs, id).attempt
             /\ \/ LeaseRow(jobs', id).state = LeaseRow(jobs, id).state
                \/ LeaseRow(jobs, id).state = "queued" /\ LeaseRow(jobs', id).state = "failed"
  <2>1. CASE \E j \in DOMAIN jobs : LeaseJob(jobs[j]) = id
    <3>1. PICK j \in DOMAIN jobs : LeaseJob(jobs[j]) = id
      BY <2>1
    <3>2. LeaseRow(jobs, LeaseJob(jobs[j])) = jobs[j]
      BY RowFound DEF LInv
    <3>3. j \in DOMAIN jobs'
      BY <1>3
    <3>4. LeaseRow(jobs', LeaseJob(jobs'[j])) = jobs'[j]
      BY <1>5, <3>3, RowFound
    <3>5. LeaseRow(jobs, id) = jobs[j] /\ LeaseRow(jobs', id) = jobs'[j]
      BY <1>4, <3>1, <3>2, <3>4
    <3> QED
      BY <1>3, <3>5
  <2>2. CASE \A j \in DOMAIN jobs : LeaseJob(jobs[j]) # id
    <3>1. \A j \in DOMAIN jobs' : LeaseJob(jobs'[j]) # id
      BY <1>3, <1>4, <2>2
    <3>2. LeaseRow(jobs, id) = NoJob /\ LeaseRow(jobs', id) = NoJob
      BY <2>2, <3>1, RowAbsent
    <3> QED
      BY <3>2 DEF NoJob
  <2> QED
    BY <2>1, <2>2
<1>7. /\ Phase' = [k \in LeaseJobs |-> LeaseRow(jobs', k).state]
      /\ Token' = [k \in LeaseJobs |-> LeaseRow(jobs', k).attempt]
      /\ Phase = [k \in LeaseJobs |-> LeaseRow(jobs, k).state]
      /\ Token = [k \in LeaseJobs |-> LeaseRow(jobs, k).attempt]
  BY DEF Phase, Token
<1>8. PICK cancelled : cancelled = {k \in LeaseJobs : Phase[k] = "queued" /\ Phase'[k] = "failed"}
  OBVIOUS
<1>9. /\ Token' = Token
      /\ cancelled \in SUBSET LeaseJobs
      /\ \A k \in cancelled : Phase[k] = "queued"
      /\ Phase' = [k \in LeaseJobs |-> IF k \in cancelled THEN "failed" ELSE Phase[k]]
  BY <1>6, <1>7, <1>8
<1>10. Lease!Cancel(cancelled)
  BY <1>2, <1>9 DEF Lease!Cancel
<1> QED
  BY <1>2, <1>5, <1>9, <1>10 DEF Stepped, Lease!Next

-----------------------------------------------------------------------------
(* The theorem *)

LEMMA LeaseInitial == LeaseInit => LInv /\ Lease!Init
<1> SUFFICES ASSUME LeaseInit PROVE LInv /\ Lease!Init
  OBVIOUS
<1>1. Init /\ committed = [id \in LeaseJobs |-> {}]
  BY DEF LeaseInit
<1>2. DOMAIN jobs = {} /\ DOMAIN analyses = {}
  BY <1>1 DEF Init
<1>3. Distinct(jobs)
  BY <1>2 DEF Distinct
<1>4. RecordedInv
  <2>1. \A a \in 1..MaxAnalyses : <<"analysis", a>> \in LeaseJobs
    BY DEF LeaseJobs, ReportJobs
  <2> QED
    BY <1>1, <1>2, <2>1 DEF RecordedInv
<1>5. \A id : LeaseRow(jobs, id) = NoJob
  BY <1>2, RowAbsent
<1>6. Lease!Init
  BY <1>1, <1>5 DEF Lease!Init, Phase, Token, NoJob
<1> QED
  BY <1>1, <1>3, <1>4, <1>6, InitInv DEF LInv

LEMMA LeaseStep == LInv /\ [LeaseNext]_leasePipelineVars => Stepped /\ Inv'
<1> SUFFICES ASSUME LInv, [LeaseNext]_leasePipelineVars PROVE Stepped /\ Inv'
  OBVIOUS
<1>1. Inv'
  BY NextInv DEF LInv, LeaseNext, leasePipelineVars
<1>2. TypeOK'
  BY <1>1 DEF Inv
<1>3. CASE UNCHANGED leasePipelineVars
  <2>1. UNCHANGED <<jobs, analyses, committed>>
    BY <1>3 DEF leasePipelineVars, vars
  <2>2. RecordedInv'
    BY <2>1 DEF LInv, RecordedInv
  <2> QED
    BY <1>1, <2>1, <2>2, Unmoved
<1>4. CASE LeaseNext
  <2>1. Recording /\ Next
    BY <1>4 DEF LeaseNext
  <2>2. ASSUME NEW h \in Heads, NEW isOpen \in BOOLEAN, Poll(h, isOpen) PROVE Stepped
    <3>1. UNCHANGED analyses /\ (EnqueueSnapshot(h, Collective) \/ UNCHANGED jobs)
      BY <2>2 DEF Poll
    <3> QED
      BY <1>2, <2>1, <3>1, EnqueueStep, AsideStep
  <2>3. ASSUME NEW user \in Scopes, Refresh(user) PROVE Stepped
    BY <1>2, <2>1, <2>3, EnqueueStep DEF Refresh
  <2>4. ASSUME NEW a \in DOMAIN analyses, Resume(a) \/ Reanalyze(a) PROVE Stepped
    <3>1. Continue(a, "queued", a) \/ Continue(a, "analyzing", None)
      BY <2>4 DEF Resume, Reanalyze
    <3> QED
      BY <1>2, <2>1, <3>1, ContinueStep
  <2>5. ASSUME NEW j \in DOMAIN jobs, Claim(j) \/ Recover(j) PROVE Stepped
    BY <2>1, <2>5, ClaimStep, RecoverStep
  <2>6. ASSUME NEW r \in runs, RunStep(r) PROVE Stepped
    <3>1. CASE StartSnapshot(r) \/ PersistUnresolved(r) \/ LoseLease(r) \/ Throw(r) \/ Crash(r)
      <4>1. UNCHANGED <<jobs, analyses>>
        BY <3>1 DEF StartSnapshot, PersistUnresolved, LoseLease, Throw, Crash
      <4> QED
        BY <2>1, <4>1, AsideStep
    <3>2. CASE PersistSnapshot(r)
      BY <1>2, <2>1, <3>2, PersistSnapshotStep
    <3>3. CASE StartAnalysis(r) \/ PersistAnalysis(r, "completed") \/ PersistAnalysis(r, "partial")
      BY <2>1, <3>3, StartStep, PersistAnalysisStep
    <3>4. CASE CompleteJob(r) \/ FailReported(r) \/ FailJob(r, TRUE) \/ FailJob(r, FALSE)
      BY <2>1, <3>4, CompleteStep, FailStep
    <3> QED
      BY <2>6, <3>1, <3>2, <3>3, <3>4 DEF RunStep
  <2>7. ASSUME ListJobs \/ DeleteRepository \/ RollBackDeletion PROVE Stepped
    <3>1. CASE ListJobs \/ RollBackDeletion
      <4>1. UNCHANGED <<jobs, analyses>>
        BY <3>1 DEF ListJobs, RollBackDeletion
      <4> QED
        BY <2>1, <4>1, AsideStep
    <3> QED
      BY <2>1, <2>7, <3>1, DeleteStep
  <2>8. Stepped
    BY <2>1, <2>2, <2>3, <2>4, <2>5, <2>6, <2>7 DEF Next
  <2> QED
    BY <1>1, <2>8
<1> QED
  BY <1>3, <1>4

\* For any heads, users, recoveries and slots, the jobs of the pipeline keep the
\* promise of JobLease: a report is written once, under the attempt that holds
\* its job, a job that has its report is never given up, and a job that ended
\* stays ended, although bodies are repeated and runs outlive their leases.
THEOREM PipelineImplements == LeaseSpec => ImplementsJobLease
<1>1. LeaseInit => LInv /\ Lease!Init
  BY LeaseInitial
<1>2. LInv /\ [LeaseNext]_leasePipelineVars => LInv' /\ [Lease!Next]_(Lease!leaseVars)
  BY LeaseStep DEF Stepped, LInv
<1> QED
  BY <1>1, <1>2, PTL DEF LeaseSpec, ImplementsJobLease, Lease!Spec

-----------------------------------------------------------------------------
(* What comes of the promise *)

LeaseKept == Lease!LeaseTypeOK /\ Lease!Settled

LEMMA LeaseInitKept == Lease!Init => LeaseKept
  BY DEF Lease!Init, LeaseKept, Lease!LeaseTypeOK, Lease!Phases, Lease!Settled

\* A move of one job changes neither another job nor any result.
LEMMA MoveKept ==
  ASSUME LeaseKept, NEW j \in LeaseJobs, NEW from, NEW to \in Lease!Phases, Lease!Move(j, from, to),
         Token' \in [LeaseJobs -> Nat],
         j \in ReportJobs /\ to = "completed" => committed[j] # {},
         j \in ReportJobs /\ committed[j] # {} => to \in {"running", "completed"}
  PROVE  LeaseKept'
<1>1. /\ Phase \in [LeaseJobs -> Lease!Phases]
      /\ Phase' = [Phase EXCEPT ![j] = to] /\ committed' = committed
      /\ committed \in [LeaseJobs -> SUBSET Nat]
  BY DEF LeaseKept, Lease!LeaseTypeOK, Lease!Move
<1>2. Phase'[j] = to /\ \A i \in LeaseJobs : i # j => Phase'[i] = Phase[i]
  BY <1>1
<1>3. Phase' \in [LeaseJobs -> Lease!Phases]
  BY <1>1
<1> QED
  BY <1>1, <1>2, <1>3 DEF LeaseKept, Lease!LeaseTypeOK, Lease!Settled, Lease!Phases

LEMMA LeaseNextKept == ASSUME LeaseKept, [Lease!Next]_(Lease!leaseVars) PROVE LeaseKept'
<1>1. /\ Phase \in [LeaseJobs -> Lease!Phases] /\ Token \in [LeaseJobs -> Nat]
      /\ committed \in [LeaseJobs -> SUBSET Nat]
  BY DEF LeaseKept, Lease!LeaseTypeOK
<1>2. ASSUME NEW j \in LeaseJobs, Lease!Submit(j) PROVE LeaseKept'
  <2>1. committed[j] = {} \/ j \notin ReportJobs
    BY <1>2 DEF Lease!Submit, Lease!Move, LeaseKept, Lease!Settled
  <2> QED
    BY <1>1, <1>2, <2>1, MoveKept DEF Lease!Submit, Lease!Phases
<1>3. ASSUME NEW j \in LeaseJobs, Lease!Grant(j) PROVE LeaseKept'
  <2>1. Token' \in [LeaseJobs -> Nat]
    BY <1>1, <1>3 DEF Lease!Grant
  <2> QED
    BY <1>3, <2>1, MoveKept DEF Lease!Grant, Lease!Phases
<1>4. ASSUME NEW j \in LeaseJobs, Lease!Commit(j) PROVE LeaseKept'
  <2>1. /\ Phase[j] = "running" /\ j \in ReportJobs /\ committed[j] = {}
        /\ committed' = [committed EXCEPT ![j] = committed[j] \cup {Token[j]}]
        /\ Phase' = Phase /\ Token' = Token
    BY <1>4 DEF Lease!Commit
  <2>2. /\ committed'[j] = {Token[j]} /\ Token[j] \in Nat
        /\ \A i \in LeaseJobs : i # j => committed'[i] = committed[i]
        /\ committed' \in [LeaseJobs -> SUBSET Nat]
    BY <1>1, <2>1
  <2> QED
    BY <1>1, <2>1, <2>2 DEF LeaseKept, Lease!LeaseTypeOK, Lease!Settled
<1>5. ASSUME NEW j \in LeaseJobs, Lease!Complete(j) PROVE LeaseKept'
  BY <1>1, <1>5, MoveKept DEF Lease!Complete, Lease!Phases
<1>6. ASSUME NEW j \in LeaseJobs, Lease!Release(j) PROVE LeaseKept'
  BY <1>1, <1>6, MoveKept DEF Lease!Release, Lease!Phases
<1>7. ASSUME NEW cancelled \in SUBSET LeaseJobs, Lease!Cancel(cancelled) PROVE LeaseKept'
  <2>1. /\ \A j \in cancelled : Phase[j] = "queued"
        /\ Phase' = [j \in LeaseJobs |-> IF j \in cancelled THEN "failed" ELSE Phase[j]]
        /\ committed' = committed /\ Token' = Token
    BY <1>7 DEF Lease!Cancel
  <2> QED
    BY <1>1, <2>1 DEF LeaseKept, Lease!LeaseTypeOK, Lease!Settled, Lease!Phases
<1>8. CASE UNCHANGED Lease!leaseVars
  BY <1>8 DEF Lease!leaseVars, LeaseKept, Lease!LeaseTypeOK, Lease!Settled
<1> QED
  BY <1>2, <1>3, <1>4, <1>5, <1>6, <1>7, <1>8 DEF Lease!Next, Lease!Reopen

\* For any heads, users, recoveries and slots, a report has one author, an
\* analysis job that is completed has its report, and one that has its report
\* is never seen waiting, failed or cancelled.
THEOREM ReportsAreSettled == LeaseSpec => []Lease!Settled
<1>1. Lease!Init => LeaseKept
  BY LeaseInitKept
<1>2. LeaseKept /\ [Lease!Next]_(Lease!leaseVars) => LeaseKept'
  BY LeaseNextKept
<1>3. LeaseKept => Lease!Settled
  BY DEF LeaseKept
<1> QED
  BY <1>1, <1>2, <1>3, PipelineImplements, PTL DEF ImplementsJobLease, Lease!Spec

=============================================================================

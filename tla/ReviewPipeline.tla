--------------------------- MODULE ReviewPipeline ---------------------------
(***************************************************************************)
(* From a refresh of a pull request to its report: the operations, the     *)
(* analyses and the snapshot and analysis jobs of one pull request         *)
(* (apps/runtime/src/services/operations.ts, analysis-resume.ts,           *)
(* analysis-reanalysis.ts and the bodies of the jobs in jobs/worker.ts).   *)
(*                                                                         *)
(* An operation is written by every job that works for it, and a body      *)
(* whose transaction is committed can be run again when its job was not    *)
(* completed.  The queue is reduced to what the pipeline sees of it: a job *)
(* is claimed, recovered while its run goes on, and written by its current *)
(* run only.                                                               *)
(***************************************************************************)
EXTENDS Naturals, Sequences, FiniteSets

CONSTANTS
  Heads,          \* base and head commits the pull request may be at
  Start,          \* where it is when it is first seen, closed
  Scopes,         \* users who refresh by hand, each with a personal memory
  RecoveryLimit,  \* recoveries of a job before it is given up, 3 in the code
  Slots,          \* executions of jobs that all workers have room for
  MaxOperations,  \* bound of the model on operations
  MaxAnalyses,    \* bound of the model on analyses
  MaxClaims       \* bound of the model on claims of jobs

Collective == "collective"   \* the memory scope of polls

Own == "own"                 \* an operation whose dedupe key no other one has

ASSUME ScopeAssumption == Scopes \cap {Collective, Own} = {} /\ Start \in Heads

ASSUME BoundAssumption ==
  /\ RecoveryLimit \in Nat
  /\ Slots \in Nat
  /\ MaxOperations \in Nat
  /\ MaxAnalyses \in Nat
  /\ MaxClaims \in Nat

VARIABLES
  head,        \* base_sha and head_sha of the pull request, as last polled
  open,        \* its state
  operations,  \* the rows of operations
  analyses,    \* the rows of analysis_runs, with what is in reports
  jobs,        \* the snapshot and analysis jobs
  claims,      \* claims of jobs so far
  runs,        \* executions of jobs in progress
  deletion,    \* the deletion of the repository
  shadowed,    \* operations whose job `on conflict do nothing` did not insert
  reopened     \* operations written by a run that had lost its job

vars == <<head, open, operations, analyses, jobs, claims, runs, deletion, shadowed, reopened>>

-----------------------------------------------------------------------------
(* Types *)

OperationStates == {"queued", "materializing", "analyzing", "completed", "failed"}

AnalysisStates == {"queued", "analyzing", "completed", "partial", "failed", "cancelled"}

JobStates == {"queued", "running", "completed", "failed"}

\* Where a run is in executeSnapshotJob or executeAnalysisJob, and then in
\* failJob after its look for a report.
Pcs == {"starting", "working", "returned", "reported", "unreported"}

None == 0       \* no analysis

Operation == [head : Heads, scope : Scopes \cup {Collective, Own}, state : OperationStates]

\* Shared analyses have no memory_owner_user_id.
Analysis == [head : Heads, shared : BOOLEAN, state : AnalysisStates, report : BOOLEAN,
             from : 0..MaxAnalyses]

Job == [operation : 1..MaxOperations, analysis : 0..MaxAnalyses, polled : BOOLEAN,
        state : JobStates, attempt : 0..MaxClaims, recoveries : 0..RecoveryLimit]

\* The jobs that a deletion saw active, while its transaction lasts.
Deletion == [stage : {"none", "reading", "done"}, seen : SUBSET Nat]

TypeOK ==
  /\ head \in Heads /\ open \in BOOLEAN
  /\ operations \in Seq(Operation) /\ Len(operations) <= MaxOperations
  /\ analyses \in Seq(Analysis) /\ Len(analyses) <= MaxAnalyses
  /\ jobs \in Seq(Job)
  /\ claims \in 0..MaxClaims
  /\ runs \subseteq [job : DOMAIN jobs, attempt : 1..MaxClaims, pc : Pcs]
  /\ deletion \in Deletion
  /\ shadowed \subseteq DOMAIN operations /\ reopened \subseteq DOMAIN operations

-----------------------------------------------------------------------------
(* Helpers *)

ActiveStates == {"queued", "materializing", "analyzing"}

\* The operations that hold the dedupe key of a refresh.
Holders(h, scope) ==
  {o \in DOMAIN operations : /\ operations[o].state \in ActiveStates
                             /\ operations[o].head = h /\ operations[o].scope = scope}

\* An update to an active state violates the unique index of active keys.
KeyTaken(o) ==
  /\ operations[o].scope # Own
  /\ Holders(operations[o].head, operations[o].scope) \ {o} # {}

JobActive(j) == jobs[j].state \in {"queued", "running"}

NewJob(o, a, polled) ==
  [operation |-> o, analysis |-> a, polled |-> polled, state |-> "queued",
   attempt |-> 0, recoveries |-> 0]

Materializes(r) == jobs[r.job].analysis = None

\* The attempt of a run is never checked (a fault).
FencedBlind(r) == TRUE

\* assertJobLease.
Fenced(r) == jobs[r.job].state = "running" /\ jobs[r.job].attempt = r.attempt

\* No report is looked for (a fault).
ReportedNever(a) == FALSE

Reported(a) == a # None /\ analyses[a].report

Incomplete(a) == analyses[a].state \in {"partial", "failed"}

deleted == deletion.stage = "done"

NoDeletion == [stage |-> "none", seen |-> {}]

GoTo(r, pc) == runs' = (runs \ {r}) \cup {[r EXCEPT !.pc = pc]}

SetOperation(o, state) == operations' = [operations EXCEPT ![o].state = state]

-----------------------------------------------------------------------------
Init ==
  /\ head = Start
  /\ open = FALSE
  /\ operations = << >>
  /\ analyses = << >>
  /\ jobs = << >>
  /\ claims = 0
  /\ runs = {}
  /\ deletion = NoDeletion
  /\ shadowed = {}
  /\ reopened = {}

history == <<shadowed, reopened>>

-----------------------------------------------------------------------------
(* Requests *)

\* The operation and the job of a refresh, or the operation that is active.
\* The job of a poll is keyed by the commits, that of a user by the operation.
EnqueueSnapshot(h, scope) ==
  IF Holders(h, scope) # {} THEN UNCHANGED <<operations, jobs, shadowed>>
  ELSE
    LET polled == scope = Collective
        o == Len(operations) + 1
        taken == \E j \in DOMAIN jobs : /\ polled /\ jobs[j].polled /\ JobActive(j)
                                        /\ operations[jobs[j].operation].head = h
    IN /\ o <= MaxOperations
       /\ operations' = Append(operations, [head |-> h, scope |-> scope, state |-> "queued"])
       /\ jobs' = IF taken THEN jobs ELSE Append(jobs, NewJob(o, None, polled))
       /\ shadowed' = IF taken THEN shadowed \cup {o} ELSE shadowed

\* snapshot_requests has the commits.
SnapshotRequested(h) == \E o \in DOMAIN operations : operations[o].head = h

\* A poll stores what GitHub says.  Polls, refreshes and resumptions share or
\* take the lock of the live repository, for which a deletion makes them wait.
Poll(h, isOpen) ==
  /\ deletion.stage = "none"
  /\ head' = h /\ open' = isOpen
  /\ IF isOpen /\ (h # head \/ (~open /\ ~SnapshotRequested(h)))
     THEN EnqueueSnapshot(h, Collective)
     ELSE UNCHANGED <<operations, jobs, shadowed>>
  /\ UNCHANGED <<analyses, claims, runs, deletion, reopened>>

Refresh(user) ==
  /\ deletion.stage = "none" /\ open
  /\ EnqueueSnapshot(head, user)
  /\ UNCHANGED <<head, open, analyses, claims, runs, deletion, reopened>>

\* A new analysis of the snapshot of analysis a, with an operation and a job.
Continue(a, state, from) ==
  LET o == Len(operations) + 1
      b == Len(analyses) + 1
  IN /\ o <= MaxOperations /\ b <= MaxAnalyses
     /\ operations' = Append(operations,
          [head |-> analyses[a].head, scope |-> Own, state |-> state])
     /\ analyses' = Append(analyses,
          [analyses[a] EXCEPT !.state = "queued", !.report = FALSE, !.from = from])
     /\ jobs' = Append(jobs, NewJob(o, b, FALSE))
     /\ UNCHANGED <<head, open, claims, runs, deletion>> /\ UNCHANGED history

\* A user resumes an analysis of the current commits, once.
Resume(a) ==
  /\ Incomplete(a)
  /\ deletion.stage = "none" /\ open /\ head = analyses[a].head
  /\ \A b \in DOMAIN analyses : analyses[b].from # a
  /\ Continue(a, "queued", a)

\* An administrator repeats a shared analysis, each time with a new request id.
\* The repository is not looked at.
Reanalyze(a) ==
  /\ Incomplete(a) /\ analyses[a].shared
  /\ Continue(a, "analyzing", None)

-----------------------------------------------------------------------------
(* The queue *)

Claim(j) ==
  /\ jobs[j].state = "queued"
  /\ claims < MaxClaims
  /\ Cardinality(runs) < Slots
  /\ claims' = claims + 1
  /\ jobs' = [jobs EXCEPT ![j].state = "running", ![j].attempt = @ + 1]
  /\ runs' = runs \cup {[job |-> j, attempt |-> jobs[j].attempt + 1, pc |-> "starting"]}
  /\ UNCHANGED <<head, open, operations, analyses, deletion>> /\ UNCHANGED history

\* The analysis of a job that is given up is left as it is (a fault).
GivenUpNever(j) == analyses

\* The analysis of a job that is given up fails.
GivenUp(j) ==
  IF jobs[j].analysis = None THEN analyses
  ELSE [analyses EXCEPT ![jobs[j].analysis].state = "failed"]

\* A recovery too many (a fault).
RecoverableLate(j) == jobs[j].recoveries <= RecoveryLimit

Recoverable(j) == jobs[j].recoveries < RecoveryLimit

\* The lease of a job ran out; its run may still go on.
Recover(j) ==
  LET job == jobs[j] IN
  /\ job.state = "running"
  /\ \/ /\ Reported(job.analysis)
        /\ jobs' = [jobs EXCEPT ![j].state = "completed"]
        /\ UNCHANGED <<operations, analyses>>
     \/ /\ ~Reported(job.analysis) /\ Recoverable(j)
        /\ jobs' = [jobs EXCEPT ![j].state = "queued", ![j].recoveries = @ + 1]
        /\ UNCHANGED <<operations, analyses>>
     \/ /\ ~Reported(job.analysis) /\ ~Recoverable(j)
        /\ jobs' = [jobs EXCEPT ![j].state = "failed"]
        /\ IF operations[job.operation].state = "completed" THEN UNCHANGED operations
           ELSE SetOperation(job.operation, "failed")
        /\ analyses' = GivenUp(j)
  /\ UNCHANGED <<head, open, claims, runs, deletion>> /\ UNCHANGED history

CompleteJob(r) ==
  /\ r.pc = "returned"
  /\ Fenced(r)
  /\ runs' = runs \ {r}
  /\ jobs' = [jobs EXCEPT ![r.job].state = "completed"]
  /\ UNCHANGED <<head, open, operations, analyses, claims, deletion>> /\ UNCHANGED history

\* failJob without a report: a retry, a wait for the model or the end.  Any
\* attempt may be the last, some errors are not retried.
FailJob(r, terminal) ==
  LET job == jobs[r.job] IN
  /\ r.pc = "unreported"
  /\ Fenced(r)
  /\ runs' = runs \ {r}
  /\ jobs' = [jobs EXCEPT ![r.job].state = IF terminal THEN "failed" ELSE "queued"]
  /\ IF terminal THEN SetOperation(job.operation, "failed") /\ analyses' = GivenUp(r.job)
                 ELSE UNCHANGED <<operations, analyses>>
  /\ UNCHANGED <<head, open, claims, deletion>> /\ UNCHANGED history

\* failJob of a run whose analysis has a report completes the job.
FailReported(r) ==
  /\ r.pc = "reported"
  /\ Fenced(r)
  /\ runs' = runs \ {r}
  /\ jobs' = [jobs EXCEPT ![r.job].state = "completed"]
  /\ UNCHANGED <<head, open, operations, analyses, claims, deletion>> /\ UNCHANGED history

\* A fence stops a run that lost its job.
LoseLease(r) ==
  /\ ~Fenced(r)
  /\ r.pc # "starting" \/ ~Materializes(r)
  /\ runs' = runs \ {r}
  /\ UNCHANGED <<head, open, operations, analyses, jobs, claims, deletion>> /\ UNCHANGED history

\* The process of a run dies, or failJob fails as well.
Crash(r) ==
  /\ runs' = runs \ {r}
  /\ UNCHANGED <<head, open, operations, analyses, jobs, claims, deletion>> /\ UNCHANGED history

\* The body or completeJob throws, and failJob looks for a report: a statement
\* before its transaction.
Throw(r) ==
  /\ r.pc \in {"starting", "working", "returned"}
  /\ GoTo(r, IF Reported(jobs[r.job].analysis) THEN "reported" ELSE "unreported")
  /\ UNCHANGED <<head, open, operations, analyses, jobs, claims, deletion>> /\ UNCHANGED history

-----------------------------------------------------------------------------
(* The bodies *)

\* The first statement of executeSnapshotJob is not fenced.
StartSnapshot(r) ==
  LET o == jobs[r.job].operation IN
  /\ r.pc = "starting" /\ Materializes(r)
  /\ ~KeyTaken(o)
  /\ SetOperation(o, "materializing")
  /\ reopened' = IF Fenced(r) THEN reopened ELSE reopened \cup {o}
  /\ GoTo(r, "working")
  /\ UNCHANGED <<head, open, analyses, jobs, claims, deletion, shadowed>>

\* The snapshot is exact: an analysis and its job are inserted.
PersistSnapshot(r) ==
  LET o == jobs[r.job].operation
      a == Len(analyses) + 1
  IN
  /\ r.pc = "working" /\ Materializes(r)
  /\ Fenced(r)
  /\ a <= MaxAnalyses
  /\ ~KeyTaken(o)
  /\ analyses' = Append(analyses,
       [head |-> operations[o].head, shared |-> operations[o].scope = Collective,
        state |-> "queued", report |-> FALSE, from |-> None])
  /\ jobs' = Append(jobs, NewJob(o, a, FALSE))
  /\ SetOperation(o, "analyzing")
  /\ GoTo(r, "returned")
  /\ UNCHANGED <<head, open, claims, deletion>> /\ UNCHANGED history

\* The commits cannot be compared: there is nothing to analyze.
PersistUnresolved(r) ==
  /\ r.pc = "working" /\ Materializes(r)
  /\ Fenced(r)
  /\ SetOperation(jobs[r.job].operation, "completed")
  /\ GoTo(r, "returned")
  /\ UNCHANGED <<head, open, analyses, jobs, claims, deletion>> /\ UNCHANGED history

\* updateAnalysisState.
Opened(a) ==
  IF analyses[a].state \in {"completed", "partial"} THEN analyses
  ELSE [analyses EXCEPT ![a].state = "analyzing"]

StartAnalysis(r) ==
  LET a == jobs[r.job].analysis IN
  /\ r.pc = "starting" /\ ~Materializes(r)
  /\ Fenced(r)
  /\ IF Reported(a) THEN GoTo(r, "returned") /\ UNCHANGED analyses
                    ELSE GoTo(r, "working") /\ analyses' = Opened(a)
  /\ UNCHANGED <<head, open, operations, jobs, claims, deletion>> /\ UNCHANGED history

PersistAnalysis(r, state) ==
  LET a == jobs[r.job].analysis IN
  /\ r.pc = "working" /\ ~Materializes(r)
  /\ Fenced(r)
  /\ GoTo(r, "returned")
  /\ IF Reported(a) THEN UNCHANGED <<operations, analyses>>
     ELSE /\ analyses' = [analyses EXCEPT ![a].state = state, ![a].report = TRUE]
          /\ SetOperation(jobs[r.job].operation, "completed")
  /\ UNCHANGED <<head, open, jobs, claims, deletion>> /\ UNCHANGED history

-----------------------------------------------------------------------------
\* The administrator's deletion begins: it locks the repository and its query
\* for the active jobs sees those of this moment.
ListJobs ==
  /\ deletion.stage = "none"
  /\ deletion' = [stage |-> "reading", seen |-> {j \in DOMAIN jobs : JobActive(j)}]
  /\ UNCHANGED <<head, open, operations, analyses, jobs, claims, runs>> /\ UNCHANGED history

\* When it has the locks of their rows and none of them runs, it cancels them,
\* and the operations and the queued analyses of that moment.
DeleteRepository ==
  /\ deletion.stage = "reading"
  /\ \A j \in deletion.seen : jobs[j].state # "running"
  /\ deletion' = [stage |-> "done", seen |-> {}]
  /\ jobs' = [j \in DOMAIN jobs |->
       IF j \in deletion.seen /\ JobActive(j) THEN [jobs[j] EXCEPT !.state = "failed"]
       ELSE jobs[j]]
  /\ operations' = [o \in DOMAIN operations |->
       IF operations[o].state \in ActiveStates THEN [operations[o] EXCEPT !.state = "failed"]
       ELSE operations[o]]
  /\ analyses' = [a \in DOMAIN analyses |->
       IF analyses[a].state = "queued" THEN [analyses[a] EXCEPT !.state = "cancelled"]
       ELSE analyses[a]]
  /\ UNCHANGED <<head, open, claims, runs>> /\ UNCHANGED history

\* One of them runs, a lock takes too long or the server dies: nothing is written.
RollBackDeletion ==
  /\ deletion.stage = "reading"
  /\ deletion' = NoDeletion
  /\ UNCHANGED <<head, open, operations, analyses, jobs, claims, runs>> /\ UNCHANGED history

RunStep(r) ==
  \/ StartSnapshot(r) \/ PersistSnapshot(r) \/ PersistUnresolved(r)
  \/ StartAnalysis(r) \/ PersistAnalysis(r, "completed") \/ PersistAnalysis(r, "partial")
  \/ CompleteJob(r) \/ FailJob(r, TRUE) \/ FailJob(r, FALSE) \/ FailReported(r)
  \/ LoseLease(r) \/ Throw(r) \/ Crash(r)

Next ==
  \/ \E h \in Heads, isOpen \in BOOLEAN : Poll(h, isOpen)
  \/ \E user \in Scopes : Refresh(user)
  \/ \E a \in DOMAIN analyses : Resume(a) \/ Reanalyze(a)
  \/ \E j \in DOMAIN jobs : Claim(j) \/ Recover(j)
  \/ \E r \in runs : RunStep(r)
  \/ ListJobs \/ DeleteRepository \/ RollBackDeletion

Spec == Init /\ [][Next]_vars

-----------------------------------------------------------------------------
(* Properties *)

\* An analysis has a report exactly when its state says so: no late failure,
\* recovery or restart hides a published report or shows one that is not there.
ReportMatchesState ==
  \A a \in DOMAIN analyses : analyses[a].report <=> analyses[a].state \in {"completed", "partial"}

\* An analysis that is announced as waiting or in progress has a job that will
\* end it, except one in progress when its repository was deleted.
AnalysisIsServed ==
  \A a \in DOMAIN analyses :
    analyses[a].state = "queued" \/ (analyses[a].state = "analyzing" /\ ~deleted) =>
      \E j \in DOMAIN jobs : jobs[j].analysis = a /\ JobActive(j)

\* An active operation, to which every refresh of its key is reduced, has a
\* job that will end it, except the two cases that the history variables name.
OperationIsServed ==
  \A o \in DOMAIN operations \ (shadowed \cup reopened) :
    operations[o].state \in ActiveStates =>
      \E j \in DOMAIN jobs : jobs[j].operation = o /\ JobActive(j)

\* docs/operations/interactive-chat.md:33: when the recoveries of a job are
\* used up, the job and its analysis and operation are failed for good.
Abandoned(o) ==
  /\ operations[o].state = "failed"
  /\ \E j \in DOMAIN jobs : /\ jobs[j].operation = o /\ jobs[j].state = "failed"
                            /\ ~Recoverable(j)

AbandonedStays ==
  [][\A o \in DOMAIN operations :
       Abandoned(o) => operations'[o].state = "failed" \/ o \in reopened']_vars

=============================================================================

------------------------ MODULE ReviewPipelineProofs ------------------------
(***************************************************************************)
(* For any heads, users, limits and bounds, a report is shown exactly when *)
(* there is one, and what is announced as in progress has a job that will  *)
(* end it.  Inv, the inductive invariant, says which job that is: one that *)
(* has not yet done what it is there for.                                  *)
(***************************************************************************)
EXTENDS ReviewPipeline, TLAPS

\* The jobs are about operations and analyses that are there, each analysis has one.
JobsInv ==
  /\ \A j \in DOMAIN jobs : /\ jobs[j].operation \in DOMAIN operations
                            /\ jobs[j].analysis <= Len(analyses)
                            /\ jobs[j].attempt <= claims
  /\ \A i, j \in DOMAIN jobs :
       jobs[i].analysis = jobs[j].analysis /\ jobs[i].analysis # None => i = j

\* What failJob saw is still so when it writes: a report stays, and where there
\* was none only the run that holds the job could have written one.
Looked(r) ==
  /\ r.pc = "reported" => Reported(jobs[r.job].analysis)
  /\ r.pc = "unreported" /\ Fenced(r) => ~Reported(jobs[r.job].analysis)

\* An attempt has one run, and a run that returned from an analysis left a report.
RunsInv ==
  /\ \A r \in runs : r.attempt <= jobs[r.job].attempt
  /\ \A r, s \in runs : r.job = s.job /\ r.attempt = s.attempt => r = s
  /\ \A r \in runs : r.pc = "returned" /\ ~Materializes(r) => Reported(jobs[r.job].analysis)
  /\ \A r \in runs : Looked(r)

\* A job that still has to do something for its operation: it has no report and
\* its current run did not return.
Carries(k, o) ==
  /\ jobs[k].operation = o /\ JobActive(k) /\ ~Reported(jobs[k].analysis)
  /\ \A r \in runs : r.job = k /\ Fenced(r) => r.pc # "returned"

OperationsInv ==
  \A o \in DOMAIN operations \ (shadowed \cup reopened) :
    operations[o].state \in ActiveStates => \E k \in DOMAIN jobs : Carries(k, o)

Inv ==
  /\ TypeOK /\ JobsInv /\ RunsInv
  /\ ReportMatchesState /\ AnalysisIsServed /\ OperationsInv

-----------------------------------------------------------------------------
(* What the updates do *)

LEMMA Replaced ==
  ASSUME NEW S, NEW s \in Seq(S), NEW n \in DOMAIN s, NEW v \in S
  PROVE  LET t == [s EXCEPT ![n] = v] IN
         /\ t \in Seq(S) /\ Len(t) = Len(s) /\ DOMAIN t = DOMAIN s
         /\ t[n] = v
         /\ \A m \in DOMAIN s : m # n => t[m] = s[m]
  OBVIOUS

LEMMA Appended ==
  ASSUME NEW S, NEW s \in Seq(S), NEW v \in S
  PROVE  LET t == Append(s, v) IN
         /\ t \in Seq(S) /\ Len(t) = Len(s) + 1 /\ Len(s) \in Nat
         /\ DOMAIN s = 1..Len(s) /\ DOMAIN t = 1..Len(s) + 1
         /\ DOMAIN t = DOMAIN s \cup {Len(s) + 1} /\ Len(s) + 1 \notin DOMAIN s
         /\ t[Len(s) + 1] = v
         /\ \A m \in DOMAIN s : t[m] = s[m]
  OBVIOUS

\* Job j goes to a state.
JobTo(j, state) ==
  /\ jobs' \in Seq(Job) /\ DOMAIN jobs' = DOMAIN jobs
  /\ jobs'[j].operation = jobs[j].operation /\ jobs'[j].analysis = jobs[j].analysis
  /\ jobs'[j].attempt = jobs[j].attempt /\ jobs'[j].state = state
  /\ \A i \in DOMAIN jobs : i # j => jobs'[i] = jobs[i]

LEMMA JobReplaced ==
  ASSUME TypeOK, NEW j \in DOMAIN jobs, NEW job \in Job, jobs' = [jobs EXCEPT ![j] = job],
         job.operation = jobs[j].operation, job.analysis = jobs[j].analysis,
         job.attempt = jobs[j].attempt
  PROVE  JobTo(j, job.state)
  BY Replaced DEF JobTo, TypeOK

LEMMA JobToState ==
  ASSUME TypeOK, NEW j \in DOMAIN jobs, NEW state \in JobStates,
         jobs' = [jobs EXCEPT ![j].state = state]
  PROVE  JobTo(j, state)
<1>1. jobs \in Seq(Job) /\ jobs[j] \in Job
  BY DEF TypeOK
<1>2. PICK job : job = [jobs[j] EXCEPT !.state = state]
  OBVIOUS
<1>3. job \in Job /\ job.operation = jobs[j].operation /\ job.analysis = jobs[j].analysis
      /\ job.attempt = jobs[j].attempt /\ job.state = state
  BY <1>1, <1>2 DEF Job
<1>4. jobs' = [jobs EXCEPT ![j] = job]
  BY <1>1, <1>2
<1> QED
  BY <1>3, <1>4, JobReplaced

LEMMA JobToRecovered ==
  ASSUME TypeOK, NEW j \in DOMAIN jobs, Recoverable(j),
         jobs' = [jobs EXCEPT ![j].state = "queued", ![j].recoveries = @ + 1]
  PROVE  JobTo(j, "queued")
<1>1. jobs \in Seq(Job) /\ jobs[j] \in Job
  BY DEF TypeOK
<1>2. PICK job : job = [jobs[j] EXCEPT !.state = "queued", !.recoveries = jobs[j].recoveries + 1]
  OBVIOUS
<1>3. jobs[j].recoveries + 1 \in 0..RecoveryLimit
  <2>1. jobs[j].recoveries \in 0..RecoveryLimit
    BY <1>1 DEF Job
  <2>2. jobs[j].recoveries < RecoveryLimit
    BY DEF Recoverable
  <2> QED
    BY <2>1, <2>2, BoundAssumption
<1>4. job \in Job /\ job.operation = jobs[j].operation /\ job.analysis = jobs[j].analysis
      /\ job.attempt = jobs[j].attempt /\ job.state = "queued"
  BY <1>1, <1>2, <1>3 DEF Job, JobStates
<1>5. jobs' = [jobs EXCEPT ![j] = job]
  <2>1. jobs' = [jobs EXCEPT ![j] = [jobs[j] EXCEPT !.state = "queued", !.recoveries = jobs[j].recoveries + 1]]
    BY <1>1
  <2> QED
    BY <1>2, <2>1
<1> QED
  <2>1. JobTo(j, job.state)
    BY <1>4, <1>5, JobReplaced, Zenon
  <2> QED
    BY <1>4, <2>1, Zenon

\* An operation goes to a state.
LEMMA OperationTo ==
  ASSUME TypeOK, NEW o \in DOMAIN operations, NEW state \in OperationStates,
         SetOperation(o, state)
  PROVE  /\ operations' \in Seq(Operation) /\ Len(operations') = Len(operations)
         /\ DOMAIN operations' = DOMAIN operations
         /\ operations'[o].state = state
         /\ \A p \in DOMAIN operations : p # o => operations'[p] = operations[p]
<1>1. operations \in Seq(Operation) /\ operations[o] \in Operation
  BY DEF TypeOK
<1>2. PICK operation : operation = [operations[o] EXCEPT !.state = state]
  OBVIOUS
<1>3. operation \in Operation /\ operation.state = state
  BY <1>1, <1>2 DEF Operation
<1>4. operations' = [operations EXCEPT ![o] = operation]
  BY <1>1, <1>2 DEF SetOperation
<1> QED
  BY <1>1, <1>3, <1>4, Replaced

\* An analysis goes to a state.
AnalysisTo(a, state, report) ==
  /\ analyses' \in Seq(Analysis) /\ Len(analyses') = Len(analyses)
  /\ DOMAIN analyses' = DOMAIN analyses
  /\ analyses'[a].state = state /\ analyses'[a].report = report
  /\ \A b \in DOMAIN analyses : b # a => analyses'[b] = analyses[b]

LEMMA AnalysisReplaced ==
  ASSUME TypeOK, NEW a \in DOMAIN analyses, NEW analysis \in Analysis,
         analyses' = [analyses EXCEPT ![a] = analysis]
  PROVE  AnalysisTo(a, analysis.state, analysis.report)
  BY Replaced DEF AnalysisTo, TypeOK

LEMMA AnalysisToState ==
  ASSUME TypeOK, NEW a \in DOMAIN analyses, NEW state \in AnalysisStates,
         analyses' = [analyses EXCEPT ![a].state = state]
  PROVE  AnalysisTo(a, state, analyses[a].report)
<1>1. analyses \in Seq(Analysis) /\ analyses[a] \in Analysis
  BY DEF TypeOK
<1>2. PICK analysis : analysis = [analyses[a] EXCEPT !.state = state]
  OBVIOUS
<1>3. analysis \in Analysis /\ analysis.state = state /\ analysis.report = analyses[a].report
  BY <1>1, <1>2 DEF Analysis
<1>4. analyses' = [analyses EXCEPT ![a] = analysis]
  BY <1>1, <1>2
<1> QED
  BY <1>3, <1>4, AnalysisReplaced, Zenon

LEMMA AnalysisToReport ==
  ASSUME TypeOK, NEW a \in DOMAIN analyses, NEW state \in AnalysisStates,
         analyses' = [analyses EXCEPT ![a].state = state, ![a].report = TRUE]
  PROVE  AnalysisTo(a, state, TRUE)
<1>1. analyses \in Seq(Analysis) /\ analyses[a] \in Analysis
  BY DEF TypeOK
<1>2. PICK analysis : analysis = [analyses[a] EXCEPT !.state = state, !.report = TRUE]
  OBVIOUS
<1>3. analysis \in Analysis /\ analysis.state = state /\ analysis.report = TRUE
  BY <1>1, <1>2 DEF Analysis
<1>4. analyses' = [analyses EXCEPT ![a] = analysis]
  <2>1. analyses' = [analyses EXCEPT ![a] = [analyses[a] EXCEPT !.state = state, !.report = TRUE]]
    BY <1>1
  <2> QED
    BY <1>2, <2>1
<1> QED
  BY <1>3, <1>4, AnalysisReplaced, Zenon

Run == [job : DOMAIN jobs, attempt : 1..MaxClaims, pc : Pcs]

\* A run goes on.
LEMMA RunTo ==
  ASSUME runs \subseteq Run, NEW r \in runs, NEW pc \in Pcs, GoTo(r, pc), RunsInv
  PROVE  /\ runs' \subseteq Run
         /\ \A s \in runs' : \/ s \in runs
                             \/ s.job = r.job /\ s.attempt = r.attempt /\ s.pc = pc
         /\ \A s, t \in runs' : s.job = t.job /\ s.attempt = t.attempt => s = t
         /\ \A s \in runs' : s.job = r.job /\ s.attempt = r.attempt => s.pc = pc
<1>1. PICK x : x = [r EXCEPT !.pc = pc]
  OBVIOUS
<1>2. x \in Run /\ x.job = r.job /\ x.attempt = r.attempt /\ x.pc = pc
  BY <1>1 DEF Run
<1>3. runs' = (runs \ {r}) \cup {x}
  BY <1>1 DEF GoTo
<1>4. \A s, t \in runs : s.job = t.job /\ s.attempt = t.attempt => s = t
  BY DEF RunsInv
<1>5. \A s, t \in runs' : s.job = t.job /\ s.attempt = t.attempt => s = t
  BY <1>2, <1>3, <1>4
<1> QED
  BY <1>2, <1>3, <1>4, <1>5

-----------------------------------------------------------------------------
LEMMA InitInv == Init => Inv
<1> SUFFICES ASSUME Init PROVE Inv
  OBVIOUS
<1>1. /\ operations = << >> /\ analyses = << >> /\ jobs = << >> /\ runs = {} /\ claims = 0
      /\ DOMAIN << >> = {} /\ Len(<< >>) = 0
  BY DEF Init
<1>2. TypeOK
  <2>1. operations \in Seq(Operation) /\ analyses \in Seq(Analysis) /\ jobs \in Seq(Job)
    BY <1>1
  <2> QED
    <3>1. head \in Heads /\ open \in BOOLEAN /\ deletion \in Deletion /\ shadowed = {} /\ reopened = {}
      BY ScopeAssumption DEF Init, NoDeletion, Deletion
    <3>2. Len(operations) <= MaxOperations /\ Len(analyses) <= MaxAnalyses /\ claims \in 0..MaxClaims
      BY <1>1, BoundAssumption
    <3> QED
      BY <1>1, <2>1, <3>1, <3>2 DEF TypeOK
<1>3. JobsInv /\ RunsInv /\ ReportMatchesState /\ AnalysisIsServed /\ OperationsInv
  BY <1>1 DEF JobsInv, RunsInv, ReportMatchesState, AnalysisIsServed, deleted, OperationsInv
<1> QED
  BY <1>2, <1>3 DEF Inv

-----------------------------------------------------------------------------
(* The queue *)

rest == <<head, open, claims, deletion, shadowed, reopened>>

LEMMA RestType ==
  ASSUME TypeOK, UNCHANGED <<head, open, claims, deletion>>, UNCHANGED history
  PROVE  UNCHANGED rest
  BY DEF rest, history

\* Typing of a step that adds no row.
LEMMA SameRowsType ==
  ASSUME TypeOK, UNCHANGED <<head, open, deletion>>, claims' \in 0..MaxClaims,
         operations' \in Seq(Operation), Len(operations') = Len(operations),
         analyses' \in Seq(Analysis), Len(analyses') = Len(analyses),
         jobs' \in Seq(Job), DOMAIN jobs' = DOMAIN jobs, runs' \subseteq Run,
         shadowed' = shadowed, reopened' \subseteq DOMAIN operations
  PROVE  TypeOK'
<1>1. DOMAIN operations' = DOMAIN operations
  BY DEF TypeOK
<1>2. runs' \subseteq [job : DOMAIN jobs', attempt : 1..MaxClaims, pc : Pcs]
  BY DEF Run
<1> QED
  BY <1>1, <1>2 DEF TypeOK

\* Facts about the current rows that most steps need.
LEMMA Rows ==
  ASSUME Inv
  PROVE  /\ runs \subseteq Run
         /\ \A j \in DOMAIN jobs : /\ jobs[j] \in Job
                                   /\ jobs[j].operation \in DOMAIN operations
                                   /\ jobs[j].analysis # None => jobs[j].analysis \in DOMAIN analyses
                                   /\ jobs[j].attempt \in Nat
         /\ DOMAIN operations = 1..Len(operations) /\ Len(operations) \in Nat
         /\ DOMAIN analyses = 1..Len(analyses) /\ Len(analyses) \in Nat
         /\ DOMAIN jobs = 1..Len(jobs) /\ Len(jobs) \in Nat
         /\ claims \in 0..MaxClaims
<1>1. runs \subseteq Run
  BY DEF Inv, TypeOK, Run
<1>2. /\ DOMAIN operations = 1..Len(operations) /\ Len(operations) \in Nat
      /\ DOMAIN analyses = 1..Len(analyses) /\ Len(analyses) \in Nat
      /\ DOMAIN jobs = 1..Len(jobs) /\ Len(jobs) \in Nat
      /\ claims \in 0..MaxClaims
  BY DEF Inv, TypeOK
<1>3. ASSUME NEW j \in DOMAIN jobs
      PROVE  /\ jobs[j] \in Job
             /\ jobs[j].operation \in DOMAIN operations
             /\ jobs[j].analysis # None => jobs[j].analysis \in DOMAIN analyses
             /\ jobs[j].attempt \in Nat
  <2>1. jobs[j] \in Job
    BY DEF Inv, TypeOK
  <2>2. jobs[j].analysis \in Nat /\ jobs[j].attempt \in Nat
    BY <2>1, BoundAssumption DEF Job
  <2> QED
    BY <1>2, <2>1, <2>2 DEF Inv, JobsInv, None
<1> QED
  BY <1>1, <1>2, <1>3

\* Runs that end, or throw: nothing returned that had not returned before.
LEMMA RunsOnlyInv ==
  ASSUME Inv, UNCHANGED <<operations, analyses, jobs>>, UNCHANGED rest,
         runs' \subseteq Run,
         \A s, t \in runs' : s.job = t.job /\ s.attempt = t.attempt => s = t,
         \A s \in runs' : \E t \in runs : /\ t.job = s.job /\ t.attempt = s.attempt
                                          /\ s.pc = "returned" => t.pc = "returned"
                                          /\ s = t \/ Looked(s)
  PROVE  Inv'
<1>1. TypeOK'
  BY SameRowsType DEF rest, Inv, TypeOK
<1>2. JobsInv' /\ ReportMatchesState' /\ AnalysisIsServed'
  BY DEF Inv, rest, JobsInv, ReportMatchesState, AnalysisIsServed, deleted, JobActive
<1>3. RunsInv'
  BY DEF Inv, RunsInv, Materializes, Reported, Looked, Fenced
<1>4. OperationsInv'
  <2> SUFFICES ASSUME NEW o \in DOMAIN operations, o \notin shadowed \cup reopened,
                      operations[o].state \in ActiveStates
               PROVE  \E k \in DOMAIN jobs : Carries(k, o)'
    BY DEF OperationsInv, rest
  <2>1. PICK k \in DOMAIN jobs : Carries(k, o)
    BY DEF Inv, OperationsInv
  <2>2. Carries(k, o)'
    BY <2>1 DEF Carries, Fenced, JobActive, Reported
  <2> QED
    BY <2>2
<1> QED
  BY <1>1, <1>2, <1>3, <1>4 DEF Inv

\* The runs that are left keep what is said of runs.
LEMMA FewerRuns ==
  ASSUME Inv, runs' \subseteq runs,
         \A j \in DOMAIN jobs : /\ jobs'[j].analysis = jobs[j].analysis
                                /\ jobs'[j].attempt = jobs[j].attempt
                                /\ jobs'[j].state = "running" => jobs[j].state = "running",
         \A a \in DOMAIN analyses : analyses'[a].report = analyses[a].report
  PROVE  RunsInv'
<1>1. /\ runs \subseteq Run
      /\ \A j \in DOMAIN jobs : jobs[j].analysis # None => jobs[j].analysis \in DOMAIN analyses
  BY Rows
<1>2. \A r \in runs : r.job \in DOMAIN jobs
  BY <1>1 DEF Run
<1> QED
  BY <1>1, <1>2 DEF Inv, RunsInv, Materializes, Reported, Looked, Fenced

\* A job ends that has done what it was there for.
LEMMA DoneInv ==
  ASSUME Inv, NEW j \in DOMAIN jobs, JobTo(j, "completed"), runs' \subseteq runs,
         UNCHANGED <<operations, analyses>>, UNCHANGED rest,
         jobs[j].analysis # None => Reported(jobs[j].analysis),
         \A o \in DOMAIN operations : ~Carries(j, o)
  PROVE  Inv'
<1>1. TypeOK'
  <2>1. runs' \subseteq Run
    BY Rows
  <2> QED
    BY <2>1, SameRowsType DEF rest, Inv, TypeOK, JobTo
<1>2. JobsInv'
  BY DEF Inv, rest, JobsInv, JobTo
<1>3. RunsInv'
  BY FewerRuns DEF JobTo
<1>4. ReportMatchesState'
  BY DEF Inv, ReportMatchesState
<1>5. AnalysisIsServed'
  <2> SUFFICES ASSUME NEW a \in DOMAIN analyses,
                      analyses[a].state = "queued" \/ (analyses[a].state = "analyzing" /\ ~deleted)
               PROVE  \E i \in DOMAIN jobs : jobs'[i].analysis = a /\ JobActive(i)'
    BY DEF AnalysisIsServed, deleted, rest, JobTo
  <2>1. PICK i \in DOMAIN jobs : jobs[i].analysis = a /\ JobActive(i)
    BY DEF Inv, AnalysisIsServed, deleted
  <2>2. ~analyses[a].report /\ a # None
    <3>1. analyses[a].report <=> analyses[a].state \in {"completed", "partial"}
      BY DEF Inv, ReportMatchesState
    <3>2. a # None
      BY Rows DEF None
    <3> QED
      BY <3>1, <3>2
  <2>3. i # j
    BY <2>1, <2>2 DEF Reported
  <2> QED
    BY <2>1, <2>3 DEF JobTo, JobActive
<1>6. OperationsInv'
  <2> SUFFICES ASSUME NEW o \in DOMAIN operations, o \notin shadowed \cup reopened,
                      operations[o].state \in ActiveStates
               PROVE  \E k \in DOMAIN jobs : Carries(k, o)'
    BY DEF OperationsInv, rest, JobTo
  <2>1. PICK k \in DOMAIN jobs : Carries(k, o)
    BY DEF Inv, OperationsInv
  <2>2. k # j
    BY <2>1
  <2>3. jobs'[k] = jobs[k]
    BY <2>2 DEF JobTo
  <2>4. Carries(k, o)'
    BY <2>1, <2>3 DEF Carries, Fenced, JobActive, Reported
  <2> QED
    BY <2>4
<1> QED
  BY <1>1, <1>2, <1>3, <1>4, <1>5, <1>6 DEF Inv

\* A job waits for another attempt.
LEMMA RequeuedInv ==
  ASSUME Inv, NEW j \in DOMAIN jobs, JobTo(j, "queued"), runs' \subseteq runs,
         jobs[j].state = "running",
         UNCHANGED <<operations, analyses>>, UNCHANGED rest
  PROVE  Inv'
<1>1. TypeOK'
  <2>1. runs' \subseteq Run
    BY Rows
  <2> QED
    BY <2>1, SameRowsType DEF rest, Inv, TypeOK, JobTo
<1>2. JobsInv'
  BY DEF Inv, rest, JobsInv, JobTo
<1>3. RunsInv'
  BY FewerRuns DEF JobTo
<1>4. ReportMatchesState'
  BY DEF Inv, ReportMatchesState
<1>5. \A i \in DOMAIN jobs : JobActive(i) => JobActive(i)'
  BY DEF JobTo, JobActive
<1>6. AnalysisIsServed'
  BY <1>5 DEF Inv, AnalysisIsServed, deleted, rest, JobTo
<1>7. OperationsInv'
  <2> SUFFICES ASSUME NEW o \in DOMAIN operations, o \notin shadowed \cup reopened,
                      operations[o].state \in ActiveStates
               PROVE  \E k \in DOMAIN jobs : Carries(k, o)'
    BY DEF OperationsInv, rest, JobTo
  <2>1. PICK k \in DOMAIN jobs : Carries(k, o)
    BY DEF Inv, OperationsInv
  <2>2. jobs'[k].operation = o /\ ~Reported(jobs[k].analysis)'
    BY <2>1 DEF Carries, Reported, JobTo
  <2>3. \A r \in runs' : r.job = k /\ Fenced(r)' => Fenced(r)
    BY DEF JobTo, Fenced
  <2>4. Carries(k, o)'
    BY <1>5, <2>1, <2>2, <2>3 DEF Carries
  <2> QED
    BY <2>4
<1> QED
  BY <1>1, <1>2, <1>3, <1>4, <1>6, <1>7 DEF Inv

\* A job is given up, and its operation and analysis with it.
LEMMA GivenUpInv ==
  ASSUME Inv, NEW j \in DOMAIN jobs, JobTo(j, "failed"), runs' \subseteq runs,
         ~Reported(jobs[j].analysis), analyses' = GivenUp(j),
         \/ SetOperation(jobs[j].operation, "failed")
         \/ operations[jobs[j].operation].state = "completed" /\ UNCHANGED operations,
         UNCHANGED rest
  PROVE  Inv'
<1> DEFINE a == jobs[j].analysis
           o == jobs[j].operation
<1>1. /\ operations' \in Seq(Operation) /\ Len(operations') = Len(operations)
      /\ DOMAIN operations' = DOMAIN operations
      /\ operations'[o].state \notin ActiveStates
      /\ \A p \in DOMAIN operations : p # o => operations'[p] = operations[p]
  <2>1. o \in DOMAIN operations
    BY Rows
  <2>2. CASE SetOperation(o, "failed")
    BY <2>1, <2>2, OperationTo DEF Inv, OperationStates, ActiveStates
  <2>3. CASE operations[o].state = "completed" /\ UNCHANGED operations
    BY <2>3 DEF Inv, TypeOK, ActiveStates
  <2> QED
    BY <2>2, <2>3
<1>2. /\ analyses' \in Seq(Analysis) /\ Len(analyses') = Len(analyses)
      /\ DOMAIN analyses' = DOMAIN analyses
      /\ \A b \in DOMAIN analyses : analyses'[b].report = analyses[b].report
      /\ \A b \in DOMAIN analyses : b # a => analyses'[b] = analyses[b]
      /\ a # None => analyses'[a].state = "failed" /\ ~analyses[a].report
  <2>1. CASE a = None
    BY <2>1 DEF GivenUp, Inv, TypeOK
  <2>2. CASE a # None
    <3>1. a \in DOMAIN analyses
      BY <2>2, Rows
    <3>2. AnalysisTo(a, "failed", analyses[a].report)
      BY <2>2, <3>1, AnalysisToState DEF GivenUp, Inv, AnalysisStates
    <3> QED
      BY <2>2, <3>1, <3>2 DEF AnalysisTo, Reported
  <2> QED
    BY <2>1, <2>2
<1> HIDE DEF a, o
<1>3. TypeOK'
  <2>1. runs' \subseteq Run
    BY Rows
  <2> QED
    BY <1>1, <1>2, <2>1, SameRowsType DEF rest, Inv, TypeOK, JobTo
<1>4. JobsInv'
  <2>1. \A i \in DOMAIN jobs : /\ jobs'[i].operation = jobs[i].operation
                                /\ jobs'[i].analysis = jobs[i].analysis
                                /\ jobs'[i].attempt = jobs[i].attempt
    BY <1>1 DEF JobTo
  <2> QED
    BY <1>1, <1>2, <2>1 DEF Inv, rest, JobsInv, JobTo
<1>5. RunsInv'
  BY <1>2, FewerRuns DEF JobTo
<1>6. ReportMatchesState'
  <2> SUFFICES ASSUME NEW b \in DOMAIN analyses
               PROVE  analyses'[b].report <=> analyses'[b].state \in {"completed", "partial"}
    BY <1>2 DEF ReportMatchesState
  <2>1. analyses[b].report <=> analyses[b].state \in {"completed", "partial"}
    BY DEF Inv, ReportMatchesState
  <2>2. a # b \/ a # None
    BY Rows DEF None
  <2> QED
    BY <1>2, <2>1, <2>2
<1>7. AnalysisIsServed'
  <2> SUFFICES ASSUME NEW b \in DOMAIN analyses,
                      analyses'[b].state = "queued" \/ (analyses'[b].state = "analyzing" /\ ~deleted)
               PROVE  \E i \in DOMAIN jobs : jobs'[i].analysis = b /\ JobActive(i)'
    BY <1>2 DEF AnalysisIsServed, deleted, rest, JobTo
  <2>1. b # None
    BY Rows DEF None
  <2>2. b # a
    BY <1>2, <2>1
  <2>3. analyses'[b] = analyses[b]
    BY <1>2, <2>2
  <2>4. PICK i \in DOMAIN jobs : jobs[i].analysis = b /\ JobActive(i)
    BY <2>3 DEF Inv, AnalysisIsServed, deleted
  <2>5. i # j
    BY <2>2, <2>4 DEF a
  <2> QED
    BY <2>4, <2>5 DEF JobTo, JobActive
<1>8. OperationsInv'
  <2> SUFFICES ASSUME NEW p \in DOMAIN operations, p \notin shadowed \cup reopened,
                      operations'[p].state \in ActiveStates
               PROVE  \E k \in DOMAIN jobs : Carries(k, p)'
    BY <1>1 DEF OperationsInv, rest, JobTo
  <2>1. p # o /\ operations'[p] = operations[p]
    BY <1>1
  <2>2. PICK k \in DOMAIN jobs : Carries(k, p)
    BY <2>1 DEF Inv, OperationsInv
  <2>3. k # j
    BY <2>1, <2>2 DEF Carries, o
  <2>4. jobs'[k] = jobs[k]
    BY <2>3 DEF JobTo
  <2>5. ~Reported(jobs[k].analysis)'
    BY <1>2, <2>2, <2>4, Rows DEF Carries, Reported
  <2>6. Carries(k, p)'
    BY <2>2, <2>4, <2>5 DEF Carries, Fenced, JobActive
  <2> QED
    BY <2>6
<1> QED
  BY <1>3, <1>4, <1>5, <1>6, <1>7, <1>8 DEF Inv

LEMMA ClaimInv == ASSUME Inv, NEW j \in DOMAIN jobs, Claim(j) PROVE Inv'
<1> DEFINE n == jobs[j].attempt + 1
<1>1. PICK x : x = [job |-> j, attempt |-> n, pc |-> "starting"]
  OBVIOUS
<1>2. PICK job : job = [jobs[j] EXCEPT !.state = "running", !.attempt = jobs[j].attempt + 1]
  OBVIOUS
<1>3. /\ runs \subseteq Run /\ jobs[j] \in Job /\ jobs[j].attempt \in Nat
      /\ claims \in 0..MaxClaims /\ jobs[j].attempt <= claims
      /\ \A r \in runs : r.attempt <= jobs[r.job].attempt /\ r.attempt \in Nat
  BY Rows, BoundAssumption DEF Inv, JobsInv, RunsInv, Run
<1>4. claims' = claims + 1 /\ claims < MaxClaims /\ jobs[j].state = "queued"
  BY DEF Claim
<1>5. n \in 1..MaxClaims /\ n \in 0..MaxClaims /\ n <= claims' /\ claims' \in 0..MaxClaims
  BY <1>3, <1>4, BoundAssumption
<1>6. /\ job \in Job /\ job.operation = jobs[j].operation /\ job.analysis = jobs[j].analysis
      /\ job.attempt = n /\ job.state = "running"
  BY <1>2, <1>3, <1>5 DEF Job, JobStates
<1>7. jobs' = [jobs EXCEPT ![j] = job]
  <2>1. jobs' = [jobs EXCEPT ![j] = [jobs[j] EXCEPT !.state = "running", !.attempt = jobs[j].attempt + 1]]
    BY DEF Claim
  <2> QED
    BY <1>2, <2>1
<1>8. /\ jobs' \in Seq(Job) /\ DOMAIN jobs' = DOMAIN jobs /\ jobs'[j] = job
      /\ \A i \in DOMAIN jobs : i # j => jobs'[i] = jobs[i]
  BY <1>6, <1>7, Replaced DEF Inv, TypeOK
<1>9. /\ runs' = runs \cup {x} /\ x \in Run /\ x.job = j /\ x.attempt = n /\ x.pc = "starting"
      /\ UNCHANGED <<head, open, operations, analyses, deletion, shadowed, reopened>>
  BY <1>1, <1>5 DEF Claim, Run, Pcs, history
<1> HIDE DEF n
<1>10. TypeOK'
  <2>1. runs' \subseteq Run
    BY <1>3, <1>9
  <2> QED
    BY <1>5, <1>8, <1>9, <2>1, SameRowsType DEF Inv, TypeOK
<1>11. \A i \in DOMAIN jobs : /\ jobs'[i].operation = jobs[i].operation
                              /\ jobs'[i].analysis = jobs[i].analysis
                              /\ jobs'[i].attempt >= jobs[i].attempt
                              /\ JobActive(i) => JobActive(i)'
  <2>1. n >= jobs[j].attempt
    BY <1>3 DEF n
  <2>2. JobActive(j)'
    BY <1>6, <1>8 DEF JobActive
  <2> QED
    BY <1>6, <1>8, <2>1, <2>2, Rows DEF JobActive
<1>12. JobsInv'
  <2>1. ASSUME NEW i \in DOMAIN jobs PROVE jobs'[i].attempt <= claims'
    <3>1. CASE i = j
      BY <1>5, <1>6, <1>8, <3>1
    <3>2. CASE i # j
      <4>1. jobs[i].attempt <= claims /\ jobs[i].attempt \in Nat /\ claims \in Nat
        BY Rows DEF Inv, JobsInv, TypeOK
      <4> QED
        BY <1>4, <1>8, <3>2, <4>1
    <3> QED
      BY <3>1, <3>2
  <2> QED
    BY <1>8, <1>9, <1>11, <2>1 DEF Inv, JobsInv
<1>13. \A r \in runs : r.job = j => r.attempt # n
  BY <1>3 DEF n
<1>14. RunsInv'
  <2>1. \A r \in runs' : r.attempt <= jobs'[r.job].attempt
    <3> SUFFICES ASSUME NEW r \in runs' PROVE r.attempt <= jobs'[r.job].attempt
      OBVIOUS
    <3>1. CASE r = x
      BY <1>3, <1>6, <1>8, <1>9, <3>1 DEF n
    <3>2. CASE r \in runs
      <4>1. r.job \in DOMAIN jobs
        BY <1>3, <3>2 DEF Run
      <4>2. jobs'[r.job].attempt >= jobs[r.job].attempt /\ jobs[r.job].attempt \in Nat
            /\ jobs'[r.job].attempt \in Nat
        <5>1. jobs'[r.job].attempt >= jobs[r.job].attempt /\ jobs[r.job].attempt \in Nat
          BY <1>11, <4>1, Rows
        <5>2. CASE r.job = j
          BY <1>5, <1>6, <1>8, <5>1, <5>2
        <5>3. CASE r.job # j
          BY <1>8, <4>1, <5>1, <5>3
        <5> QED
          BY <5>1, <5>2, <5>3
      <4> QED
        BY <1>3, <3>2, <4>2
    <3> QED
      BY <1>9, <3>1, <3>2
  <2>2. \A r, s \in runs' : r.job = s.job /\ r.attempt = s.attempt => r = s
    BY <1>9, <1>13 DEF Inv, RunsInv
  <2>3. \A r \in runs' : r.pc = "returned" /\ ~Materializes(r)' => Reported(jobs[r.job].analysis)'
    <3> SUFFICES ASSUME NEW r \in runs', r.pc = "returned", ~Materializes(r)'
                 PROVE  Reported(jobs[r.job].analysis)'
      OBVIOUS
    <3>1. r \in runs /\ r.job \in DOMAIN jobs
      BY <1>3, <1>9 DEF Run
    <3>2. jobs'[r.job].analysis = jobs[r.job].analysis
      BY <1>11, <3>1
    <3>3. Reported(jobs[r.job].analysis)
      BY <3>1, <3>2 DEF Inv, RunsInv, Materializes
    <3> QED
      BY <1>9, <3>2, <3>3 DEF Reported
  <2>4. \A r \in runs' : Looked(r)'
    <3> SUFFICES ASSUME NEW r \in runs' PROVE Looked(r)'
      OBVIOUS
    <3>1. CASE r = x
      BY <1>9, <3>1 DEF Looked
    <3>2. CASE r \in runs
      <4>1. r.job \in DOMAIN jobs /\ Looked(r)
        BY <1>3, <3>2 DEF Run, Inv, RunsInv
      <4>2. jobs'[r.job].analysis = jobs[r.job].analysis /\ analyses' = analyses
        BY <1>9, <1>11, <4>1
      <4>3. Fenced(r)' => Fenced(r)
        BY <1>6, <1>8, <1>13, <3>2, <4>1 DEF Fenced
      <4> QED
        BY <4>1, <4>2, <4>3 DEF Looked, Reported
    <3> QED
      BY <1>9, <3>1, <3>2
  <2> QED
    BY <2>1, <2>2, <2>3, <2>4 DEF RunsInv
<1>15. ReportMatchesState'
  BY <1>9 DEF Inv, ReportMatchesState
<1>16. AnalysisIsServed'
  BY <1>8, <1>9, <1>11 DEF Inv, AnalysisIsServed, deleted
<1>17. OperationsInv'
  <2> SUFFICES ASSUME NEW o \in DOMAIN operations, o \notin shadowed \cup reopened,
                      operations[o].state \in ActiveStates
               PROVE  \E k \in DOMAIN jobs : Carries(k, o)'
    BY <1>8, <1>9 DEF OperationsInv
  <2>1. PICK k \in DOMAIN jobs : Carries(k, o)
    BY DEF Inv, OperationsInv
  <2>2. jobs'[k].operation = o /\ JobActive(k)'
    BY <1>11, <2>1 DEF Carries
  <2>3. ~Reported(jobs[k].analysis)'
    BY <1>9, <1>11, <2>1 DEF Carries, Reported
  <2>4. ASSUME NEW r \in runs', r.job = k, Fenced(r)', r.pc = "returned" PROVE FALSE
    <3>1. r \in runs
      BY <1>9, <2>4
    <3>2. CASE k = j
      BY <1>6, <1>8, <1>13, <2>4, <3>1, <3>2 DEF Fenced
    <3>3. CASE k # j
      BY <1>8, <2>1, <2>4, <3>1, <3>3 DEF Fenced, Carries
    <3> QED
      BY <3>2, <3>3
  <2>5. Carries(k, o)'
    BY <2>2, <2>3, <2>4 DEF Carries
  <2> QED
    BY <2>5
<1> QED
  BY <1>10, <1>12, <1>14, <1>15, <1>16, <1>17 DEF Inv

LEMMA RecoverInv == ASSUME Inv, NEW j \in DOMAIN jobs, Recover(j) PROVE Inv'
<1>1. UNCHANGED rest /\ runs' = runs /\ jobs[j].state = "running"
  BY DEF Recover, rest, history
<1>2. CASE Reported(jobs[j].analysis)
  <2>1. jobs' = [jobs EXCEPT ![j].state = "completed"] /\ UNCHANGED <<operations, analyses>>
    BY <1>2 DEF Recover
  <2>2. JobTo(j, "completed")
    BY <2>1, JobToState DEF Inv, JobStates
  <2>3. \A o \in DOMAIN operations : ~Carries(j, o)
    BY <1>2 DEF Carries
  <2> QED
    BY <1>1, <1>2, <2>1, <2>2, <2>3, DoneInv
<1>3. CASE ~Reported(jobs[j].analysis) /\ Recoverable(j)
  <2>1. /\ jobs' = [jobs EXCEPT ![j].state = "queued", ![j].recoveries = @ + 1]
        /\ UNCHANGED <<operations, analyses>>
    BY <1>3 DEF Recover
  <2>2. JobTo(j, "queued")
    BY <1>3, <2>1, JobToRecovered, Zenon DEF Inv
  <2>3. UNCHANGED <<operations, analyses>>
    BY <2>1
  <2> HIDE <2>1
  <2> QED
    BY <1>1, <2>2, <2>3, RequeuedInv
<1>4. CASE ~Reported(jobs[j].analysis) /\ ~Recoverable(j)
  <2>1. /\ jobs' = [jobs EXCEPT ![j].state = "failed"] /\ analyses' = GivenUp(j)
        /\ \/ SetOperation(jobs[j].operation, "failed")
           \/ operations[jobs[j].operation].state = "completed" /\ UNCHANGED operations
    BY <1>4 DEF Recover
  <2>2. JobTo(j, "failed")
    BY <2>1, JobToState DEF Inv, JobStates
  <2> QED
    BY <1>1, <1>4, <2>1, <2>2, GivenUpInv
<1> QED
  BY <1>2, <1>3, <1>4

LEMMA FailJobInv ==
  ASSUME Inv, NEW r \in runs, NEW terminal \in BOOLEAN, FailJob(r, terminal)
  PROVE  Inv'
<1> DEFINE j == r.job
<1>1. /\ j \in DOMAIN jobs /\ UNCHANGED rest /\ runs' \subseteq runs
      /\ jobs[j].state = "running" /\ ~Reported(jobs[j].analysis)
  BY Rows DEF FailJob, rest, history, Run, Fenced, Inv, RunsInv, Looked
<1>2. CASE terminal
  <2>1. /\ jobs' = [jobs EXCEPT ![j].state = "failed"] /\ analyses' = GivenUp(j)
        /\ SetOperation(jobs[j].operation, "failed")
    BY <1>2 DEF FailJob
  <2>2. JobTo(j, "failed")
    BY <1>1, <2>1, JobToState DEF Inv, JobStates
  <2> QED
    BY <1>1, <2>1, <2>2, GivenUpInv
<1>3. CASE ~terminal
  <2>1. jobs' = [jobs EXCEPT ![j].state = "queued"] /\ UNCHANGED <<operations, analyses>>
    BY <1>3 DEF FailJob
  <2>2. JobTo(j, "queued")
    BY <1>1, <2>1, JobToState DEF Inv, JobStates
  <2> QED
    BY <1>1, <2>1, <2>2, RequeuedInv
<1> QED
  BY <1>2, <1>3

LEMMA CompleteInv ==
  ASSUME Inv, NEW r \in runs, CompleteJob(r) \/ FailReported(r)
  PROVE  Inv'
<1> DEFINE j == r.job
<1>1. /\ j \in DOMAIN jobs /\ UNCHANGED rest /\ runs' \subseteq runs
      /\ UNCHANGED <<operations, analyses>>
      /\ jobs' = [jobs EXCEPT ![j].state = "completed"]
  BY Rows DEF CompleteJob, FailReported, rest, history, Run
<1>2. JobTo(j, "completed")
  BY <1>1, JobToState DEF Inv, JobStates
<1>3. r.pc = "reported" => Reported(jobs[j].analysis)
  BY DEF Inv, RunsInv, Looked
<1>4. \A o \in DOMAIN operations : ~Carries(j, o)
  BY <1>3 DEF CompleteJob, FailReported, Carries
<1>5. jobs[j].analysis # None => Reported(jobs[j].analysis)
  BY <1>3 DEF CompleteJob, FailReported, Inv, RunsInv, Materializes
<1> QED
  BY <1>1, <1>2, <1>4, <1>5, DoneInv

LEMMA RunEndsInv ==
  ASSUME Inv, NEW r \in runs, LoseLease(r) \/ Crash(r)
  PROVE  Inv'
<1>1. /\ UNCHANGED rest /\ UNCHANGED <<operations, analyses, jobs>> /\ runs' = runs \ {r}
  BY DEF LoseLease, Crash, rest, history
<1>2. runs' \subseteq Run
  BY <1>1, Rows
<1> QED
  BY <1>1, <1>2, RunsOnlyInv DEF Inv, RunsInv

LEMMA ThrowInv == ASSUME Inv, NEW r \in runs, Throw(r) PROVE Inv'
<1> DEFINE a == jobs[r.job].analysis
           pc == IF Reported(a) THEN "reported" ELSE "unreported"
<1>1. /\ UNCHANGED rest /\ UNCHANGED <<operations, analyses, jobs>> /\ GoTo(r, pc)
  BY DEF Throw, rest, history
<1>2. pc \in Pcs /\ pc # "returned" /\ (pc = "reported" <=> Reported(a))
      /\ (pc = "unreported" <=> ~Reported(a))
  BY DEF Pcs
<1> HIDE DEF pc
<1>3. /\ runs' \subseteq Run
      /\ \A s \in runs' : s \in runs \/ (s.job = r.job /\ s.attempt = r.attempt /\ s.pc = pc)
      /\ \A s, t \in runs' : s.job = t.job /\ s.attempt = t.attempt => s = t
  BY <1>1, <1>2, Rows, RunTo DEF Inv
<1>4. \A s \in runs' : s \in runs \/ (s.job = r.job /\ s.attempt = r.attempt /\ s.pc = pc
                                       /\ Looked(s))
  BY <1>2, <1>3 DEF Looked
<1> QED
  BY <1>1, <1>2, <1>3, <1>4, RunsOnlyInv

-----------------------------------------------------------------------------
(* The bodies *)

\* What is said of runs when one of them goes on and no job changes.
LEMMA GoToRuns ==
  ASSUME Inv, NEW r \in runs, NEW pc \in Pcs, GoTo(r, pc),
         \A j \in DOMAIN jobs : jobs'[j] = jobs[j],
         pc \notin {"reported", "unreported"},
         \A a \in DOMAIN analyses : analyses[a].report => analyses'[a].report,
         \A a \in DOMAIN analyses : \/ a = jobs[r.job].analysis /\ Fenced(r) /\ r.pc = "working"
                                    \/ analyses'[a].report = analyses[a].report,
         pc = "returned" /\ ~Materializes(r) => Reported(jobs[r.job].analysis)'
  PROVE  RunsInv'
<1>1. /\ runs \subseteq Run
      /\ \A j \in DOMAIN jobs : jobs[j].analysis # None => jobs[j].analysis \in DOMAIN analyses
  BY Rows
<1>2. /\ \A s \in runs' : \/ s \in runs
                          \/ s.job = r.job /\ s.attempt = r.attempt /\ s.pc = pc
      /\ \A s, t \in runs' : s.job = t.job /\ s.attempt = t.attempt => s = t
  BY <1>1, RunTo DEF Inv
<1>3. \A s \in runs : s.job \in DOMAIN jobs /\ jobs'[s.job] = jobs[s.job]
  BY <1>1 DEF Run
<1>4. \A s \in runs' : s.attempt <= jobs'[s.job].attempt
  BY <1>2, <1>3 DEF Inv, RunsInv
<1>5. \A s \in runs' : s.pc = "returned" /\ ~Materializes(s)' => Reported(jobs[s.job].analysis)'
  <2> SUFFICES ASSUME NEW s \in runs', s.pc = "returned", ~Materializes(s)'
               PROVE  Reported(jobs[s.job].analysis)'
    OBVIOUS
  <2>1. CASE s \in runs
    <3>1. Reported(jobs[s.job].analysis)
      BY <1>3, <2>1 DEF Inv, RunsInv, Materializes
    <3> QED
      BY <1>1, <1>3, <2>1, <3>1 DEF Reported
  <2>2. CASE s.job = r.job /\ s.pc = pc
    BY <1>3, <2>2 DEF Materializes
  <2> QED
    BY <1>2, <2>1, <2>2
<1>6. \A s \in runs' : Looked(s)'
  <2> SUFFICES ASSUME NEW s \in runs', s.pc \in {"reported", "unreported"}
               PROVE  Looked(s)'
    BY DEF Looked
  <2>1. s \in runs /\ Looked(s) /\ s.job \in DOMAIN jobs /\ jobs'[s.job] = jobs[s.job]
    BY <1>2, <1>3 DEF Inv, RunsInv
  <2>2. CASE s.pc = "reported"
    BY <1>1, <2>1, <2>2 DEF Looked, Reported
  <2>3. CASE s.pc = "unreported" /\ Fenced(s) /\ jobs[s.job].analysis # None
    <3> DEFINE a == jobs[s.job].analysis
    <3>1. a \in DOMAIN analyses /\ ~analyses[a].report
      BY <1>1, <2>1, <2>3 DEF Looked, Reported
    <3>2. CASE a = jobs[r.job].analysis /\ Fenced(r) /\ r.pc = "working"
      <4>1. r.job \in DOMAIN jobs /\ r.job = s.job
        BY <1>3, <2>1, <2>3, <3>2 DEF Inv, JobsInv
      <4>2. r.attempt = s.attempt
        BY <2>3, <3>2, <4>1 DEF Fenced
      <4>3. r = s
        BY <2>1, <4>1, <4>2 DEF Inv, RunsInv
      <4> QED
        BY <2>3, <3>2, <4>3
    <3>3. CASE analyses'[a].report = analyses[a].report
      BY <2>1, <2>3, <3>1, <3>3 DEF Looked, Reported
    <3> QED
      BY <3>1, <3>2, <3>3
  <2>4. CASE ~Fenced(s) \/ jobs[s.job].analysis = None
    BY <2>1, <2>2, <2>4 DEF Looked, Fenced, Reported
  <2> QED
    BY <2>2, <2>3, <2>4
<1> QED
  BY <1>2, <1>4, <1>5, <1>6 DEF RunsInv

\* A job goes on carrying what it carries, unless its run returns.
LEMMA StillCarries ==
  ASSUME Inv, NEW r \in runs, NEW pc \in Pcs, GoTo(r, pc),
         NEW o, NEW k \in DOMAIN jobs, Carries(k, o), jobs'[k] = jobs[k],
         ~Reported(jobs[k].analysis)', k = r.job => pc # "returned"
  PROVE  Carries(k, o)'
<1>1. \A s \in runs' : \/ s \in runs
                       \/ s.job = r.job /\ s.attempt = r.attempt /\ s.pc = pc
  BY Rows, RunTo DEF Inv
<1>2. \A s \in runs' : s.job = k /\ Fenced(s)' => s.pc # "returned"
  BY <1>1 DEF Carries, Fenced
<1> QED
  BY <1>2 DEF Carries, JobActive

LEMMA StartSnapshotInv == ASSUME Inv, NEW r \in runs, StartSnapshot(r) PROVE Inv'
<1> DEFINE o == jobs[r.job].operation
<1>1. /\ r \in Run /\ runs \subseteq Run /\ r.job \in DOMAIN jobs /\ o \in DOMAIN operations
  BY Rows DEF Run
<1>2. /\ SetOperation(o, "materializing") /\ GoTo(r, "working") /\ Materializes(r)
      /\ reopened' = IF Fenced(r) THEN reopened ELSE reopened \cup {o}
      /\ UNCHANGED <<head, open, analyses, jobs, claims, deletion, shadowed>>
  BY DEF StartSnapshot
<1>3. /\ operations' \in Seq(Operation) /\ Len(operations') = Len(operations)
      /\ DOMAIN operations' = DOMAIN operations
      /\ operations'[o].state = "materializing"
      /\ \A p \in DOMAIN operations : p # o => operations'[p] = operations[p]
  BY <1>1, <1>2, OperationTo DEF Inv, OperationStates
<1>4. /\ runs' \subseteq Run
      /\ \A s \in runs' : s.job = r.job /\ s.attempt = r.attempt => s.pc = "working"
  BY <1>1, <1>2, RunTo DEF Inv, Pcs
<1> HIDE DEF o
<1>5. TypeOK'
  <2>1. reopened' \subseteq DOMAIN operations
    BY <1>1, <1>2 DEF Inv, TypeOK
  <2> QED
    BY <1>2, <1>3, <1>4, <2>1, SameRowsType DEF Inv, TypeOK
<1>6. JobsInv'
  BY <1>2, <1>3 DEF Inv, JobsInv
<1>7. RunsInv'
  BY <1>2, GoToRuns DEF Pcs
<1>8. ReportMatchesState' /\ AnalysisIsServed'
  BY <1>2 DEF Inv, ReportMatchesState, AnalysisIsServed, deleted, JobActive
<1>9. OperationsInv'
  <2> SUFFICES ASSUME NEW p \in DOMAIN operations, p \notin shadowed \cup reopened',
                      operations'[p].state \in ActiveStates
               PROVE  \E k \in DOMAIN jobs : Carries(k, p)'
    BY <1>2, <1>3 DEF OperationsInv
  <2>1. CASE p # o
    <3>1. PICK k \in DOMAIN jobs : Carries(k, p)
      BY <1>2, <1>3, <2>1 DEF Inv, OperationsInv
    <3>2. ~Reported(jobs[k].analysis)'
      BY <1>2, <3>1 DEF Carries, Reported
    <3>3. Carries(k, p)'
      BY <1>2, <3>1, <3>2, StillCarries DEF Pcs
    <3> QED
      BY <3>3
  <2>2. CASE p = o
    <3>1. Fenced(r)
      BY <1>2, <2>2
    <3>2. ~Reported(jobs[r.job].analysis)'
      BY <1>2 DEF Materializes, Reported
    <3>3. Carries(r.job, p)'
      BY <1>2, <1>4, <2>2, <3>1, <3>2 DEF Carries, Fenced, JobActive, o
    <3> QED
      BY <1>1, <3>3
  <2> QED
    BY <2>1, <2>2
<1> QED
  BY <1>5, <1>6, <1>7, <1>8, <1>9 DEF Inv

LEMMA PersistUnresolvedInv == ASSUME Inv, NEW r \in runs, PersistUnresolved(r) PROVE Inv'
<1> DEFINE o == jobs[r.job].operation
<1>1. /\ r \in Run /\ runs \subseteq Run /\ r.job \in DOMAIN jobs /\ o \in DOMAIN operations
  BY Rows DEF Run
<1>2. /\ SetOperation(o, "completed") /\ GoTo(r, "returned") /\ Materializes(r)
      /\ UNCHANGED <<head, open, analyses, jobs, claims, deletion, shadowed, reopened>>
  BY DEF PersistUnresolved, history
<1>3. /\ operations' \in Seq(Operation) /\ Len(operations') = Len(operations)
      /\ DOMAIN operations' = DOMAIN operations
      /\ operations'[o].state = "completed"
      /\ \A p \in DOMAIN operations : p # o => operations'[p] = operations[p]
  BY <1>1, <1>2, OperationTo DEF Inv, OperationStates
<1>4. runs' \subseteq Run
  BY <1>1, <1>2, RunTo DEF Inv, Pcs
<1> HIDE DEF o
<1>5. TypeOK'
  BY <1>2, <1>3, <1>4, SameRowsType DEF Inv, TypeOK
<1>6. JobsInv'
  BY <1>2, <1>3 DEF Inv, JobsInv
<1>7. RunsInv'
  BY <1>2, GoToRuns DEF Pcs
<1>8. ReportMatchesState' /\ AnalysisIsServed'
  BY <1>2 DEF Inv, ReportMatchesState, AnalysisIsServed, deleted, JobActive
<1>9. OperationsInv'
  <2> SUFFICES ASSUME NEW p \in DOMAIN operations, p \notin shadowed \cup reopened,
                      operations'[p].state \in ActiveStates
               PROVE  \E k \in DOMAIN jobs : Carries(k, p)'
    BY <1>2, <1>3 DEF OperationsInv
  <2>1. p # o
    BY <1>3 DEF ActiveStates
  <2>2. PICK k \in DOMAIN jobs : Carries(k, p)
    BY <1>2, <1>3, <2>1 DEF Inv, OperationsInv
  <2>3. k # r.job
    BY <2>1, <2>2 DEF Carries, o
  <2>4. ~Reported(jobs[k].analysis)'
    BY <1>2, <2>2 DEF Carries, Reported
  <2>5. Carries(k, p)'
    BY <1>2, <2>2, <2>3, <2>4, StillCarries DEF Pcs
  <2> QED
    BY <2>5
<1> QED
  BY <1>5, <1>6, <1>7, <1>8, <1>9 DEF Inv

LEMMA NewJobType ==
  ASSUME NEW o \in 1..MaxOperations, NEW a \in 0..MaxAnalyses, NEW polled \in BOOLEAN
  PROVE  /\ NewJob(o, a, polled) \in Job
         /\ NewJob(o, a, polled).operation = o /\ NewJob(o, a, polled).analysis = a
         /\ NewJob(o, a, polled).state = "queued" /\ NewJob(o, a, polled).attempt = 0
  BY BoundAssumption DEF NewJob, Job, JobStates

LEMMA PersistSnapshotInv == ASSUME Inv, NEW r \in runs, PersistSnapshot(r) PROVE Inv'
<1>0. PICK o, a, n : o = jobs[r.job].operation /\ a = Len(analyses) + 1 /\ n = Len(jobs) + 1
  OBVIOUS
<1>1. /\ r \in Run /\ runs \subseteq Run /\ r.job \in DOMAIN jobs /\ o \in DOMAIN operations
      /\ o \in 1..MaxOperations
  BY <1>0, Rows DEF Run, Job
<1>2. /\ SetOperation(o, "analyzing") /\ GoTo(r, "returned") /\ Materializes(r)
      /\ UNCHANGED <<head, open, claims, deletion, shadowed, reopened>>
      /\ a <= MaxAnalyses /\ jobs' = Append(jobs, NewJob(o, a, FALSE))
  BY <1>0 DEF PersistSnapshot, history
<1>3. /\ operations' \in Seq(Operation) /\ Len(operations') = Len(operations)
      /\ DOMAIN operations' = DOMAIN operations
      /\ operations'[o].state = "analyzing"
      /\ \A p \in DOMAIN operations : p # o => operations'[p] = operations[p]
  BY <1>1, <1>2, OperationTo DEF Inv, OperationStates
<1>4. /\ runs' \subseteq Run
      /\ \A s \in runs' : s.job \in DOMAIN jobs
  BY <1>1, <1>2, RunTo DEF Inv, Pcs, Run
<1>5. PICK job : job = NewJob(o, a, FALSE)
  OBVIOUS
<1>6. a \in 0..MaxAnalyses /\ a # None
  BY <1>0, <1>2, BoundAssumption, Rows DEF None
<1>7. job \in Job /\ job.operation = o /\ job.analysis = a /\ job.state = "queued" /\ job.attempt = 0
  BY <1>1, <1>5, <1>6, NewJobType
<1>8. /\ jobs' \in Seq(Job) /\ n \in DOMAIN jobs' /\ jobs'[n] = job /\ n \notin DOMAIN jobs
      /\ DOMAIN jobs' = DOMAIN jobs \cup {n}
      /\ \A j \in DOMAIN jobs : jobs'[j] = jobs[j]
  <2>1. jobs \in Seq(Job) /\ jobs' = Append(jobs, job)
    BY <1>2, <1>5 DEF Inv, TypeOK
  <2> QED
    BY <1>0, <1>7, <2>1, Appended
<1>9. PICK analysis : analysis =
        [head |-> operations[o].head, shared |-> operations[o].scope = Collective,
         state |-> "queued", report |-> FALSE, from |-> None]
  OBVIOUS
<1>10. analysis \in Analysis /\ analysis.state = "queued" /\ ~analysis.report
  <2>1. operations[o] \in Operation
    BY <1>1 DEF Inv, TypeOK
  <2> QED
    BY <1>9, <2>1, BoundAssumption DEF Operation, Analysis, AnalysisStates, None
<1>11. analyses' = Append(analyses, analysis)
  BY <1>0, <1>9 DEF PersistSnapshot
<1>12. /\ analyses' \in Seq(Analysis) /\ Len(analyses') = a /\ a \notin DOMAIN analyses
       /\ analyses'[a] = analysis /\ DOMAIN analyses' = DOMAIN analyses \cup {a}
       /\ Len(analyses) \in Nat
       /\ \A b \in DOMAIN analyses : analyses'[b] = analyses[b]
  BY <1>0, <1>10, <1>11, Appended DEF Inv, TypeOK
<1>13. TypeOK'
  <2>1. runs' \subseteq [job : DOMAIN jobs', attempt : 1..MaxClaims, pc : Pcs]
    BY <1>4, <1>8 DEF Run
  <2> QED
    BY <1>2, <1>3, <1>8, <1>12, <2>1 DEF Inv, TypeOK
<1>14. JobsInv'
  <2>1. \A j \in DOMAIN jobs : jobs[j].analysis <= Len(analyses')
    BY <1>0, <1>12, Rows, BoundAssumption DEF Inv, JobsInv, Job
  <2>2. claims' = claims /\ claims \in Nat /\ 0 <= claims
    BY <1>2, Rows
  <2>3. a <= Len(analyses')
    BY <1>0, <1>12
  <2> QED
    <3>1. \A j \in DOMAIN jobs' : /\ jobs'[j].operation \in DOMAIN operations'
                                  /\ jobs'[j].analysis <= Len(analyses')
                                  /\ jobs'[j].attempt <= claims'
      BY <1>1, <1>3, <1>7, <1>8, <2>1, <2>2, <2>3 DEF Inv, JobsInv
    <3>2. \A i, j \in DOMAIN jobs' :
            jobs'[i].analysis = jobs'[j].analysis /\ jobs'[i].analysis # None => i = j
      BY <1>7, <1>8, <1>12, Rows DEF Inv, JobsInv
    <3> QED
      BY <3>1, <3>2 DEF JobsInv
<1>15. RunsInv'
  BY <1>2, <1>8, <1>12, GoToRuns DEF Pcs
<1>16. ReportMatchesState'
  BY <1>10, <1>12 DEF Inv, ReportMatchesState
<1>17. AnalysisIsServed'
  <2> SUFFICES ASSUME NEW b \in DOMAIN analyses',
                      analyses'[b].state = "queued" \/ (analyses'[b].state = "analyzing" /\ ~deleted)
               PROVE  \E i \in DOMAIN jobs' : jobs'[i].analysis = b /\ JobActive(i)'
    BY <1>2 DEF AnalysisIsServed, deleted
  <2>1. CASE b = a
    BY <1>7, <1>8, <2>1 DEF JobActive
  <2>2. CASE b \in DOMAIN analyses
    <3>1. PICK i \in DOMAIN jobs : jobs[i].analysis = b /\ JobActive(i)
      BY <1>12, <2>2 DEF Inv, AnalysisIsServed, deleted
    <3> QED
      BY <1>8, <3>1 DEF JobActive
  <2> QED
    BY <1>12, <2>1, <2>2
<1>18. OperationsInv'
  <2> SUFFICES ASSUME NEW p \in DOMAIN operations, p \notin shadowed \cup reopened,
                      operations'[p].state \in ActiveStates
               PROVE  \E k \in DOMAIN jobs' : Carries(k, p)'
    BY <1>2, <1>3 DEF OperationsInv
  <2>1. CASE p = o
    <3>1. ~Reported(jobs[n].analysis)'
      BY <1>7, <1>8, <1>10, <1>12 DEF Reported
    <3>2. \A s \in runs' : s.job # n
      BY <1>4, <1>8
    <3>3. Carries(n, o)'
      BY <1>7, <1>8, <3>1, <3>2 DEF Carries, JobActive
    <3> QED
      BY <1>8, <2>1, <3>3
  <2>2. CASE p # o
    <3>1. PICK k \in DOMAIN jobs : Carries(k, p)
      BY <1>2, <1>3, <2>2 DEF Inv, OperationsInv
    <3>2. k # r.job
      BY <1>0, <2>2, <3>1 DEF Carries
    <3>3. ~Reported(jobs[k].analysis)'
      BY <1>8, <1>12, <3>1, Rows DEF Carries, Reported
    <3>4. Carries(k, p)'
      BY <1>2, <1>8, <3>1, <3>2, <3>3, StillCarries DEF Pcs
    <3> QED
      BY <1>8, <3>4
  <2> QED
    BY <2>1, <2>2
<1> QED
  BY <1>13, <1>14, <1>15, <1>16, <1>17, <1>18 DEF Inv

\* The run of an analysis that has a report returns, and one that has none works.
LEMMA StartAnalysisInv == ASSUME Inv, NEW r \in runs, StartAnalysis(r) PROVE Inv'
<1> DEFINE a == jobs[r.job].analysis
<1>1. /\ runs \subseteq Run /\ r.job \in DOMAIN jobs /\ a \in DOMAIN analyses /\ a # None
  BY Rows DEF Run, StartAnalysis, Materializes
<1>2. /\ UNCHANGED <<head, open, operations, jobs, claims, deletion, shadowed, reopened>>
      /\ Fenced(r)
  BY DEF StartAnalysis, history
<1>3. PICK pc \in {"returned", "working"} :
        /\ GoTo(r, pc)
        /\ pc = "returned" <=> Reported(a)
        /\ analyses' = IF Reported(a) THEN analyses ELSE Opened(a)
  BY DEF StartAnalysis
<1>4. /\ analyses' \in Seq(Analysis) /\ Len(analyses') = Len(analyses)
      /\ DOMAIN analyses' = DOMAIN analyses
      /\ \A b \in DOMAIN analyses : b # a => analyses'[b] = analyses[b]
      /\ analyses'[a].report = analyses[a].report
      /\ \/ analyses'[a] = analyses[a]
         \/ ~analyses[a].report /\ analyses'[a].state = "analyzing"
  <2>1. CASE analyses' = analyses
    BY <2>1 DEF Inv, TypeOK
  <2>2. CASE analyses' # analyses
    <3>1. ~analyses[a].report /\ analyses' = [analyses EXCEPT ![a].state = "analyzing"]
      BY <1>1, <1>3, <2>2 DEF Opened, Reported
    <3>2. AnalysisTo(a, "analyzing", analyses[a].report)
      BY <1>1, <3>1, AnalysisToState DEF Inv, AnalysisStates
    <3> QED
      BY <3>1, <3>2 DEF AnalysisTo
  <2> QED
    BY <2>1, <2>2
<1>5. runs' \subseteq Run /\ pc \in Pcs
  BY <1>1, <1>3, RunTo DEF Inv, Pcs
<1> HIDE DEF a
<1>6. TypeOK'
  BY <1>2, <1>4, <1>5, SameRowsType DEF Inv, TypeOK
<1>7. JobsInv'
  BY <1>2, <1>4 DEF Inv, JobsInv
<1>8. \A b \in DOMAIN analyses : analyses'[b].report = analyses[b].report
  BY <1>4
<1>9. RunsInv'
  <2>1. pc = "returned" => Reported(jobs[r.job].analysis)'
    BY <1>1, <1>2, <1>3, <1>8 DEF Reported, a
  <2> QED
    BY <1>2, <1>3, <1>5, <1>8, <2>1, GoToRuns
<1>10. ReportMatchesState'
  BY <1>4 DEF Inv, ReportMatchesState
<1>11. AnalysisIsServed'
  <2> SUFFICES ASSUME NEW b \in DOMAIN analyses,
                      analyses'[b].state = "queued" \/ (analyses'[b].state = "analyzing" /\ ~deleted)
               PROVE  \E i \in DOMAIN jobs : jobs[i].analysis = b /\ JobActive(i)
    BY <1>2, <1>4 DEF AnalysisIsServed, deleted, JobActive
  <2>1. CASE b = a
    BY <1>1, <1>2, <2>1 DEF Fenced, JobActive, a
  <2>2. CASE b # a
    BY <1>4, <2>2 DEF Inv, AnalysisIsServed, deleted
  <2> QED
    BY <2>1, <2>2
<1>12. OperationsInv'
  <2> SUFFICES ASSUME NEW p \in DOMAIN operations, p \notin shadowed \cup reopened,
                      operations[p].state \in ActiveStates
               PROVE  \E k \in DOMAIN jobs : Carries(k, p)'
    BY <1>2 DEF OperationsInv
  <2>1. PICK k \in DOMAIN jobs : Carries(k, p)
    BY DEF Inv, OperationsInv
  <2>2. ~Reported(jobs[k].analysis)'
    BY <1>2, <1>8, <2>1, Rows DEF Carries, Reported
  <2>3. k = r.job => pc # "returned"
    BY <1>3, <2>1 DEF Carries, a
  <2>4. Carries(k, p)'
    BY <1>2, <1>3, <1>5, <2>1, <2>2, <2>3, StillCarries
  <2> QED
    BY <2>4
<1> QED
  BY <1>6, <1>7, <1>9, <1>10, <1>11, <1>12 DEF Inv

LEMMA PersistAnalysisInv ==
  ASSUME Inv, NEW r \in runs, NEW state \in {"completed", "partial"}, PersistAnalysis(r, state)
  PROVE  Inv'
<1> DEFINE a == jobs[r.job].analysis
           o == jobs[r.job].operation
<1>1. /\ runs \subseteq Run /\ r.job \in DOMAIN jobs /\ a \in DOMAIN analyses /\ a # None
      /\ o \in DOMAIN operations
  BY Rows DEF Run, PersistAnalysis, Materializes
<1>2. /\ UNCHANGED <<head, open, jobs, claims, deletion, shadowed, reopened>>
      /\ GoTo(r, "returned")
  BY DEF PersistAnalysis, history
<1>3. CASE Reported(a)
  <2>1. UNCHANGED <<operations, analyses>>
    BY <1>3 DEF PersistAnalysis
  <2>2. runs' \subseteq Run
    BY <1>1, <1>2, RunTo DEF Inv, Pcs
  <2>3. TypeOK'
    BY <1>2, <2>1, <2>2, SameRowsType DEF Inv, TypeOK
  <2>4. JobsInv' /\ ReportMatchesState' /\ AnalysisIsServed'
    BY <1>2, <2>1 DEF Inv, JobsInv, ReportMatchesState, AnalysisIsServed, deleted, JobActive
  <2>5. RunsInv'
    <3>1. Reported(jobs[r.job].analysis)'
      BY <1>2, <1>3, <2>1 DEF Reported
    <3> QED
      BY <1>2, <2>1, <3>1, GoToRuns DEF Pcs
  <2>6. OperationsInv'
    <3> SUFFICES ASSUME NEW p \in DOMAIN operations, p \notin shadowed \cup reopened,
                        operations[p].state \in ActiveStates
                 PROVE  \E k \in DOMAIN jobs : Carries(k, p)'
      BY <1>2, <2>1 DEF OperationsInv
    <3>1. PICK k \in DOMAIN jobs : Carries(k, p)
      BY DEF Inv, OperationsInv
    <3>2. ~Reported(jobs[k].analysis)' /\ k # r.job
      BY <1>2, <1>3, <2>1, <3>1 DEF Carries, Reported
    <3>3. Carries(k, p)'
      BY <1>2, <3>1, <3>2, StillCarries DEF Pcs
    <3> QED
      BY <3>3
  <2> QED
    BY <2>3, <2>4, <2>5, <2>6 DEF Inv
<1>4. CASE ~Reported(a)
  <2>1. /\ AnalysisTo(a, state, TRUE)
        /\ SetOperation(o, "completed")
    <3>1. /\ analyses' = [analyses EXCEPT ![a].state = state, ![a].report = TRUE]
          /\ SetOperation(o, "completed")
      BY <1>4 DEF PersistAnalysis
    <3> QED
      BY <1>1, <3>1, AnalysisToReport, Zenon DEF Inv, AnalysisStates
  <2>2. /\ operations' \in Seq(Operation) /\ Len(operations') = Len(operations)
        /\ DOMAIN operations' = DOMAIN operations
        /\ operations'[o].state = "completed"
        /\ \A p \in DOMAIN operations : p # o => operations'[p] = operations[p]
    BY <1>1, <2>1, OperationTo DEF Inv, OperationStates
  <2>3. runs' \subseteq Run
    BY <1>1, <1>2, RunTo DEF Inv, Pcs
  <2>4. /\ analyses' \in Seq(Analysis) /\ Len(analyses') = Len(analyses)
        /\ DOMAIN analyses' = DOMAIN analyses
        /\ analyses'[a].report /\ analyses'[a].state = state
        /\ \A b \in DOMAIN analyses : b # a => analyses'[b] = analyses[b]
    BY <2>1 DEF AnalysisTo
  <2> HIDE DEF a, o
  <2>5. TypeOK'
    BY <1>2, <2>2, <2>3, <2>4, SameRowsType DEF Inv, TypeOK
  <2>6. JobsInv'
    BY <1>2, <2>2, <2>4 DEF Inv, JobsInv
  <2>7. RunsInv'
    <3>1. Reported(jobs[r.job].analysis)'
      BY <1>1, <1>2, <2>4 DEF Reported, a
    <3>2. \A b \in DOMAIN analyses : analyses[b].report => analyses'[b].report
      BY <2>4
    <3>3. \A b \in DOMAIN analyses : b = jobs[r.job].analysis \/ analyses'[b].report = analyses[b].report
      BY <2>4 DEF a
    <3>4. Fenced(r) /\ r.pc = "working"
      BY DEF PersistAnalysis
    <3> QED
      BY <1>2, <3>1, <3>2, <3>3, <3>4, GoToRuns DEF Pcs
  <2>8. ReportMatchesState'
    BY <2>4 DEF Inv, ReportMatchesState
  <2>9. AnalysisIsServed'
    BY <1>2, <2>4 DEF Inv, AnalysisIsServed, deleted, JobActive
  <2>10. OperationsInv'
    <3> SUFFICES ASSUME NEW p \in DOMAIN operations, p \notin shadowed \cup reopened,
                        operations'[p].state \in ActiveStates
                 PROVE  \E k \in DOMAIN jobs : Carries(k, p)'
      BY <1>2, <2>2 DEF OperationsInv
    <3>1. p # o
      BY <2>2 DEF ActiveStates
    <3>2. PICK k \in DOMAIN jobs : Carries(k, p)
      BY <2>2, <3>1 DEF Inv, OperationsInv
    <3>3. k # r.job
      BY <3>1, <3>2 DEF Carries, o
    <3>4. ~Reported(jobs[k].analysis)'
      <4>1. jobs[k].analysis # jobs[r.job].analysis \/ jobs[k].analysis = None
        BY <1>1, <3>3 DEF Inv, JobsInv
      <4> QED
        BY <1>2, <2>4, <3>2, <4>1, Rows DEF Carries, Reported, a
    <3>5. Carries(k, p)'
      BY <1>2, <3>2, <3>3, <3>4, StillCarries DEF Pcs
    <3> QED
      BY <3>5
  <2> QED
    BY <2>5, <2>6, <2>7, <2>8, <2>9, <2>10 DEF Inv
<1> QED
  BY <1>3, <1>4

-----------------------------------------------------------------------------
(* New rows *)

\* Rows that are added with their jobs.
LEMMA GrownInv ==
  ASSUME Inv, TypeOK', UNCHANGED <<claims, runs, deletion, reopened>>, shadowed \subseteq shadowed',
         \A o \in DOMAIN operations : o \in DOMAIN operations' /\ operations'[o] = operations[o],
         \A a \in DOMAIN analyses : a \in DOMAIN analyses' /\ analyses'[a] = analyses[a],
         Len(analyses) <= Len(analyses'),
         \A j \in DOMAIN jobs : j \in DOMAIN jobs' /\ jobs'[j] = jobs[j],
         \A j \in DOMAIN jobs' \ DOMAIN jobs :
           /\ jobs'[j].state = "queued" /\ jobs'[j].attempt = 0
           /\ jobs'[j].operation \in DOMAIN operations'
           /\ \/ jobs'[j].analysis = None
              \/ /\ jobs'[j].analysis \in DOMAIN analyses' \ DOMAIN analyses
                 /\ \A i \in DOMAIN jobs' \ DOMAIN jobs : i = j,
         \A o \in DOMAIN operations' \ DOMAIN operations :
           \/ o \in shadowed'
           \/ \E j \in DOMAIN jobs' \ DOMAIN jobs : jobs'[j].operation = o,
         \A a \in DOMAIN analyses' \ DOMAIN analyses :
           /\ analyses'[a].state = "queued" /\ ~analyses'[a].report
           /\ \E j \in DOMAIN jobs' \ DOMAIN jobs : jobs'[j].analysis = a
  PROVE  Inv'
<1>1. /\ runs \subseteq Run
      /\ \A j \in DOMAIN jobs : jobs[j].analysis # None => jobs[j].analysis \in DOMAIN analyses
      /\ claims \in Nat
  BY Rows
<1>2. DOMAIN analyses' = 1..Len(analyses') /\ Len(analyses') \in Nat /\ Len(analyses) \in Nat
  BY Rows DEF TypeOK
<1>3. JobsInv'
  <2>1. ASSUME NEW j \in DOMAIN jobs'
        PROVE  /\ jobs'[j].operation \in DOMAIN operations'
               /\ jobs'[j].analysis <= Len(analyses')
               /\ jobs'[j].attempt <= claims'
    <3>1. CASE j \in DOMAIN jobs
      <4>1. jobs[j].analysis \in Nat
        BY <3>1, Rows, BoundAssumption DEF Job
      <4> QED
        BY <1>2, <3>1, <4>1 DEF Inv, JobsInv
    <3>2. CASE j \notin DOMAIN jobs
      BY <1>1, <1>2, <3>2 DEF None
    <3> QED
      BY <3>1, <3>2
  <2>2. ASSUME NEW i \in DOMAIN jobs', NEW j \in DOMAIN jobs',
               jobs'[i].analysis = jobs'[j].analysis, jobs'[i].analysis # None
        PROVE  i = j
    BY <1>1, <2>2 DEF Inv, JobsInv
  <2> QED
    BY <2>1, <2>2 DEF JobsInv
<1>4. \A r \in runs : r.job \in DOMAIN jobs /\ jobs'[r.job] = jobs[r.job]
  BY <1>1 DEF Run
<1>5. RunsInv'
  BY <1>1, <1>4 DEF Inv, RunsInv, Materializes, Reported, Looked, Fenced
<1>6. ReportMatchesState'
  BY DEF Inv, ReportMatchesState
<1>7. AnalysisIsServed'
  BY DEF Inv, AnalysisIsServed, deleted, JobActive
<1>8. OperationsInv'
  <2> SUFFICES ASSUME NEW o \in DOMAIN operations', o \notin shadowed' \cup reopened,
                      operations'[o].state \in ActiveStates
               PROVE  \E k \in DOMAIN jobs' : Carries(k, o)'
    BY DEF OperationsInv
  <2>1. CASE o \in DOMAIN operations
    <3>1. PICK k \in DOMAIN jobs : Carries(k, o)
      BY <2>1 DEF Inv, OperationsInv
    <3>2. ~Reported(jobs[k].analysis)'
      BY <1>1, <3>1 DEF Carries, Reported
    <3>3. Carries(k, o)'
      BY <3>1, <3>2 DEF Carries, JobActive, Fenced
    <3> QED
      BY <3>3
  <2>2. CASE o \notin DOMAIN operations
    <3>1. PICK k \in DOMAIN jobs' \ DOMAIN jobs : jobs'[k].operation = o
      BY <2>2
    <3>2. ~Reported(jobs[k].analysis)'
      BY <3>1 DEF Reported
    <3>3. \A r \in runs' : r.job # k
      BY <1>4, <3>1
    <3>4. Carries(k, o)'
      BY <3>1, <3>2, <3>3 DEF Carries, JobActive
    <3> QED
      BY <3>4
  <2> QED
    BY <2>1, <2>2
<1> QED
  BY <1>3, <1>5, <1>6, <1>7, <1>8 DEF Inv

LEMMA EnqueueInv ==
  ASSUME Inv, NEW h \in Heads, NEW scope \in Scopes \cup {Collective}, EnqueueSnapshot(h, scope),
         UNCHANGED <<analyses, claims, runs, deletion, reopened>>,
         head' \in Heads, open' \in BOOLEAN
  PROVE  Inv'
<1>1. CASE UNCHANGED <<operations, jobs, shadowed>>
  <2>1. TypeOK'
    BY <1>1 DEF Inv, TypeOK
  <2> QED
    BY <1>1, <2>1, GrownInv, Rows
<1>2. CASE ~UNCHANGED <<operations, jobs, shadowed>>
  <2>1. PICK o : o = Len(operations) + 1
    OBVIOUS
  <2>2. PICK polled \in BOOLEAN : polled <=> scope = Collective
    OBVIOUS
  <2>3. PICK operation : operation = [head |-> h, scope |-> scope, state |-> "queued"]
    OBVIOUS
  <2>4. operation \in Operation
    BY <2>3 DEF Operation, OperationStates
  <2>5. PICK job : job = NewJob(o, None, polled)
    OBVIOUS
  <2>6. /\ o <= MaxOperations /\ operations' = Append(operations, operation)
        /\ \/ jobs' = jobs /\ shadowed' = shadowed \cup {o}
           \/ jobs' = Append(jobs, job) /\ shadowed' = shadowed
    BY <1>2, <2>1, <2>2, <2>3, <2>5 DEF EnqueueSnapshot
  <2>7. o \in 1..MaxOperations
    BY <2>1, <2>6, BoundAssumption, Rows
  <2>8. job \in Job /\ job.operation = o /\ job.analysis = None /\ job.state = "queued"
        /\ job.attempt = 0
    BY <2>2, <2>5, <2>7, NewJobType, BoundAssumption DEF None
  <2>9. /\ operations' \in Seq(Operation) /\ Len(operations') = o /\ o \notin DOMAIN operations
        /\ DOMAIN operations' = DOMAIN operations \cup {o}
        /\ \A p \in DOMAIN operations : operations'[p] = operations[p]
    BY <2>1, <2>4, <2>6, Appended DEF Inv, TypeOK
  <2>10. CASE jobs' = jobs /\ shadowed' = shadowed \cup {o}
    <3>1. TypeOK'
      BY <2>6, <2>9, <2>10 DEF Inv, TypeOK
    <3> QED
      BY <2>9, <2>10, <3>1, GrownInv, Rows
  <2>11. CASE jobs' = Append(jobs, job) /\ shadowed' = shadowed
    <3>1. PICK n : n = Len(jobs) + 1
      OBVIOUS
    <3>2. /\ jobs' \in Seq(Job) /\ n \notin DOMAIN jobs /\ jobs'[n] = job
          /\ DOMAIN jobs' = DOMAIN jobs \cup {n}
          /\ \A j \in DOMAIN jobs : jobs'[j] = jobs[j]
      BY <2>8, <2>11, <3>1, Appended DEF Inv, TypeOK
    <3>3. TypeOK'
      BY <2>6, <2>9, <2>11, <3>2 DEF Inv, TypeOK
    <3> QED
      BY <2>8, <2>9, <2>11, <3>2, <3>3, GrownInv, Rows
  <2> QED
    BY <2>6, <2>10, <2>11
<1> QED
  BY <1>1, <1>2

LEMMA RequestInv ==
  ASSUME Inv, \/ \E h \in Heads, isOpen \in BOOLEAN : Poll(h, isOpen)
              \/ \E user \in Scopes : Refresh(user)
  PROVE  Inv'
<1>1. ASSUME NEW h \in Heads, NEW isOpen \in BOOLEAN, Poll(h, isOpen) PROVE Inv'
  <2>1. UNCHANGED <<analyses, claims, runs, deletion, reopened>> /\ head' \in Heads /\ open' \in BOOLEAN
    BY <1>1 DEF Poll
  <2>2. CASE EnqueueSnapshot(h, Collective)
    BY <2>1, <2>2, EnqueueInv
  <2>3. CASE UNCHANGED <<operations, jobs, shadowed>>
    <3>1. TypeOK'
      BY <2>1, <2>3 DEF Inv, TypeOK
    <3> QED
      BY <2>1, <2>3, <3>1, GrownInv, Rows
  <2> QED
    BY <1>1, <2>2, <2>3 DEF Poll
<1>2. ASSUME NEW user \in Scopes, Refresh(user) PROVE Inv'
  <2>1. UNCHANGED <<analyses, claims, runs, deletion, reopened>> /\ head' \in Heads /\ open' \in BOOLEAN
        /\ head \in Heads /\ EnqueueSnapshot(head, user)
    BY <1>2 DEF Refresh, Inv, TypeOK
  <2>2. PICK h \in Heads : h = head
    BY <2>1
  <2>3. EnqueueSnapshot(h, user)
    BY <2>1, <2>2
  <2> QED
    BY <2>1, <2>3, EnqueueInv
<1> QED
  BY <1>1, <1>2

LEMMA ContinueInv ==
  ASSUME Inv, NEW b \in DOMAIN analyses, NEW state \in {"queued", "analyzing"},
         NEW from \in 0..MaxAnalyses, Continue(b, state, from)
  PROVE  Inv'
<1>1. PICK o : o = Len(operations) + 1
  OBVIOUS
<1>2. PICK a : a = Len(analyses) + 1
  OBVIOUS
<1>3. PICK n : n = Len(jobs) + 1
  OBVIOUS
<1>4. PICK operation : operation = [head |-> analyses[b].head, scope |-> Own, state |-> state]
  OBVIOUS
<1>5. PICK analysis : analysis = [analyses[b] EXCEPT !.state = "queued", !.report = FALSE, !.from = from]
  OBVIOUS
<1>6. PICK job : job = NewJob(o, a, FALSE)
  OBVIOUS
<1>7. /\ o <= MaxOperations /\ a <= MaxAnalyses
      /\ operations' = Append(operations, operation) /\ analyses' = Append(analyses, analysis)
      /\ jobs' = Append(jobs, job)
      /\ UNCHANGED <<head, open, claims, runs, deletion, shadowed, reopened>>
  BY <1>1, <1>2, <1>4, <1>5, <1>6 DEF Continue, history
<1>8. analyses[b] \in Analysis
  BY DEF Inv, TypeOK
<1>9. operation \in Operation /\ analysis \in Analysis /\ analysis.state = "queued"
      /\ ~analysis.report
  BY <1>4, <1>5, <1>8 DEF Operation, OperationStates, Analysis, AnalysisStates
<1>10. o \in 1..MaxOperations /\ a \in 0..MaxAnalyses
  BY <1>1, <1>2, <1>7, BoundAssumption, Rows
<1>11. job \in Job /\ job.operation = o /\ job.analysis = a /\ job.state = "queued"
       /\ job.attempt = 0
  BY <1>6, <1>10, NewJobType
<1>12. /\ operations' \in Seq(Operation) /\ Len(operations') = o /\ o \notin DOMAIN operations
       /\ DOMAIN operations' = DOMAIN operations \cup {o}
       /\ \A p \in DOMAIN operations : operations'[p] = operations[p]
  BY <1>1, <1>7, <1>9, Appended DEF Inv, TypeOK
<1>13. /\ analyses' \in Seq(Analysis) /\ Len(analyses') = a /\ a \notin DOMAIN analyses
       /\ DOMAIN analyses' = DOMAIN analyses \cup {a} /\ analyses'[a] = analysis
       /\ Len(analyses) <= Len(analyses')
       /\ \A c \in DOMAIN analyses : analyses'[c] = analyses[c]
  BY <1>2, <1>7, <1>9, Appended DEF Inv, TypeOK
<1>14. /\ jobs' \in Seq(Job) /\ n \notin DOMAIN jobs /\ jobs'[n] = job
       /\ DOMAIN jobs' = DOMAIN jobs \cup {n}
       /\ \A j \in DOMAIN jobs : jobs'[j] = jobs[j]
  BY <1>3, <1>7, <1>11, Appended DEF Inv, TypeOK
<1>15. TypeOK'
  BY <1>7, <1>12, <1>13, <1>14 DEF Inv, TypeOK
<1>16. /\ DOMAIN jobs' \ DOMAIN jobs = {n} /\ DOMAIN analyses' \ DOMAIN analyses = {a}
       /\ DOMAIN operations' \ DOMAIN operations = {o}
  BY <1>12, <1>13, <1>14
<1>17. \A j \in DOMAIN jobs' \ DOMAIN jobs :
        /\ jobs'[j].state = "queued" /\ jobs'[j].attempt = 0
        /\ jobs'[j].operation \in DOMAIN operations'
        /\ \/ jobs'[j].analysis = None
           \/ /\ jobs'[j].analysis \in DOMAIN analyses' \ DOMAIN analyses
              /\ \A i \in DOMAIN jobs' \ DOMAIN jobs : i = j
  BY <1>11, <1>12, <1>14, <1>16
<1>18. \A p \in DOMAIN operations' \ DOMAIN operations :
        \/ p \in shadowed'
        \/ \E j \in DOMAIN jobs' \ DOMAIN jobs : jobs'[j].operation = p
  BY <1>11, <1>14, <1>16
<1>19. \A c \in DOMAIN analyses' \ DOMAIN analyses :
        /\ analyses'[c].state = "queued" /\ ~analyses'[c].report
        /\ \E j \in DOMAIN jobs' \ DOMAIN jobs : jobs'[j].analysis = c
  BY <1>9, <1>11, <1>13, <1>14, <1>16
<1>20. /\ \A p \in DOMAIN operations : p \in DOMAIN operations' /\ operations'[p] = operations[p]
       /\ \A c \in DOMAIN analyses : c \in DOMAIN analyses' /\ analyses'[c] = analyses[c]
       /\ \A j \in DOMAIN jobs : j \in DOMAIN jobs' /\ jobs'[j] = jobs[j]
       /\ UNCHANGED <<claims, runs, deletion, reopened>> /\ shadowed \subseteq shadowed'
       /\ Len(analyses) <= Len(analyses')
  BY <1>7, <1>12, <1>13, <1>14
<1> QED
  BY <1>15, <1>17, <1>18, <1>19, <1>20, GrownInv

LEMMA RepeatInv ==
  ASSUME Inv, NEW a \in DOMAIN analyses, Resume(a) \/ Reanalyze(a)
  PROVE  Inv'
<1>1. a \in 0..MaxAnalyses /\ None \in 0..MaxAnalyses
  BY BoundAssumption DEF Inv, TypeOK, None
<1>2. CASE Continue(a, "queued", a)
  BY <1>1, <1>2, ContinueInv
<1>3. CASE Continue(a, "analyzing", None)
  BY <1>1, <1>3, ContinueInv
<1> QED
  BY <1>2, <1>3 DEF Resume, Reanalyze

\* After a deletion no operation is active and no analysis waits.
LEMMA DeleteInv == ASSUME Inv, DeleteRepository PROVE Inv'
<1>1. UNCHANGED <<head, open, claims, runs, shadowed, reopened>> /\ deleted'
      /\ deletion' \in Deletion
  BY DEF DeleteRepository, history, deleted, Deletion
<1>2. /\ DOMAIN jobs' = DOMAIN jobs /\ jobs' \in Seq(Job)
      /\ \A j \in DOMAIN jobs : /\ jobs'[j].operation = jobs[j].operation
                                /\ jobs'[j].analysis = jobs[j].analysis
                                /\ jobs'[j].attempt = jobs[j].attempt
                                /\ jobs'[j].state = "running" => jobs[j].state = "running"
  <2>1. \A j \in DOMAIN jobs : /\ [jobs[j] EXCEPT !.state = "failed"] \in Job
                               /\ [jobs[j] EXCEPT !.state = "failed"].operation = jobs[j].operation
                               /\ [jobs[j] EXCEPT !.state = "failed"].analysis = jobs[j].analysis
                               /\ [jobs[j] EXCEPT !.state = "failed"].attempt = jobs[j].attempt
                               /\ [jobs[j] EXCEPT !.state = "failed"].state = "failed"
    BY Rows DEF Job, JobStates
  <2>2. jobs' = [j \in DOMAIN jobs |->
                   IF j \in deletion.seen /\ JobActive(j)
                   THEN [jobs[j] EXCEPT !.state = "failed"] ELSE jobs[j]]
    BY DEF DeleteRepository
  <2>3. \A j \in DOMAIN jobs : jobs'[j] \in Job
    BY <2>1, <2>2, Rows
  <2>4. jobs' \in Seq(Job)
    BY <2>2, <2>3, Rows
  <2> QED
    BY <2>1, <2>2, <2>4
<1>3. /\ DOMAIN operations' = DOMAIN operations /\ operations' \in Seq(Operation)
      /\ Len(operations') = Len(operations)
      /\ \A o \in DOMAIN operations : operations'[o].state \notin ActiveStates
  <2>1. \A o \in DOMAIN operations :
          /\ operations[o] \in Operation
          /\ [operations[o] EXCEPT !.state = "failed"] \in Operation
          /\ [operations[o] EXCEPT !.state = "failed"].state = "failed"
    <3>1. \A o \in DOMAIN operations : operations[o] \in Operation
      BY DEF Inv, TypeOK
    <3> QED
      BY <3>1 DEF Operation, OperationStates
  <2>2. operations' = [o \in DOMAIN operations |->
          IF operations[o].state \in ActiveStates THEN [operations[o] EXCEPT !.state = "failed"]
          ELSE operations[o]]
    BY DEF DeleteRepository
  <2>3. \A o \in DOMAIN operations : operations'[o] \in Operation
                                     /\ operations'[o].state \notin ActiveStates
    BY <2>1, <2>2 DEF ActiveStates
  <2>4. operations' \in Seq(Operation) /\ Len(operations') = Len(operations)
    BY <2>2, <2>3, Rows
  <2> QED
    BY <2>2, <2>3, <2>4
<1>4. /\ DOMAIN analyses' = DOMAIN analyses /\ analyses' \in Seq(Analysis)
      /\ Len(analyses') = Len(analyses)
      /\ \A a \in DOMAIN analyses :
           /\ analyses'[a].report = analyses[a].report
           /\ analyses'[a].state = IF analyses[a].state = "queued" THEN "cancelled"
                                   ELSE analyses[a].state
  <2>1. \A a \in DOMAIN analyses :
          /\ analyses[a] \in Analysis
          /\ [analyses[a] EXCEPT !.state = "cancelled"] \in Analysis
          /\ [analyses[a] EXCEPT !.state = "cancelled"].state = "cancelled"
          /\ [analyses[a] EXCEPT !.state = "cancelled"].report = analyses[a].report
    <3>1. \A a \in DOMAIN analyses : analyses[a] \in Analysis
      BY DEF Inv, TypeOK
    <3> QED
      BY <3>1 DEF Analysis, AnalysisStates
  <2>2. analyses' = [a \in DOMAIN analyses |->
          IF analyses[a].state = "queued" THEN [analyses[a] EXCEPT !.state = "cancelled"]
          ELSE analyses[a]]
    BY DEF DeleteRepository
  <2>3. \A a \in DOMAIN analyses : analyses'[a] \in Analysis
    BY <2>1, <2>2
  <2>4. analyses' \in Seq(Analysis) /\ Len(analyses') = Len(analyses)
    BY <2>2, <2>3, Rows
  <2> QED
    BY <2>1, <2>2, <2>4
<1>5. TypeOK'
  BY <1>1, <1>2, <1>3, <1>4 DEF Inv, TypeOK
<1>6. JobsInv'
  BY <1>1, <1>2, <1>3, <1>4 DEF Inv, JobsInv
<1>7. RunsInv'
  BY <1>1, <1>2, <1>4, FewerRuns
<1>8. ReportMatchesState'
  BY <1>4 DEF Inv, ReportMatchesState
<1>9. AnalysisIsServed'
  BY <1>1, <1>4 DEF AnalysisIsServed, deleted
<1>10. OperationsInv'
  BY <1>3 DEF OperationsInv
<1> QED
  BY <1>5, <1>6, <1>7, <1>8, <1>9, <1>10 DEF Inv

\* The query of a deletion and its end without a commit change no row.
LEMMA DeletionLooksInv == ASSUME Inv, ListJobs \/ RollBackDeletion PROVE Inv'
<1>1. /\ UNCHANGED <<head, open, operations, analyses, jobs, claims, runs, shadowed, reopened>>
      /\ deletion.stage # "done" /\ deletion'.stage # "done" /\ deletion' \in Deletion
  <2>1. {j \in DOMAIN jobs : JobActive(j)} \in SUBSET Nat
    BY Rows
  <2> QED
    BY <2>1 DEF ListJobs, RollBackDeletion, NoDeletion, Deletion, history
<1>2. TypeOK'
  BY <1>1 DEF Inv, TypeOK
<1>3. JobsInv' /\ ReportMatchesState' /\ AnalysisIsServed'
  BY <1>1 DEF Inv, JobsInv, ReportMatchesState, AnalysisIsServed, deleted, JobActive
<1>4. RunsInv'
  BY <1>1, FewerRuns
<1>5. OperationsInv'
  BY <1>1 DEF Inv, OperationsInv, Carries, Fenced, JobActive, Reported
<1> QED
  BY <1>2, <1>3, <1>4, <1>5 DEF Inv

-----------------------------------------------------------------------------
(* The theorems *)

LEMMA NextInv == Inv /\ [Next]_vars => Inv'
<1> SUFFICES ASSUME Inv, [Next]_vars PROVE Inv'
  OBVIOUS
<1>1. CASE \/ \E h \in Heads, isOpen \in BOOLEAN : Poll(h, isOpen)
           \/ \E user \in Scopes : Refresh(user)
  BY <1>1, RequestInv
<1>2. ASSUME NEW a \in DOMAIN analyses, Resume(a) \/ Reanalyze(a) PROVE Inv'
  BY <1>2, RepeatInv
<1>3. ASSUME NEW j \in DOMAIN jobs, Claim(j) \/ Recover(j) PROVE Inv'
  BY <1>3, ClaimInv, RecoverInv
<1>4. ASSUME NEW r \in runs, RunStep(r) PROVE Inv'
  <2>1. CASE StartSnapshot(r) \/ PersistSnapshot(r) \/ PersistUnresolved(r)
    BY <2>1, StartSnapshotInv, PersistSnapshotInv, PersistUnresolvedInv
  <2>2. CASE StartAnalysis(r) \/ PersistAnalysis(r, "completed") \/ PersistAnalysis(r, "partial")
    BY <2>2, StartAnalysisInv, PersistAnalysisInv
  <2>3. CASE CompleteJob(r) \/ FailReported(r) \/ FailJob(r, TRUE) \/ FailJob(r, FALSE)
    BY <2>3, CompleteInv, FailJobInv
  <2>4. CASE LoseLease(r) \/ Throw(r) \/ Crash(r)
    BY <2>4, RunEndsInv, ThrowInv
  <2> QED
    BY <1>4, <2>1, <2>2, <2>3, <2>4 DEF RunStep
<1>5. CASE ListJobs \/ DeleteRepository \/ RollBackDeletion
  BY <1>5, DeleteInv, DeletionLooksInv
<1>6. CASE UNCHANGED vars
  <2>1. TypeOK'
    BY <1>6 DEF vars, Inv, TypeOK
  <2> QED
    BY <1>6, <2>1, GrownInv, Rows DEF vars
<1> QED
  BY <1>1, <1>2, <1>3, <1>4, <1>5, <1>6 DEF Next

LEMMA Invariant == Spec => []Inv
  BY InitInv, NextInv, PTL DEF Spec

\* Rows refer to rows that are there, and bounds are kept.
THEOREM TypeCorrect == Spec => []TypeOK
<1>1. Inv => TypeOK
  BY DEF Inv
<1> QED
  BY <1>1, Invariant, PTL

\* For any heads, users, recoveries and slots, an analysis has a report exactly
\* when its state says so: no repeated body, late failure, recovery or deletion
\* separates the two.
THEOREM ReportsMatch == Spec => []ReportMatchesState
<1>1. Inv => ReportMatchesState
  BY DEF Inv
<1> QED
  BY <1>1, Invariant, PTL

\* For any heads, users, recoveries and slots, an analysis that is announced as
\* waiting or in progress has a job that will end it.
THEOREM AnalysesServed == Spec => []AnalysisIsServed
<1>1. Inv => AnalysisIsServed
  BY DEF Inv
<1> QED
  BY <1>1, Invariant, PTL

\* For any heads, users, recoveries and slots, an active operation has a job
\* that will end it, unless its job was dropped at the insert or a run without
\* a lease made it active again: there is no third way to lose one.
THEOREM OperationsServed == Spec => []OperationIsServed
<1>1. Inv => OperationIsServed
  BY DEF Inv, OperationsInv, OperationIsServed, Carries
<1> QED
  BY <1>1, Invariant, PTL

=============================================================================

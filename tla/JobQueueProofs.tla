--------------------------- MODULE JobQueueProofs ---------------------------
(***************************************************************************)
(* Proofs about JobQueue for every set of jobs and workers and every value *)
(* of the limits.  The safety properties follow from one inductive         *)
(* invariant, Inv: besides the properties themselves it says what the      *)
(* memory of a run has to do with the row of its job.                      *)
(***************************************************************************)
EXTENDS JobQueue, FiniteSetTheorems, TLAPS

\* The number of attempts of a job, its open attempt and its row agree.
AttemptsInv ==
  \A j \in Jobs :
    /\ Len(attempts[j]) = jobs[j].attemptCount
    /\ jobs[j].state = "running" => jobs[j].attemptCount > 0
    /\ \A n \in 1..Len(attempts[j]) :
         attempts[j][n].outcome = "open" <=>
           jobs[j].state = "running" /\ n = jobs[j].attemptCount

\* What the row may still grant.
BudgetInv ==
  \A j \in Jobs :
    /\ jobs[j].attemptCount <= jobs[j].maxAttempts
    /\ jobs[j].state \in {"absent", "queued"} =>
         jobs[j].attemptCount < jobs[j].maxAttempts
    /\ jobs[j].maxAttempts <=
         InitialMaxAttempts(j) + jobs[j].deferCount + jobs[j].recoveryCount
           + retries[j] * (RetryGrant + RecoveryLimit)

\* What a run has found out: completing a job it has a result; a collection and
\* a failed analysis found none, and none came since but under later attempts.
RunKnows(r) ==
  /\ r.pc = "completing" /\ Fenced(r.job) => commits[r.job] # {}
  /\ r.pc = "reported" => Published(r.job)
  /\ r.pc = "collecting" \/ (r.pc = "unreported" /\ Type[r.job] = "analysis.run") =>
       \A n \in commits[r.job] : n > r.attempt

\* A run remembers an attempt that exists, and no other run has it; as long as
\* that attempt is the running one, the max_attempts it read at the claim is the
\* one of the row.
RunsInv ==
  /\ \A r \in runs :
       /\ r.attempt <= Len(attempts[r.job])
       /\ jobs[r.job].state = "running" /\ jobs[r.job].attemptCount = r.attempt
            => r.maxAttempts = jobs[r.job].maxAttempts
       /\ RunKnows(r)
  /\ \A q, r \in runs : q.job = r.job /\ q.attempt = r.attempt => q = r

\* Results and the states of their jobs.
ResultInv ==
  \A j \in Jobs :
    /\ Type[j] \in {"analysis.run", "history.collect"} =>
         \A m, n \in commits[j] : m = n
    /\ \A n \in commits[j] : n <= Len(attempts[j])
    /\ jobs[j].state = "completed" /\ Fenced(j) => commits[j] # {}
    /\ Published(j) => jobs[j].state \in {"running", "completed"}

\* Only history collections are retried.
RetryInv == \A j \in retrying : Type[j] = "history.collect"

\* What a deletion saw was enqueued before, and is ended by it.
SeenInv ==
  /\ \A j \in deletion.seen : jobs[j].state # "absent"
  /\ SeenAreEnded

Inv ==
  /\ TypeOK
  /\ AttemptsInv
  /\ BudgetInv
  /\ RunsInv
  /\ ResultInv
  /\ RetryInv
  /\ SeenInv

-----------------------------------------------------------------------------
(* Operators *)

LEMMA InitialMaxAttemptsType ==
  ASSUME NEW j \in Jobs PROVE InitialMaxAttempts(j) \in Nat \ {0}
BY LimitAssumption DEF InitialMaxAttempts

LEMMA ReleasedType ==
  ASSUME NEW row \in Job, NEW state \in States
  PROVE  /\ Released(row, state) \in Job
         /\ Released(row, state).state = state
         /\ Released(row, state).lease = 0
         /\ Released(row, state).due = row.due
         /\ Released(row, state).attemptCount = row.attemptCount
         /\ Released(row, state).maxAttempts = row.maxAttempts
         /\ Released(row, state).recoveryCount = row.recoveryCount
         /\ Released(row, state).deferCount = row.deferCount
<1>1. 0 \in 0..LeaseTTL
  BY LimitAssumption
<1> DEFINE out == [row EXCEPT !.state = state, !.owner = NoExecutor, !.lease = 0]
<1>2. out \in Job
  BY <1>1 DEF Job
<1>3. /\ out.state = state /\ out.lease = 0 /\ out.due = row.due
      /\ out.attemptCount = row.attemptCount /\ out.maxAttempts = row.maxAttempts
      /\ out.recoveryCount = row.recoveryCount /\ out.deferCount = row.deferCount
  BY DEF Job
<1> QED BY <1>2, <1>3 DEF Released

\* Ending one attempt changes the outcome of that attempt only.
LEMMA EndAttemptEffect ==
  ASSUME TypeOK, NEW r \in Run, NEW outcome \in Outcomes,
         r.attempt \in 1..Len(attempts[r.job]), EndAttempt(r, outcome)
  PROVE  /\ attempts' \in [Jobs -> Seq(Attempt)]
         /\ \A k \in Jobs : k # r.job => attempts'[k] = attempts[k]
         /\ Len(attempts'[r.job]) = Len(attempts[r.job])
         /\ \A n \in 1..Len(attempts[r.job]) : n # r.attempt =>
              attempts'[r.job][n] = attempts[r.job][n]
         /\ attempts'[r.job][r.attempt].outcome = outcome
<1>1. r.job \in Jobs /\ attempts \in [Jobs -> Seq(Attempt)]
  BY DEF TypeOK, Run
<1>2. attempts[r.job][r.attempt] \in Attempt
  BY <1>1
<1>3. [attempts[r.job][r.attempt] EXCEPT !.outcome = outcome] \in Attempt
  BY <1>2 DEF Attempt
<1>4. attempts' = [attempts EXCEPT ![r.job] =
         [attempts[r.job] EXCEPT ![r.attempt] =
            [attempts[r.job][r.attempt] EXCEPT !.outcome = outcome]]]
  BY <1>1 DEF EndAttempt
<1>5. [attempts[r.job] EXCEPT ![r.attempt] =
         [attempts[r.job][r.attempt] EXCEPT !.outcome = outcome]] \in Seq(Attempt)
  BY <1>1, <1>3
<1>6. [attempts[r.job][r.attempt] EXCEPT !.outcome = outcome].outcome = outcome
  BY <1>2 DEF Attempt
<1> QED BY <1>1, <1>4, <1>5, <1>6

\* Ending the open attempts of a job leaves the closed ones alone.
LEMMA EndOpenAttemptsEffect ==
  ASSUME TypeOK, NEW j \in Jobs, NEW outcome \in Outcomes, EndOpenAttempts(j, outcome)
  PROVE  /\ attempts' \in [Jobs -> Seq(Attempt)]
         /\ \A k \in Jobs : k # j => attempts'[k] = attempts[k]
         /\ Len(attempts'[j]) = Len(attempts[j])
         /\ \A n \in 1..Len(attempts[j]) :
              attempts'[j][n].outcome = IF attempts[j][n].outcome = "open"
                                        THEN outcome ELSE attempts[j][n].outcome
         /\ \A n \in 1..Len(attempts[j]) : attempts[j][n].outcome # "open" =>
              attempts'[j][n] = attempts[j][n]
<1> DEFINE ended == [n \in DOMAIN attempts[j] |->
              IF attempts[j][n].outcome = "open"
              THEN [attempts[j][n] EXCEPT !.outcome = outcome]
              ELSE attempts[j][n]]
<1>1. attempts \in [Jobs -> Seq(Attempt)]
  BY DEF TypeOK
<1>2. attempts[j] \in Seq(Attempt) /\ DOMAIN attempts[j] = 1..Len(attempts[j])
  BY <1>1
<1>3. \A n \in 1..Len(attempts[j]) :
        /\ attempts[j][n] \in Attempt
        /\ [attempts[j][n] EXCEPT !.outcome = outcome] \in Attempt
        /\ [attempts[j][n] EXCEPT !.outcome = outcome].outcome = outcome
  <2>1. \A a \in Attempt : /\ [a EXCEPT !.outcome = outcome] \in Attempt
                           /\ [a EXCEPT !.outcome = outcome].outcome = outcome
    BY DEF Attempt
  <2>2. \A n \in 1..Len(attempts[j]) : attempts[j][n] \in Attempt
    BY <1>2
  <2> QED BY <2>1, <2>2
<1>4. ended \in Seq(Attempt) /\ Len(ended) = Len(attempts[j])
  BY <1>2, <1>3
<1>5. attempts' = [attempts EXCEPT ![j] = ended]
  BY DEF EndOpenAttempts
<1>6. \A n \in 1..Len(attempts[j]) :
        ended[n].outcome = IF attempts[j][n].outcome = "open"
                           THEN outcome ELSE attempts[j][n].outcome
  BY <1>2, <1>3
<1>7. \A n \in 1..Len(attempts[j]) :
        attempts[j][n].outcome # "open" => ended[n] = attempts[j][n]
  BY <1>2
<1> HIDE DEF ended
<1>8. /\ attempts' \in [Jobs -> Seq(Attempt)]
      /\ attempts'[j] = ended
      /\ \A k \in Jobs : k # j => attempts'[k] = attempts[k]
  BY <1>1, <1>4, <1>5
<1> QED BY <1>4, <1>6, <1>7, <1>8

-----------------------------------------------------------------------------
(* The invariant holds initially *)

LEMMA InitInv == Init => Inv
<1> SUFFICES ASSUME Init PROVE Inv
  OBVIOUS
<1>1. \A j \in Jobs : InitialMaxAttempts(j) \in Nat \ {0}
  BY InitialMaxAttemptsType
<1>2. TypeOK
  <2>1. jobs \in [Jobs -> Job]
    BY <1>1, LimitAssumption DEF Init, Job, States
  <2>2. attempts \in [Jobs -> Seq(Attempt)]
    BY DEF Init
  <2>3. retries \in [Jobs -> 0..MaxRetries]
    BY LimitAssumption DEF Init
  <2> QED BY <2>1, <2>2, <2>3 DEF Init, TypeOK, Deletion, NoDeletion
<1>3. AttemptsInv
  BY DEF Init, AttemptsInv
<1>4. BudgetInv
  BY <1>1, LimitAssumption DEF Init, BudgetInv
<1>5. RunsInv /\ ResultInv /\ RetryInv /\ SeenInv
  BY DEF Init, RunsInv, ResultInv, Published, RetryInv, SeenInv, SeenAreEnded, deleted,
         NoDeletion
<1> QED BY <1>2, <1>3, <1>4, <1>5 DEF Inv

-----------------------------------------------------------------------------
(* Steps that leave the two tables and the results alone *)

\* A step that only moves or removes runs keeps the invariant when the runs it
\* leaves are known ones, up to pc and error, and know what they should.
LEMMA RunsOnly ==
  ASSUME Inv, UNCHANGED <<jobs, attempts, commits, retries, deletion>>,
         draining' \in SUBSET Executors, retrying' \in SUBSET Jobs,
         \A j \in retrying' : Type[j] = "history.collect",
         runs' \in SUBSET Run,
         \A q \in runs' : \E r \in runs :
           /\ q.job = r.job /\ q.attempt = r.attempt /\ q.maxAttempts = r.maxAttempts
           /\ q = r \/ RunKnows(q),
         \A q, r \in runs' : q.job = r.job /\ q.attempt = r.attempt => q = r
  PROVE  Inv'
<1>1. TypeOK'
  BY DEF Inv, TypeOK
<1>2. AttemptsInv'
  BY DEF Inv, AttemptsInv
<1>3. BudgetInv'
  BY DEF Inv, BudgetInv, InitialMaxAttempts
<1>4. RunsInv'
  BY DEF Inv, RunsInv, RunKnows, Fenced, Published
<1>5. ResultInv' /\ RetryInv' /\ SeenInv'
  BY DEF Inv, ResultInv, Published, Fenced, RetryInv, SeenInv, SeenAreEnded, deleted, Active
<1> QED BY <1>1, <1>2, <1>3, <1>4, <1>5 DEF Inv

\* A run goes on, and knows what it should.
LEMMA RunMoves ==
  ASSUME Inv, NEW r \in runs, NEW next \in Run,
         next.job = r.job, next.attempt = r.attempt, next.maxAttempts = r.maxAttempts,
         RunKnows(next), runs' = (runs \ {r}) \cup {next},
         UNCHANGED <<jobs, attempts, commits, draining, retrying, retries, deletion>>
  PROVE  Inv'
<1>1. /\ draining' \in SUBSET Executors /\ retrying' \in SUBSET Jobs
      /\ \A j \in retrying' : Type[j] = "history.collect"
      /\ runs' \in SUBSET Run
  BY DEF Inv, TypeOK, RetryInv
<1>2. \A q \in runs' : \E p \in runs :
        /\ q.job = p.job /\ q.attempt = p.attempt /\ q.maxAttempts = p.maxAttempts
        /\ q = p \/ RunKnows(q)
  BY Zenon
<1>3. \A q, p \in runs' : q.job = p.job /\ q.attempt = p.attempt => q = p
  BY DEF Inv, RunsInv
<1> QED BY <1>1, <1>2, <1>3, RunsOnly

LEMMA RunMovesInv ==
  ASSUME Inv, NEW r \in runs,
         \/ Collect(r) \/ SkipBody(r) \/ FinishPublication(r) \/ LookForReport(r)
         \/ \E error \in Errors : Throw(r, error)
  PROVE  Inv'
<1>1. r \in Run
  BY DEF Inv, TypeOK
<1>2. ASSUME NEW pc \in Pcs, GoTo(r, pc), RunKnows([r EXCEPT !.pc = pc]),
             UNCHANGED <<jobs, attempts, commits, draining, retrying, retries, deletion>>
      PROVE  Inv'
  <2> DEFINE next == [r EXCEPT !.pc = pc]
  <2>1. /\ next \in Run /\ next.job = r.job /\ next.attempt = r.attempt
        /\ next.maxAttempts = r.maxAttempts
    BY <1>1 DEF Run
  <2>2. runs' = (runs \ {r}) \cup {next} /\ RunKnows(next)
    BY <1>2 DEF GoTo
  <2> HIDE DEF next
  <2> QED BY <1>2, <2>1, <2>2, RunMoves
<1>3. \A pc \in Pcs : /\ [r EXCEPT !.pc = pc].pc = pc
                      /\ [r EXCEPT !.pc = pc].job = r.job
                      /\ [r EXCEPT !.pc = pc].attempt = r.attempt
  BY <1>1 DEF Run
<1>4. CASE Collect(r)
  <2>1. commits[r.job] = {}
    BY <1>4 DEF Collect, AlreadyDone
  <2>2. RunKnows([r EXCEPT !.pc = "collecting"])
    BY <1>3, <2>1 DEF RunKnows, Pcs
  <2> QED BY <1>2, <1>4, <2>2 DEF Collect, Pcs
<1>5. CASE SkipBody(r)
  <2>1. commits[r.job] # {}
    BY <1>5 DEF SkipBody, AlreadyDone
  <2>2. RunKnows([r EXCEPT !.pc = "completing"])
    BY <1>3, <2>1 DEF RunKnows, Pcs
  <2> QED BY <1>2, <1>5, <2>2 DEF SkipBody, Pcs
<1>6. CASE FinishPublication(r)
  <2>1. RunKnows([r EXCEPT !.pc = "completing"])
    BY <1>3, <1>6 DEF RunKnows, Pcs, FinishPublication
  <2> QED BY <1>2, <1>6, <2>1 DEF FinishPublication, Pcs
<1>7. CASE LookForReport(r)
  <2> DEFINE pc == IF Published(r.job) THEN "reported" ELSE "unreported"
  <2>1. pc \in Pcs /\ pc # "completing" /\ pc # "collecting"
    BY DEF Pcs
  <2>2. /\ pc = "reported" => Published(r.job)
        /\ pc = "unreported" /\ Type[r.job] = "analysis.run" => commits[r.job] = {}
    BY DEF Published
  <2>3. GoTo(r, pc)
    BY <1>7 DEF LookForReport
  <2> HIDE DEF pc
  <2>4. RunKnows([r EXCEPT !.pc = pc])
    BY <1>3, <2>1, <2>2 DEF RunKnows
  <2> QED BY <1>2, <1>7, <2>1, <2>3, <2>4 DEF LookForReport
<1>8. ASSUME NEW error \in Errors, Throw(r, error) PROVE Inv'
  <2>1. PICK pc : pc = FailurePc(r.job)
    OBVIOUS
  <2>2. pc \in Pcs /\ pc \in {"failing", "unreported"}
        /\ (pc = "unreported" => Type[r.job] # "analysis.run")
    BY <2>1 DEF FailurePc, Pcs
  <2>3. PICK next : next = [r EXCEPT !.pc = pc, !.error = error]
    OBVIOUS
  <2>4. runs' = (runs \ {r}) \cup {next}
    BY <1>8, <2>1, <2>3 DEF Throw
  <2>5. /\ next \in Run /\ next.job = r.job /\ next.attempt = r.attempt
        /\ next.maxAttempts = r.maxAttempts /\ next.pc = pc
    <3>1. error \in Errors /\ pc \in Pcs
      BY <1>8, <2>2
    <3> QED BY <1>1, <2>3, <3>1 DEF Run
  <2>6. UNCHANGED <<jobs, attempts, commits, draining, retrying, retries, deletion>>
    BY <1>8 DEF Throw
  <2>7. RunKnows(next)
    BY <2>2, <2>5 DEF RunKnows
  <2> QED BY <2>4, <2>5, <2>6, <2>7, RunMoves
<1> QED BY <1>4, <1>5, <1>6, <1>7, <1>8

LEMMA RunEndsInv ==
  ASSUME Inv, NEW r \in runs, LoseLease(r) \/ Abandon(r)
  PROVE  Inv'
BY RunsOnly DEF Inv, TypeOK, RetryInv, RunsInv, LoseLease, Abandon, Leave

LEMMA WorkerStopsInv ==
  ASSUME Inv, NEW w \in Executors, BeginDrain(w) \/ Restart(w) \/ Crash(w)
  PROVE  Inv'
BY RunsOnly DEF Inv, TypeOK, RetryInv, RunsInv, BeginDrain, Restart, Crash

LEMMA AuthorizeRetryInv ==
  ASSUME Inv, NEW j \in Jobs, AuthorizeRetry(j) PROVE Inv'
BY RunsOnly DEF Inv, TypeOK, RetryInv, RunsInv, AuthorizeRetry

-----------------------------------------------------------------------------
(* Steps that change the row of one job *)

\* A step may change owner, lease and due time of a row at will.
LEMMA LeaseOnly ==
  ASSUME Inv, NEW j \in Jobs, NEW row \in Job, jobs' = [jobs EXCEPT ![j] = row],
         row.state = jobs[j].state,
         row.attemptCount = jobs[j].attemptCount,
         row.maxAttempts = jobs[j].maxAttempts,
         row.recoveryCount = jobs[j].recoveryCount,
         row.deferCount = jobs[j].deferCount,
         runs' \in SUBSET runs,
         UNCHANGED <<attempts, commits, draining, retrying, retries, deletion>>
  PROVE  Inv'
<1>1. jobs \in [Jobs -> Job]
  BY DEF Inv, TypeOK
<1>2. jobs' \in [Jobs -> Job] /\ \A k \in Jobs :
        /\ jobs'[k].state = jobs[k].state
        /\ jobs'[k].attemptCount = jobs[k].attemptCount
        /\ jobs'[k].maxAttempts = jobs[k].maxAttempts
        /\ jobs'[k].recoveryCount = jobs[k].recoveryCount
        /\ jobs'[k].deferCount = jobs[k].deferCount
  BY <1>1
<1>3. TypeOK'
  BY <1>2 DEF Inv, TypeOK
<1>4. AttemptsInv'
  BY <1>2 DEF Inv, AttemptsInv
<1>5. BudgetInv'
  BY <1>2 DEF Inv, BudgetInv, InitialMaxAttempts
<1>6. RunsInv'
  <2>1. \A r \in runs' : r \in runs /\ r.job \in Jobs
    BY DEF Inv, TypeOK, Run
  <2> QED BY <1>2, <2>1 DEF Inv, RunsInv, RunKnows, Fenced, Published
<1>7. ResultInv' /\ RetryInv' /\ SeenInv'
  BY <1>2 DEF Inv, ResultInv, Published, Fenced, RetryInv, SeenInv, SeenAreEnded, deleted, Active
<1> QED BY <1>3, <1>4, <1>5, <1>6, <1>7 DEF Inv

\* Writing a lease.
LEMMA LeaseWritten ==
  ASSUME Inv, NEW j \in Jobs, NEW lease \in 0..LeaseTTL,
         jobs' = [jobs EXCEPT ![j].lease = lease],
         runs' \in SUBSET runs,
         UNCHANGED <<attempts, commits, draining, retrying, retries, deletion>>
  PROVE  Inv'
<1> DEFINE row == [jobs[j] EXCEPT !.lease = lease]
<1>1. jobs[j] \in Job
  BY DEF Inv, TypeOK
<1>2. row \in Job /\ row.state = jobs[j].state
      /\ row.attemptCount = jobs[j].attemptCount
      /\ row.maxAttempts = jobs[j].maxAttempts
      /\ row.recoveryCount = jobs[j].recoveryCount
      /\ row.deferCount = jobs[j].deferCount
  BY <1>1 DEF Job
<1>3. jobs' = [jobs EXCEPT ![j] = row]
  OBVIOUS
<1> HIDE DEF row
<1> QED BY <1>2, <1>3, LeaseOnly

LEMMA ElapseInv ==
  ASSUME Inv, NEW j \in Jobs, Elapse(j) PROVE Inv'
<1>1. jobs \in [Jobs -> Job] /\ jobs[j] \in Job
  BY DEF Inv, TypeOK
<1>2. jobs[j].lease - 1 \in 0..LeaseTTL
  BY <1>1, LimitAssumption DEF Elapse, Job
<1>3. jobs' = [jobs EXCEPT ![j].lease = jobs[j].lease - 1]
  BY <1>1 DEF Elapse
<1> QED BY <1>2, <1>3, LeaseWritten DEF Elapse

LEMMA HeartbeatInv ==
  ASSUME Inv, NEW r \in runs, Heartbeat(r) PROVE Inv'
<1>1. r.job \in Jobs /\ LeaseTTL \in 0..LeaseTTL
  BY LimitAssumption DEF Inv, TypeOK, Run
<1> QED BY <1>1, LeaseWritten DEF Heartbeat

LEMMA ReturnOnDrainInv ==
  ASSUME Inv, NEW r \in runs, ReturnOnDrain(r) PROVE Inv'
<1>1. r.job \in Jobs /\ r \in Run /\ 0 \in 0..LeaseTTL
  BY LimitAssumption DEF Inv, TypeOK, Run
<1>2. CASE UNCHANGED jobs
  BY <1>2, RunsOnly DEF Inv, TypeOK, RetryInv, RunsInv, ReturnOnDrain, Leave
<1>3. CASE jobs' = [jobs EXCEPT ![r.job].lease = 0]
  BY <1>1, <1>3, LeaseWritten DEF ReturnOnDrain, Leave
<1> QED BY <1>2, <1>3 DEF ReturnOnDrain

LEMMA BecomeDueInv ==
  ASSUME Inv, NEW j \in Jobs, BecomeDue(j) PROVE Inv'
<1> DEFINE row == [jobs[j] EXCEPT !.due = TRUE]
<1>1. jobs[j] \in Job
  BY DEF Inv, TypeOK
<1>2. row \in Job /\ row.state = jobs[j].state
      /\ row.attemptCount = jobs[j].attemptCount
      /\ row.maxAttempts = jobs[j].maxAttempts
      /\ row.recoveryCount = jobs[j].recoveryCount
      /\ row.deferCount = jobs[j].deferCount
  BY <1>1 DEF Job
<1>3. jobs' = [jobs EXCEPT ![j] = row]
  BY DEF BecomeDue
<1> HIDE DEF row
<1> QED BY <1>2, <1>3, LeaseOnly DEF BecomeDue

\* A job that is not held becomes queued with attempts left, or ends: the rest
\* of the invariant only looks at running and at finished jobs.
LEMMA RowQueued ==
  ASSUME Inv, NEW j \in Jobs, NEW row \in Job, jobs' = [jobs EXCEPT ![j] = row],
         retries' \in [Jobs -> 0..MaxRetries],
         \A k \in Jobs : k # j => retries'[k] = retries[k],
         retrying' \in SUBSET retrying,
         jobs[j].state # "running", ~Published(j), j \in deletion.seen => Type[j] = "history.collect",
         row.state = "queued",
         row.attemptCount = jobs[j].attemptCount,
         row.attemptCount < row.maxAttempts,
         row.maxAttempts <= InitialMaxAttempts(j) + row.deferCount + row.recoveryCount
                              + retries'[j] * (RetryGrant + RecoveryLimit),
         UNCHANGED <<attempts, commits, runs, draining, deletion>>
  PROVE  Inv'
<1>1. jobs \in [Jobs -> Job] /\ row.attemptCount \in Nat /\ row.maxAttempts \in Nat
  BY DEF Inv, TypeOK, Job
<1>2. /\ jobs' \in [Jobs -> Job]
      /\ jobs'[j] = row
      /\ \A k \in Jobs : k # j => jobs'[k] = jobs[k]
  BY <1>1
<1>3. TypeOK'
  BY <1>2 DEF Inv, TypeOK
<1>4. AttemptsInv'
  BY <1>2 DEF Inv, AttemptsInv
<1>5. BudgetInv'
  <2>1. ASSUME NEW k \in Jobs, k # j
        PROVE  /\ jobs'[k].attemptCount <= jobs'[k].maxAttempts
               /\ jobs'[k].state \in {"absent", "queued"} =>
                    jobs'[k].attemptCount < jobs'[k].maxAttempts
               /\ jobs'[k].maxAttempts <=
                    InitialMaxAttempts(k) + jobs'[k].deferCount + jobs'[k].recoveryCount
                      + retries'[k] * (RetryGrant + RecoveryLimit)
    BY <1>2, <2>1 DEF Inv, BudgetInv
  <2>2. jobs'[j].attemptCount <= jobs'[j].maxAttempts
    BY <1>1, <1>2
  <2> QED BY <1>2, <2>1, <2>2 DEF BudgetInv, InitialMaxAttempts
<1>6. RunsInv'
  <2>1. \A r \in runs : r.job \in Jobs
    BY DEF Inv, TypeOK, Run
  <2> QED BY <1>2, <2>1 DEF Inv, RunsInv, RunKnows, Fenced, Published
<1>7. ResultInv' /\ RetryInv' /\ SeenInv'
  BY <1>2 DEF Inv, ResultInv, Published, Fenced, RetryInv, SeenInv, SeenAreEnded, deleted, Active
<1> QED BY <1>3, <1>4, <1>5, <1>6, <1>7 DEF Inv

LEMMA EnqueueInv ==
  ASSUME Inv, NEW j \in Jobs, Enqueue(j) PROVE Inv'
<1> DEFINE row == [jobs[j] EXCEPT !.state = "queued", !.due = TRUE]
<1>1. jobs \in [Jobs -> Job] /\ jobs[j] \in Job
  BY DEF Inv, TypeOK
<1>2. row \in Job /\ row.state = "queued"
      /\ row.attemptCount = jobs[j].attemptCount
      /\ row.maxAttempts = jobs[j].maxAttempts
      /\ row.recoveryCount = jobs[j].recoveryCount
      /\ row.deferCount = jobs[j].deferCount
  BY <1>1 DEF Job, States
<1>3. jobs' = [jobs EXCEPT ![j] = row]
  BY DEF Enqueue
<1>4. ~Published(j)
  BY DEF Inv, ResultInv, Enqueue
<1>5. /\ jobs[j].attemptCount < jobs[j].maxAttempts
      /\ jobs[j].maxAttempts <=
           InitialMaxAttempts(j) + jobs[j].deferCount + jobs[j].recoveryCount
             + retries[j] * (RetryGrant + RecoveryLimit)
  BY DEF Inv, BudgetInv, Enqueue
<1>6. retries \in [Jobs -> 0..MaxRetries] /\ retrying \in SUBSET Jobs
  BY DEF Inv, TypeOK
<1>7. j \notin deletion.seen
  BY DEF Inv, SeenInv, Enqueue
<1> HIDE DEF row
<1> QED BY <1>2, <1>3, <1>4, <1>5, <1>6, <1>7, RowQueued DEF Enqueue

LEMMA ApplyRetryInv ==
  ASSUME Inv, NEW j \in Jobs, ApplyRetry(j) PROVE Inv'
<1> DEFINE row == [jobs[j] EXCEPT !.state = "queued", !.due = TRUE, !.recoveryCount = 0,
                                  !.maxAttempts = jobs[j].attemptCount + RetryGrant]
<1>1. /\ jobs \in [Jobs -> Job] /\ jobs[j] \in Job
      /\ retries \in [Jobs -> 0..MaxRetries] /\ retrying \in SUBSET Jobs
      /\ draining \in SUBSET Executors /\ runs \in SUBSET Run
  BY DEF Inv, TypeOK
<1>2. CASE UNCHANGED <<jobs, retries>>
  BY <1>1, <1>2, RunsOnly DEF ApplyRetry, Inv, RetryInv, RunsInv
<1>3. CASE /\ jobs[j].state = "failed" /\ commits[j] = {} /\ retries[j] < MaxRetries
           /\ jobs' = [jobs EXCEPT ![j] = row]
           /\ retries' = [retries EXCEPT ![j] = @ + 1]
  <2>1. row \in Job /\ row.state = "queued" /\ row.recoveryCount = 0
        /\ row.attemptCount = jobs[j].attemptCount
        /\ row.maxAttempts = jobs[j].attemptCount + RetryGrant
        /\ row.deferCount = jobs[j].deferCount
    <3>1. jobs[j].attemptCount + RetryGrant \in Nat /\ 0 \in 0..RecoveryLimit
      BY <1>1, LimitAssumption DEF Job
    <3> QED BY <1>1, <3>1 DEF Job, States
  <2>2. /\ retries' \in [Jobs -> 0..MaxRetries]
        /\ retries'[j] = retries[j] + 1
        /\ \A k \in Jobs : k # j => retries'[k] = retries[k]
    BY <1>1, <1>3, LimitAssumption
  <2>3. retries'[j] * (RetryGrant + RecoveryLimit)
          = retries[j] * (RetryGrant + RecoveryLimit) + RetryGrant + RecoveryLimit
    BY <1>1, <2>2, LimitAssumption
  <2>4. row.attemptCount < row.maxAttempts
    BY <1>1, <2>1, LimitAssumption DEF Job
  <2>5. row.maxAttempts <= InitialMaxAttempts(j) + row.deferCount + row.recoveryCount
                              + retries'[j] * (RetryGrant + RecoveryLimit)
    <3>1. /\ jobs[j].attemptCount <= jobs[j].maxAttempts
          /\ jobs[j].maxAttempts <=
               InitialMaxAttempts(j) + jobs[j].deferCount + jobs[j].recoveryCount
                 + retries[j] * (RetryGrant + RecoveryLimit)
      BY DEF Inv, BudgetInv
    <3>2. /\ jobs[j].attemptCount \in Nat /\ jobs[j].maxAttempts \in Nat
          /\ jobs[j].deferCount \in Nat /\ jobs[j].recoveryCount \in 0..RecoveryLimit
          /\ InitialMaxAttempts(j) \in Nat
      BY <1>1, InitialMaxAttemptsType, LimitAssumption DEF Job
    <3> DEFINE granted == retries[j] * (RetryGrant + RecoveryLimit)
    <3>3. granted \in Nat
      BY <1>1, LimitAssumption
    <3> HIDE DEF granted
    <3> QED BY <2>1, <2>3, <3>1, <3>2, <3>3, LimitAssumption DEF granted
  <2>6. ~Published(j) /\ Type[j] = "history.collect"
    BY <1>3 DEF Published, ApplyRetry, Inv, RetryInv
  <2> HIDE DEF row
  <2> QED BY <1>1, <1>3, <2>1, <2>2, <2>4, <2>5, <2>6, RowQueued DEF ApplyRetry
<1> QED BY <1>2, <1>3 DEF ApplyRetry

-----------------------------------------------------------------------------
(* Steps that end an attempt *)

\* The attempt of a running job ends and its row is released, by the holder or
\* by recovery.
LEMMA Release ==
  ASSUME Inv, NEW j \in Jobs, NEW row \in Job, jobs' = [jobs EXCEPT ![j] = row],
         jobs[j].state = "running",
         row.state \in {"queued", "completed", "failed"},
         row.attemptCount = jobs[j].attemptCount,
         row.attemptCount <= row.maxAttempts,
         row.state = "queued" => row.attemptCount < row.maxAttempts,
         row.maxAttempts <= InitialMaxAttempts(j) + row.deferCount + row.recoveryCount
                              + retries[j] * (RetryGrant + RecoveryLimit),
         row.state = "completed" /\ Fenced(j) => commits[j] # {},
         Published(j) => row.state = "completed",
         attempts' \in [Jobs -> Seq(Attempt)],
         \A k \in Jobs : k # j => attempts'[k] = attempts[k],
         Len(attempts'[j]) = Len(attempts[j]),
         \A n \in 1..Len(attempts[j]) : attempts'[j][n].outcome # "open",
         runs' \in SUBSET runs,
         UNCHANGED <<commits, draining, retrying, retries, deletion>>
  PROVE  Inv'
<1>1. jobs \in [Jobs -> Job]
  BY DEF Inv, TypeOK
<1>2. /\ jobs' \in [Jobs -> Job]
      /\ jobs'[j] = row
      /\ \A k \in Jobs : k # j => jobs'[k] = jobs[k]
  BY <1>1
<1>3. TypeOK'
  BY <1>2 DEF Inv, TypeOK
<1>4. AttemptsInv'
  BY <1>2 DEF Inv, AttemptsInv
<1>5. BudgetInv'
  BY <1>2 DEF Inv, BudgetInv, InitialMaxAttempts
<1>6. RunsInv'
  <2>1. \A r \in runs' : r \in runs /\ r.job \in Jobs
    BY DEF Inv, TypeOK, Run
  <2>2. \A k \in Jobs : Len(attempts'[k]) = Len(attempts[k])
    OBVIOUS
  <2> QED BY <1>2, <2>1, <2>2 DEF Inv, RunsInv, RunKnows, Fenced, Published
<1>7. ResultInv' /\ RetryInv'
  BY <1>2 DEF Inv, ResultInv, Published, Fenced, RetryInv
<1>8. SeenInv'
  BY <1>2 DEF Inv, SeenInv, SeenAreEnded, deleted, Active
<1> QED BY <1>3, <1>4, <1>5, <1>6, <1>7, <1>8 DEF Inv

\* What the fence tells about the run that passes it.
LEMMA Holding ==
  ASSUME Inv, NEW r \in runs, LeaseHeld(r)
  PROVE  /\ r \in Run /\ r.job \in Jobs /\ jobs[r.job] \in Job
         /\ r.attempt \in 1..Len(attempts[r.job])
         /\ jobs[r.job].state = "running"
         /\ jobs[r.job].attemptCount = r.attempt
         /\ r.maxAttempts = jobs[r.job].maxAttempts
         /\ r.attempt <= jobs[r.job].maxAttempts
         /\ jobs[r.job].maxAttempts <=
              InitialMaxAttempts(r.job) + jobs[r.job].deferCount
                + jobs[r.job].recoveryCount
                + retries[r.job] * (RetryGrant + RecoveryLimit)
         /\ r.pc = "collecting" => commits[r.job] = {}
         /\ r.pc = "unreported" => ~Published(r.job)
<1>1. r \in Run /\ r.job \in Jobs /\ jobs[r.job] \in Job
  BY DEF Inv, TypeOK, Run
<1>2. jobs[r.job].state = "running" /\ jobs[r.job].attemptCount = r.attempt
  BY DEF LeaseHeld
<1>3. r.attempt \in Nat \ {0} /\ Len(attempts[r.job]) \in Nat
  BY <1>1 DEF Run, Inv, TypeOK
<1>4. r.attempt <= Len(attempts[r.job])
  BY DEF Inv, RunsInv
<1>5. r.maxAttempts = jobs[r.job].maxAttempts
  BY <1>2 DEF Inv, RunsInv
<1>6. (\A n \in commits[r.job] : n > r.attempt) => commits[r.job] = {}
  <2>1. \A n \in commits[r.job] : n \in Nat /\ n <= Len(attempts[r.job])
    BY <1>1 DEF Inv, TypeOK, ResultInv
  <2>2. Len(attempts[r.job]) = r.attempt
    BY <1>1, <1>2 DEF Inv, AttemptsInv
  <2> QED BY <1>3, <2>1, <2>2
<1>7. /\ r.pc = "collecting" => commits[r.job] = {}
      /\ r.pc = "unreported" => ~Published(r.job)
  BY <1>6 DEF Inv, RunsInv, RunKnows, Published
<1> QED BY <1>1, <1>2, <1>3, <1>4, <1>5, <1>7 DEF Inv, BudgetInv

\* The holder of a lease ends its attempt.
LEMMA HolderReleases ==
  ASSUME Inv, NEW r \in runs, LeaseHeld(r),
         NEW outcome \in Outcomes \ {"open"}, EndAttempt(r, outcome),
         NEW row \in Job, jobs' = [jobs EXCEPT ![r.job] = row],
         row.state \in {"queued", "completed", "failed"},
         row.attemptCount = jobs[r.job].attemptCount,
         row.attemptCount <= row.maxAttempts,
         row.state = "queued" => row.attemptCount < row.maxAttempts,
         row.maxAttempts <=
           InitialMaxAttempts(r.job) + row.deferCount + row.recoveryCount
             + retries[r.job] * (RetryGrant + RecoveryLimit),
         row.state = "completed" /\ Fenced(r.job) => commits[r.job] # {},
         Published(r.job) => row.state = "completed",
         Leave(r),
         UNCHANGED <<commits, draining, retrying, retries, deletion>>
  PROVE  Inv'
<1>1. /\ r \in Run /\ r.job \in Jobs /\ r.attempt \in 1..Len(attempts[r.job])
      /\ jobs[r.job].state = "running" /\ jobs[r.job].attemptCount = r.attempt
  BY Holding
<1>2. TypeOK
  BY DEF Inv
<1>3. /\ attempts' \in [Jobs -> Seq(Attempt)]
      /\ \A k \in Jobs : k # r.job => attempts'[k] = attempts[k]
      /\ Len(attempts'[r.job]) = Len(attempts[r.job])
      /\ \A n \in 1..Len(attempts[r.job]) : n # r.attempt =>
           attempts'[r.job][n] = attempts[r.job][n]
      /\ attempts'[r.job][r.attempt].outcome = outcome
  BY <1>1, <1>2, EndAttemptEffect
<1>4. \A n \in 1..Len(attempts[r.job]) : attempts'[r.job][n].outcome # "open"
  BY <1>1, <1>3 DEF Inv, AttemptsInv
<1>5. runs' \in SUBSET runs
  BY DEF Leave
<1> QED BY <1>1, <1>3, <1>4, <1>5, Release

LEMMA CompletesInv ==
  ASSUME Inv, NEW r \in runs, CompleteJob(r) \/ CompleteOnFailure(r)
  PROVE  Inv'
<1>1. LeaseHeld(r) /\ EndAttempt(r, "completed") /\ Leave(r)
      /\ jobs' = [jobs EXCEPT ![r.job] = Released(@, "completed")]
      /\ UNCHANGED <<commits, draining, retrying, retries, deletion>>
  BY DEF CompleteJob, CompleteOnFailure
<1> DEFINE row == Released(jobs[r.job], "completed")
<1>2. r.job \in Jobs /\ jobs[r.job] \in Job /\ r.attempt \in Nat
      /\ jobs[r.job].attemptCount = r.attempt
      /\ r.attempt <= jobs[r.job].maxAttempts
      /\ jobs[r.job].maxAttempts <=
           InitialMaxAttempts(r.job) + jobs[r.job].deferCount
             + jobs[r.job].recoveryCount
             + retries[r.job] * (RetryGrant + RecoveryLimit)
  BY <1>1, Holding
<1>3. /\ row \in Job /\ row.state = "completed"
      /\ row.attemptCount = jobs[r.job].attemptCount
      /\ row.maxAttempts = jobs[r.job].maxAttempts
      /\ row.recoveryCount = jobs[r.job].recoveryCount
      /\ row.deferCount = jobs[r.job].deferCount
  BY <1>2, ReleasedType DEF States
<1>4. jobs' = [jobs EXCEPT ![r.job] = row]
  BY <1>1
<1>5. Fenced(r.job) => commits[r.job] # {}
  BY DEF CompleteJob, CompleteOnFailure, Published, Inv, RunsInv, RunKnows
<1> HIDE DEF row
<1> QED BY <1>1, <1>2, <1>3, <1>4, <1>5, HolderReleases DEF Outcomes

LEMMA DeferJobInv ==
  ASSUME Inv, NEW r \in runs, DeferJob(r) PROVE Inv'
<1> DEFINE free == Released(jobs[r.job], "queued")
<1> DEFINE row == [free EXCEPT !.due = FALSE,
                               !.deferCount = jobs[r.job].deferCount + 1,
                               !.maxAttempts = jobs[r.job].maxAttempts + 1]
<1>1. LeaseHeld(r) /\ EndAttempt(r, "retry") /\ Leave(r) /\ ~Published(r.job)
      /\ jobs[r.job].deferCount < DeferLimit
      /\ UNCHANGED <<commits, draining, retrying, retries, deletion>>
  BY Holding DEF DeferJob
<1>2. r.job \in Jobs /\ jobs[r.job] \in Job /\ r.attempt \in Nat
      /\ jobs[r.job].attemptCount = r.attempt
      /\ r.attempt <= jobs[r.job].maxAttempts
      /\ jobs[r.job].maxAttempts <=
           InitialMaxAttempts(r.job) + jobs[r.job].deferCount
             + jobs[r.job].recoveryCount
             + retries[r.job] * (RetryGrant + RecoveryLimit)
      /\ retries[r.job] \in Nat
  BY <1>1, Holding DEF Inv, TypeOK
<1>3. /\ free \in Job /\ free.state = "queued"
      /\ free.attemptCount = jobs[r.job].attemptCount
      /\ free.maxAttempts = jobs[r.job].maxAttempts
      /\ free.recoveryCount = jobs[r.job].recoveryCount
      /\ free.deferCount = jobs[r.job].deferCount
  BY <1>2, ReleasedType DEF States
<1>4. jobs' = [jobs EXCEPT ![r.job] = row]
  BY DEF DeferJob
<1> HIDE DEF free
<1>5. /\ jobs[r.job].deferCount + 1 \in 0..DeferLimit
      /\ jobs[r.job].maxAttempts + 1 \in Nat
  BY <1>1, <1>2, <1>3, LimitAssumption DEF Job
<1>6. /\ row \in Job /\ row.state = "queued"
      /\ row.attemptCount = jobs[r.job].attemptCount
      /\ row.maxAttempts = jobs[r.job].maxAttempts + 1
      /\ row.recoveryCount = jobs[r.job].recoveryCount
      /\ row.deferCount = jobs[r.job].deferCount + 1
  BY <1>3, <1>5 DEF Job
<1> HIDE DEF row
<1>7. /\ jobs[r.job].maxAttempts \in Nat /\ jobs[r.job].deferCount \in Nat
      /\ jobs[r.job].recoveryCount \in Nat /\ InitialMaxAttempts(r.job) \in Nat
  BY <1>2, InitialMaxAttemptsType, LimitAssumption DEF Job
<1> DEFINE granted == retries[r.job] * (RetryGrant + RecoveryLimit)
<1>8. granted \in Nat
  BY <1>2, LimitAssumption
<1>9. jobs[r.job].maxAttempts <=
        InitialMaxAttempts(r.job) + jobs[r.job].deferCount
          + jobs[r.job].recoveryCount + granted
  BY <1>2
<1> HIDE DEF granted
<1>10. /\ row.attemptCount < row.maxAttempts /\ row.attemptCount <= row.maxAttempts
       /\ row.maxAttempts <= InitialMaxAttempts(r.job) + row.deferCount
                               + row.recoveryCount + granted
  BY <1>2, <1>6, <1>7, <1>8, <1>9
<1> QED BY <1>1, <1>2, <1>4, <1>6, <1>10, HolderReleases DEF Outcomes, granted

LEMMA RecordJobFailureInv ==
  ASSUME Inv, NEW r \in runs, RecordJobFailure(r) PROVE Inv'
<1> DEFINE state == IF Terminal(r) THEN "failed" ELSE "queued"
<1> DEFINE outcome == IF Terminal(r) THEN "failed" ELSE "retry"
<1> DEFINE free == Released(jobs[r.job], state)
<1> DEFINE row == [free EXCEPT !.due = FALSE]
<1>1. LeaseHeld(r) /\ EndAttempt(r, outcome) /\ Leave(r) /\ ~Published(r.job)
      /\ UNCHANGED <<commits, draining, retrying, retries, deletion>>
  BY Holding DEF RecordJobFailure
<1>2. r.job \in Jobs /\ jobs[r.job] \in Job /\ r.attempt \in Nat
      /\ jobs[r.job].attemptCount = r.attempt
      /\ r.maxAttempts = jobs[r.job].maxAttempts
      /\ r.attempt <= jobs[r.job].maxAttempts
      /\ jobs[r.job].maxAttempts <=
           InitialMaxAttempts(r.job) + jobs[r.job].deferCount
             + jobs[r.job].recoveryCount
             + retries[r.job] * (RetryGrant + RecoveryLimit)
  BY <1>1, Holding
<1>3. jobs' = [jobs EXCEPT ![r.job] = row]
  BY DEF RecordJobFailure
<1>4. /\ state \in {"queued", "failed"} /\ state \in States
      /\ outcome \in Outcomes \ {"open"}
      /\ state = "queued" => r.attempt < r.maxAttempts
  <2>1. r.maxAttempts \in Nat
    BY <1>2 DEF Job
  <2> QED BY <1>2, <2>1 DEF States, Outcomes, Terminal
<1> HIDE DEF state, outcome
<1>5. /\ free \in Job /\ free.state = state
      /\ free.attemptCount = jobs[r.job].attemptCount
      /\ free.maxAttempts = jobs[r.job].maxAttempts
      /\ free.recoveryCount = jobs[r.job].recoveryCount
      /\ free.deferCount = jobs[r.job].deferCount
  BY <1>2, <1>4, ReleasedType
<1> HIDE DEF free
<1>6. /\ row \in Job /\ row.state = state
      /\ row.attemptCount = jobs[r.job].attemptCount
      /\ row.maxAttempts = jobs[r.job].maxAttempts
      /\ row.recoveryCount = jobs[r.job].recoveryCount
      /\ row.deferCount = jobs[r.job].deferCount
  BY <1>5 DEF Job
<1> HIDE DEF row
<1> QED BY <1>1, <1>2, <1>3, <1>4, <1>6, HolderReleases

LEMMA RecoverInv ==
  ASSUME Inv, NEW j \in Jobs, Recover(j) PROVE Inv'
<1> DEFINE state == RecoveredState(j)
<1> DEFINE outcome == IF state = "completed" THEN "completed" ELSE "interrupted"
<1> DEFINE count == RecoveredCount(j)
<1> DEFINE limit == RecoveredMaxAttempts(j)
<1> DEFINE free == Released(jobs[j], state)
<1> DEFINE row == [free EXCEPT !.due = TRUE, !.recoveryCount = count,
                               !.maxAttempts = limit]
<1>1. /\ jobs[j].state = "running" /\ EndOpenAttempts(j, outcome)
      /\ UNCHANGED <<commits, runs, draining, retrying, retries, deletion>>
  BY DEF Recover
<1>2. /\ jobs \in [Jobs -> Job] /\ jobs[j] \in Job
      /\ jobs[j].attemptCount \in Nat /\ jobs[j].maxAttempts \in Nat
      /\ jobs[j].recoveryCount \in 0..RecoveryLimit /\ jobs[j].deferCount \in Nat
      /\ InitialMaxAttempts(j) \in Nat
  BY InitialMaxAttemptsType, LimitAssumption DEF Inv, TypeOK, Job
<1>3. /\ jobs[j].attemptCount <= jobs[j].maxAttempts
      /\ jobs[j].maxAttempts <=
           InitialMaxAttempts(j) + jobs[j].deferCount + jobs[j].recoveryCount
             + retries[j] * (RetryGrant + RecoveryLimit)
  BY DEF Inv, BudgetInv
<1>4. /\ state \in {"queued", "completed", "failed"}
      /\ state = "completed" <=> Published(j)
      /\ state = "queued" => jobs[j].recoveryCount < RecoveryLimit
  BY DEF RecoveredState
<1>5. count \in 0..RecoveryLimit
      /\ count = IF state = "queued" THEN jobs[j].recoveryCount + 1
                                     ELSE jobs[j].recoveryCount
  BY <1>2, <1>4, LimitAssumption DEF RecoveredCount
<1>6. /\ limit \in Nat /\ jobs[j].attemptCount <= limit
      /\ state = "queued" => jobs[j].attemptCount < limit
      /\ limit <= InitialMaxAttempts(j) + jobs[j].deferCount + count
                    + retries[j] * (RetryGrant + RecoveryLimit)
  <2> DEFINE granted == retries[j] * (RetryGrant + RecoveryLimit)
  <2>1. granted \in Nat
    BY LimitAssumption DEF Inv, TypeOK
  <2>2. jobs[j].maxAttempts <=
          InitialMaxAttempts(j) + jobs[j].deferCount + jobs[j].recoveryCount + granted
    BY <1>3
  <2> HIDE DEF granted
  <2>3. /\ limit \in Nat /\ jobs[j].attemptCount <= limit
        /\ state = "queued" => jobs[j].attemptCount < limit
        /\ limit <= InitialMaxAttempts(j) + jobs[j].deferCount + count + granted
    BY <1>2, <1>3, <1>4, <1>5, <2>1, <2>2 DEF RecoveredMaxAttempts
  <2> QED BY <2>3 DEF granted
<1>7. jobs' = [jobs EXCEPT ![j] = row]
  BY <1>2 DEF Recover
<1> HIDE DEF state, count, limit
<1>8. /\ free \in Job /\ free.state = state
      /\ free.attemptCount = jobs[j].attemptCount
      /\ free.deferCount = jobs[j].deferCount
  BY <1>2, <1>4, ReleasedType DEF States
<1> HIDE DEF free
<1>9. /\ row \in Job /\ row.state = state
      /\ row.attemptCount = jobs[j].attemptCount
      /\ row.maxAttempts = limit
      /\ row.recoveryCount = count
      /\ row.deferCount = jobs[j].deferCount
  BY <1>5, <1>6, <1>8 DEF Job
<1>10. /\ attempts' \in [Jobs -> Seq(Attempt)]
       /\ \A k \in Jobs : k # j => attempts'[k] = attempts[k]
       /\ Len(attempts'[j]) = Len(attempts[j])
       /\ \A n \in 1..Len(attempts[j]) : attempts'[j][n].outcome # "open"
  <2>1. TypeOK /\ outcome \in Outcomes /\ outcome # "open"
    BY DEF Inv, Outcomes
  <2> HIDE DEF outcome
  <2> QED BY <1>1, <2>1, EndOpenAttemptsEffect
<1>11. state = "completed" => commits[j] # {}
  BY <1>4 DEF Published
<1>12. runs' \in SUBSET runs
  BY <1>1
<1> HIDE DEF row
<1> QED BY <1>1, <1>4, <1>6, <1>7, <1>9, <1>10, <1>11, <1>12, Release

-----------------------------------------------------------------------------
(* The remaining steps *)

LEMMA DeleteRepositoryInv ==
  ASSUME Inv, DeleteRepository PROVE Inv'
<1> DEFINE ended(j) == j \in deletion.seen /\ jobs[j].state = "queued"
<1> DEFINE row(j) == IF ended(j) THEN [jobs[j] EXCEPT !.state = "failed"] ELSE jobs[j]
<1>1. jobs' = [j \in Jobs |-> row(j)]
      /\ deletion.stage = "reading" /\ deletion \in Deletion
      /\ deletion' = [deletion EXCEPT !.stage = "done"]
      /\ UNCHANGED <<attempts, commits, runs, draining, retrying, retries>>
      /\ \A j \in deletion.seen : jobs[j].state # "running"
  BY DEF DeleteRepository, Cancellable, Inv, TypeOK
<1>2. \A j \in Jobs :
        /\ row(j) \in Job
        /\ row(j).state = IF ended(j) THEN "failed" ELSE jobs[j].state
        /\ row(j).attemptCount = jobs[j].attemptCount
        /\ row(j).maxAttempts = jobs[j].maxAttempts
        /\ row(j).recoveryCount = jobs[j].recoveryCount
        /\ row(j).deferCount = jobs[j].deferCount
  <2>1. \A j \in Jobs : jobs[j] \in Job
    BY DEF Inv, TypeOK
  <2>2. "failed" \in States
    BY DEF States
  <2> QED BY <2>1, <2>2 DEF Job
<1> HIDE DEF row
<1>3. jobs' \in [Jobs -> Job] /\ \A j \in Jobs :
        /\ jobs'[j].state = IF ended(j) THEN "failed" ELSE jobs[j].state
        /\ jobs'[j].attemptCount = jobs[j].attemptCount
        /\ jobs'[j].maxAttempts = jobs[j].maxAttempts
        /\ jobs'[j].recoveryCount = jobs[j].recoveryCount
        /\ jobs'[j].deferCount = jobs[j].deferCount
  BY <1>1, <1>2
<1>10. deletion' \in Deletion /\ deletion'.seen = deletion.seen /\ deletion.seen \in SUBSET Jobs
  BY <1>1 DEF Deletion
<1>4. TypeOK'
  BY <1>1, <1>3, <1>10 DEF Inv, TypeOK
<1>5. AttemptsInv'
  BY <1>1, <1>3 DEF Inv, AttemptsInv
<1>6. BudgetInv'
  BY <1>1, <1>3 DEF Inv, BudgetInv, InitialMaxAttempts
<1>7. RunsInv'
  <2>1. \A r \in runs : r.job \in Jobs
    BY DEF Inv, TypeOK, Run
  <2> QED BY <1>1, <1>3, <2>1 DEF Inv, RunsInv, RunKnows, Fenced, Published
<1>8. ResultInv' /\ RetryInv'
  BY <1>1, <1>3 DEF Inv, ResultInv, Published, Fenced, RetryInv
<1>9. SeenInv'
  BY <1>1, <1>3, <1>10 DEF Inv, SeenInv, SeenAreEnded, Active
<1> QED BY <1>4, <1>5, <1>6, <1>7, <1>8, <1>9 DEF Inv

\* A deletion that only looks, or gives up.
LEMMA DeletionLooksInv ==
  ASSUME Inv, ListJobs \/ RollBackDeletion PROVE Inv'
<1>1. /\ UNCHANGED <<jobs, attempts, commits, runs, draining, retrying, retries>>
      /\ deletion' \in Deletion /\ deletion'.stage # "done"
      /\ \A j \in deletion'.seen : jobs[j].state # "absent"
  BY DEF ListJobs, RollBackDeletion, NoDeletion, Deletion, Active
<1>2. TypeOK'
  BY <1>1 DEF Inv, TypeOK
<1>3. AttemptsInv' /\ BudgetInv'
  BY <1>1 DEF Inv, AttemptsInv, BudgetInv, InitialMaxAttempts
<1>4. RunsInv'
  BY <1>1 DEF Inv, RunsInv, RunKnows, Fenced, Published
<1>5. ResultInv' /\ RetryInv' /\ SeenInv'
  BY <1>1 DEF Inv, ResultInv, Published, Fenced, RetryInv, SeenInv, SeenAreEnded, deleted
<1> QED BY <1>2, <1>3, <1>4, <1>5 DEF Inv

LEMMA CommitBodyInv ==
  ASSUME Inv, NEW r \in runs, CommitBody(r) PROVE Inv'
<1>1. /\ r \in Run /\ r.job \in Jobs /\ jobs[r.job].state = "running"
  BY Holding DEF CommitBody
<1>2. /\ Type[r.job] \in {"analysis.run", "history.collect"} => commits[r.job] = {}
      /\ UNCHANGED <<jobs, attempts, draining, retrying, retries, deletion>>
      /\ commits' = [commits EXCEPT ![r.job] = commits[r.job] \cup {r.attempt}]
  BY Holding DEF CommitBody, Published
<1>3. /\ commits' \in [Jobs -> SUBSET (Nat \ {0})]
      /\ commits'[r.job] = commits[r.job] \cup {r.attempt}
      /\ \A k \in Jobs : k # r.job => commits'[k] = commits[k]
  BY <1>1, <1>2 DEF Inv, TypeOK, Run
<1> DEFINE next == [r EXCEPT !.pc = "completing"]
<1>4. next \in Run /\ next.job = r.job /\ next.attempt = r.attempt
      /\ next.maxAttempts = r.maxAttempts /\ next.pc = "completing"
  BY <1>1 DEF Run, Pcs
<1>5. runs' = (runs \ {r}) \cup {next}
  BY DEF CommitBody, GoTo
<1> HIDE DEF next
<1>6. TypeOK'
  BY <1>2, <1>3, <1>4, <1>5 DEF Inv, TypeOK
<1>7. AttemptsInv'
  BY <1>2 DEF Inv, AttemptsInv
<1>8. BudgetInv'
  BY <1>2 DEF Inv, BudgetInv, InitialMaxAttempts
<1>9. RunsInv'
  <2>1. \A q \in runs : q.job \in Jobs
    BY DEF Inv, TypeOK, Run
  <2>6. jobs' = jobs /\ attempts' = attempts
    BY <1>2
  <2>2. ASSUME NEW q \in runs, q # r PROVE RunKnows(q)'
    <3>1. CASE q.job = r.job
      <4>1. /\ q.attempt # r.attempt /\ q.attempt <= Len(attempts[r.job]) /\ q.attempt \in Nat
            /\ RunKnows(q)
        BY <2>2, <3>1 DEF Inv, RunsInv, TypeOK, Run
      <4>2. Len(attempts[r.job]) = r.attempt /\ r.attempt \in Nat
        BY <1>1, Holding DEF CommitBody, Inv, AttemptsInv, Run
      <4>3. r.attempt > q.attempt
        BY <4>1, <4>2
      <4> QED BY <1>1, <1>3, <3>1, <4>1, <4>3 DEF RunKnows, Published
    <3>2. CASE q.job # r.job
      BY <1>3, <2>1, <3>2 DEF Inv, RunsInv, RunKnows, Published
    <3> QED BY <3>1, <3>2
  <2>3. RunKnows(next)'
    BY <1>3, <1>4 DEF RunKnows
  <2>4. \A q \in runs' :
          /\ q.attempt <= Len(attempts'[q.job])
          /\ jobs'[q.job].state = "running" /\ jobs'[q.job].attemptCount = q.attempt
               => q.maxAttempts = jobs'[q.job].maxAttempts
    BY <1>2, <1>4, <1>5 DEF Inv, RunsInv
  <2>7. \A q \in runs' : RunKnows(q)'
    BY <1>5, <2>2, <2>3, Zenon
  <2>5. \A q, p \in runs' : q.job = p.job /\ q.attempt = p.attempt => q = p
    BY <1>4, <1>5 DEF Inv, RunsInv
  <2> QED BY <2>4, <2>5, <2>7 DEF RunsInv
<1>10. ResultInv'
  <2>1. Type[r.job] \in {"analysis.run", "history.collect"} => commits[r.job] = {}
    BY <1>2
  <2>2. \A j \in Jobs : Type[j] \in {"analysis.run", "history.collect"} =>
          \A m, n \in commits'[j] : m = n
    BY <1>3, <2>1 DEF Inv, ResultInv
  <2>3. \A j \in Jobs : jobs[j].state = "completed" /\ Fenced(j) => commits'[j] # {}
    BY <1>3 DEF Inv, ResultInv
  <2>4. \A j \in Jobs : Type[j] = "analysis.run" /\ commits'[j] # {} =>
          jobs[j].state \in {"running", "completed"}
    BY <1>1, <1>3 DEF Inv, ResultInv, Published
  <2>5. \A j \in Jobs : \A n \in commits'[j] : n <= Len(attempts[j])
    BY <1>3 DEF Inv, ResultInv, RunsInv
  <2> QED BY <1>2, <2>2, <2>3, <2>4, <2>5 DEF ResultInv, Published, Fenced
<1>11. RetryInv' /\ SeenInv'
  BY <1>2 DEF Inv, RetryInv, SeenInv, SeenAreEnded, deleted, Active
<1> QED BY <1>6, <1>7, <1>8, <1>9, <1>10, <1>11 DEF Inv

LEMMA ClaimInv ==
  ASSUME Inv, NEW w \in Executors, NEW j \in Jobs, Claim(w, j) PROVE Inv'
<1> DEFINE next == jobs[j].attemptCount + 1
<1> DEFINE row == [jobs[j] EXCEPT !.state = "running", !.owner = w,
                                  !.lease = LeaseTTL, !.attemptCount = next]
<1> DEFINE opened == [executor |-> w, outcome |-> "open"]
<1> DEFINE run == [job |-> j, attempt |-> next, maxAttempts |-> jobs[j].maxAttempts,
                   executor |-> w, pc |-> "executing", error |-> "retryable"]
<1>1. /\ jobs \in [Jobs -> Job] /\ jobs[j] \in Job
      /\ attempts \in [Jobs -> Seq(Attempt)] /\ attempts[j] \in Seq(Attempt)
      /\ jobs[j].attemptCount \in Nat /\ jobs[j].maxAttempts \in Nat
  BY DEF Inv, TypeOK, Job
<1>2. /\ jobs[j].state = "queued" /\ jobs[j].attemptCount < jobs[j].maxAttempts
      /\ Len(attempts[j]) = jobs[j].attemptCount
      /\ jobs' = [jobs EXCEPT ![j] = row]
      /\ attempts' = [attempts EXCEPT ![j] = Append(attempts[j], opened)]
      /\ runs' = runs \cup {run}
      /\ UNCHANGED <<commits, draining, retrying, retries, deletion>>
  BY DEF Claim, Inv, AttemptsInv
<1>3. next \in Nat \ {0} /\ next <= jobs[j].maxAttempts
  BY <1>1, <1>2
<1>4. /\ row \in Job /\ row.state = "running"
      /\ row.attemptCount = next
      /\ row.maxAttempts = jobs[j].maxAttempts
      /\ row.recoveryCount = jobs[j].recoveryCount
      /\ row.deferCount = jobs[j].deferCount
  <2>1. LeaseTTL \in 0..LeaseTTL
    BY LimitAssumption
  <2> HIDE DEF next
  <2> QED BY <1>1, <1>3, <2>1 DEF Job, States
<1>5. opened \in Attempt /\ opened.outcome = "open"
  BY DEF Attempt, Outcomes
<1>6. /\ run \in Run /\ run.job = j /\ run.attempt = next
      /\ run.maxAttempts = jobs[j].maxAttempts /\ run.pc = "executing"
  BY <1>1, <1>3 DEF Run, Errors, Pcs
<1>7. /\ Append(attempts[j], opened) \in Seq(Attempt)
      /\ Len(Append(attempts[j], opened)) = next
      /\ Append(attempts[j], opened)[next] = opened
      /\ \A n \in 1..Len(attempts[j]) :
           Append(attempts[j], opened)[n] = attempts[j][n]
  BY <1>1, <1>2, <1>5
<1> HIDE DEF row, opened, run
<1>8. /\ jobs' \in [Jobs -> Job] /\ jobs'[j] = row
      /\ \A k \in Jobs : k # j => jobs'[k] = jobs[k]
  BY <1>1, <1>2, <1>4
<1>9. /\ attempts' \in [Jobs -> Seq(Attempt)] /\ Len(attempts'[j]) = next
      /\ attempts'[j][next] = opened
      /\ \A n \in 1..Len(attempts[j]) : attempts'[j][n] = attempts[j][n]
      /\ \A k \in Jobs : k # j => attempts'[k] = attempts[k]
  BY <1>1, <1>2, <1>7
<1>10. TypeOK'
  BY <1>2, <1>6, <1>8, <1>9 DEF Inv, TypeOK
<1>11. AttemptsInv'
  <2>1. \A n \in 1..Len(attempts[j]) : attempts[j][n].outcome # "open"
    BY <1>2 DEF Inv, AttemptsInv
  <2>2. \A n \in 1..next : n = next \/ n \in 1..Len(attempts[j])
    BY <1>1, <1>2
  <2>3. \A n \in 1..Len(attempts'[j]) :
          attempts'[j][n].outcome = "open" <=> n = next
    <3> HIDE DEF next
    <3>1. next \notin 1..Len(attempts[j])
      BY <1>1, <1>2 DEF next
    <3> QED BY <1>5, <1>9, <2>1, <2>2, <3>1
  <2>4. /\ Len(attempts'[j]) = jobs'[j].attemptCount
        /\ jobs'[j].attemptCount > 0
        /\ jobs'[j].state = "running"
        /\ jobs'[j].attemptCount = next
    BY <1>3, <1>4, <1>8, <1>9
  <2>5. ASSUME NEW k \in Jobs, k # j
        PROVE  jobs'[k] = jobs[k] /\ attempts'[k] = attempts[k]
    BY <1>8, <1>9, <2>5
  <2>6. \A n \in 1..Len(attempts'[j]) :
          attempts'[j][n].outcome = "open" <=>
            jobs'[j].state = "running" /\ n = jobs'[j].attemptCount
    BY <2>3, <2>4
  <2> HIDE DEF next
  <2> QED BY <2>4, <2>5, <2>6 DEF Inv, AttemptsInv
<1>12. BudgetInv'
  BY <1>2, <1>3, <1>4, <1>8 DEF Inv, BudgetInv, InitialMaxAttempts
<1>13. RunsInv'
  <2>1. \A r \in runs : r.job \in Jobs /\ r.attempt \in Nat
    BY DEF Inv, TypeOK, Run
  <2>2. ASSUME NEW r \in runs
        PROVE  /\ r.attempt <= Len(attempts'[r.job])
               /\ jobs'[r.job].state = "running" /\ jobs'[r.job].attemptCount = r.attempt
                    => r.maxAttempts = jobs'[r.job].maxAttempts
               /\ r.job = j => r.attempt # next
    <3>1. CASE r.job = j
      <4>1. r.attempt <= Len(attempts[j])
        BY <3>1 DEF Inv, RunsInv
      <4>2. r.attempt < next /\ r.attempt # next
        BY <1>1, <1>2, <2>1, <4>1
      <4>3. r.attempt <= Len(attempts'[j])
        BY <1>3, <1>9, <2>1, <4>2
      <4>4. jobs'[j].attemptCount # r.attempt
        BY <1>4, <1>8, <4>2
      <4> QED BY <1>2, <3>1, <4>2, <4>3, <4>4 DEF Inv, RunsInv
    <3>2. CASE r.job # j
      BY <1>2, <1>8, <1>9, <2>1, <3>2 DEF Inv, RunsInv
    <3> QED BY <3>1, <3>2
  <2>3. /\ run.attempt <= Len(attempts'[run.job])
        /\ run.maxAttempts = jobs'[run.job].maxAttempts
    BY <1>3, <1>4, <1>6, <1>8, <1>9
  <2>6. ASSUME NEW q \in runs', q = run PROVE RunKnows(q)'
    BY <1>6, <2>6 DEF RunKnows
  <2>4. \A r \in runs : RunKnows(r)'
    BY <1>2 DEF Inv, RunsInv, RunKnows, Published
  <2>5. \A q, r \in runs' : q.job = r.job /\ q.attempt = r.attempt => q = r
    <3> HIDE DEF next
    <3> QED BY <1>2, <1>6, <2>2 DEF Inv, RunsInv
  <2>7. \A q \in runs' : RunKnows(q)'
    BY <1>2, <2>4, <2>6
  <2>8. \A q \in runs' :
          /\ q.attempt <= Len(attempts'[q.job])
          /\ jobs'[q.job].state = "running" /\ jobs'[q.job].attemptCount = q.attempt
               => q.maxAttempts = jobs'[q.job].maxAttempts
    BY <1>2, <2>2, <2>3
  <2> QED BY <2>5, <2>7, <2>8 DEF RunsInv
<1>14. ResultInv'
  <2>1. \A k \in Jobs : \A n \in commits[k] : n <= Len(attempts'[k])
    BY <1>1, <1>2, <1>3, <1>9 DEF Inv, ResultInv, TypeOK
  <2> QED BY <1>2, <1>4, <1>8, <2>1 DEF Inv, ResultInv, Published, Fenced
<1>15. RetryInv' /\ SeenInv'
  BY <1>2, <1>4, <1>8 DEF Inv, RetryInv, SeenInv, SeenAreEnded, deleted, Active
<1> QED BY <1>10, <1>11, <1>12, <1>13, <1>14, <1>15 DEF Inv

-----------------------------------------------------------------------------
LEMMA RunStepInv ==
  ASSUME Inv, NEW r \in runs, RunStep(r) PROVE Inv'
BY CommitBodyInv, RunMovesInv, RunEndsInv, CompletesInv, DeferJobInv,
   RecordJobFailureInv, ReturnOnDrainInv DEF RunStep

LEMMA JobStepInv ==
  ASSUME Inv, NEW j \in Jobs, JobStep(j) PROVE Inv'
BY ElapseInv, BecomeDueInv, EnqueueInv, AuthorizeRetryInv, ApplyRetryInv, RecoverInv
   DEF JobStep

LEMMA WorkerStepInv ==
  ASSUME Inv, NEW w \in Executors, WorkerStep(w) PROVE Inv'
BY ClaimInv, WorkerStopsInv DEF WorkerStep

LEMMA NextInv == Inv /\ [Next]_vars => Inv'
<1> SUFFICES ASSUME Inv, [Next]_vars PROVE Inv'
  OBVIOUS
<1>1. CASE Next
  BY <1>1, JobStepInv, WorkerStepInv, RunStepInv, HeartbeatInv, DeleteRepositoryInv,
     DeletionLooksInv DEF Next
<1>2. CASE UNCHANGED vars
  BY <1>2, RunsOnly DEF vars, Inv, TypeOK, RetryInv, RunsInv
<1> QED BY <1>1, <1>2

THEOREM InvHolds == Spec => []Inv
BY InitInv, NextInv, PTL DEF Spec

-----------------------------------------------------------------------------
(* Theorems *)

\* Type correctness of the tables and of what the workers remember.
THEOREM TypeCorrect == Spec => []TypeOK
<1>1. Inv => TypeOK
  BY DEF Inv
<1> QED BY <1>1, InvHolds, PTL

\* A running job has exactly one open attempt, its last; any other has none.
THEOREM AttemptsAgree == Spec => []OneOpenAttempt
<1>1. Inv => OneOpenAttempt
  <2> SUFFICES ASSUME Inv, NEW j \in Jobs
               PROVE  /\ Len(attempts[j]) = jobs[j].attemptCount
                      /\ {n \in DOMAIN attempts[j] : attempts[j][n].outcome = "open"}
                           = IF jobs[j].state = "running" THEN {jobs[j].attemptCount}
                                                          ELSE {}
    BY DEF OneOpenAttempt
  <2>1. attempts[j] \in Seq(Attempt) /\ jobs[j] \in Job
    BY DEF Inv, TypeOK
  <2>2. /\ DOMAIN attempts[j] = 1..Len(attempts[j])
        /\ jobs[j].attemptCount \in Nat
        /\ Len(attempts[j]) = jobs[j].attemptCount
        /\ jobs[j].state = "running" => jobs[j].attemptCount > 0
    BY <2>1 DEF Job, Inv, AttemptsInv
  <2>3. \A n \in DOMAIN attempts[j] : attempts[j][n].outcome = "open" <=>
          jobs[j].state = "running" /\ n = jobs[j].attemptCount
    BY <2>2 DEF Inv, AttemptsInv
  <2>4. jobs[j].state = "running" => jobs[j].attemptCount \in DOMAIN attempts[j]
    BY <2>2
  <2> QED BY <2>2, <2>3, <2>4
<1> QED BY <1>1, InvHolds, PTL

\* No job is queued with its attempts used up.
THEOREM NoneStranded == Spec => []NoStrandedJob
<1>1. Inv => NoStrandedJob
  BY DEF Inv, BudgetInv, NoStrandedJob
<1> QED BY <1>1, InvHolds, PTL

\* Attempts stay within max_attempts, and max_attempts within what deferrals,
\* recoveries and history retries granted.
THEOREM BudgetKept == Spec => []AttemptBudget
<1>1. Inv => AttemptBudget
  BY DEF Inv, AttemptsInv, BudgetInv, AttemptBudget
<1> QED BY <1>1, InvHolds, PTL

\* Every analysis and every history collection commits at most once: an analysis
\* by the look for its report, a collection by the fence alone, since the run that
\* holds the lease is the only one of its attempt.
THEOREM CommitsOnce == Spec => []CommitOnce
<1>1. Inv => CommitOnce
  <2> SUFFICES ASSUME Inv, NEW j \in Jobs, Type[j] \in {"analysis.run", "history.collect"}
               PROVE  Cardinality(commits[j]) <= 1
    BY DEF CommitOnce
  <2>1. \A m, n \in commits[j] : m = n
    BY DEF Inv, ResultInv
  <2>2. CASE commits[j] = {}
    BY <2>2, FS_EmptySet
  <2>3. CASE commits[j] # {}
    <3>1. PICK n \in commits[j] : TRUE
      BY <2>3
    <3>2. commits[j] = {n}
      BY <2>1, <3>1
    <3>3. Cardinality({n}) = 1
      BY FS_Singleton
    <3> QED BY <3>2, <3>3
  <2> QED BY <2>2, <2>3
<1> QED BY <1>1, InvHolds, PTL

\* A completed job has its result, and an analysis with a report is never given
\* up, requeued by a failure or cancelled by the deletion of its repository.
THEOREM ResultsKept == Spec => [](CompletedIsDone /\ PublishedIsKept)
<1>1. Inv => CompletedIsDone /\ PublishedIsKept
  BY DEF Inv, ResultInv, CompletedIsDone, PublishedIsKept
<1> QED BY <1>1, InvHolds, PTL

\* A deletion ends the analysis, snapshot and publication jobs that it saw.
THEOREM DeletionEndsItsJobs == Spec => []SeenAreEnded
<1>1. Inv => SeenAreEnded
  BY DEF Inv, SeenInv
<1> QED BY <1>1, InvHolds, PTL

-----------------------------------------------------------------------------
(* Action properties *)

\* A result is committed by the last attempt of a running job, under its lease.
THEOREM HolderCommits == Spec => OnlyHolderCommits
<1> DEFINE P == \A j \in Jobs : commits'[j] # commits[j] =>
       /\ commits'[j] = commits[j] \cup {jobs[j].attemptCount}
       /\ jobs[j].state = "running" /\ jobs[j].lease > 0
       /\ attempts[j][jobs[j].attemptCount].outcome = "open"
<1>1. ASSUME Inv, NEW r \in runs, CommitBody(r) PROVE P
  <2>1. r.job \in Jobs /\ commits \in [Jobs -> SUBSET (Nat \ {0})]
    BY <1>1 DEF Inv, TypeOK, Run
  <2>2. commits' = [commits EXCEPT ![r.job] = commits[r.job] \cup {r.attempt}]
    BY <1>1 DEF CommitBody
  <2>3. /\ jobs[r.job].state = "running" /\ jobs[r.job].lease > 0
        /\ jobs[r.job].attemptCount = r.attempt
        /\ attempts[r.job][r.attempt].outcome = "open"
    BY <1>1 DEF CommitBody, LeaseHeld
  <2> QED BY <2>1, <2>2, <2>3
<1>2. Inv /\ [Next]_vars => [P]_vars
  <2> SUFFICES ASSUME Inv, [Next]_vars PROVE P \/ UNCHANGED vars
    OBVIOUS
  <2>1. ASSUME NEW r \in runs, RunStep(r) PROVE CommitBody(r) \/ UNCHANGED commits
    BY <2>1 DEF RunStep, Collect, SkipBody, FinishPublication, LookForReport, Throw, LoseLease, CompleteJob,
                CompleteOnFailure, DeferJob, RecordJobFailure, Abandon, ReturnOnDrain
  <2>2. ASSUME NEW j \in Jobs, JobStep(j) PROVE UNCHANGED commits
    BY <2>2 DEF JobStep, Elapse, BecomeDue, Enqueue, AuthorizeRetry, ApplyRetry, Recover
  <2>3. ASSUME NEW w \in Executors, WorkerStep(w) PROVE UNCHANGED commits
    BY <2>3 DEF WorkerStep, Claim, BeginDrain, Restart, Crash
  <2>4. UNCHANGED commits => P
    OBVIOUS
  <2> HIDE DEF P
  <2> QED BY <1>1, <2>1, <2>2, <2>3, <2>4
          DEF Next, Heartbeat, ListJobs, DeleteRepository, RollBackDeletion
<1> QED BY <1>2, InvHolds, PTL DEF Spec, OnlyHolderCommits

\* A step that writes the row of one job, and that job is neither completed nor,
\* unless it is a history collection, failed.
LEMMA RowEndings ==
  ASSUME TypeOK, NEW j \in Jobs, NEW row, jobs' = [jobs EXCEPT ![j] = row],
         jobs[j].state # "completed",
         jobs[j].state = "failed" => Type[j] = "history.collect",
         \A k \in Jobs : \A n \in DOMAIN attempts[k] :
           attempts[k][n].outcome # "open" => attempts'[k][n] = attempts[k][n]
  PROVE  Endings
<1>1. \A k \in Jobs : k # j => jobs'[k] = jobs[k]
  BY DEF TypeOK
<1> QED BY <1>1 DEF Endings

LEMMA SameEndings ==
  ASSUME UNCHANGED <<jobs, attempts>> PROVE Endings
BY DEF Endings

LEMMA AttemptEndings ==
  ASSUME Inv, NEW r \in runs, LeaseHeld(r), NEW outcome \in Outcomes,
         EndAttempt(r, outcome)
  PROVE  \A k \in Jobs : \A n \in DOMAIN attempts[k] :
           attempts[k][n].outcome # "open" => attempts'[k][n] = attempts[k][n]
<1>1. /\ TypeOK /\ r \in Run /\ r.job \in Jobs
      /\ r.attempt \in 1..Len(attempts[r.job])
      /\ DOMAIN attempts[r.job] = 1..Len(attempts[r.job])
      /\ attempts[r.job][r.attempt].outcome = "open"
  BY Holding DEF Inv, TypeOK, LeaseHeld
<1>2. /\ \A k \in Jobs : k # r.job => attempts'[k] = attempts[k]
      /\ \A n \in 1..Len(attempts[r.job]) : n # r.attempt =>
           attempts'[r.job][n] = attempts[r.job][n]
  BY <1>1, EndAttemptEffect
<1> QED BY <1>1, <1>2

LEMMA RunStepEndings ==
  ASSUME Inv, NEW r \in runs, RunStep(r) \/ Heartbeat(r) PROVE Endings
<1>1. TypeOK /\ r.job \in Jobs
  BY DEF Inv, TypeOK, Run
<1>2. CASE \/ CommitBody(r) \/ SkipBody(r) \/ FinishPublication(r) \/ LoseLease(r)
           \/ Abandon(r) \/ Collect(r) \/ LookForReport(r)
           \/ \E error \in Errors : Throw(r, error)
  BY <1>2, SameEndings
     DEF CommitBody, SkipBody, FinishPublication, LoseLease, Abandon, Collect,
         LookForReport, Throw
<1>3. ASSUME NEW outcome \in Outcomes, NEW row, LeaseHeld(r), EndAttempt(r, outcome),
             jobs' = [jobs EXCEPT ![r.job] = row]
      PROVE  Endings
  BY <1>1, <1>3, AttemptEndings, RowEndings DEF LeaseHeld
<1>4. CASE CompleteJob(r) \/ CompleteOnFailure(r)
  <2> DEFINE row == Released(jobs[r.job], "completed")
  <2>1. LeaseHeld(r) /\ EndAttempt(r, "completed")
        /\ jobs' = [jobs EXCEPT ![r.job] = row]
    BY <1>4 DEF CompleteJob, CompleteOnFailure
  <2> HIDE DEF row
  <2> QED BY <1>3, <2>1 DEF Outcomes
<1>5. CASE DeferJob(r)
  <2> DEFINE row == [Released(jobs[r.job], "queued") EXCEPT
                       !.due = FALSE,
                       !.deferCount = jobs[r.job].deferCount + 1,
                       !.maxAttempts = jobs[r.job].maxAttempts + 1]
  <2>1. LeaseHeld(r) /\ EndAttempt(r, "retry") /\ jobs' = [jobs EXCEPT ![r.job] = row]
    BY <1>5 DEF DeferJob
  <2> HIDE DEF row
  <2> QED BY <1>3, <2>1 DEF Outcomes
<1>6. CASE RecordJobFailure(r)
  <2> DEFINE outcome == IF Terminal(r) THEN "failed" ELSE "retry"
  <2> DEFINE row == [Released(jobs[r.job], IF Terminal(r) THEN "failed" ELSE "queued")
                       EXCEPT !.due = FALSE]
  <2>1. LeaseHeld(r) /\ EndAttempt(r, outcome) /\ jobs' = [jobs EXCEPT ![r.job] = row]
    BY <1>6 DEF RecordJobFailure
  <2>2. outcome \in Outcomes
    BY DEF Outcomes
  <2> HIDE DEF row, outcome
  <2> QED BY <1>3, <2>1, <2>2
<1>7. CASE ReturnOnDrain(r)
  <2>1. CASE UNCHANGED jobs
    BY <1>7, <2>1, SameEndings DEF ReturnOnDrain
  <2> DEFINE row == [jobs[r.job] EXCEPT !.lease = 0]
  <2>2. CASE jobs[r.job].state = "running" /\ jobs' = [jobs EXCEPT ![r.job] = row]
    <3> HIDE DEF row
    <3> QED BY <1>1, <1>7, <2>2, RowEndings DEF ReturnOnDrain
  <2> QED BY <1>7, <2>1, <2>2 DEF ReturnOnDrain
<1>8. CASE Heartbeat(r)
  <2> DEFINE row == [jobs[r.job] EXCEPT !.lease = LeaseTTL]
  <2>1. /\ jobs[r.job].state = "running" /\ jobs' = [jobs EXCEPT ![r.job] = row]
        /\ UNCHANGED attempts
    BY <1>8 DEF Heartbeat
  <2> HIDE DEF row
  <2> QED BY <1>1, <2>1, RowEndings
<1> QED BY <1>2, <1>4, <1>5, <1>6, <1>7, <1>8 DEF RunStep

LEMMA JobStepEndings ==
  ASSUME Inv, NEW j \in Jobs, JobStep(j) PROVE Endings
<1>1. TypeOK
  BY DEF Inv
<1>2. ASSUME NEW row, jobs' = [jobs EXCEPT ![j] = row], UNCHANGED attempts,
             jobs[j].state \in {"absent", "queued", "running"}
      PROVE  Endings
  BY <1>1, <1>2, RowEndings
<1>3. CASE Elapse(j)
  <2> DEFINE row == [jobs[j] EXCEPT !.lease = jobs[j].lease - 1]
  <2>1. jobs' = [jobs EXCEPT ![j] = row] /\ UNCHANGED attempts /\ jobs[j].state = "running"
    BY <1>3 DEF Elapse
  <2> HIDE DEF row
  <2> QED BY <1>2, <2>1
<1>4. CASE BecomeDue(j)
  <2> DEFINE row == [jobs[j] EXCEPT !.due = TRUE]
  <2>1. jobs' = [jobs EXCEPT ![j] = row] /\ UNCHANGED attempts /\ jobs[j].state = "queued"
    BY <1>4 DEF BecomeDue
  <2> HIDE DEF row
  <2> QED BY <1>2, <2>1
<1>5. CASE Enqueue(j)
  <2> DEFINE row == [jobs[j] EXCEPT !.state = "queued", !.due = TRUE]
  <2>1. jobs' = [jobs EXCEPT ![j] = row] /\ UNCHANGED attempts /\ jobs[j].state = "absent"
    BY <1>5 DEF Enqueue
  <2> HIDE DEF row
  <2> QED BY <1>2, <2>1
<1>6. CASE AuthorizeRetry(j)
  BY <1>6, SameEndings DEF AuthorizeRetry
<1>7. CASE ApplyRetry(j)
  <2>1. CASE UNCHANGED jobs
    BY <1>7, <2>1, SameEndings DEF ApplyRetry
  <2> DEFINE row == [jobs[j] EXCEPT !.state = "queued", !.due = TRUE, !.recoveryCount = 0,
                                    !.maxAttempts = jobs[j].attemptCount + RetryGrant]
  <2>2. CASE jobs' = [jobs EXCEPT ![j] = row] /\ jobs[j].state = "failed"
    <3> HIDE DEF row
    <3>1. Type[j] = "history.collect" /\ UNCHANGED attempts
      BY <1>7 DEF ApplyRetry, Inv, RetryInv
    <3> QED BY <1>1, <2>2, <3>1, RowEndings
  <2> QED BY <1>7, <2>1, <2>2 DEF ApplyRetry
<1>8. CASE Recover(j)
  <2> DEFINE row == [Released(jobs[j], RecoveredState(j)) EXCEPT
                       !.due = TRUE, !.recoveryCount = RecoveredCount(j),
                       !.maxAttempts = RecoveredMaxAttempts(j)]
  <2> DEFINE outcome == IF RecoveredState(j) = "completed" THEN "completed"
                                                           ELSE "interrupted"
  <2>1. jobs' = [jobs EXCEPT ![j] = row] /\ jobs[j].state = "running"
        /\ EndOpenAttempts(j, outcome)
    BY <1>8 DEF Recover
  <2>2. outcome \in Outcomes
    BY DEF Outcomes
  <2> HIDE DEF row, outcome
  <2>3. /\ \A k \in Jobs : k # j => attempts'[k] = attempts[k]
        /\ \A n \in 1..Len(attempts[j]) : attempts[j][n].outcome # "open" =>
             attempts'[j][n] = attempts[j][n]
    BY <1>1, <2>1, <2>2, EndOpenAttemptsEffect
  <2>4. DOMAIN attempts[j] = 1..Len(attempts[j])
    BY <1>1 DEF TypeOK
  <2> QED BY <1>1, <2>1, <2>3, <2>4, RowEndings
<1> QED BY <1>3, <1>4, <1>5, <1>6, <1>7, <1>8 DEF JobStep

LEMMA ClaimEndings ==
  ASSUME Inv, NEW w \in Executors, NEW j \in Jobs, Claim(w, j) PROVE Endings
<1> DEFINE row == [jobs[j] EXCEPT !.state = "running", !.owner = w, !.lease = LeaseTTL,
                                  !.attemptCount = jobs[j].attemptCount + 1]
<1> DEFINE opened == [executor |-> w, outcome |-> "open"]
<1>1. /\ jobs' = [jobs EXCEPT ![j] = row] /\ jobs[j].state = "queued"
      /\ attempts' = [attempts EXCEPT ![j] = Append(attempts[j], opened)]
  BY DEF Claim
<1>2. TypeOK /\ attempts \in [Jobs -> Seq(Attempt)]
  BY DEF Inv, TypeOK
<1> HIDE DEF row, opened
<1>3. \A k \in Jobs : \A n \in DOMAIN attempts[k] : attempts'[k][n] = attempts[k][n]
  BY <1>1, <1>2
<1> QED BY <1>1, <1>2, <1>3, RowEndings

LEMMA DeleteEndings ==
  ASSUME Inv, DeleteRepository PROVE Endings
<1>1. \A j \in Jobs : jobs[j].state # "queued" => jobs'[j] = jobs[j]
  BY DEF DeleteRepository
<1>2. UNCHANGED attempts
  BY DEF DeleteRepository
<1> QED BY <1>1, <1>2 DEF Endings

\* The end of an attempt and the end of a job are written once.
THEOREM EndingsKept == Spec => EndingsAreFinal
<1>1. Inv /\ [Next]_vars => [Endings]_vars
  <2> SUFFICES ASSUME Inv, [Next]_vars PROVE Endings \/ UNCHANGED vars
    OBVIOUS
  <2>1. ASSUME NEW w \in Executors, WorkerStep(w) PROVE Endings
    BY <2>1, ClaimEndings, SameEndings DEF WorkerStep, BeginDrain, Restart, Crash
  <2>2. ListJobs \/ RollBackDeletion => Endings
    BY SameEndings DEF ListJobs, RollBackDeletion
  <2> QED BY <2>1, <2>2, RunStepEndings, JobStepEndings, DeleteEndings DEF Next
<1> QED BY <1>1, InvHolds, PTL DEF Spec, EndingsAreFinal, Endings

-----------------------------------------------------------------------------
(* Refinement *)

\* The row of one job moves between states; its attempt number stays.
LEMMA MovesPhase ==
  ASSUME TypeOK, NEW j \in Jobs, NEW row, jobs' = [jobs EXCEPT ![j] = row],
         row.attemptCount = jobs[j].attemptCount, UNCHANGED commits
  PROVE  Lease!Move(j, jobs[j].state, row.state) /\ UNCHANGED tokens
<1>1. /\ jobs'[j] = row
      /\ \A k \in Jobs : k # j => jobs'[k] = jobs[k]
  BY DEF TypeOK
<1>2. phases' = [phases EXCEPT ![j] = row.state]
  <2> DEFINE state == row.state
  <2>1. \A k \in Jobs : jobs'[k].state = IF k = j THEN state ELSE jobs[k].state
    BY <1>1
  <2> HIDE DEF state
  <2>2. phases' = [phases EXCEPT ![j] = state]
    BY <2>1 DEF phases
  <2> QED BY <2>2 DEF state
<1>3. UNCHANGED tokens
  BY <1>1 DEF tokens
<1> QED BY <1>2, <1>3 DEF Lease!Move, phases

\* Nothing the abstraction sees has changed.
LEMMA Stutters ==
  ASSUME \A j \in Jobs : /\ jobs'[j].state = jobs[j].state
                         /\ jobs'[j].attemptCount = jobs[j].attemptCount,
         UNCHANGED commits
  PROVE  UNCHANGED Lease!leaseVars
BY DEF Lease!leaseVars, phases, tokens

LEMMA RowStutters ==
  ASSUME jobs \in [Jobs -> Job], NEW j \in Jobs, NEW row,
         jobs' = [jobs EXCEPT ![j] = row], UNCHANGED commits,
         row.state = jobs[j].state, row.attemptCount = jobs[j].attemptCount
  PROVE  UNCHANGED Lease!leaseVars
<1>1. jobs'[j] = row /\ \A k \in Jobs : k # j => jobs'[k] = jobs[k]
  OBVIOUS
<1>2. \A k \in Jobs : /\ jobs'[k].state = jobs[k].state
                      /\ jobs'[k].attemptCount = jobs[k].attemptCount
  BY <1>1
<1> QED BY <1>2, Stutters

LEMMA InitRefines == Init => Lease!Init
BY DEF Init, Lease!Init, phases, tokens

LEMMA CommitRefines ==
  ASSUME Inv, NEW r \in runs, CommitBody(r) PROVE Lease!Next
<1>1. /\ r.job \in Jobs /\ jobs[r.job].state = "running"
      /\ jobs[r.job].attemptCount = r.attempt
  BY Holding DEF CommitBody
<1>2. /\ Fenced(r.job)
      /\ Type[r.job] \in {"analysis.run", "history.collect"} => commits[r.job] = {}
      /\ UNCHANGED jobs
      /\ commits' = [commits EXCEPT ![r.job] = commits[r.job] \cup {r.attempt}]
  BY Holding DEF CommitBody, Published
<1>3. tokens[r.job] = r.attempt /\ phases[r.job] = "running" /\ UNCHANGED <<phases, tokens>>
  BY <1>1, <1>2 DEF phases, tokens
<1>4. r.job \in JobsOfTypes({"analysis.run", "history.collect"}) => commits[r.job] = {}
  BY <1>2 DEF JobsOfTypes
<1>5. Lease!Commit(r.job)
  BY <1>1, <1>2, <1>3, <1>4 DEF Lease!Commit
<1> QED BY <1>1, <1>5 DEF Lease!Next

LEMMA ClaimRefines ==
  ASSUME Inv, NEW w \in Executors, NEW j \in Jobs, Claim(w, j) PROVE Lease!Next
<1> DEFINE row == [jobs[j] EXCEPT !.state = "running", !.owner = w, !.lease = LeaseTTL,
                                  !.attemptCount = jobs[j].attemptCount + 1]
<1>1. jobs \in [Jobs -> Job] /\ jobs[j] \in Job /\ jobs[j].state = "queued"
  BY DEF Inv, TypeOK, Claim
<1>2. jobs' = [jobs EXCEPT ![j] = row] /\ UNCHANGED commits
  BY DEF Claim
<1>3. row.state = "running" /\ row.attemptCount = jobs[j].attemptCount + 1
  BY <1>1 DEF Job
<1> HIDE DEF row
<1>4. jobs'[j] = row /\ \A k \in Jobs : k # j => jobs'[k] = jobs[k]
  BY <1>1, <1>2
<1>5. phases' = [phases EXCEPT ![j] = "running"] /\ phases[j] = "queued"
  BY <1>1, <1>3, <1>4 DEF phases
<1>6. tokens' = [tokens EXCEPT ![j] = tokens[j] + 1]
  BY <1>3, <1>4 DEF tokens
<1>7. Lease!Grant(j)
  BY <1>2, <1>5, <1>6 DEF Lease!Grant, Lease!Move
<1> QED BY <1>7 DEF Lease!Next

\* A running job is released into a state its result allows.
LEMMA ReleaseRefines ==
  ASSUME Inv, NEW j \in Jobs, NEW state \in {"queued", "completed", "failed"},
         NEW row, jobs' = [jobs EXCEPT ![j] = row], row.state = state,
         row.attemptCount = jobs[j].attemptCount, UNCHANGED commits,
         jobs[j].state = "running",
         state = "completed" /\ Fenced(j) => commits[j] # {},
         Published(j) => state = "completed"
  PROVE  Lease!Next
<1>1. TypeOK
  BY DEF Inv
<1>2. Lease!Move(j, "running", state) /\ UNCHANGED tokens
  BY <1>1, MovesPhase
<1>3. CASE state = "completed"
  <2>1. Lease!Complete(j)
    BY <1>2, <1>3 DEF Lease!Complete
  <2> QED BY <2>1 DEF Lease!Next
<1>4. CASE state # "completed"
  <2>1. j \in JobsOfTypes({"analysis.run"}) => commits[j] = {}
    BY <1>4 DEF JobsOfTypes, Published
  <2>2. Lease!Release(j)
    BY <1>2, <1>4, <2>1 DEF Lease!Release
  <2> QED BY <2>2 DEF Lease!Next
<1> QED BY <1>3, <1>4

LEMMA RunStepRefines ==
  ASSUME Inv, NEW r \in runs, RunStep(r)
  PROVE  Lease!Next \/ UNCHANGED Lease!leaseVars
<1>1. r.job \in Jobs /\ jobs \in [Jobs -> Job] /\ jobs[r.job] \in Job
  BY DEF Inv, TypeOK, Run
<1>2. CASE CommitBody(r)
  BY <1>2, CommitRefines
<1>3. CASE \/ Collect(r) \/ SkipBody(r) \/ FinishPublication(r) \/ LookForReport(r)
           \/ LoseLease(r) \/ Abandon(r) \/ \E error \in Errors : Throw(r, error)
  BY <1>3, Stutters
     DEF Collect, SkipBody, FinishPublication, LookForReport, LoseLease, Abandon, Throw
<1>4. CASE CompleteJob(r) \/ CompleteOnFailure(r)
  <2> DEFINE row == Released(jobs[r.job], "completed")
  <2>1. LeaseHeld(r) /\ UNCHANGED commits /\ jobs' = [jobs EXCEPT ![r.job] = row]
    BY <1>4 DEF CompleteJob, CompleteOnFailure
  <2>2. Fenced(r.job) => commits[r.job] # {}
    BY <1>4 DEF CompleteJob, CompleteOnFailure, Published, Inv, RunsInv, RunKnows
  <2>3. row.state = "completed" /\ row.attemptCount = jobs[r.job].attemptCount
    BY <1>1, ReleasedType DEF States
  <2> HIDE DEF row
  <2> QED BY <1>1, <2>1, <2>2, <2>3, ReleaseRefines DEF LeaseHeld
<1>5. CASE DeferJob(r)
  <2> DEFINE free == Released(jobs[r.job], "queued")
  <2> DEFINE row == [free EXCEPT !.due = FALSE,
                                 !.deferCount = jobs[r.job].deferCount + 1,
                                 !.maxAttempts = jobs[r.job].maxAttempts + 1]
  <2>1. LeaseHeld(r) /\ ~Published(r.job) /\ UNCHANGED commits
        /\ jobs' = [jobs EXCEPT ![r.job] = row]
    BY <1>5, Holding DEF DeferJob
  <2>2. /\ free \in Job /\ free.state = "queued"
        /\ free.attemptCount = jobs[r.job].attemptCount
    BY <1>1, ReleasedType DEF States
  <2> HIDE DEF free
  <2>3. row.state = "queued" /\ row.attemptCount = jobs[r.job].attemptCount
    BY <2>2 DEF Job
  <2> HIDE DEF row
  <2> QED BY <1>1, <2>1, <2>3, ReleaseRefines DEF LeaseHeld
<1>6. CASE RecordJobFailure(r)
  <2> DEFINE state == IF Terminal(r) THEN "failed" ELSE "queued"
  <2> DEFINE free == Released(jobs[r.job], state)
  <2> DEFINE row == [free EXCEPT !.due = FALSE]
  <2>1. LeaseHeld(r) /\ ~Published(r.job) /\ UNCHANGED commits
        /\ jobs' = [jobs EXCEPT ![r.job] = row]
    BY <1>6, Holding DEF RecordJobFailure
  <2>2. /\ free \in Job /\ free.state = state
        /\ free.attemptCount = jobs[r.job].attemptCount
        /\ state \in {"queued", "failed"}
    BY <1>1, ReleasedType DEF States
  <2> HIDE DEF free, state
  <2>3. row.state = state /\ row.attemptCount = jobs[r.job].attemptCount
    BY <2>2 DEF Job
  <2> HIDE DEF row
  <2> QED BY <1>1, <2>1, <2>2, <2>3, ReleaseRefines DEF LeaseHeld
<1>7. CASE ReturnOnDrain(r)
  <2>1. CASE UNCHANGED jobs
    BY <1>7, <2>1, Stutters DEF ReturnOnDrain
  <2>2. CASE jobs' = [jobs EXCEPT ![r.job].lease = 0]
    BY <1>1, <1>7, <2>2, Stutters DEF ReturnOnDrain, Job
  <2> QED BY <1>7, <2>1, <2>2 DEF ReturnOnDrain
<1> QED BY <1>2, <1>3, <1>4, <1>5, <1>6, <1>7 DEF RunStep

LEMMA RecoverRefines ==
  ASSUME Inv, NEW j \in Jobs, Recover(j) PROVE Lease!Next
<1> DEFINE state == RecoveredState(j)
<1> DEFINE free == Released(jobs[j], state)
<1> DEFINE row == [free EXCEPT !.due = TRUE, !.recoveryCount = RecoveredCount(j),
                               !.maxAttempts = RecoveredMaxAttempts(j)]
<1>1. jobs[j] \in Job /\ jobs[j].state = "running" /\ UNCHANGED commits
      /\ jobs' = [jobs EXCEPT ![j] = row]
  BY DEF Inv, TypeOK, Recover
<1>2. /\ state \in {"queued", "completed", "failed"}
      /\ state = "completed" <=> Published(j)
  BY DEF RecoveredState
<1> HIDE DEF state
<1>3. /\ free \in Job /\ free.state = state
      /\ free.attemptCount = jobs[j].attemptCount
  BY <1>1, <1>2, ReleasedType DEF States
<1> HIDE DEF free
<1>4. row.state = state /\ row.attemptCount = jobs[j].attemptCount
  BY <1>3 DEF Job
<1> HIDE DEF row
<1> QED BY <1>1, <1>2, <1>4, ReleaseRefines DEF Published

LEMMA JobStepRefines ==
  ASSUME Inv, NEW j \in Jobs, JobStep(j)
  PROVE  Lease!Next \/ UNCHANGED Lease!leaseVars
<1>1. jobs \in [Jobs -> Job] /\ jobs[j] \in Job
  BY DEF Inv, TypeOK
<1>2. CASE Elapse(j) \/ BecomeDue(j)
  <2>1. ASSUME NEW row, jobs' = [jobs EXCEPT ![j] = row], UNCHANGED commits,
               row.state = jobs[j].state, row.attemptCount = jobs[j].attemptCount
        PROVE  UNCHANGED Lease!leaseVars
    BY <1>1, <2>1, RowStutters
  <2> DEFINE ticked == [jobs[j] EXCEPT !.lease = jobs[j].lease - 1]
  <2> DEFINE ready == [jobs[j] EXCEPT !.due = TRUE]
  <2>2. /\ ticked.state = jobs[j].state /\ ticked.attemptCount = jobs[j].attemptCount
        /\ ready.state = jobs[j].state /\ ready.attemptCount = jobs[j].attemptCount
    BY <1>1 DEF Job
  <2>3. /\ UNCHANGED commits
        /\ jobs' = [jobs EXCEPT ![j] = ticked] \/ jobs' = [jobs EXCEPT ![j] = ready]
    BY <1>2 DEF Elapse, BecomeDue
  <2> HIDE DEF ticked, ready
  <2> QED BY <2>1, <2>2, <2>3
<1>3. CASE Enqueue(j)
  <2> DEFINE row == [jobs[j] EXCEPT !.state = "queued", !.due = TRUE]
  <2>1. TypeOK /\ jobs' = [jobs EXCEPT ![j] = row] /\ UNCHANGED commits
        /\ jobs[j].state = "absent"
    BY <1>3 DEF Enqueue, Inv
  <2>2. row.state = "queued" /\ row.attemptCount = jobs[j].attemptCount
    BY <1>1 DEF Job
  <2> HIDE DEF row
  <2>3. Lease!Submit(j)
    BY <2>1, <2>2, MovesPhase DEF Lease!Submit
  <2> QED BY <2>3 DEF Lease!Next
<1>4. CASE AuthorizeRetry(j)
  BY <1>4, Stutters DEF AuthorizeRetry
<1>5. CASE ApplyRetry(j)
  <2>1. CASE UNCHANGED jobs
    BY <1>5, <2>1, Stutters DEF ApplyRetry
  <2> DEFINE row == [jobs[j] EXCEPT !.state = "queued", !.due = TRUE, !.recoveryCount = 0,
                                    !.maxAttempts = jobs[j].attemptCount + RetryGrant]
  <2>2. CASE /\ jobs' = [jobs EXCEPT ![j] = row]
             /\ jobs[j].state = "failed" /\ commits[j] = {}
    <3>1. TypeOK /\ UNCHANGED commits
      BY <1>5 DEF ApplyRetry, Inv
    <3>2. row.state = "queued" /\ row.attemptCount = jobs[j].attemptCount
      BY <1>1 DEF Job
    <3>3. j \in JobsOfTypes({"history.collect"})
      BY <1>5 DEF ApplyRetry, Inv, RetryInv, JobsOfTypes
    <3> HIDE DEF row
    <3>4. Lease!Reopen(j)
      BY <2>2, <3>1, <3>2, <3>3, MovesPhase DEF Lease!Reopen
    <3> QED BY <3>4 DEF Lease!Next
  <2> QED BY <1>5, <2>1, <2>2 DEF ApplyRetry
<1>6. CASE Recover(j)
  BY <1>6, RecoverRefines
<1> QED BY <1>2, <1>3, <1>4, <1>5, <1>6 DEF JobStep

LEMMA DeleteRefines ==
  ASSUME Inv, DeleteRepository PROVE Lease!Next
<1> DEFINE ended == {j \in deletion.seen : jobs[j].state = "queued"}
<1>1. /\ \A j \in Jobs : jobs[j] \in Job
      /\ ended \in SUBSET Jobs /\ \A j \in ended : jobs[j].state = "queued"
  BY DEF Inv, TypeOK, Deletion
<1>2. \A j \in Jobs : /\ [jobs[j] EXCEPT !.state = "failed"].state = "failed"
                      /\ [jobs[j] EXCEPT !.state = "failed"].attemptCount
                           = jobs[j].attemptCount
  BY <1>1 DEF Job
<1>3. \A j \in Jobs :
        /\ jobs'[j].state = IF j \in ended THEN "failed" ELSE jobs[j].state
        /\ jobs'[j].attemptCount = jobs[j].attemptCount
  BY <1>2 DEF DeleteRepository
<1> HIDE DEF ended
<1>4. /\ phases' = [j \in Jobs |-> IF j \in ended THEN "failed" ELSE phases[j]]
      /\ UNCHANGED <<tokens, commits>>
      /\ \A j \in ended : phases[j] = "queued"
  BY <1>1, <1>3 DEF phases, tokens, DeleteRepository
<1>5. Lease!Cancel(ended)
  BY <1>4 DEF Lease!Cancel
<1> QED BY <1>1, <1>5 DEF Lease!Next

\* The queue of tables, workers and recoveries implements the lease contract.
THEOREM Implements == Spec => ImplementsJobLease
<1>1. Inv /\ [Next]_vars => [Lease!Next]_(Lease!leaseVars)
  <2> SUFFICES ASSUME Inv, [Next]_vars
               PROVE  Lease!Next \/ UNCHANGED Lease!leaseVars
    OBVIOUS
  <2>1. ASSUME NEW r \in runs, Heartbeat(r) PROVE UNCHANGED Lease!leaseVars
    <3>1. jobs \in [Jobs -> Job] /\ r.job \in Jobs /\ jobs[r.job] \in Job
      BY DEF Inv, TypeOK, Run
    <3> DEFINE row == [jobs[r.job] EXCEPT !.lease = LeaseTTL]
    <3>2. row.state = jobs[r.job].state /\ row.attemptCount = jobs[r.job].attemptCount
      BY <3>1 DEF Job
    <3>3. jobs' = [jobs EXCEPT ![r.job] = row]
      BY <2>1 DEF Heartbeat
    <3> HIDE DEF row
    <3> QED BY <2>1, <3>1, <3>2, <3>3, RowStutters DEF Heartbeat
  <2>2. ASSUME NEW w \in Executors, WorkerStep(w)
        PROVE  Lease!Next \/ UNCHANGED Lease!leaseVars
    BY <2>2, ClaimRefines, Stutters DEF WorkerStep, BeginDrain, Restart, Crash
  <2>3. CASE UNCHANGED vars
    BY <2>3, Stutters DEF vars
  <2>4. ListJobs \/ RollBackDeletion => UNCHANGED Lease!leaseVars
    BY Stutters DEF ListJobs, RollBackDeletion
  <2> QED BY <2>1, <2>2, <2>3, <2>4, RunStepRefines, JobStepRefines, DeleteRefines DEF Next
<1> QED BY <1>1, InitRefines, InvHolds, PTL DEF Spec, ImplementsJobLease, Lease!Spec

=============================================================================

----------------------- MODULE ReviewPublicationProofs -----------------------
(***************************************************************************)
(* Proofs about ReviewPublication for every set of analyses, every         *)
(* assignment of heads and every value of the bounds.  All of them follow  *)
(* from one inductive invariant, Inv: who is in its critical section holds *)
(* the lock, and what a run there remembers still agrees with the row and  *)
(* the comments.                                                           *)
(***************************************************************************)
EXTENDS ReviewPublication, FiniteSetTheorems, WellFoundedInduction, TLAPS

\* From the check of the stored publication to the recording of the result.
Publishing == {"marking", "searching", "heading", "checking", "writing", "recording"}

\* Between the search and the write.
Deciding == {"heading", "checking", "writing"}

\* Runs are told apart by their claims, and one in its critical section holds
\* the lock.
LockInv ==
  /\ \A q, r \in runs : q.claim = r.claim => q = r
  /\ \A r \in runs : r.claim <= claims
  /\ \A r \in runs : r.pc \in Critical => lock = r.claim

\* The analysis of a job has been the target.
JobInv == \A a \in Analyses : jobs[a].state # "none" => a <= row.target

\* What a run may rely on: it publishes something newer than what the row
\* records, it knows the comment that is there, and what it is about to write
\* or record is not older than what is shown.
RunInv(r) ==
  /\ r.analysis <= row.target
  /\ r.pc \in Publishing => row.published < r.analysis
  /\ r.pc \in Deciding /\ r.comment = None /\ ~strayed => Live = {}
  /\ r.pc = "writing" /\ ~strayed =>
       \A c \in DOMAIN comments : comments[c] <= r.analysis
  /\ r.pc = "recording" =>
       /\ r.comment \in DOMAIN comments
       /\ strayed \/ comments[r.comment] \in {r.analysis, None}

\* The comments: at most one is there, and none is newer than the target.
CommentInv ==
  /\ Len(comments) <= MaxComments
  /\ ~strayed => \A c, d \in Live : c = d
  /\ \A c \in DOMAIN comments : comments[c] <= row.target

\* A published row is what its comment shows.
RowInv ==
  row.state = "published" =>
    /\ row.published = row.target
    /\ row.comment \in DOMAIN comments
    /\ strayed \/ comments[row.comment] \in {row.published, None}

Inv ==
  /\ TypeOK
  /\ LockInv
  /\ JobInv
  /\ \A r \in runs : RunInv(r)
  /\ CommentInv
  /\ RowInv

-----------------------------------------------------------------------------
(* Operators *)

\* Analyses and what stands for none are numbers.
LEMMA AnalysisType ==
  /\ \A a \in Analyses : a \in Nat /\ a # None /\ a \in Analysis
  /\ \A a \in Analysis : a \in Nat
  /\ None \in Analysis
BY AnalysisAssumption DEF Analysis, None

\* Natural numbers have a least member.
LEMMA LeastNatural ==
  ASSUME NEW S \in SUBSET Nat, S # {}
  PROVE  \E n \in S : \A m \in S : n <= m
<1> DEFINE R == {p \in Nat \X Nat : p[1] < p[2]}
<1>1. IsWellFoundedOn(R, Nat)
  BY NatLessThanWellFounded DEF OpToRel
<1>2. PICK n \in S : \A m \in S : <<m, n>> \notin R
  BY <1>1, WFMin
<1>3. \A m \in S : ~(m < n)
  BY <1>2
<1> QED BY <1>3

\* The search returns a comment that is there, and none only if there is none.
LEMMA ManagedIsLive ==
  ASSUME TypeOK
  PROVE  IF Live = {} THEN Managed = None ELSE Managed \in Live
<1>1. Live \in SUBSET Nat
  BY DEF TypeOK, Live
<1>2. CASE Live # {}
  <2>1. \E c \in Live : \A d \in Live : c <= d
    BY <1>1, <1>2, LeastNatural
  <2> QED BY <1>2, <2>1 DEF Managed
<1> QED BY <1>2 DEF Managed

\* Moving a run changes its pc only.
LEMMA Moved ==
  ASSUME NEW r \in Run, NEW pc \in Pcs
  PROVE  /\ [r EXCEPT !.pc = pc] \in Run
         /\ [r EXCEPT !.pc = pc].pc = pc
         /\ [r EXCEPT !.pc = pc].analysis = r.analysis
         /\ [r EXCEPT !.pc = pc].claim = r.claim
         /\ [r EXCEPT !.pc = pc].comment = r.comment
BY DEF Run

\* Marking the row of a target changes its state only.
LEMMA MarkTargetEffect ==
  ASSUME TypeOK, NEW a \in Analyses, NEW state \in RowStates, MarkTarget(a, state)
  PROVE  /\ row' \in Row
         /\ row'.target = row.target
         /\ row'.published = row.published
         /\ row'.comment = row.comment
         /\ row' = row \/ row'.state = state
         /\ row.target = a => row'.state = state
BY DEF TypeOK, MarkTarget, Row

\* Enqueueing makes the analysis the target unless a newer one is, and never
\* publishes.
LEMMA EnqueueEffect ==
  ASSUME TypeOK, JobInv, NEW a \in Analyses, EnqueuePublication(a)
  PROVE  /\ row' \in Row /\ jobs' \in [Analyses -> Job]
         /\ row.target <= row'.target
         /\ row'.published = row.published
         /\ row' = row \/ row'.state = "pending"
         /\ JobInv'
<1>1. row \in Row /\ jobs \in [Analyses -> Job] /\ jobs[a] \in Job
  BY DEF TypeOK
<1>2. row.target \in Nat /\ a \in Nat /\ a \in Analysis /\ \A b \in Analyses : b \in Nat
  BY <1>1, AnalysisType DEF Row
<1>3. /\ row' \in Row /\ row'.published = row.published
      /\ row' = row \/ row'.state = "pending"
      /\ row.target <= row'.target /\ a <= row'.target
  <2>1. CASE Supersedes(a)
    <3>1. row' = [row EXCEPT !.target = a, !.state = "pending"]
      BY <2>1 DEF EnqueuePublication
    <3>2. row' \in Row /\ row'.published = row.published
          /\ row'.state = "pending" /\ row'.target = a
      BY <1>1, <1>2, <3>1 DEF Row, RowStates
    <3> QED BY <1>2, <2>1, <3>2 DEF Supersedes
  <2>2. CASE ~Supersedes(a)
    BY <1>1, <1>2, <2>2 DEF EnqueuePublication, Supersedes
  <2> QED BY <2>1, <2>2
<1>4. /\ jobs' \in [Analyses -> Job]
      /\ \A b \in Analyses : b # a => jobs'[b] = jobs[b]
  <2>1. 0 \in 0..RecoveryLimit
    BY BoundAssumption
  <2>2. [jobs[a] EXCEPT !.state = "queued", !.recoveries = 0] \in Job
    BY <1>1, <2>1 DEF Job, JobStates
  <2> QED BY <1>1, <2>2 DEF EnqueuePublication
<1>5. row'.target \in Nat
  BY <1>3, AnalysisType DEF Row
<1>6. JobInv'
  BY <1>2, <1>3, <1>4, <1>5 DEF JobInv
<1> QED BY <1>3, <1>4, <1>6

-----------------------------------------------------------------------------
(* The invariant holds initially *)

LEMMA InitInv == Init => Inv
<1> SUFFICES ASSUME Init PROVE Inv
  OBVIOUS
<1>1. row \in Row /\ row.state = "absent" /\ row.target = None
  BY BoundAssumption, AnalysisType DEF Init, Row, RowStates, CommentId, None
<1>2. jobs \in [Analyses -> Job]
  BY BoundAssumption DEF Init, Job, JobStates
<1>3. comments \in Seq(Analysis) /\ Len(comments) = 0 /\ DOMAIN comments = {}
  BY DEF Init
<1>4. TypeOK
  <2>1. claims \in 0..MaxClaims /\ events \in 0..MaxEvents
    BY BoundAssumption DEF Init
  <2> QED BY <1>1, <1>2, <1>3, <2>1, HeadAssumption DEF Init, TypeOK
<1>5. LockInv /\ JobInv /\ \A r \in runs : RunInv(r)
  BY DEF Init, LockInv, JobInv
<1>6. CommentInv /\ RowInv
  BY <1>1, <1>3, BoundAssumption DEF CommentInv, RowInv, Live
<1> QED BY <1>4, <1>5, <1>6 DEF Inv

-----------------------------------------------------------------------------
(* Runs *)

\* A run that moves, or ends, and takes or gives back its lock.
Moves(r, m) ==
  /\ m.claim = r.claim /\ m.analysis = r.analysis
  /\ \/ runs' = (runs \ {r}) \cup {m}
     \/ runs' = runs \ {r} /\ m.pc \notin Critical
  /\ claims' = claims
  /\ \/ /\ m.pc \in Critical
        /\ \/ r.pc \in Critical /\ lock' = lock
           \/ lock = NoRun /\ lock' = r.claim
     \/ m.pc \notin Critical /\ lock' = Unlocked(r)
     \/ m.pc \notin Critical /\ r.pc \notin Critical /\ lock' = lock

\* The run that holds the lock is alone in the critical section.
LEMMA Alone ==
  ASSUME TypeOK, LockInv, NEW r \in runs, NEW q \in runs, q # r,
         r.pc \in Critical \/ lock = NoRun
  PROVE  q.pc \notin Critical
<1>1. q \in Run /\ q.claim # NoRun
  BY DEF TypeOK, Run, NoRun
<1> QED BY <1>1 DEF LockInv

\* A move keeps the lock in order.
LEMMA MovesKeepLock ==
  ASSUME TypeOK, LockInv, NEW r \in runs, NEW m \in Run, Moves(r, m)
  PROVE  /\ runs' \subseteq Run
         /\ lock' \in {NoRun} \cup {q.claim : q \in {p \in runs' : p.pc \in Critical}}
         /\ LockInv'
<1>1. r \in Run /\ runs \subseteq Run /\ claims \in Nat
  BY BoundAssumption DEF TypeOK
<1>2. \A q \in runs : q.claim \in Nat /\ q.claim # NoRun
  BY <1>1 DEF Run, NoRun
<1>3. \A q \in runs' : q = m \/ (q \in runs /\ q # r)
  BY DEF Moves
<1>4. \A q \in runs : q # r => q \in runs' /\ q.claim # r.claim
  BY DEF LockInv, Moves
<1>5. m.claim = r.claim
  BY DEF Moves
<1>6. lock = NoRun \/ \E q \in runs : q.pc \in Critical /\ q.claim = lock
  BY DEF TypeOK
<1>7. ASSUME NEW q \in runs', q.pc \in Critical PROVE lock' = q.claim
  <2>1. CASE q = m
    BY <1>5, <1>7, <2>1 DEF Moves, LockInv
  <2>2. CASE q # m
    <3>1. q \in runs /\ q # r /\ q.claim # r.claim /\ lock = q.claim /\ q.claim # NoRun
      BY <1>2, <1>3, <1>4, <1>7, <2>2 DEF LockInv
    <3>2. r.pc \notin Critical
      BY <3>1, Alone, <1>7
    <3> QED BY <3>1, <3>2 DEF Moves, Unlocked
  <2> QED BY <2>1, <2>2
<1>8. LockInv'
  <2>1. \A p, q \in runs' : p.claim = q.claim => p = q
    BY <1>3, <1>4, <1>5 DEF LockInv
  <2>2. \A q \in runs' : q.claim <= claims'
    BY <1>3, <1>5 DEF LockInv, Moves
  <2> QED BY <1>7, <2>1, <2>2 DEF LockInv
<1>9. lock' = NoRun \/ \E q \in runs' : q.pc \in Critical /\ q.claim = lock'
  <2>1. CASE m.pc \in Critical
    <3>1. m \in runs'
      BY <2>1 DEF Moves
    <3> QED BY <1>7, <2>1, <3>1
  <2>2. CASE m.pc \notin Critical /\ lock' # NoRun
    <3>1. lock' = lock
      BY <2>2 DEF Moves, Unlocked
    <3>2. PICK q \in runs : q.pc \in Critical /\ q.claim = lock
      BY <1>6, <2>2, <3>1
    <3>3. q # r
      BY <2>2, <3>1, <3>2 DEF Moves, Unlocked, LockInv
    <3> QED BY <1>4, <3>1, <3>2, <3>3
  <2> QED BY <2>1, <2>2
<1>10. runs' \subseteq Run
  BY <1>1, <1>3
<1> QED BY <1>8, <1>9, <1>10

\* A run outside its critical section relies on nothing but the target.
LEMMA IdleRun ==
  ASSUME NEW q, q.pc \notin Critical, q.analysis <= row'.target
  PROVE  RunInv(q)'
BY DEF RunInv, Publishing, Deciding, Critical

\* What a run relies on does not depend on the state of the row.
LEMMA SteadyRun ==
  ASSUME TypeOK, NEW q \in Run, RunInv(q), row' \in Row,
         row.target <= row'.target, row'.published = row.published,
         UNCHANGED <<comments, strayed>>
  PROVE  RunInv(q)'
<1>1. q.analysis \in Nat /\ row.target \in Nat /\ row'.target \in Nat
  BY AnalysisType DEF TypeOK, Row, Run
<1> QED BY <1>1 DEF RunInv, Live

-----------------------------------------------------------------------------
(* Steps that write no comment and record no result *)

\* The row keeps what is published, its target does not go back, and it does
\* not become published.
RowSteps ==
  /\ row' \in Row
  /\ row.target <= row'.target
  /\ row'.published = row.published
  /\ row' = row \/ row'.state # "published"

LEMMA RowKept == ASSUME TypeOK, UNCHANGED row PROVE RowSteps
BY AnalysisType DEF TypeOK, RowSteps, Row

LEMMA RowMarked ==
  ASSUME TypeOK, NEW a \in Analyses, NEW state \in RowStates \ {"published"},
         MarkTarget(a, state)
  PROVE  RowSteps /\ row'.target = row.target /\ row'.comment = row.comment
<1>1. row.target \in Nat
  BY AnalysisType DEF TypeOK, Row
<1> QED BY <1>1, MarkTargetEffect DEF RowSteps

LEMMA SiteKept ==
  ASSUME Inv, RowSteps, UNCHANGED siteVars
  PROVE  CommentInv' /\ RowInv'
<1>1. row.target \in Nat /\ row'.target \in Nat
  BY AnalysisType DEF Inv, TypeOK, RowSteps, Row
<1>2. \A c \in DOMAIN comments : comments[c] \in Nat
  BY AnalysisType DEF Inv, TypeOK
<1>3. CommentInv'
  BY <1>1, <1>2 DEF Inv, CommentInv, RowSteps, siteVars, Live
<1>4. RowInv'
  BY DEF Inv, RowInv, RowSteps, siteVars
<1> QED BY <1>3, <1>4

\* Steps outside the runs.
LEMMA OutsideStep ==
  ASSUME Inv, UNCHANGED siteVars, UNCHANGED <<claims, runs, lock>>, RowSteps,
         local' \in Positions, remote' \in Positions, publishing' \in BOOLEAN,
         reported' \subseteq Analyses, tails' \subseteq {"enqueue", "disable"},
         events' \in 0..MaxEvents, jobs' \in [Analyses -> Job], JobInv'
  PROVE  Inv'
<1>1. TypeOK'
  BY DEF Inv, TypeOK, RowSteps, siteVars
<1>2. LockInv'
  BY DEF Inv, LockInv
<1>3. \A r \in runs' : RunInv(r)'
  BY SteadyRun DEF Inv, TypeOK, RowSteps, siteVars
<1> QED BY <1>1, <1>2, <1>3, SiteKept DEF Inv

\* Steps of one run.
LEMMA InsideStep ==
  ASSUME Inv, UNCHANGED prVars, UNCHANGED siteVars, RowSteps,
         NEW r \in runs, NEW m \in Run, Moves(r, m), m \in runs' => RunInv(m)',
         jobs' \in [Analyses -> Job],
         \A a \in Analyses : jobs'[a].state # "none" => jobs[a].state # "none"
  PROVE  Inv'
<1>1. /\ runs' \subseteq Run
      /\ lock' \in {NoRun} \cup {q.claim : q \in {p \in runs' : p.pc \in Critical}}
      /\ LockInv'
  BY MovesKeepLock DEF Inv
<1>2. TypeOK'
  BY <1>1 DEF Inv, TypeOK, RowSteps, prVars, siteVars, Moves
<1>3. JobInv'
  BY AnalysisType DEF Inv, TypeOK, JobInv, RowSteps, Row
<1>4. \A q \in runs' : RunInv(q)'
  <2>1. \A q \in runs' : q = m \/ q \in runs
    BY DEF Moves
  <2> QED BY <2>1, SteadyRun DEF Inv, TypeOK, RowSteps, siteVars
<1> QED BY <1>1, <1>2, <1>3, <1>4, SiteKept DEF Inv

-----------------------------------------------------------------------------
(* The pull request, the setting and the queue *)

LEMMA OutsideInv ==
  ASSUME Inv,
         \/ \E p \in Positions : MoveRemote(p)
         \/ Observe
         \/ \E on \in BOOLEAN : SetPublishing(on)
  PROVE  Inv'
<1>1. RowSteps /\ JobInv'
  BY RowKept DEF Inv, JobInv, MoveRemote, Observe, SetPublishing, queueVars
<1>2. MaxEvents \in Nat /\ events \in 0..MaxEvents
  BY BoundAssumption DEF Inv, TypeOK
<1>3. CASE \E p \in Positions : MoveRemote(p)
  BY <1>1, <1>2, <1>3, OutsideStep DEF Inv, TypeOK, MoveRemote, queueVars
<1>4. CASE Observe
  BY <1>1, <1>4, OutsideStep DEF Inv, TypeOK, Observe, queueVars
<1>5. CASE \E on \in BOOLEAN : SetPublishing(on)
  BY <1>1, <1>2, <1>5, OutsideStep DEF Inv, TypeOK, SetPublishing, queueVars
<1> QED BY <1>3, <1>4, <1>5

\* Enqueueing or not, the row steps as it may.
LEMMA EnqueueSteps ==
  ASSUME Inv,
         UNCHANGED <<row, jobs>> \/ \E a \in Analyses : EnqueuePublication(a)
  PROVE  RowSteps /\ jobs' \in [Analyses -> Job] /\ JobInv'
<1>1. CASE UNCHANGED <<row, jobs>>
  BY <1>1, RowKept DEF Inv, TypeOK, JobInv
<1>2. CASE \E a \in Analyses : EnqueuePublication(a)
  BY <1>2, EnqueueEffect DEF Inv, RowSteps
<1> QED BY <1>1, <1>2

LEMMA PersistReportInv ==
  ASSUME Inv, NEW a \in Analyses, PersistReport(a) PROVE Inv'
<1>1. RowSteps /\ jobs' \in [Analyses -> Job] /\ JobInv'
  BY EnqueueSteps DEF PersistReport
<1> QED BY <1>1, OutsideStep DEF Inv, TypeOK, PersistReport

LEMMA EnqueueLatestInv ==
  ASSUME Inv, EnqueueLatest PROVE Inv'
<1>1. RowSteps /\ jobs' \in [Analyses -> Job] /\ JobInv'
  BY EnqueueSteps DEF EnqueueLatest, Eligible
<1> QED BY <1>1, OutsideStep DEF Inv, TypeOK, EnqueueLatest

LEMMA DisableRowsInv ==
  ASSUME Inv, DisableRows PROVE Inv'
<1>1. row \in Row
  BY DEF Inv, TypeOK
<1>2. RowSteps /\ row'.target = row.target
  <2>1. row.target \in Nat
    BY <1>1, AnalysisType DEF Row
  <2> QED BY <1>1, <2>1 DEF DisableRows, RowSteps, Row, RowStates
<1>3. JobInv'
  BY <1>2 DEF Inv, JobInv, DisableRows
<1> QED BY <1>2, <1>3, OutsideStep DEF Inv, TypeOK, DisableRows

LEMMA RecoverInv ==
  ASSUME Inv, NEW a \in Analyses, Recover(a) PROVE Inv'
<1>1. row \in Row /\ jobs \in [Analyses -> Job] /\ jobs[a] \in Job
      /\ RecoveryLimit \in Nat /\ row.target \in Nat
  BY BoundAssumption, AnalysisType DEF Inv, TypeOK, Row
<1>2. RowSteps /\ row'.target = row.target
  BY <1>1 DEF Recover, RowSteps, Row, RowStates
<1>3. jobs' \in [Analyses -> Job]
      /\ \A b \in Analyses : jobs'[b].state # "none" => jobs[b].state # "none"
  <2>1. CASE Exhausted(a)
    <3>1. [jobs[a] EXCEPT !.state = "failed"] \in Job
      BY <1>1 DEF Job, JobStates
    <3> QED BY <1>1, <2>1, <3>1 DEF Recover
  <2>2. CASE ~Exhausted(a)
    <3>1. jobs[a].recoveries + 1 \in 0..RecoveryLimit
      BY <1>1, <2>2 DEF Exhausted, Job
    <3>2. [jobs[a] EXCEPT !.state = "queued", !.recoveries = jobs[a].recoveries + 1] \in Job
      BY <1>1, <3>1 DEF Job, JobStates
    <3>3. jobs' = [jobs EXCEPT ![a] =
             [jobs[a] EXCEPT !.state = "queued", !.recoveries = jobs[a].recoveries + 1]]
      BY <2>2 DEF Recover
    <3>4. jobs[a].state = "running"
      BY DEF Recover
    <3> QED BY <1>1, <3>2, <3>3, <3>4
  <2> QED BY <2>1, <2>2
<1>4. JobInv'
  BY <1>2, <1>3 DEF Inv, JobInv
<1> QED BY <1>2, <1>3, <1>4, OutsideStep DEF Inv, TypeOK, Recover, prVars

LEMMA ClaimInv ==
  ASSUME Inv, NEW a \in Analyses, Claim(a) PROVE Inv'
<1>0. /\ jobs \in [Analyses -> Job] /\ jobs[a] \in Job /\ runs \subseteq Run
      /\ MaxClaims \in Nat /\ MaxComments \in Nat /\ claims \in 0..MaxClaims
      /\ claims < MaxClaims /\ claims' = claims + 1 /\ row \in Row
  BY BoundAssumption DEF Inv, TypeOK, Claim
<1>1. PICK m \in Run : /\ runs' = runs \cup {m}
                       /\ m.pc = "locking" /\ m.claim = claims + 1 /\ m.analysis = a
  <2> DEFINE m == [analysis |-> a, claim |-> claims + 1, pc |-> "locking",
                   comment |-> None, searched |-> FALSE]
  <2>1. claims + 1 \in 1..MaxClaims /\ None \in CommentId
    BY <1>0 DEF CommentId, None
  <2>2. m \in Run
    BY <2>1 DEF Run, Pcs
  <2> QED BY <2>2 DEF Claim
<1>3. jobs' \in [Analyses -> Job]
      /\ \A b \in Analyses : jobs'[b].state # "none" => jobs[b].state # "none"
  <2>1. claims + 1 \in 0..MaxClaims
    BY <1>0
  <2>2. [jobs[a] EXCEPT !.state = "running", !.claim = claims + 1] \in Job
    BY <1>0, <2>1 DEF Job, JobStates
  <2>3. jobs' = [jobs EXCEPT ![a] =
           [jobs[a] EXCEPT !.state = "running", !.claim = claims + 1]]
    BY DEF Claim
  <2>4. jobs[a].state = "queued"
    BY DEF Claim
  <2> QED BY <1>0, <2>2, <2>3, <2>4
<1>4. a <= row.target
  BY DEF Inv, JobInv, Claim
<1>5. TypeOK'
  <2>1. claims' \in 0..MaxClaims /\ runs' \subseteq Run
    BY <1>0, <1>1
  <2>2. row' \in Row /\ lock' = lock
    BY <1>0 DEF Claim
  <2>3. lock' \in {NoRun} \cup {q.claim : q \in {p \in runs' : p.pc \in Critical}}
    BY <1>0, <1>1, <2>2 DEF Inv, TypeOK
  <2> QED BY <1>3, <2>1, <2>2, <2>3 DEF Inv, TypeOK, Claim, prVars, siteVars
<1>6. LockInv'
  <2>1. \A q \in runs : q.claim \in Nat /\ q.claim <= claims
    BY <1>0 DEF Inv, LockInv, Run
  <2>2. m.pc \notin Critical
    BY <1>1 DEF Critical
  <2>3. \A q \in runs' : q.claim <= claims'
    BY <1>0, <1>1, <2>1
  <2>4. \A p, q \in runs' : p.claim = q.claim => p = q
    BY <1>0, <1>1, <2>1 DEF Inv, LockInv
  <2>5. \A q \in runs' : q.pc \in Critical => lock' = q.claim
    BY <1>1, <2>2 DEF Inv, LockInv, Claim
  <2> QED BY <2>3, <2>4, <2>5 DEF LockInv
<1>7. RowSteps
  BY RowKept DEF Inv, Claim
<1>8. JobInv'
  BY <1>3 DEF Inv, JobInv, Claim
<1>9. \A q \in runs' : RunInv(q)'
  <2>1. RunInv(m)'
    BY <1>1, <1>4, IdleRun DEF Critical, Claim
  <2> QED BY <1>0, <1>1, <1>7, <2>1, SteadyRun DEF Inv, RowSteps, Claim, siteVars
<1> QED BY <1>5, <1>6, <1>7, <1>8, <1>9, SiteKept DEF Inv, Claim

-----------------------------------------------------------------------------
(* A run gives up its critical section, or moves outside it *)

\* The lock is given back.
Frees(r) == lock' = Unlocked(r)

\* The lock is not touched by one who does not hold it.
LeavesAlone(r) == r.pc \notin Critical /\ lock' = lock

LEMMA LeaveInv ==
  ASSUME Inv, UNCHANGED prVars, UNCHANGED siteVars, UNCHANGED claims, RowSteps,
         NEW r \in runs, NEW pc \in Pcs \ Critical,
         GoTo(r, pc) \/ runs' = runs \ {r}, Frees(r) \/ LeavesAlone(r),
         jobs' \in [Analyses -> Job],
         \A a \in Analyses : jobs'[a].state # "none" => jobs[a].state # "none"
  PROVE  Inv'
<1> DEFINE m == [r EXCEPT !.pc = pc]
<1>1. r \in Run
  BY DEF Inv, TypeOK
<1>2. m \in Run /\ m.pc = pc /\ m.analysis = r.analysis /\ m.claim = r.claim
  BY <1>1, Moved
<1>3. runs' = (runs \ {r}) \cup {m} \/ runs' = runs \ {r}
  BY DEF GoTo
<1> HIDE DEF m
<1>4. Moves(r, m)
  BY <1>2, <1>3 DEF Moves, Frees, LeavesAlone
<1>5. RunInv(m)'
  <2>1. r.analysis \in Nat /\ row.target \in Nat /\ row'.target \in Nat
    BY <1>1, AnalysisType DEF Inv, TypeOK, Run, Row, RowSteps
  <2>2. r.analysis <= row'.target
    BY <2>1 DEF Inv, RunInv, RowSteps
  <2> QED BY <1>2, <2>2, IdleRun
<1> QED BY <1>2, <1>4, <1>5, InsideStep

LEMMA EndJobInv ==
  ASSUME Inv, NEW r \in runs, EndJob(r) PROVE Inv'
<1>1. r.analysis \in Analyses /\ jobs \in [Analyses -> Job] /\ jobs[r.analysis] \in Job
  BY DEF Inv, TypeOK, Run
<1>2. jobs' \in [Analyses -> Job]
      /\ \A b \in Analyses : jobs'[b].state # "none" => jobs[b].state # "none"
  <2>1. [jobs[r.analysis] EXCEPT !.state = "completed"] \in Job
    BY <1>1 DEF Job, JobStates
  <2> QED BY <1>1, <2>1 DEF EndJob, Current
<1>3. RowSteps /\ LeavesAlone(r) /\ "failing" \in Pcs \ Critical
  BY RowKept DEF Inv, EndJob, LeavesAlone, Critical, Pcs
<1> QED BY <1>2, <1>3, LeaveInv DEF EndJob

LEMMA FailJobInv ==
  ASSUME Inv, NEW r \in runs, NEW terminal \in BOOLEAN, FailJob(r, terminal) PROVE Inv'
<1>1. r.analysis \in Analyses /\ jobs \in [Analyses -> Job] /\ jobs[r.analysis] \in Job
  BY DEF Inv, TypeOK, Run
<1>2. jobs' \in [Analyses -> Job]
      /\ \A b \in Analyses : jobs'[b].state # "none" => jobs[b].state # "none"
  <2>1. \A s \in {"failed", "queued"} : [jobs[r.analysis] EXCEPT !.state = s] \in Job
    BY <1>1 DEF Job, JobStates
  <2> QED BY <1>1, <2>1 DEF FailJob, Current
<1>3. RowSteps
  <2>1. CASE Current(r)
    <3>1. PICK s \in {"disabled", "failed", "pending"} : MarkTarget(r.analysis, s)
      BY <2>1 DEF FailJob
    <3>2. s \in RowStates \ {"published"}
      BY DEF RowStates
    <3> QED BY <1>1, <3>1, <3>2, RowMarked DEF Inv
  <2>2. CASE ~Current(r)
    BY <2>2, RowKept DEF Inv, FailJob
  <2> QED BY <2>1, <2>2
<1>4. LeavesAlone(r) /\ "returned" \in Pcs \ Critical
  BY DEF FailJob, LeavesAlone, Critical, Pcs
<1> QED BY <1>2, <1>3, <1>4, LeaveInv DEF FailJob

LEMMA WithdrawInv ==
  ASSUME Inv, NEW r \in runs, Withdraw(r) PROVE Inv'
<1>1. r.analysis \in Analyses /\ "disabled" \in RowStates \ {"published"}
  BY DEF Inv, TypeOK, Run, RowStates
<1>2. RowSteps
  BY <1>1, RowMarked DEF Inv, Withdraw
<1>3. Frees(r) /\ "returned" \in Pcs \ Critical
  BY DEF Withdraw, Frees, Critical, Pcs
<1> QED BY <1>2, <1>3, LeaveInv DEF Inv, TypeOK, Withdraw

\* Exceptions, crashes, lost sessions and requests that never arrive.
LEMMA DisturbanceInv ==
  ASSUME Inv, NEW r \in runs, Throw(r) \/ LoseSession(r) \/ Crash(r) \/ StrayLost(r)
  PROVE  Inv'
<1>1. RowSteps /\ jobs \in [Analyses -> Job] /\ UNCHANGED <<claims, jobs>>
      /\ UNCHANGED prVars /\ UNCHANGED siteVars
  BY RowKept DEF Inv, TypeOK, Throw, LoseSession, Crash, StrayLost
<1>2. \A pc \in {"failing", "orphaned", "adrift"} : pc \in Pcs \ Critical
  BY DEF Critical, Pcs
<1>3. Frees(r) \/ LeavesAlone(r)
  BY DEF Throw, LoseSession, Crash, StrayLost, Frees, LeavesAlone, Critical
<1>4. \E pc \in {"failing", "orphaned", "adrift"} : GoTo(r, pc) \/ runs' = runs \ {r}
  BY DEF Throw, LoseSession, Crash, StrayLost, StrayEnds
<1> QED BY <1>1, <1>2, <1>3, <1>4, LeaveInv

-----------------------------------------------------------------------------
(* A run advances within its critical section *)

\* A run that advances keeps its lock; what it relies on is to be shown.
LEMMA AdvanceInv ==
  ASSUME Inv, UNCHANGED prVars, UNCHANGED siteVars, UNCHANGED <<claims, jobs, lock>>,
         RowSteps, NEW r \in runs, r.pc \in Critical, NEW m \in Run, m.pc \in Critical,
         m.claim = r.claim, m.analysis = r.analysis,
         runs' = (runs \ {r}) \cup {m}, RunInv(m)'
  PROVE  Inv'
<1>1. Moves(r, m)
  BY DEF Moves
<1> QED BY <1>1, InsideStep DEF Inv, TypeOK

LEMMA AcquireInv ==
  ASSUME Inv, NEW r \in runs, Acquire(r) PROVE Inv'
<1>1. PICK pc \in {"row", "withdrawing"} : GoTo(r, pc)
  BY DEF Acquire
<1>2. pc \in Pcs /\ pc \in Critical /\ pc \notin Publishing /\ pc \notin Deciding
      /\ pc # "recording" /\ pc # "writing"
  BY DEF Critical, Pcs, Publishing, Deciding
<1>3. r \in Run
  BY DEF Inv, TypeOK
<1> DEFINE m == [r EXCEPT !.pc = pc]
<1>4. m \in Run /\ m.pc = pc /\ m.analysis = r.analysis /\ m.claim = r.claim
      /\ runs' = (runs \ {r}) \cup {m}
  BY <1>1, <1>2, <1>3, Moved DEF GoTo
<1> HIDE DEF m
<1>5. Moves(r, m)
  BY <1>2, <1>4 DEF Acquire, LockFree, Moves
<1>6. RowSteps
  BY RowKept DEF Inv, Acquire
<1>7. RunInv(m)'
  BY <1>2, <1>4 DEF Inv, RunInv, Acquire
<1> QED BY <1>4, <1>5, <1>6, <1>7, InsideStep DEF Inv, TypeOK, Acquire

LEMMA LoadPublicationInv ==
  ASSUME Inv, NEW r \in runs, LoadPublication(r) PROVE Inv'
<1>1. RowSteps /\ r.pc \in Critical /\ r \in Run /\ row \in Row
  BY RowKept DEF Inv, TypeOK, LoadPublication, Critical
<1>2. CASE AlreadyPublished(r.analysis)
  <2>1. "returned" \in Pcs \ Critical
    BY DEF Pcs, Critical
  <2> QED BY <1>1, <1>2, <2>1, LeaveInv DEF Inv, TypeOK, LoadPublication, Frees
<1>3. CASE ~AlreadyPublished(r.analysis)
  <2>1. PICK c \in CommentId : c = row.comment
    BY <1>1 DEF Row
  <2> DEFINE m == [r EXCEPT !.pc = "marking", !.comment = c]
  <2>2. "marking" \in Pcs /\ "marking" \in Critical /\ "marking" \notin Deciding
    BY DEF Pcs, Critical, Deciding
  <2>3. m \in Run /\ m.pc = "marking" /\ m.analysis = r.analysis /\ m.claim = r.claim
    BY <1>1, <2>1, <2>2 DEF Run
  <2>4. runs' = (runs \ {r}) \cup {m}
    BY <1>3, <2>1 DEF LoadPublication
  <2> HIDE DEF m
  <2>5. row.published < r.analysis
    BY <1>1, <1>3, AnalysisType DEF AlreadyPublished, Row, Run
  <2>6. RunInv(m)'
    BY <2>2, <2>3, <2>5 DEF Inv, RunInv, LoadPublication
  <2> QED BY <1>1, <1>3, <2>2, <2>3, <2>4, <2>6, AdvanceInv DEF LoadPublication
<1> QED BY <1>2, <1>3

LEMMA MarkPublishingInv ==
  ASSUME Inv, NEW r \in runs, MarkPublishing(r) PROVE Inv'
<1>1. r \in Run /\ r.pc \in Critical /\ r.pc \in Publishing /\ r.analysis \in Analyses
      /\ "publishing" \in RowStates \ {"published"}
  BY DEF Inv, TypeOK, MarkPublishing, Critical, Publishing, RowStates, Run
<1>2. RowSteps /\ row'.target = row.target /\ row'.published = row.published
  BY <1>1, RowMarked DEF Inv, MarkPublishing, RowSteps
<1>3. PICK pc \in {"searching", "heading"} :
        GoTo(r, pc) /\ (pc = "heading" => r.comment # None)
  BY DEF MarkPublishing
<1>4. pc \in Pcs /\ pc \in Critical /\ pc \in Publishing /\ pc # "recording" /\ pc # "writing"
      /\ "searching" \notin Deciding
  BY DEF Critical, Pcs, Publishing, Deciding
<1> DEFINE m == [r EXCEPT !.pc = pc]
<1>5. m \in Run /\ m.pc = pc /\ m.analysis = r.analysis /\ m.claim = r.claim
      /\ m.comment = r.comment /\ runs' = (runs \ {r}) \cup {m}
  BY <1>1, <1>3, <1>4, Moved DEF GoTo
<1> HIDE DEF m
<1>6. RunInv(m)'
  BY <1>1, <1>2, <1>3, <1>4, <1>5 DEF Inv, RunInv
<1> QED BY <1>1, <1>2, <1>4, <1>5, <1>6, AdvanceInv DEF MarkPublishing

LEMMA SearchManagedInv ==
  ASSUME Inv, NEW r \in runs, SearchManaged(r) PROVE Inv'
<1>1. r \in Run /\ r.pc \in Critical /\ r.pc \in Publishing /\ RowSteps
  BY RowKept DEF Inv, TypeOK, SearchManaged, Critical, Publishing
<1>2. PICK c \in CommentId : c = Managed /\ (c = None => Live = {})
  <2>1. Live \subseteq CommentId /\ None \notin Live /\ None \in CommentId
    BY BoundAssumption DEF Inv, TypeOK, CommentInv, Live, CommentId, None
  <2> QED BY <2>1, ManagedIsLive DEF Inv
<1> DEFINE m == [r EXCEPT !.pc = "heading", !.comment = c, !.searched = TRUE]
<1>3. "heading" \in Pcs /\ "heading" \in Critical /\ "heading" \in Publishing
  BY DEF Critical, Pcs, Publishing
<1>4. m \in Run /\ m.pc = "heading" /\ m.comment = c
      /\ m.analysis = r.analysis /\ m.claim = r.claim
  BY <1>1, <1>2, <1>3 DEF Run
<1>5. runs' = (runs \ {r}) \cup {m}
  BY <1>2 DEF SearchManaged
<1> HIDE DEF m
<1>6. RunInv(m)'
  BY <1>1, <1>2, <1>3, <1>4 DEF Inv, RunInv, SearchManaged, siteVars, Live
<1> QED BY <1>1, <1>3, <1>4, <1>5, <1>6, AdvanceInv DEF SearchManaged

\* The answer on the head, and the check before the write, either let the run
\* go on or supersede it.
LEMMA AssertHeadInv ==
  ASSUME Inv, NEW r \in runs, AssertHead(r) PROVE Inv'
<1>1. r \in Run /\ RowSteps
  BY RowKept DEF Inv, TypeOK, AssertHead
<1>2. PICK pc \in {"checking", "superseded"} : GoTo(r, pc)
  BY DEF AssertHead
<1>3. /\ pc \in Pcs /\ pc \in Critical /\ pc # "recording" /\ pc # "writing"
      /\ r.pc \in Critical /\ r.pc \in Publishing /\ r.pc \in Deciding
      /\ "superseded" \notin Publishing /\ "superseded" \notin Deciding
  BY DEF AssertHead, Critical, Pcs, Publishing, Deciding
<1> DEFINE m == [r EXCEPT !.pc = pc]
<1>4. m \in Run /\ m.pc = pc /\ m.analysis = r.analysis /\ m.claim = r.claim
      /\ m.comment = r.comment /\ runs' = (runs \ {r}) \cup {m}
  BY <1>1, <1>2, <1>3, Moved DEF GoTo
<1> HIDE DEF m
<1>5. RunInv(m)'
  BY <1>2, <1>3, <1>4 DEF Inv, RunInv, AssertHead, siteVars, Live
<1> QED BY <1>1, <1>3, <1>4, <1>5, AdvanceInv DEF AssertHead

LEMMA BeforeWriteInv ==
  ASSUME Inv, NEW r \in runs, BeforeWrite(r) PROVE Inv'
<1>1. r \in Run /\ RowSteps
  BY RowKept DEF Inv, TypeOK, BeforeWrite
<1>2. PICK pc \in {"writing", "superseded"} :
        GoTo(r, pc) /\ (pc = "writing" => row.target = r.analysis)
  BY DEF BeforeWrite, StillTarget
<1>3. /\ pc \in Pcs /\ pc \in Critical /\ pc # "recording"
      /\ r.pc \in Critical /\ r.pc \in Publishing /\ r.pc \in Deciding
      /\ "superseded" \notin Publishing /\ "superseded" \notin Deciding
  BY DEF BeforeWrite, Critical, Pcs, Publishing, Deciding
<1> DEFINE m == [r EXCEPT !.pc = pc]
<1>4. m \in Run /\ m.pc = pc /\ m.analysis = r.analysis /\ m.claim = r.claim
      /\ m.comment = r.comment /\ runs' = (runs \ {r}) \cup {m}
  BY <1>1, <1>2, <1>3, Moved DEF GoTo
<1> HIDE DEF m
<1>5. RunInv(m)'
  BY <1>2, <1>3, <1>4 DEF Inv, RunInv, CommentInv, BeforeWrite, siteVars, Live
<1> QED BY <1>1, <1>3, <1>4, <1>5, AdvanceInv DEF BeforeWrite

LEMMA CommentGoneInv ==
  ASSUME Inv, NEW r \in runs, CommentGone(r) PROVE Inv'
<1>1. r \in Run /\ RowSteps
  BY RowKept DEF Inv, TypeOK, CommentGone
<1>2. CASE r.searched
  <2>1. "failing" \in Pcs \ Critical
    BY DEF Critical, Pcs
  <2> QED BY <1>1, <1>2, <2>1, LeaveInv DEF Inv, TypeOK, CommentGone, Frees
<1>3. CASE ~r.searched
  <2>1. /\ "searching" \in Pcs /\ "searching" \in Critical /\ "searching" \notin Deciding
        /\ r.pc \in Critical /\ r.pc \in Publishing
    BY DEF CommentGone, Critical, Pcs, Publishing, Deciding
  <2> DEFINE m == [r EXCEPT !.pc = "searching"]
  <2>2. m \in Run /\ m.pc = "searching" /\ m.analysis = r.analysis
        /\ m.claim = r.claim /\ runs' = (runs \ {r}) \cup {m}
    BY <1>1, <1>3, <2>1, Moved DEF CommentGone, GoTo
  <2> HIDE DEF m
  <2>3. RunInv(m)'
    BY <2>1, <2>2 DEF Inv, RunInv, CommentGone
  <2> QED BY <1>1, <1>3, <2>1, <2>2, <2>3, AdvanceInv DEF CommentGone
<1> QED BY <1>2, <1>3

-----------------------------------------------------------------------------
(* The result is recorded *)

LEMMA RecordInv ==
  ASSUME Inv, NEW r \in runs, Record(r) PROVE Inv'
<1>1. /\ r \in Run /\ row \in Row /\ r.pc = "recording" /\ r.pc \in Critical
      /\ r.analysis \in Analysis /\ r.analysis \in Nat /\ r.comment \in CommentId
  BY AnalysisType DEF Inv, TypeOK, Record, Critical, Run
<1>2. /\ row' \in Row /\ row'.target = row.target
      /\ row'.published = r.analysis /\ row'.comment = r.comment
      /\ row'.state = RecordedState(r.analysis)
  BY <1>1 DEF Record, RecordedState, Row, RowStates
<1> DEFINE m == [r EXCEPT !.pc = "returned"]
<1>3. "returned" \in Pcs /\ "returned" \notin Critical
  BY DEF Pcs, Critical
<1>4. m \in Run /\ m.pc = "returned" /\ m.analysis = r.analysis /\ m.claim = r.claim
      /\ runs' = (runs \ {r}) \cup {m}
  BY <1>1, <1>3, Moved DEF Record, GoTo
<1> HIDE DEF m
<1>5. Moves(r, m)
  BY <1>3, <1>4 DEF Moves, Record
<1>6. /\ runs' \subseteq Run
      /\ lock' \in {NoRun} \cup {q.claim : q \in {p \in runs' : p.pc \in Critical}}
      /\ LockInv'
  BY <1>4, <1>5, MovesKeepLock DEF Inv
<1>7. TypeOK'
  BY <1>2, <1>6 DEF Inv, TypeOK, Record, prVars, siteVars
<1>8. JobInv'
  BY <1>2 DEF Inv, JobInv, Record
<1>9. ASSUME NEW q \in runs' PROVE RunInv(q)'
  <2>1. q = m \/ (q \in runs /\ q # r)
    BY <1>4
  <2>2. q.pc \notin Critical
    BY <1>1, <1>3, <1>4, <2>1, Alone DEF Inv
  <2>3. q.analysis <= row'.target
    BY <1>2, <1>4, <2>1 DEF Inv, RunInv
  <2> QED BY <2>2, <2>3, IdleRun
<1>10. CommentInv'
  BY <1>2 DEF Inv, CommentInv, Record, siteVars, Live
<1>11. RowInv'
  <2> SUFFICES ASSUME row'.state = "published"
               PROVE  /\ row'.published = row'.target
                      /\ row'.comment \in DOMAIN comments'
                      /\ strayed' \/ comments'[row'.comment] \in {row'.published, None}
    BY DEF RowInv
  <2>1. row.target = r.analysis
    BY <1>2 DEF RecordedState
  <2>2. /\ r.comment \in DOMAIN comments
        /\ strayed \/ comments[r.comment] \in {r.analysis, None}
    BY <1>1 DEF Inv, RunInv
  <2> QED BY <1>2, <2>1, <2>2 DEF Record, siteVars
<1> QED BY <1>7, <1>6, <1>8, <1>9, <1>10, <1>11 DEF Inv

-----------------------------------------------------------------------------
(* The comments change *)

LEMMA DeleteCommentInv ==
  ASSUME Inv, NEW c \in Live, DeleteComment(c) PROVE Inv'
<1>1. /\ comments \in Seq(Analysis) /\ c \in DOMAIN comments /\ None \in Analysis
      /\ \A a \in Analysis : a \in Nat
  BY AnalysisType DEF Inv, TypeOK, Live
<1>2. /\ comments' \in Seq(Analysis) /\ Len(comments') = Len(comments)
      /\ DOMAIN comments' = DOMAIN comments
      /\ comments'[c] = None
      /\ \A d \in DOMAIN comments : d # c => comments'[d] = comments[d]
  BY <1>1 DEF DeleteComment
<1>3. /\ \A d \in DOMAIN comments : comments[d] \in Nat /\ comments'[d] <= comments[d]
      /\ row.target \in Nat /\ \A r \in runs : r.analysis \in Nat
  <2>1. \A d \in DOMAIN comments : comments[d] \in Nat
    BY <1>1
  <2>2. \A d \in DOMAIN comments : comments'[d] <= comments[d]
    BY <1>2, <2>1 DEF None
  <2>3. row.target \in Nat /\ \A r \in runs : r.analysis \in Nat
    BY AnalysisType DEF Inv, TypeOK, Row, Run
  <2> QED BY <2>1, <2>2, <2>3
<1>4. Live' \subseteq Live
  BY <1>2 DEF Live
<1>5. /\ row' = row /\ runs' = runs /\ jobs' = jobs /\ claims' = claims
      /\ lock' = lock /\ strayed' = strayed
  BY DEF DeleteComment, queueVars
<1>6. TypeOK'
  <2>1. events' \in 0..MaxEvents
    BY BoundAssumption DEF Inv, TypeOK, DeleteComment
  <2> QED BY <1>2, <1>5, <2>1 DEF Inv, TypeOK, DeleteComment, queueVars
<1>7. LockInv' /\ JobInv'
  BY <1>5 DEF Inv, LockInv, JobInv
<1>8. ASSUME NEW r \in runs PROVE RunInv(r)'
  <2>1. \A d \in DOMAIN comments' : comments'[d] <= comments[d] /\ comments[d] \in Nat
        /\ comments'[d] \in Nat
    BY <1>1, <1>2, <1>3
  <2>2. r.pc = "writing" /\ ~strayed => \A d \in DOMAIN comments' : comments'[d] <= r.analysis
    BY <1>2, <1>3, <2>1 DEF Inv, RunInv
  <2>3. r.pc = "recording" =>
          /\ r.comment \in DOMAIN comments'
          /\ strayed \/ comments'[r.comment] \in {r.analysis, None}
    BY <1>2 DEF Inv, RunInv
  <2> QED BY <1>4, <1>5, <2>2, <2>3 DEF Inv, RunInv
<1>9. CommentInv'
  <2>1. \A d \in DOMAIN comments' : comments'[d] <= row.target
    <3>1. \A d \in DOMAIN comments' : comments'[d] \in Nat
      BY <1>1, <1>2
    <3> QED BY <1>2, <1>3, <3>1 DEF Inv, CommentInv
  <2> QED BY <1>2, <1>4, <1>5, <2>1 DEF Inv, CommentInv
<1>10. RowInv'
  BY <1>2, <1>5 DEF Inv, RowInv
<1> QED BY <1>5, <1>6, <1>7, <1>8, <1>9, <1>10 DEF Inv

\* A request creates the comment its run knows none of, or edits the one it
\* knows.
LEMMA WrittenEffect ==
  ASSUME TypeOK, CommentInv, NEW r \in Run, NEW c \in 1..MaxComments, Written(r, c)
  PROVE  /\ comments' \in Seq(Analysis) /\ Len(comments') <= MaxComments
         /\ c \in DOMAIN comments' /\ comments'[c] = r.analysis
         /\ \A d \in DOMAIN comments' : d # c =>
              d \in DOMAIN comments /\ comments'[d] = comments[d]
         /\ DOMAIN comments \subseteq DOMAIN comments'
         /\ Live' \subseteq Live \cup {c}
         /\ r.comment # None => c \in Live
<1>1. /\ comments \in Seq(Analysis) /\ r.analysis \in Analysis /\ r.analysis # None
      /\ MaxComments \in Nat /\ Len(comments) \in Nat
  BY AnalysisType, BoundAssumption DEF TypeOK, Run
<1>2. /\ comments' \in Seq(Analysis) /\ Len(comments') <= MaxComments
      /\ c \in DOMAIN comments' /\ comments'[c] = r.analysis
      /\ \A d \in DOMAIN comments' : d # c =>
           d \in DOMAIN comments /\ comments'[d] = comments[d]
      /\ DOMAIN comments \subseteq DOMAIN comments'
      /\ r.comment # None => c \in Live
  <2>1. CASE /\ r.comment = None /\ Len(comments) < MaxComments
             /\ c = Len(comments) + 1 /\ comments' = Append(comments, r.analysis)
    BY <1>1, <2>1
  <2>2. CASE /\ r.comment \in Live /\ c = r.comment
             /\ comments' = [comments EXCEPT ![c] = r.analysis]
    <3>1. c \in DOMAIN comments
      BY <2>2 DEF Live
    <3> QED BY <1>1, <2>2, <3>1 DEF CommentInv
  <2> QED BY <2>1, <2>2 DEF Written
<1>3. Live' \subseteq Live \cup {c}
  BY <1>2 DEF Live
<1> QED BY <1>2, <1>3

\* A write whose answer arrives, or is lost.
LEMMA WriteInv ==
  ASSUME Inv, NEW r \in runs, Write(r) \/ WriteUnanswered(r) PROVE Inv'
<1>1. /\ r \in Run /\ r.pc = "writing" /\ r.pc \in Critical /\ r.pc \in Publishing
      /\ r.pc \in Deciding /\ r.analysis \in Nat /\ r.analysis \in Analysis
      /\ row \in Row /\ row.target \in Nat /\ row.published \in Nat
  BY AnalysisType DEF Inv, TypeOK, Write, WriteUnanswered, Critical, Publishing,
                      Deciding, Run, Row
<1>2. row.published < r.analysis /\ r.analysis <= row.target
  BY <1>1 DEF Inv, RunInv
<1>3. PICK c \in 1..MaxComments, m \in Run :
        /\ Written(r, c) /\ runs' = (runs \ {r}) \cup {m} /\ Moves(r, m)
        /\ (m.pc = "recording" /\ m.comment = c) \/ m.pc \notin Critical
  <2>1. CASE Write(r)
    <3>1. PICK c \in 1..MaxComments :
            /\ Written(r, c)
            /\ runs' = (runs \ {r}) \cup {[r EXCEPT !.pc = "recording", !.comment = c]}
      BY <2>1 DEF Write
    <3> DEFINE m == [r EXCEPT !.pc = "recording", !.comment = c]
    <3>2. "recording" \in Pcs /\ "recording" \in Critical /\ c \in CommentId
      BY <3>1, BoundAssumption DEF Pcs, Critical, CommentId
    <3>3. m \in Run /\ m.pc = "recording" /\ m.comment = c
          /\ m.analysis = r.analysis /\ m.claim = r.claim
      BY <1>1, <3>1, <3>2 DEF Run
    <3>4. runs' = (runs \ {r}) \cup {m}
      BY <3>1
    <3> HIDE DEF m
    <3>5. Moves(r, m)
      BY <1>1, <2>1, <3>2, <3>3, <3>4 DEF Moves, Write
    <3> QED BY <3>1, <3>3, <3>4, <3>5
  <2>2. CASE WriteUnanswered(r)
    <3>1. PICK c \in 1..MaxComments : Written(r, c)
      BY <2>2 DEF WriteUnanswered
    <3> DEFINE m == [r EXCEPT !.pc = "failing"]
    <3>2. "failing" \in Pcs /\ "failing" \notin Critical
      BY DEF Pcs, Critical
    <3>3. m \in Run /\ m.pc = "failing" /\ m.analysis = r.analysis /\ m.claim = r.claim
          /\ runs' = (runs \ {r}) \cup {m}
      BY <1>1, <2>2, <3>2, Moved DEF WriteUnanswered, GoTo
    <3> HIDE DEF m
    <3>4. Moves(r, m)
      BY <2>2, <3>2, <3>3 DEF Moves, WriteUnanswered
    <3> QED BY <3>1, <3>2, <3>3, <3>4
  <2> QED BY <2>1, <2>2
<1>4. /\ comments' \in Seq(Analysis) /\ Len(comments') <= MaxComments
      /\ c \in DOMAIN comments' /\ comments'[c] = r.analysis
      /\ \A d \in DOMAIN comments' : d # c =>
           d \in DOMAIN comments /\ comments'[d] = comments[d]
      /\ DOMAIN comments \subseteq DOMAIN comments'
      /\ Live' \subseteq Live \cup {c}
      /\ r.comment # None => c \in Live
  BY <1>1, <1>3, WrittenEffect DEF Inv
<1>5. UNCHANGED <<row, jobs, claims, strayed>> /\ UNCHANGED prVars
  BY DEF Write, WriteUnanswered
<1>6. /\ runs' \subseteq Run
      /\ lock' \in {NoRun} \cup {q.claim : q \in {p \in runs' : p.pc \in Critical}}
      /\ LockInv'
  BY <1>3, MovesKeepLock DEF Inv
<1>7. TypeOK'
  BY <1>4, <1>5, <1>6 DEF Inv, TypeOK, prVars
<1>8. JobInv'
  BY <1>5 DEF Inv, JobInv
<1>9. ASSUME NEW q \in runs' PROVE RunInv(q)'
  <2>1. q = m \/ (q \in runs /\ q # r)
    BY <1>3
  <2>2. q.analysis <= row'.target
    BY <1>2, <1>3, <1>5, <2>1 DEF Inv, RunInv, Moves
  <2>3. CASE q.pc \notin Critical
    BY <2>2, <2>3, IdleRun
  <2>4. CASE q.pc \in Critical
    <3>1. q = m
      BY <1>1, <2>1, <2>4, Alone DEF Inv
    <3>2. q.pc = "recording" /\ q.comment = c /\ q.analysis = r.analysis
      BY <1>3, <2>4, <3>1 DEF Moves
    <3>3. "recording" \notin Deciding
      BY DEF Deciding
    <3> QED BY <1>2, <1>4, <1>5, <3>2, <3>3 DEF RunInv
  <2> QED BY <2>3, <2>4
<1>10. CommentInv'
  <2>1. ASSUME ~strayed PROVE \A d, e \in Live' : d = e
    <3>1. CASE r.comment = None
      BY <1>1, <1>4, <2>1, <3>1 DEF Inv, RunInv
    <3>2. CASE r.comment # None
      BY <1>4, <2>1, <3>2 DEF Inv, CommentInv
    <3> QED BY <3>1, <3>2
  <2>2. \A d \in DOMAIN comments' : comments'[d] <= row'.target
    BY <1>2, <1>4, <1>5 DEF Inv, CommentInv
  <2> QED BY <1>4, <1>5, <2>1, <2>2 DEF CommentInv
<1>11. RowInv'
  BY <1>1, <1>2, <1>5 DEF Inv, RowInv
<1> QED BY <1>6, <1>7, <1>8, <1>9, <1>10, <1>11 DEF Inv

\* A stray request changes a comment behind the back of whoever holds the lock.
LEMMA StrayWriteInv ==
  ASSUME Inv, NEW r \in runs, StrayWrite(r) PROVE Inv'
<1>1. /\ r \in Run /\ r.pc \notin Critical /\ r.analysis \in Nat
      /\ row \in Row /\ row.target \in Nat /\ r.analysis <= row.target
  BY AnalysisType DEF Inv, TypeOK, StrayWrite, Critical, Run, Row, RunInv
<1>2. PICK c \in 1..MaxComments : Written(r, c)
  BY DEF StrayWrite
<1>3. /\ comments' \in Seq(Analysis) /\ Len(comments') <= MaxComments
      /\ c \in DOMAIN comments' /\ comments'[c] = r.analysis
      /\ \A d \in DOMAIN comments' : d # c =>
           d \in DOMAIN comments /\ comments'[d] = comments[d]
      /\ DOMAIN comments \subseteq DOMAIN comments'
  BY <1>1, <1>2, WrittenEffect DEF Inv
<1>4. UNCHANGED <<row, jobs, claims, lock>> /\ UNCHANGED prVars /\ strayed' = TRUE
  BY DEF StrayWrite
<1> DEFINE m == [r EXCEPT !.pc = "failing"]
<1>5. "failing" \in Pcs /\ "failing" \notin Critical
  BY DEF Pcs, Critical
<1>6. m \in Run /\ m.pc = "failing" /\ m.analysis = r.analysis /\ m.claim = r.claim
  BY <1>1, <1>5, Moved
<1>7. runs' = (runs \ {r}) \cup {m} \/ runs' = runs \ {r}
  BY DEF StrayWrite, StrayEnds, GoTo
<1> HIDE DEF m
<1>8. Moves(r, m)
  BY <1>1, <1>4, <1>5, <1>6, <1>7 DEF Moves
<1>9. /\ runs' \subseteq Run
      /\ lock' \in {NoRun} \cup {q.claim : q \in {p \in runs' : p.pc \in Critical}}
      /\ LockInv'
  BY <1>6, <1>8, MovesKeepLock DEF Inv
<1>10. TypeOK'
  BY <1>3, <1>4, <1>9 DEF Inv, TypeOK, prVars
<1>11. JobInv'
  BY <1>4 DEF Inv, JobInv
<1>12. ASSUME NEW q \in runs' PROVE RunInv(q)'
  <2>1. CASE q = m
    BY <1>1, <1>4, <1>5, <1>6, <2>1, IdleRun
  <2>2. CASE q \in runs
    BY <1>3, <1>4, <2>2 DEF Inv, RunInv
  <2> QED BY <1>7, <2>1, <2>2
<1>13. CommentInv'
  BY <1>1, <1>3, <1>4 DEF Inv, CommentInv
<1>14. RowInv'
  BY <1>3, <1>4 DEF Inv, RowInv
<1> QED BY <1>9, <1>10, <1>11, <1>12, <1>13, <1>14 DEF Inv

-----------------------------------------------------------------------------
(* The invariant is kept *)

LEMMA RunStepInv ==
  ASSUME Inv, NEW r \in runs, RunStep(r) \/ Disturbance(r) PROVE Inv'
<1>1. TRUE \in BOOLEAN /\ FALSE \in BOOLEAN
  OBVIOUS
<1>2. CASE RunStep(r)
  BY <1>1, <1>2, AcquireInv, WithdrawInv, LoadPublicationInv, MarkPublishingInv,
     SearchManagedInv, AssertHeadInv, BeforeWriteInv, WriteInv, CommentGoneInv,
     RecordInv, EndJobInv, FailJobInv DEF RunStep
<1>3. CASE Disturbance(r)
  BY <1>1, <1>3, WriteInv, FailJobInv, DisturbanceInv, StrayWriteInv DEF Disturbance
<1> QED BY <1>2, <1>3

LEMMA NextInv == Inv /\ [Next]_vars => Inv'
<1> SUFFICES ASSUME Inv, [Next]_vars PROVE Inv'
  OBVIOUS
<1>1. CASE UNCHANGED vars
  BY <1>1 DEF vars, Inv, TypeOK, LockInv, JobInv, RunInv, CommentInv, RowInv, Live
<1>2. CASE \E a \in Analyses : PersistReport(a) \/ Claim(a) \/ Recover(a)
  BY <1>2, PersistReportInv, ClaimInv, RecoverInv
<1>3. CASE \E c \in Live : DeleteComment(c)
  <2>1. PICK c \in Live : DeleteComment(c)
    BY <1>3
  <2> QED BY <2>1, DeleteCommentInv
<1>4. CASE \E r \in runs : RunStep(r) \/ Disturbance(r)
  BY <1>4, RunStepInv
<1> QED BY <1>1, <1>2, <1>3, <1>4, OutsideInv, EnqueueLatestInv, DisableRowsInv DEF Next

\* In every reachable state a run in its critical section holds the lock, and
\* what it remembers agrees with the row and the comments.
THEOREM InvHolds == Spec => []Inv
BY InitInv, NextInv, PTL DEF Spec

\* Type correctness: a run number, a comment id or a state outside its range
\* never occurs, and the lock is free or held by a run in its critical section.
THEOREM TypeCorrect == Spec => []TypeOK
<1>1. Inv => TypeOK
  BY DEF Inv
<1> QED BY <1>1, InvHolds, PTL

-----------------------------------------------------------------------------
(* The properties *)

\* One managed comment (upsertPullRequestComment), whatever is retried,
\* recovered or deleted, unless a stray request was executed.
THEOREM OneManaged == Spec => []OneComment
<1>1. Inv => OneComment
  <2> SUFFICES ASSUME Inv, ~strayed PROVE Cardinality(Live) <= 1
    BY DEF OneComment
  <2>1. \A c, d \in Live : c = d
    BY DEF Inv, CommentInv
  <2>2. CASE Live = {}
    <3>1. Cardinality(Live) = 0
      BY <2>2, FS_EmptySet
    <3> QED BY <3>1
  <2>3. CASE Live # {}
    <3>1. PICK c : Live = {c}
      BY <2>1, <2>3
    <3>2. Cardinality(Live) = 1
      BY <3>1, FS_Singleton
    <3> QED BY <3>2
  <2> QED BY <2>2, <2>3
<1> QED BY <1>1, InvHolds, PTL

\* A row recorded as published (publishReviewToGitHub) names its target and is
\* what the comment shows.
THEOREM RecordedIsShown == Spec => []PublishedIsShown
<1>1. Inv => PublishedIsShown
  BY DEF Inv, RowInv, PublishedIsShown
<1> QED BY <1>1, InvHolds, PTL

\* A write of a run that holds the lock shows nothing older than what was
\* there.
LEMMA WriteAdvances ==
  ASSUME Inv, NEW r \in runs, Write(r) \/ WriteUnanswered(r), ~strayed,
         NEW d \in DOMAIN comments
  PROVE  comments'[d] >= comments[d]
<1>1. r \in Run /\ r.pc = "writing" /\ comments[d] \in Nat /\ r.analysis \in Nat
  <2>1. comments[d] \in Analysis /\ r \in Run /\ r.analysis \in Analyses
    BY DEF Inv, TypeOK, Run
  <2> QED BY <2>1, AnalysisType DEF Write, WriteUnanswered
<1>2. PICK c \in 1..MaxComments : Written(r, c)
  BY DEF Write, WriteUnanswered
<1>3. /\ comments'[c] = r.analysis /\ DOMAIN comments \subseteq DOMAIN comments'
      /\ \A e \in DOMAIN comments' : e # c => comments'[e] = comments[e]
  BY <1>1, <1>2, WrittenEffect DEF Inv
<1>4. comments[d] <= r.analysis
  BY <1>1 DEF Inv, RunInv
<1> QED BY <1>1, <1>3, <1>4

\* The report a comment shows is never replaced by an older one (beforeWrite and
\* the advisory lock), unless a stray request was executed.
THEOREM NewestKept == Spec => NewestStays
<1> DEFINE Kept == \A c \in DOMAIN comments :
                     comments'[c] # None => comments'[c] >= comments[c] \/ strayed'
<1>1. Inv /\ [Next]_vars => Kept
  <2> SUFFICES ASSUME Inv, [Next]_vars, NEW d \in DOMAIN comments,
                      comments'[d] # None, ~strayed'
               PROVE  comments'[d] >= comments[d]
    OBVIOUS
  <2>1. comments[d] \in Nat
    BY AnalysisType DEF Inv, TypeOK
  <2>2. CASE UNCHANGED comments
    BY <2>1, <2>2
  <2>3. CASE \E c \in Live : DeleteComment(c)
    <3>1. PICK c \in Live : comments' = [comments EXCEPT ![c] = None]
      BY <2>3 DEF DeleteComment
    <3> QED BY <2>1, <3>1
  <2>4. CASE \E r \in runs : Write(r) \/ WriteUnanswered(r)
    <3>1. ~strayed
      BY <2>4 DEF Write, WriteUnanswered
    <3> QED BY <2>4, <3>1, WriteAdvances
  <2>5. CASE \E r \in runs : StrayWrite(r)
    BY <2>5 DEF StrayWrite
  <2>6. \/ UNCHANGED comments
        \/ \E c \in Live : DeleteComment(c)
        \/ \E r \in runs : Write(r) \/ WriteUnanswered(r) \/ StrayWrite(r)
    BY DEF Next, vars, MoveRemote, Observe, PersistReport, SetPublishing, EnqueueLatest,
           DisableRows, Claim, Recover, RunStep, Disturbance, Acquire, Withdraw,
           LoadPublication, MarkPublishing, SearchManaged, AssertHead, BeforeWrite,
           CommentGone, Record, EndJob, FailJob, Throw, LoseSession, Crash, StrayLost,
           siteVars
  <2> QED BY <2>2, <2>3, <2>4, <2>5, <2>6
<1>2. NewestStays <=> [][Kept]_vars
  BY DEF NewestStays
<1> HIDE DEF Kept
<1> QED BY <1>1, <1>2, InvHolds, PTL DEF Spec

\* What the row records as published never goes back, stray requests or not:
\* the check of loadPublication and the lock see to it.
THEOREM RecordAdvances == Spec => PublishedAdvances
<1> DEFINE Advances == row'.published >= row.published
<1>1. Inv /\ [Next]_vars => Advances
  <2> SUFFICES ASSUME Inv, [Next]_vars PROVE row'.published >= row.published
    OBVIOUS
  <2>1. row \in Row /\ row.published \in Nat
    BY AnalysisType DEF Inv, TypeOK, Row
  <2>2. CASE \E r \in runs : Record(r)
    <3>1. PICK r \in runs : Record(r)
      BY <2>2
    <3>2. row'.published = r.analysis
      BY <2>1, <3>1 DEF Record, Row
    <3>3. row.published < r.analysis /\ r.analysis \in Nat
      BY <3>1, AnalysisType DEF Inv, TypeOK, Run, RunInv, Publishing, Record
    <3> QED BY <2>1, <3>2, <3>3
  <2>3. CASE row'.published = row.published
    BY <2>1, <2>3
  <2>4. \/ \E r \in runs : Record(r)
        \/ row'.published = row.published
    BY <2>1 DEF Next, vars, MoveRemote, Observe, PersistReport, SetPublishing,
           EnqueueLatest, EnqueuePublication, DisableRows, DeleteComment, Claim,
           Recover, RunStep, Disturbance, Acquire, Withdraw, LoadPublication,
           MarkPublishing, SearchManaged, AssertHead, BeforeWrite, CommentGone,
           EndJob, FailJob, Throw, LoseSession, Crash, StrayLost, Write,
           WriteUnanswered, StrayWrite, MarkTarget, Row, queueVars
  <2> QED BY <2>2, <2>3, <2>4
<1>2. PublishedAdvances <=> [][Advances]_vars
  BY DEF PublishedAdvances
<1> HIDE DEF Advances
<1> QED BY <1>1, <1>2, InvHolds, PTL DEF Spec

=============================================================================

-------------------------- MODULE ReviewPublication --------------------------
(***************************************************************************)
(* The publication of review reports to one pull request on GitHub         *)
(* (apps/runtime/src/services/review-publication.ts and                    *)
(* packages/github/src/index.ts): the row of github_review_publications,   *)
(* the publication jobs, the runs of publishReviewToGitHub, the advisory   *)
(* lock of the pull request and the comments that carry the managed        *)
(* marker.                                                                 *)
(*                                                                         *)
(* Every SQL statement and every HTTP request of a run is one action,      *)
(* because no transaction spans them.  A request whose sender lost its     *)
(* database session or died may still be executed by GitHub: it strays.    *)
(* The queue is reduced to what publication sees of it: a job is claimed,  *)
(* recovered while its run goes on, and ended by its current run only.     *)
(***************************************************************************)
EXTENDS Naturals, Sequences, FiniteSets

CONSTANTS
  Analyses,       \* analysis runs of the pull request, in (created_at, id) order
  Positions,      \* where the pull request may be: at a head, or closed
  Start,          \* where it is when the model starts
  HeadOf,         \* the head each analysis is of
  RecoveryLimit,  \* recoveries of a job before it is given up, 3 in the code
  MaxClaims,      \* bound of the model on claims of publication jobs
  MaxComments,    \* bound of the model on comments created
  MaxEvents       \* bound of the model on moves of the pull request, deletions
                  \* of the comment and changes of the publishing setting

ASSUME AnalysisAssumption == Analyses \subseteq Nat \ {0}

ASSUME HeadAssumption == Start \in Positions /\ HeadOf \in [Analyses -> Positions]

ASSUME BoundAssumption ==
  /\ RecoveryLimit \in Nat
  /\ MaxClaims \in Nat
  /\ MaxComments \in Nat
  /\ MaxEvents \in Nat

None == 0       \* no analysis, no comment id, or a comment that is gone

NoRun == 0      \* the lock is free

VARIABLES
  local,      \* pull_requests.head_sha and state
  remote,     \* the same on GitHub
  publishing, \* review_publishing_enabled
  reported,   \* analyses whose report is stored
  row,        \* the row of github_review_publications, target None if absent
  jobs,       \* the publication job of each analysis
  claims,     \* claims so far; they number the runs
  runs,       \* calls of publishReviewToGitHub in progress
  lock,       \* the run that holds the advisory lock
  comments,   \* what each comment with the marker shows, by comment id
  tails,      \* setting changes whose second statement is outstanding
  events,     \* moves, deletions and setting changes so far
  strayed     \* a stray request was executed

vars == <<local, remote, publishing, reported, row, jobs, claims, runs, lock,
          comments, tails, events, strayed>>

-----------------------------------------------------------------------------
(* Types *)

RowStates == {"absent", "pending", "publishing", "published", "failed", "disabled"}
JobStates == {"none", "queued", "running", "completed", "failed"}

\* Where a run is; in its critical section it holds the lock.
Critical == {"withdrawing", "row", "marking", "searching", "heading",
             "checking", "writing", "superseded", "recording"}
Pcs == Critical \cup {"locking", "returned", "failing", "orphaned", "adrift"}

Analysis == Analyses \cup {None}
CommentId == 0..MaxComments

Row == [target : Analysis, published : Analysis, state : RowStates, comment : CommentId]

Job == [state : JobStates, claim : 0..MaxClaims, recoveries : 0..RecoveryLimit]

Run == [analysis : Analyses, claim : 1..MaxClaims, pc : Pcs, comment : CommentId,
        searched : BOOLEAN]

TypeOK ==
  /\ local \in Positions /\ remote \in Positions
  /\ publishing \in BOOLEAN /\ strayed \in BOOLEAN
  /\ reported \subseteq Analyses
  /\ row \in Row
  /\ jobs \in [Analyses -> Job]
  /\ runs \subseteq Run
  /\ claims \in 0..MaxClaims
  /\ lock \in {NoRun} \cup {r.claim : r \in {q \in runs : q.pc \in Critical}}
  /\ comments \in Seq(Analysis)
  /\ tails \subseteq {"enqueue", "disable"}
  /\ events \in 0..MaxEvents

-----------------------------------------------------------------------------
(* Helpers *)

\* loadPublicationContext finds the analysis.
Context(a) == publishing /\ a \in reported /\ local = HeadOf[a]

\* The enqueued analysis takes over as the target of the row.
Supersedes(a) == row.target # a /\ a >= row.target

AlreadyPublished(a) == row.published >= a

\* The write goes on whatever the target is (a fault).
StillTargetUnchecked(a) == TRUE

StillTarget(a) == row.target = a

\* A search that reads no page (a fault).
NothingManaged == None

Live == {c \in DOMAIN comments : comments[c] # None}

\* The first comment with the marker.
Managed == IF Live = {} THEN None ELSE CHOOSE c \in Live : \A d \in Live : c <= d

LockFree == lock = NoRun

\* A recovery too many (a fault).
ExhaustedLate(a) == jobs[a].recoveries > RecoveryLimit

Exhausted(a) == jobs[a].recoveries >= RecoveryLimit

\* The attempt of the run is still the running one.
Current(r) == jobs[r.analysis].state = "running" /\ jobs[r.analysis].claim = r.claim

GoTo(r, pc) == runs' = (runs \ {r}) \cup {[r EXCEPT !.pc = pc]}

\* The finally clause gives the lock back.
Unlocked(r) == IF lock = r.claim THEN NoRun ELSE lock

\* The row of an analysis that is still its target enters a state.
MarkTarget(a, state) ==
  row' = IF row.target = a THEN [row EXCEPT !.state = state] ELSE row

-----------------------------------------------------------------------------
Init ==
  /\ local = Start
  /\ remote = Start
  /\ publishing = TRUE
  /\ reported = {}
  /\ row = [target |-> None, published |-> None, state |-> "absent", comment |-> None]
  /\ jobs = [a \in Analyses |-> [state |-> "none", claim |-> 0, recoveries |-> 0]]
  /\ claims = 0
  /\ runs = {}
  /\ lock = NoRun
  /\ comments = << >>
  /\ tails = {}
  /\ events = 0
  /\ strayed = FALSE

\* The reports, the row, the jobs and their runs.
queueVars == <<reported, row, jobs, claims, runs, lock>>

\* What no run changes.
prVars == <<local, remote, publishing, reported, tails, events>>

\* What a run changes only by writing a comment.
siteVars == <<comments, strayed>>

-----------------------------------------------------------------------------
(* The pull request and its reports *)

MoveRemote(p) ==
  /\ events < MaxEvents
  /\ p # remote
  /\ remote' = p
  /\ events' = events + 1
  /\ UNCHANGED <<local, publishing, tails>> /\ UNCHANGED queueVars
  /\ UNCHANGED siteVars

\* A poll stores what GitHub says.
Observe ==
  /\ local # remote
  /\ local' = remote
  /\ UNCHANGED <<remote, publishing, tails, events>> /\ UNCHANGED queueVars
  /\ UNCHANGED siteVars

\* The target row and the job of an eligible analysis.  A job that is queued
\* or running already is not inserted again.
EnqueuePublication(a) ==
  /\ row' = IF Supersedes(a) THEN [row EXCEPT !.target = a, !.state = "pending"]
                             ELSE row
  /\ jobs' = IF jobs[a].state \in {"queued", "running"} THEN jobs
             ELSE [jobs EXCEPT ![a] = [@ EXCEPT !.state = "queued", !.recoveries = 0]]

\* The transaction that stores the report of an analysis.  Analyses may end in
\* any order.
PersistReport(a) ==
  /\ a \notin reported
  /\ reported' = reported \cup {a}
  /\ IF publishing /\ local = HeadOf[a] THEN EnqueuePublication(a)
                                     ELSE UNCHANGED <<row, jobs>>
  /\ UNCHANGED <<local, remote, publishing, claims, runs, lock, tails, events>>
  /\ UNCHANGED siteVars

\* A user deletes the comment on GitHub.
DeleteComment(c) ==
  /\ c \in Live
  /\ events < MaxEvents
  /\ events' = events + 1
  /\ comments' = [comments EXCEPT ![c] = None]
  /\ UNCHANGED <<local, remote, publishing, tails, strayed>>
  /\ UNCHANGED queueVars

-----------------------------------------------------------------------------
(* The setting: one statement changes it, another acts on the change *)

SetPublishing(on) ==
  /\ events < MaxEvents
  /\ events' = events + 1
  /\ publishing' = on
  /\ tails' = tails \cup {IF on THEN "enqueue" ELSE "disable"}
  /\ UNCHANGED <<local, remote>> /\ UNCHANGED queueVars
  /\ UNCHANGED siteVars

\* The reports of the head the pull request is known to be at.
Eligible == {a \in Analyses : Context(a)}

EnqueueLatest ==
  /\ "enqueue" \in tails
  /\ tails' = tails \ {"enqueue"}
  /\ IF Eligible = {} THEN UNCHANGED <<row, jobs>>
     ELSE \E a \in Eligible : (\A b \in Eligible : b <= a) /\ EnqueuePublication(a)
  /\ UNCHANGED <<local, remote, publishing, reported, claims, runs, lock, events>>
  /\ UNCHANGED siteVars

DisableRows ==
  /\ "disable" \in tails
  /\ tails' = tails \ {"disable"}
  /\ row' = IF row.target = None THEN row ELSE [row EXCEPT !.state = "disabled"]
  /\ UNCHANGED <<local, remote, publishing, reported, jobs, claims, runs, lock, events>>
  /\ UNCHANGED siteVars

-----------------------------------------------------------------------------
(* The queue *)

Claim(a) ==
  /\ jobs[a].state = "queued"
  /\ claims < MaxClaims
  /\ claims' = claims + 1
  /\ jobs' = [jobs EXCEPT ![a] = [@ EXCEPT !.state = "running", !.claim = claims + 1]]
  /\ runs' = runs \cup {[analysis |-> a, claim |-> claims + 1, pc |-> "locking",
                         comment |-> None, searched |-> FALSE]}
  /\ UNCHANGED <<row, lock>> /\ UNCHANGED prVars /\ UNCHANGED siteVars

\* The lease of a job ran out; its run may still go on.
Recover(a) ==
  /\ jobs[a].state = "running"
  /\ IF Exhausted(a)
     THEN /\ jobs' = [jobs EXCEPT ![a].state = "failed"]
          /\ row' = IF row.state \in {"published", "disabled"} \/ row.target # a
                    THEN row ELSE [row EXCEPT !.state = "failed"]
     ELSE /\ jobs' = [jobs EXCEPT ![a] =
               [@ EXCEPT !.state = "queued", !.recoveries = jobs[a].recoveries + 1]]
          /\ UNCHANGED row
  /\ UNCHANGED <<claims, runs, lock>> /\ UNCHANGED prVars /\ UNCHANGED siteVars

\* completeJob of the current attempt, or the fence stops a stale one.
EndJob(r) ==
  /\ r.pc = "returned"
  /\ runs' = runs \ {r}
  /\ jobs' = IF Current(r) THEN [jobs EXCEPT ![r.analysis].state = "completed"] ELSE jobs
  /\ UNCHANGED <<row, claims, lock>> /\ UNCHANGED prVars /\ UNCHANGED siteVars

\* failJob.  Any attempt may be the last: some errors are not retried.
FailJob(r, terminal) ==
  /\ r.pc = "failing"
  /\ runs' = runs \ {r}
  /\ IF Current(r)
     THEN /\ jobs' = [jobs EXCEPT ![r.analysis].state = IF terminal THEN "failed" ELSE "queued"]
          /\ MarkTarget(r.analysis, IF ~publishing THEN "disabled"
                                    ELSE IF terminal THEN "failed" ELSE "pending")
     ELSE UNCHANGED <<jobs, row>>
  /\ UNCHANGED <<claims, lock>> /\ UNCHANGED prVars /\ UNCHANGED siteVars

-----------------------------------------------------------------------------
(* A run: the database side *)

\* The lock is taken and the context loaded.  The lock keeps nothing but other
\* runs away, so what happens between the two may as well happen before.
Acquire(r) ==
  /\ r.pc = "locking"
  /\ LockFree
  /\ lock' = r.claim
  /\ GoTo(r, IF Context(r.analysis) THEN "row" ELSE "withdrawing")
  /\ UNCHANGED <<row, jobs, claims>> /\ UNCHANGED prVars /\ UNCHANGED siteVars

\* Nothing to publish, or the publication is superseded: the row of this
\* target is disabled and the call returns.
Withdraw(r) ==
  /\ r.pc \in {"withdrawing", "superseded"}
  /\ MarkTarget(r.analysis, "disabled")
  /\ lock' = Unlocked(r)
  /\ GoTo(r, "returned")
  /\ UNCHANGED <<jobs, claims>> /\ UNCHANGED prVars /\ UNCHANGED siteVars

LoadPublication(r) ==
  /\ r.pc = "row"
  /\ IF AlreadyPublished(r.analysis)
     THEN lock' = Unlocked(r) /\ GoTo(r, "returned")
     ELSE /\ runs' = (runs \ {r}) \cup {[r EXCEPT !.pc = "marking", !.comment = row.comment]}
          /\ UNCHANGED lock
  /\ UNCHANGED <<row, jobs, claims>> /\ UNCHANGED prVars /\ UNCHANGED siteVars

MarkPublishing(r) ==
  /\ r.pc = "marking"
  /\ MarkTarget(r.analysis, "publishing")
  /\ GoTo(r, IF r.comment = None THEN "searching" ELSE "heading")
  /\ UNCHANGED <<jobs, claims, lock>> /\ UNCHANGED prVars /\ UNCHANGED siteVars

\* Every result is recorded as published (a fault).
RecordedStateAlways(a) == "published"

RecordedState(a) ==
  IF ~publishing THEN "disabled" ELSE IF row.target = a THEN "published" ELSE "pending"

Record(r) ==
  /\ r.pc = "recording"
  /\ row' = [row EXCEPT !.published = r.analysis, !.comment = r.comment,
                        !.state = RecordedState(r.analysis)]
  /\ lock' = Unlocked(r)
  /\ GoTo(r, "returned")
  /\ UNCHANGED <<jobs, claims>> /\ UNCHANGED prVars /\ UNCHANGED siteVars

-----------------------------------------------------------------------------
(* A run: the GitHub side *)

SearchManaged(r) ==
  /\ r.pc = "searching"
  /\ runs' = (runs \ {r}) \cup
       {[r EXCEPT !.pc = "heading", !.comment = Managed, !.searched = TRUE]}
  /\ UNCHANGED <<row, jobs, claims, lock>> /\ UNCHANGED prVars /\ UNCHANGED siteVars

AssertHead(r) ==
  /\ r.pc = "heading"
  /\ GoTo(r, IF remote = HeadOf[r.analysis] THEN "checking" ELSE "superseded")
  /\ UNCHANGED <<row, jobs, claims, lock>> /\ UNCHANGED prVars /\ UNCHANGED siteVars

BeforeWrite(r) ==
  /\ r.pc = "checking"
  /\ GoTo(r, IF Context(r.analysis) /\ StillTarget(r.analysis) THEN "writing"
                                                              ELSE "superseded")
  /\ UNCHANGED <<row, jobs, claims, lock>> /\ UNCHANGED prVars /\ UNCHANGED siteVars

\* GitHub executes the POST or the PATCH of a run and the comment is c.
Written(r, c) ==
  \/ /\ r.comment = None
     /\ Len(comments) < MaxComments
     /\ c = Len(comments) + 1
     /\ comments' = Append(comments, r.analysis)
  \/ /\ r.comment \in Live
     /\ c = r.comment
     /\ comments' = [comments EXCEPT ![c] = r.analysis]

Write(r) ==
  /\ r.pc = "writing"
  /\ \E c \in 1..MaxComments :
       Written(r, c) /\ runs' = (runs \ {r}) \cup
                          {[r EXCEPT !.pc = "recording", !.comment = c]}
  /\ UNCHANGED <<row, jobs, claims, lock, strayed>> /\ UNCHANGED prVars

\* The request is executed, its answer is lost and the call throws.
WriteUnanswered(r) ==
  /\ r.pc = "writing"
  /\ \E c \in 1..MaxComments : Written(r, c)
  /\ GoTo(r, "failing")
  /\ lock' = Unlocked(r)
  /\ UNCHANGED <<row, jobs, claims, strayed>> /\ UNCHANGED prVars

\* The comment is gone, 404: the stored id falls back to the search.
CommentGone(r) ==
  /\ r.pc = "writing"
  /\ r.comment # None /\ r.comment \notin Live
  /\ IF r.searched THEN GoTo(r, "failing") /\ lock' = Unlocked(r)
                   ELSE GoTo(r, "searching") /\ UNCHANGED lock
  /\ UNCHANGED <<row, jobs, claims>> /\ UNCHANGED prVars /\ UNCHANGED siteVars

\* Any statement or request fails; the finally clause frees the lock.
Throw(r) ==
  /\ r.pc \in Critical \cup {"locking", "returned"}
  /\ lock' = Unlocked(r)
  /\ GoTo(r, "failing")
  /\ UNCHANGED <<row, jobs, claims>> /\ UNCHANGED prVars /\ UNCHANGED siteVars

-----------------------------------------------------------------------------
(* Lost sessions, crashes and stray requests *)

\* The database session breaks while the request is on its way; the server
\* frees the lock.
LoseSession(r) ==
  /\ r.pc = "writing"
  /\ lock' = Unlocked(r)
  /\ GoTo(r, "orphaned")
  /\ UNCHANGED <<row, jobs, claims>> /\ UNCHANGED prVars /\ UNCHANGED siteVars

\* The process dies, its request may be on its way.  Outside its critical
\* section a dead run does not differ from one that takes no more steps.
Crash(r) ==
  /\ r.pc \in Critical \cup {"orphaned"}
  /\ lock' = Unlocked(r)
  /\ IF r.pc \in {"writing", "orphaned"} THEN GoTo(r, "adrift") ELSE runs' = runs \ {r}
  /\ UNCHANGED <<row, jobs, claims>> /\ UNCHANGED prVars /\ UNCHANGED siteVars

\* The sender of a stray request ends: a live one sees its session broken.
StrayEnds(r) ==
  IF r.pc = "orphaned" THEN GoTo(r, "failing") ELSE runs' = runs \ {r}

\* GitHub executes a stray request.
StrayWrite(r) ==
  /\ r.pc \in {"orphaned", "adrift"}
  /\ \E c \in 1..MaxComments : Written(r, c)
  /\ strayed' = TRUE
  /\ StrayEnds(r)
  /\ UNCHANGED <<row, jobs, claims, lock>> /\ UNCHANGED prVars

StrayLost(r) ==
  /\ r.pc \in {"orphaned", "adrift"}
  /\ StrayEnds(r)
  /\ UNCHANGED <<row, jobs, claims, lock>> /\ UNCHANGED prVars /\ UNCHANGED siteVars

-----------------------------------------------------------------------------
\* The steps the code of a run takes as long as nothing breaks.
RunStep(r) ==
  \/ Acquire(r) \/ Withdraw(r) \/ LoadPublication(r)
  \/ MarkPublishing(r) \/ SearchManaged(r) \/ AssertHead(r) \/ BeforeWrite(r)
  \/ Write(r) \/ CommentGone(r) \/ Record(r) \/ EndJob(r) \/ FailJob(r, TRUE)

Disturbance(r) ==
  \/ Throw(r) \/ WriteUnanswered(r) \/ FailJob(r, FALSE) \/ LoseSession(r) \/ Crash(r) \/ StrayWrite(r)
  \/ StrayLost(r)

Next ==
  \/ \E p \in Positions : MoveRemote(p)
  \/ Observe
  \/ \E a \in Analyses : PersistReport(a) \/ Claim(a) \/ Recover(a)
  \/ \E c \in Live : DeleteComment(c)
  \/ \E on \in BOOLEAN : SetPublishing(on)
  \/ EnqueueLatest
  \/ DisableRows
  \/ \E r \in runs : RunStep(r) \/ Disturbance(r)

Spec == Init /\ [][Next]_vars

\* Nothing fails: no exception, no lost lease or session, no crash.
UndisturbedNext ==
  \/ \E p \in Positions : MoveRemote(p)
  \/ Observe
  \/ \E a \in Analyses : PersistReport(a) \/ Claim(a)
  \/ \E on \in BOOLEAN : SetPublishing(on)
  \/ EnqueueLatest
  \/ DisableRows
  \/ \E r \in runs : RunStep(r)

\* Workers poll for jobs, a run takes its next step, and a route that changed
\* the setting goes on to its second statement.
UndisturbedSpec ==
  /\ Init /\ [][UndisturbedNext]_vars
  /\ WF_vars(EnqueueLatest) /\ WF_vars(DisableRows)
  /\ \A a \in Analyses : WF_vars(Claim(a))
  /\ \A n \in 1..MaxClaims : WF_vars(\E r \in runs : r.claim = n /\ RunStep(r))

-----------------------------------------------------------------------------
(* Properties *)

\* One managed comment: retries after lost answers, deleted comments, stale
\* runs and new analyses update the comment that is there or replace one that
\* is gone, unless GitHub executed a request whose sender had lost the lock.
OneComment == ~strayed => Cardinality(Live) <= 1

\* A row that says published names its target, and the comment shows it as
\* long as it is there.
PublishedIsShown ==
  row.state = "published" =>
    /\ row.published = row.target
    /\ strayed \/ comments[row.comment] \in {row.published, None}

\* A comment never goes back to an older analysis: late jobs, retries of a
\* write whose result was not recorded and stale runs do not overwrite a newer
\* report, unless their request strayed.
NewestStays ==
  [][\A c \in DOMAIN comments : comments'[c] # None =>
       comments'[c] >= comments[c] \/ strayed']_vars

\* What the row records as published never goes back, even when the target
\* moved during the write and even with stray requests.
PublishedAdvances == [][row'.published >= row.published]_vars

\* docs/operations/deployment.md:253: switching the publication off and on
\* queues the latest report again.  So if it stays on, nothing fails and the
\* newest report is of the head, that report is published.
ReenabledIsPublished ==
  \A a \in Analyses :
    <>[](publishing /\ tails = {} /\ a \in Eligible /\ \A b \in Eligible : b <= a)
      => <>(row.published = a)

=============================================================================

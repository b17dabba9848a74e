# TLA+ verification of git-code-reviewer

This directory holds a formal model of git-code-reviewer: of its server side, a
Fastify server and any number of workers that share one PostgreSQL database
and act on GitHub, and of the cache of published knowledge that the local
processes of a user share. The modules are written from the code under
`apps/runtime/src`, `packages/db/migrations`, `packages/github/src` and
`packages/client-core/src`; each definition that models code is mapped to its
lines in `PROJECT.json`. TLC
checks small instances, TLAPS proves the central results for every instance.

## The system

| Component | State it keeps | Operations | What makes it hard |
| --- | --- | --- | --- |
| Job queue (`jobs/worker.ts`, `jobs/recovery.ts`, `services/analysis-checkpoint.ts`) | `jobs`, `job_attempts` | enqueue, claim, heartbeat, fence, complete, fail, defer, recover, drain, cancel, retry | leases that run out under a live worker, crashes between two transactions |
| Review pipeline (`worker.ts` bodies, `services/operations.ts`) | `operations`, `snapshot_requests`, `snapshots`, `analysis_runs`, `reports` | refresh, materialize, analyze, publish the report, fail | a job re-run after its commit, state machines written by several jobs |
| PR publication (`services/review-publication.ts`, `packages/github`) | `github_review_publications`, the managed comment on GitHub | enqueue, publish, toggle | remote writes that are not transactional, targets that move meanwhile |
| Review tasks, resume, reanalysis (`services/review-task-store.ts`, `analysis-resume.ts`, `analysis-reanalysis.ts`) | `analysis_review_tasks`, checkpoints, revisions | plan, claim, complete, block, resume | resumed plans, concurrent resume requests |
| Model admission (`services/model-admission.ts`) | `model_account_capacity`, `model_request_ledger` | reserve, heartbeat, finish, cooldown | several workers behind one quota, expired reservations that answer late |
| Chat runs (`services/chat-agent.ts`, `routes/chat-runs.ts`) | `chat_runs`, messages | create, claim, cancel, instruct, finish | cancellation racing completion, one active run per session |
| Criteria and knowledge (`services/criterion-*.ts`, `knowledge-*.ts`) | criteria, revisions, generations, manifests | generate, approve, publish, retire, recheck | publication that must not fall behind or run ahead of approvals |
| Review memory (`services/review-memory.ts`) | memory entries and sources | propose, approve, withdraw, promote | personal data must not become collective |
| Identity (`identity/*`, `auth/*`) | users, epochs, sessions, remote leases, SAML requests | provision, deactivate, reactivate, revoke, log in | a remote realm and a database that change apart |
| Polling and registry (`services/repositories.ts`, `registry-deletion.ts`, `routes/worklist.ts`) | repositories, pull requests, poll states | poll, persist, register, delete | two observations of one pull request, deletion under work |
| Local client (`packages/client-core`, `packages/client-executors`, `apps/cli`) | service jobs, central cache, local records | schedule, watch, review, synchronise | a cache that outlives its lease, concurrent local processes |
| Analysis engine (`packages/analysis-engine`) | none | plan, window, bound, parse | boundaries of windows and budgets |
| Web UI, CLI output, deployment | none of its own | rendering, packaging | none a model would show |

Components call each other through the database: the server inserts rows, the
workers claim them, and every transaction that publishes a result first locks
the job row and checks that its attempt still holds the lease. Advisory locks
serialise work on one pull request. GitHub, the model providers and the
identity realm are external and answer late, twice or never. Local processes
know the server by the manifests it issues; among themselves they share a store
with a compare-and-swap of one record.

## Plan

The order follows what a wrong step costs: first the queue, on whose fence
every published result rests, then what is written to GitHub, then what users
see of a refresh, then the parts that spend model quota and talk to users.

| Step | Module | Composition and abstraction | Properties worth having | State |
| --- | --- | --- | --- | --- |
| 1 | `JobLease`, `JobQueue`, `JobQueueProofs` | `JobQueue` implements `JobLease` | single holder, budgets, endings, refinement | done, proved |
| 2 | `ReviewPublication`, `ReviewPublicationProofs` | uses the queue through claim, recovery and end of a job | one comment, no overwriting by older reports, a truthful row | done, proved |
| 3 | `ReviewPipeline`, `ReviewPipelineProofs`, `PipelineLease`, `PipelineLeaseProofs` | the bodies that `JobQueue` abstracts to commits; with a history of who wrote a report it implements `JobLease` | reports and states agree, nothing shown in progress is forgotten, one report under the attempt that holds the job | done, proved except `AbandonedStays`, which does not hold |
| 4 | `ModelAdmission`, `ModelAdmissionProofs` | the callers of steps 3 and 6 as transports that ask again and again | slots, budgets and cooldown under several workers | done, proved |
| 5 | `ReviewTasks` | composed with step 3 through resumption | no task lost or done twice over attempts and resumes | planned |
| 6 | `ChatRun`, `ChatRunProofs` | the executions, questions, instructions and cancellations of a session; the queue is its own | message and run agree, instructions not lost, endings, every run ends | done, proved except liveness |
| 7 | `KnowledgeFeed`, `KnowledgePublication`, `KnowledgePublicationProofs`, `CentralCache`, `KnowledgeDelivery`, `CentralCacheProofs`, `KnowledgeSystem` | `KnowledgePublication` implements `KnowledgeFeed`, `CentralCache` runs against it, `KnowledgeDelivery` adds a history of what was on offer; `KnowledgeSystem` composes publication and cache and implements `KnowledgeDelivery` | releases say what their sources say, but for two changes that no trigger sees; no rollback, no incomplete snapshot; what is read was on offer less than a lease ago | done, proved, except that a lost denial does not hold |
| 8 | windows, impact plan, bounded concurrency of the analysis engine | functions against reference definitions | coverage of every line, budgets kept | planned |

## Modules

### JobLease (abstract)

What the queue promises: a job is granted under increasing tokens, a result is
committed only under the token that is held, a one-shot result is committed
once, a kept result is never given up and an ended job is reopened by a user
only. It knows nothing of leases, attempts, heartbeats or workers.

### JobQueue

The tables `jobs` and `job_attempts` and every operation on them. One SQL
transaction is one action; what a worker remembers between two transactions is
a record in `runs`. A run whose lease is lost stays in `runs`: it goes on until
a fence stops it, as in the code, and a process may have two runs of one job.

| Variable | Code |
| --- | --- |
| `jobs` | rows of `jobs`; `lease` counts the heartbeat periods left, `due` is `available_at <= now` |
| `attempts` | `job_attempts`, indexed by `attempt_number`; `open` is `ended_at is null` |
| `commits` | attempts whose body transaction stored a report, a snapshot or the collected history |
| `runs` | `executeJob` calls in progress, with the attempt and `max_attempts` they were claimed with |
| `draining` | `stopping` of `runWorker` |
| `retrying`, `retries` | history retries between authorization and update, and how many were applied |
| `deletion` | the transaction that deletes the repository: not begun, or reading with the jobs its query saw, or committed (`deleted_at`) |

Notes on the abstraction. The body of a job is its committing transaction (a
fence followed by writes), a skip when the result is there, or an exception.
History collection commits in two fenced transactions of which the second sets
`completed_at`; the model has that one. It looks whether its item is complete
only when it begins, and the update has no condition but the fence, so nothing
but the lease keeps a second run from collecting again. `failJob` looks for the
report in one transaction and fails the job in a later one, behind the fence: the
two steps of a run between its exception and its end. Recovery takes at most 20
rows a time; the model recovers one row per step. Chat, criteria and knowledge
tasks share the slots of a worker: `Concurrency` is an upper bound on job runs. A
stop that arrives while `claimJob` waits is ordered after the claim.

A deletion takes two steps. At READ COMMITTED its query sees the active jobs of
its own moment (`ListJobs`) and waits for the locks of their rows; then it is
refused if one of them runs, or cancels them (`DeleteRepository`). It may also roll
back. A snapshot is enqueued under a lock that a deletion excludes and a
publication reads that the repository is there, but a reanalysis inserts its job
without looking at the repository, and a history retry was authorized earlier:
such jobs, and those that a completing snapshot adds in between, are missed and
run for a deleted repository. `SeenAreEnded` therefore speaks of the jobs the
query saw, and of no others.

### ReviewPublication

The publication of reports to one pull request. No transaction spans the
database and GitHub, so every statement and every HTTP request of a run is an
action and any of them may fail. The advisory lock is held by a database
session: when the session or its process dies, the server frees the lock while
the request may still be on its way. Such a request strays, and GitHub executes
it later or never.

| Variable | Code |
| --- | --- |
| `local`, `remote` | head and state in `pull_requests`, and on GitHub |
| `publishing` | `repositories.review_publishing_enabled` |
| `reported` | analyses with a row in `reports` |
| `row` | the row of `github_review_publications` |
| `jobs`, `claims`, `runs` | publication jobs, claims so far, calls of `publishReviewToGitHub` in progress with the analysis, the comment id and the step they are at |
| `lock` | the holder of `pg_advisory_lock(github-review-publication:...)` |
| `comments` | what each comment with the marker shows, `None` when it was deleted |
| `tails` | PATCH requests between their two statements |
| `strayed` | GitHub has executed a stray request (history variable) |

Notes on the abstraction. Analyses are numbered in the order
`(created_at, id)` that the code compares. A position of the pull request is a
head, or closed. The queue is reduced to claims, recoveries and fenced ends:
`JobQueue` has the rest. `Acquire` takes the lock and loads the context in one
step, because the lock excludes only other runs and a change between the two
may as well happen before. A crash outside the critical section leaves nothing
behind and is a run that takes no more steps. A change of the credential or of
the comment priority makes `beforeWrite` throw, which `Throw` covers. Polls
arrive in order.

### ReviewPipeline

Operations, analyses and the snapshot and analysis jobs of one pull request.
The same reduced queue; here a body runs again after its commit when its job
was not completed, because the process died or the lease was lost in between.

| Variable | Code |
| --- | --- |
| `head`, `open` | `pull_requests` as last polled |
| `operations` | `operations`; `scope` is the owner part of `dedupe_key`, `Own` for the keys of resumes and reanalyses |
| `analyses` | `analysis_runs`, `report` says whether `reports` has one, `from` is `resume_from_analysis_id` |
| `jobs`, `claims`, `runs` | snapshot jobs (`analysis = None`) and analysis jobs, and their executions |
| `deletion` | as in `JobQueue` |
| `shadowed` | operations whose job the insert dropped (history variable) |
| `reopened` | operations written by a run that had lost its job (history variable) |

Notes on the abstraction. `snapshot_requests.state` is left out: the code
writes it and never reads it. The waits of a job for a retry, for model
capacity or for a stopping worker are one outcome of `FailJob`. Any failure may
be the last, since some errors are not retried. The look for the report after an
exception (`Throw`) and the fenced failure (`FailJob`) are two steps: recovery may
take the job, and another run write the report, between them. Deletion is as in
`JobQueue`, and a reanalysis, which looks at the snapshot and not at the
repository, may come between its steps or after them. Users have at most five
active operations in the code; the model has fewer. Publication starts where
`PersistAnalysis` ends.

### ModelAdmission

Workers that send requests to model providers under shared accounts. The
functions in SQL serialise on the run, by an advisory lock, and on the account,
by its row; everything around them (marking a request as sent, the request
itself, the timer, the end) is a statement of its own and may come after the
lease ran out.

| Variable | Code |
| --- | --- |
| `callers` | calls of `admittedFetch`: where each is, its reservation, and the outcome it is about to record |
| `ledger` | `model_request_ledger` in the order of insertion; `lease` and `recent` count the ticks left of the lease and of the minute |
| `accounts` | `model_account_capacity`: the cooldown, the priority and its run, the lease older workers look at (`sentinel`), the adaptive concurrency and its streak |
| `deadlines` | the latest retry time recorded (history variable) |

Notes on the abstraction. A reservation takes three steps (the run, the account
and the decision, the commit), because two transactions that are not kept
apart by the locks would interleave there; what one transaction reads of the
clock is one tick. The budget of bytes has the form of the request window and
is left out, and so are deadlines of jobs, requests for tokens, and
`reservation_id`, which no function sets since migration 0030. A retry time is
any number of ticks. A refused batch waits and asks again, or its job is
deferred and asks again: both are the idle caller. An interactive request that is
refused asks for the priority of its account only if its caller does not wait
(`Waits` are those that do: reviews, and the generation of criteria). A consumer may never read a
body to its end: no fairness is assumed.

### ChatRun

The runs of one chat session. A run is claimed under a new fence, works with
the copy it loaded, and writes through `persistRun`, which checks fence, lease
and cancellation; between two transactions anything may happen.

| Variable | Code |
| --- | --- |
| `rows` | `chat_runs`: status, fence, lease in ticks, `due` for `resume_after`, `expired` for the 24 hours, and of the checkpoint the pending tool calls and the instructions heard |
| `messages` | status of the assistant message of each run |
| `instructions`, `questions` | `chat_run_instructions`, `chat_questions` |
| `requests` | requests of each run in `model_request_ledger` |
| `execs` | calls of `executeAgentRun` in progress, with their copy of the checkpoint |
| `losses`, `waits` | crashes and stalls, and waits for capacity, for the bounds |

Notes on the abstraction. What tools and models return is data: a tool call is
a question to the user or anything else, an answer is a sequence of tool calls,
empty for the last one. The budgets of tool calls and bytes change outputs
only; withdrawn access, invalid evidence and errors of statements are `Throw`.
Limits of usage when a run is created are left out. A lease that runs out under
a live execution is a stall and counts as a loss. The content of a partial end
is not modelled: any end that the code may choose is possible.

### KnowledgeFeed (abstract) and KnowledgePublication

`KnowledgeFeed` is what a client may rely on: no manifest is offered while a part
of the knowledge is pending, a change of access leaves every part pending, only a
release ends the waiting, and its sequence rises with every difference. It does
not promise that a part is pending as soon as its source differs, because two
sources change unseen (below). `KnowledgePublication` is how the server does it:
triggers of migration 0039 that raise the requested revision of every part a
transaction may change, workers that claim a part, project it from a snapshot and
publish it if the revision is still the one that was claimed.

| Variable | Code |
| --- | --- |
| `memory`, `approved` | `review_memories`, one of each scope, and the version approved for publication |
| `criterion` | the active revision of a criterion, and what its decision cites: the collective memory in a version, or a message of a pull request, and whether that is as it was (`source`) |
| `exception` | an exception of that revision: granted, or past its `expires_at` and not yet reconciled |
| `large` | parts whose approved content exceeds the limit of a component |
| `access` | whether repository, tenant and instance are enabled; rights of the user who owns the personal memory, gave the approvals and owns the exception |
| `revision` | `review_knowledge_security_state.authorization_revision` |
| `scope` | `review_knowledge_scopes` with the content of the current release |
| `runs` | `publishKnowledge` in progress: where it is, the part, the revision it claimed and what it projected |

Two changes are seen by no trigger. The hash of a cited message includes
`pull_requests.base_sha`, which a poll rewrites (`MoveBase`); and an exception
leaves the projection when its time is over (`Expire`), while the policy is asked
for when the deadlines are reconciled, once a minute (`Reconcile`). Until then a
part with nothing pending may say what it said before, and the next release, for
whatever reason, may say either. `MaySay` is the set of what a part may say given
those two; `ReleaseMatchesSource` holds every released part to it. For the
memories, and for everything about a criterion but these two, it has one element.

A projection throws, and goes on throwing on every retry, when the repository, its
tenant or its instance is disabled or deleted, when the user of a personal part may
no longer read, and when the content is over its limit (`Unprojectable`; the test
`knowledge-publication.integration.test.ts:593-616` expects the last of them).
`EveryRequestIsPublished` therefore promises an end only to a part that can be
projected.

Notes on the abstraction. One memory of each scope and one criterion with one
exception stand for all; each version differs. `Decide` merges the decision on a
draft with its activation; a criterion that cites a snapshot or a change is left
out, because all of its sources have triggers (0049), and so are skills, manual
sources, the approval of severities by an owner, and the review dates and start
times that the same reconciliation handles. The right to grant an exception is checked before
the transaction that grants it, so `Grant` does not look at it. A run that lost its
claim gives it up in the step in which it notices: the row is keyed by its token,
so nothing can come between.

### CentralCache

The processes of one user and the index they share. Every write of the index is
a compare and swap: reading it and writing it is one step, and any write may
fail with or without effect, as a failed write of a file may. Downloads and
writes of bundles are steps of their own; so are the answers of the server,
whose part `KnowledgeFeed` plays.

| Variable | Code |
| --- | --- |
| `index` | the record `settings/snapshot`: generation, status, claim and its deadline (`live`), minimum sequences (`floors`), the two failure marks, the active snapshot |
| `records` | bundles in the store |
| `procs` | `synchronize`, `disable` and the clean-up after them, per process; `denied` is `revoked` of the instance |
| `call` | the refusal of another request, because access is gone or because the identity cannot be established, on its way to `rejectAuthority` |
| `now` | periods of the manifest |
| `epoch`, `newest`, `denial` | history variables: connections so far, the newest releases ever activated, a denial that the holder of the claim received |

Notes on the abstraction. The generation serves as the token of a claim, since
each claim raises it. Both branches of `rejectAuthority` are modelled: a denial
ends the connection, an identity that cannot be established takes the claim away
and bars the reads until a synchronization succeeds. What is left out of the latter
is `identityUnavailableGeneration` of the instance: the persisted mark bars the same
reads. `disable` looks at no status, and neither does `Disable`. Bundles are fetched one
after the other in one fixed order (`Following`). `revocationMinimumSequences` equals
`minimumSequences` with this server. Listing the bundles and the answer of the
server are one step. `observeSnapshot` only reads. The loop that calls
`synchronize` is not modelled. `MaxEvents` bounds generations, periods, changes of
the server and faults together (`Affordable`), beside a bound for each, so that a
long history is explored with few of them and a short one with many.

### PipelineLease

`ReviewPipeline` with one history variable, `committed`: the attempts of the runs
that wrote the report of a job. It maps the pipeline to `JobLease`: a snapshot
job is known by its operation and an analysis job by its analysis, because rows
are appended and jobs have no names of their own; a job without a row is absent.

### KnowledgeDelivery

`CentralCache` with one history variable, `said`: what was on offer as a whole, in
each period, while the user was allowed to know it. It lets `ReadsWereOffered`
relate what a process reads at the end to what the server released at the
beginning, over manifest, bundles, activation and the offline lease. What a release
owes to its sources is not the client's to know.

### KnowledgeSystem

The publication and the cache in one module: a step is one of
`KnowledgePublication` or one of the client of `CentralCache`, whose server is no
longer `KnowledgeFeed` but what a manifest is issued from. `Client` maps it to
`KnowledgeDelivery`: a part is pending while a revision is requested that is not
published, or none was requested yet. The client counts a step of the server as an
event when something is asked for again (`Asked`): each change of the sources asks
at most once, and an expired exception once more, which gives the bounds under which
`Client` is instantiated. Beside `said` it has a second history, `facts`: what the
parts might say (`MaySay`) in each period in which the user could read.
`ReadsMatchSources` relates the two ends of the whole way, a read and the memories,
criteria, exceptions and rights behind it. The client asks at any time, in particular before
the first release.

### The runs

`MCJobQueue` names an analysis, a publication and a history collection (a
snapshot job differs from a publication only in what its result is, and the
proofs cover it); `MCReviewPublication` and `MCReviewPipeline` name heads and a
user, `MCModelAdmission` the accounts, runs and lanes of three callers,
`MCChatRun` the plans of the model; `MCKnowledgePublication` and
`MCCentralCache` add nothing to their modules. `PipelineLease` and
`KnowledgeSystem` have proofs and no run.

| Run | Instance | Question |
| --- | --- | --- |
| `job_lease` | one analysis, two workers with two slots, under fairness | stale runs and recoveries against the fence, refinement of `JobLease`; the job ends |
| `job_mix` | a history collection and a publication, one worker | who commits, budgets and endings under retries by hand and a deletion in two steps; are the jobs it saw ended? |
| `publication` | two reports of one head, three claims, two comments, one event | one comment, its content, the row, under every failure |
| `publication_reenabled` | one report, two changes of the setting, no failure | is a report published after publishing is switched on again? No |
| `pipeline` | two heads, one user, two operations and analyses, three claims, two slots | reports and states agree, nothing in progress without a job |
| `pipeline_abandoned` | the same | is giving up a job final for its operation? No |
| `admission_shared` | two reviews and a generation of criteria under one account, one request each, one batch slot, leases of two ticks | slots, window and the lease for older workers, under late and lost statements |
| `admission_group` | two grouped reviews under one account, a call of one of them under a second account, budgets of two and one | budget over accounts, retry times out of order, adaptive concurrency |
| `chat` | one run, one instruction, three model calls, one loss, one wait; the model answers, asks, or asks and reads | message and run, questions, instructions, endings; every run ends |
| `knowledge` | the policy and a personal memory, two workers, two changes, or one change and one fault | what may slip past a release and what may not, the feed is implemented, every request is published unless its part cannot be projected |
| `client_cache` | two processes, two parts, two contents, three generations and the step to a fourth, two periods with a lease of two, one fault, four events in all | completeness, no rollback, one connection's snapshot only, denials of that connection only; what is read was on offer as a whole less than a lease ago |
| `client_denial` | two processes, one part, an access taken away, two faults | does a received denial survive the loss of the claim? No |

Limits of 1 or 2 replace 3, 5 and 50: each limit is reached and passed in every
run, which is what the limits are about. A lease lasts one or two missed
heartbeats, so a heartbeat can come in time, late and after recovery. Three
claims let a run be stale while a second one writes and a third one, of the
other report, starts; the second comment is what a duplicate would be; an event
is a move of the head, a deleted comment or a change of the setting. In the
pipeline three claims allow a snapshot, its analysis and the repeated snapshot,
or a stale run beside both; two operations allow a dropped insert, since a
pull request may be seen closed between two heads. Three requests are enough
for one whose lease ran out, one in its slot and one in the other lane. A
retry time of two ticks and one of one tick make the order of their recording
visible. Three model calls are one with tools, one that may still follow an
instruction, and the last one, in which tools are switched off. With two
changes the second one can fall between the snapshot and the release of the
first one, the base of a cited message can move and return, and an exception can
be granted and run out; the safety properties were also checked once with three
changes (2,295,712 states). The collective part differs from the personal one by a
right and is covered by the proofs. Two parts let two moments of the server mix in
one snapshot, two periods let a manifest, and the lease of what is read, run out
after a change. Four generations are a synchronization, one that supersedes it, a
disconnection and a new connection, in any order; from the fourth nothing is
explored further (`WithinBounds`). A deletion may come once in `job_mix` and
`pipeline`, and roll back any number of times. These
instances stop at their bounds, and an ended run stops by itself: deadlock is
not checked where the configurations say so.

Fairness of `JobQueue` (`FairSpec`): time passes (leases expire, jobs become
due); every live worker recovers each 10 seconds; claims are strongly fair
because a worker that stops interrupts its claim loop and another one starts;
the steps of a run are weakly fair because every wait in a body has a timeout.
Enqueueing, deletion, retries, stops and crashes are not fair. Fairness of
`UndisturbedSpec`: workers claim queued jobs, a run takes its next step and a
PATCH request goes on to its second statement. Fairness of `ChatRun`: workers
sweep and claim, time passes for leases, retry times, the 24 hours of a run and
of a question, and executions take their next step; users need not act, and
losses are bounded, since a run has no bound on its attempts. Fairness of
`KnowledgePublication`: runs go on, retry times come, claims expire, the
deadlines are reconciled by the loop that also publishes, once a minute, and
claims are strongly fair for each part because they are taken in the order of
`retry_after, id` and a failure puts a part off: a part that comes up again and
again is not passed over for ever.

## What the runs found

`publication_reenabled`: an administrator switches publishing off; the job of
the latest report is claimed, finds publishing off and disables the row;
before it is completed publishing is switched on. `enqueueReviewPublication`
inserts the job again, but the unique index on active keys has the old one and
`on conflict do nothing` drops it. The old job ends. Nothing publishes the
report until the next one, although `docs/operations/deployment.md:253` tells
the operator to queue it in this way.

`pipeline_abandoned`: the transaction of a snapshot job commits, the process
dies, and the recoveries are used up. The operation is failed, and the
analysis that was queued by the commit completes it later, against
`docs/operations/interactive-chat.md:33`.

`client_denial`: a process is told that its access is gone, and its claim
expires before it writes that down. The process that takes the claim over
cannot reach the server and gives the claim up; the snapshot from before the
denial can be read offline again, although nobody resynchronized, against the
comment at `packages/client-core/src/central-cache.ts:207-210`.

Behaviours that no document speaks about, and that are in the models, are
listed with their lines in `PROJECT.json`, most as hazards without a property:
rows that stay `pending` after the report was published, operations that stay
active without a job, analyses that stay `analyzing` after a deletion, and jobs
that are enqueued while a repository is being deleted, or after it, and run for it.
A criterion is published although the base of the pull request it cites has moved,
and an exception up to a minute after its end, while
`docs/operations/review-knowledge-publication.md` names triggers for the changes of
sources and reconciliation for deadlines. A part that cannot be projected is tried
again for ever, and while it is pending the user is offered nothing.

## Proofs

`JobQueueProofs` proves, for any jobs, executors and limits, the type
invariant, the safety invariants and action properties of `JobQueue`, and that
it implements `JobLease`. The properties are not inductive by themselves. `Inv`
adds to `TypeOK`: the attempts of a job, its open attempt and its row agree
(`AttemptsInv`); what the row may still grant (`BudgetInv`); the attempt of a
run exists, a run whose attempt is the running one remembers the budget of the
row, and it completes a job only when there is a result (`RunsInv`); an
analysis and a collection have at most one result, and a published job is
running or completed (`ResultInv`); only collections are retried
(`RetryInv`); and the jobs a deletion saw are ended when it is committed, but for
the collections that are retried (`SeenInv`). That a collection is completed once follows from the lease
alone: when a run found no result, only later attempts have stored one since
(`RunKnows`), and there is none while the run holds its job. One lemma per action, then one theorem per
property from `Inv`.

The assumptions are those of the constants: a type for every job, a value that
is no executor, positive limits.

`ReviewPublicationProofs` proves, for any analyses, heads and bounds, the type
invariant and the four safety properties of `ReviewPublication`. Its `Inv` adds
to `TypeOK`: claims tell runs apart and a run in its critical section holds the
lock (`LockInv`), so that only one run at a time can rely on what it read; the
analysis of a job has been the target (`JobInv`); what a run relies on
(`RunInv`), namely that it publishes something newer than what the row records,
that no comment is there if it found none, that what it is about to write is
not older than any comment and what it is about to record is shown; at most one
comment is there and none is newer than the target (`CommentInv`); and
a published row is what its comment shows (`RowInv`). Where a clause is about
comments it holds unless a stray request was executed: such a request is the
only way past the lock. A run outside the critical section relies on nothing
but the target, which only advances (`IdleRun`), and two lemmas cover the steps
that leave the comments alone (`OutsideStep`, `InsideStep`). The recording and
the writes have proofs of their own. The assumptions: analyses are positive
numbers in the order of their creation, every analysis has a head, and the
bounds are natural numbers.

`ReviewPipelineProofs` proves, for any heads, users, limits and bounds, the type
invariant and the three invariants of `ReviewPipeline`. `Inv` adds to them: jobs
refer to operations and analyses that are there, no two jobs are about the same
analysis, and no attempt is above the claims so far (`JobsInv`); an attempt has
one run, none is of an attempt that is yet to come, a run that returned from
an analysis left a report, and what a run saw of the report after an exception is
still so when it writes, if it still holds its job (`Looked`, both in `RunsInv`). `OperationIsServed` needs more than
that there is an active job: the job could be completed by a run that already
returned, and leave the operation as it is. So `OperationsInv` asks for a job
that still has something to do (`Carries`): it has no report and its current run
did not return. Whoever ends such a job ends the operation, or hands it on to a
job that carries it. `GrownInv` covers every action that only appends rows
(polls, refreshes, resumptions, repetitions), and the snapshot job, which hands
an operation from its own job to that of the new analysis, has a proof of its
own. The assumptions: users are neither of the two scopes with a name, the first
commits are among the heads, and the limits are natural numbers.

`PipelineLeaseProofs` proves that the pipeline implements `JobLease`, the same
promise as the queue, although a body runs again after its commit and goes on
after it lost its job. `LInv` adds to `Inv` what the map needs: two rows are never
the same job of the abstraction (`Distinct`), so that a step of one row moves one
job, and an analysis has a report exactly when the history holds an attempt for
its job (`RecordedInv`), so that a second report, or a release of a job that has
one, would be seen. Lemmas about rows that are kept, moved and added carry these
over every step (`RowKept`, `RowMoved`, `RowAdded`). `ReportsAreSettled`
then follows from the promise alone (`Settled` of `JobLease`): one author of a
report, a report for every completed analysis, no loss of a job that has one.
Nothing is assumed beyond `ReviewPipeline`.

`ModelAdmissionProofs` proves, for any callers, accounts, runs and limits, the
type invariant and all properties of `ModelAdmission`. `SlotsKept` is about
requests, the code counts entries: `Inv` has the limits of the slots for active
entries (`ActiveInv`), says that callers own different entries of their account
(`OwnersInv`), and that an ended entry has no lease (`EntriesInv`), so that
whoever still has a lease is counted. A reservation decides in one step and
inserts in another: `LocksInv` says that the two locks exclude, `GrantsInv` that
what was decided in favour would still be when it is inserted. Only
`CommitGranted` adds to the sets that are counted, and has a proof of its own;
every other step shrinks them (`Shrinks`, `ShrinkStep`), also one that marks a
swept entry as sent or ends it again, and an account it changes meanwhile is not
one that something was decided for (`WriteStep`). Time passes in `TickInv`.
`RetryAfterKept` and `GroupKept` follow from `Inv` and from which steps grant and
reserve (`GrantingSteps`). The assumptions: every caller has an account, a run
and a lane, and the limits and budgets are natural numbers, positive where zero
would admit nothing.

`ChatRunProofs` proves, for any runs, instructions, plans and limits, the type
invariant and the safety properties of `ChatRun`. `Inv` adds to them: only a
running run, or one being cancelled, is leased (`LeaseInv`), so that nothing an
old execution writes can come after an ending; every instruction that was
applied is in the checkpoint, and in the copy the current execution works on
(`HeardInv`); a run that waits has one open question, which is that of the call
it goes on with (`QuestionsInv`); and a tool is only run for a call at hand
(`ToolsInv`). `PersistInv` covers the fenced statement by which
an execution writes its row, `ExecStepInv` the steps of an execution that write
none, `RowStep` and `StatusStep` what routes and recovery do to the status;
asking a question, answering it and the claim, which write more, have proofs of
their own. `EndingsHold` is an action property: `PersistKeeps` shows that no write
of an execution changes a run that ended. The assumptions: plans are sequences of
calls, bounds are natural numbers and positive where the code's are.

`KnowledgePublicationProofs` proves, for any parts, workers and bounds, the type
invariant, `ReleaseMatchesSource`, and that the publication implements
`KnowledgeFeed`. Its `Inv` adds to `TypeOK` that requests are in proportion to
changes, where an exception that ran out has one to come (`Bounds`, with `Spare`;
it also keeps sequences within those of the feed), and what a run may rely on
(`RunInv`): it never claimed more than is requested, what it holds the claim of is
still to be published, and what it projected may be said for as long as no more is
requested. One lemma about requests (`ChangeKeepsInv`) covers every change of a
source: a transaction keeps `Inv` if it asks for each part that might now say less
than it did. The two changes that ask for nothing keep it because they take nothing
from what the policy may say (`PolicyMayStill`, `UnseenLeaves`). The refinement maps
a transaction that asks to `Change` of the parts it touches or to `ChangeAccess`, a
release to `Release` and everything else to a stutter (`FeedCases`). The
assumptions: the parts are some of the three, a value that is no worker, natural
bounds.

The same module composes the two halves. `DeliveryImplemented`: with any client,
each step of `KnowledgeSystem` is a step of `KnowledgeDelivery` or not seen by
it. What is asked for is one event of the client's bound, so the proof needs that
events are in proportion to periods and changes (`SystemInv`, `AskingIsPaid`); a
step of the publication that shows nothing must leave the history alone, so it needs
that the history has heard of the present. `SystemInv` also says that whatever was
on offer, the sources allowed the parts to say together at that time (`Truthful`,
from `ReleaseMatchesSource`). `ReadersSeeWhatMightBeSaid` follows from it and from
`WhatIsReadWasOffered` of `CentralCacheProofs`, instantiated: what a process reads
is what memories, approvals, criteria, exceptions and rights allowed the parts to
say at one moment of the lease. The server of the cache is then the publication as
it is modelled, no longer an arbitrary `KnowledgeFeed`; what `KnowledgePublication`
leaves out is left out here too. Its hypothesis `ClientAssumption` is that of
`CentralCache` on its constants: a value that is no process, and natural bounds.

`CentralCacheProofs` proves, for any processes, parts and bounds, the type
invariant and the four properties of `CentralCache` that hold. The heart of its
`Inv` is `UseIsSafe`: a bundle that the active snapshot refers to, or a
synchronization that still holds the claim, is in the store and on nobody's list
of what to delete. `Fits` makes it inductive: what is listed for deletion is
older than the generation of a claim that was taken since, so nothing staged
under that claim can be on the list, and whatever is reused was needed already.
`Fits` and `CallInv` also say that generations tell connections apart, which the
two properties about connections rest on, `Shape` that a synchronization that has
nothing left to fetch holds one bundle for each part, and `FloorsInv` that the
minimum sequences of the index bound all that was active. Most steps change one
process and move the index without activating anything (`Moves`, `Settles`,
`QuietKeepsInv`), and a write of the index keeps `Inv` whether or not it takes
effect (`PutKeepsInv`). Fetching, activating and deleting have proofs of their
own. `OnlyOwnDenial` follows from `Inv` and from which steps revoke
(`OnlyDenialsRevoke`). The assumptions: a value that is no process, natural
bounds, and those of the server positive.

`WhatIsReadWasOffered` rests on a second invariant, `DeliveryInv`, over the history
of `KnowledgeDelivery`: the history has heard of the present, and every manifest
that is activated, or held by a synchronization that may still activate it, is
genuine: at the time it was issued all of it was on offer and the user was allowed
to know it (`Genuine`). What makes it inductive are two facts about every step of
the client: a process holds a manifest only if it held it before or was just
offered it (`ManifestsMove`), and the index activates only the manifest of a
process (`SnapshotMoves`); the clock moves by one period at most (`OneTick`). `Inv`
supplies the rest: the bundles of an active snapshot are those its manifest names.

## Only model-checked

Liveness (`EveryJobEnds`, `ReenabledIsPublished`, `EveryRunEnds`,
`EveryRequestIsPublished`), because the proof system has no rules for fairness
here. The runs check on small instances what the theorems state for all, with the
exception of `CommitOnce`, `CompletedIsDone`, `PublishedIsKept` (which the
refinement of `JobLease` also implies), `PublishedAdvances` and the results about
`PipelineLease` and `KnowledgeSystem`: these are proved, and no run repeats them.
`PipelineLease` was tried on instances that are too small, or too slow, to be worth
a run: one head, two operations and analyses and three claims, and two heads and
two claims. The two halves of `KnowledgeSystem` have the runs `knowledge` and
`client_cache`; together they are too large for one.

## Not modelled

The components without a module in the table of `PROJECT.json`, with the
reasons given there: authentication and administration are single rows
changed in one transaction, the artifact store, Git and the executors are I/O,
contracts and the web application keep no state. Rendering, prompts and the
content of reports are data that no property looks at. Of the client, the loop
that calls the cache, HTTP, signatures and the local reviews are left out: the
loop holds no state that outlives it, and the others are I/O around the calls
that are modelled.

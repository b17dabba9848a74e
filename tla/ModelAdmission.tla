--------------------------- MODULE ModelAdmission ---------------------------
(***************************************************************************)
(* The admission of model requests                                         *)
(* (apps/runtime/src/services/model-admission.ts and the functions of      *)
(* migrations 0030, 0056 and 0058): workers that send requests under       *)
(* shared accounts, the ledger of requests, and for every account its      *)
(* cooldown, the priority of an interactive run, the lease that older      *)
(* workers look at and the adaptive concurrency of grouped reviews.        *)
(*                                                                         *)
(* A reservation is a transaction with two locks: that of the run, then    *)
(* that of the account; what it decides is decided within one tick.  Every *)
(* other statement is one action.  Time is one clock, Tick, by which       *)
(* leases, cooldowns, priorities and the one-minute window run down.       *)
(***************************************************************************)
EXTENDS Naturals, Sequences, FiniteSets

CONSTANTS
  Callers,      \* transports that send one request after another
  Accounts,     \* quota keys
  Runs,         \* run keys
  AccountOf, RunOf,
  LaneOf,       \* "group", "batch" or "interactive"
  Waits,        \* callers that ask again when they are refused
  Concurrency,  \* the configured concurrency of a caller, at most 4 in the code
  MaxCalls,     \* the budget of each run
  BatchSlots,   \* requests of batch lanes at once, 2 in the code
  BatchBudget,  \* requests of an account per window that admit a batch request, 30
  Budget,       \* and an interactive one, 60
  GroupMax,     \* limit of the adaptive concurrency, 4
  RaiseAfter,   \* successes in a row that raise it, 8
  LeaseTTL, PriorityTTL, Window,  \* in ticks
  MaxRetry      \* bound of the model on the time a provider asks to wait, in ticks

ASSUME CallerAssumption ==
  /\ AccountOf \in [Callers -> Accounts]
  /\ RunOf \in [Callers -> Runs]
  /\ LaneOf \in [Callers -> {"group", "batch", "interactive"}]
  /\ Waits \subseteq Callers
  /\ Concurrency \in [Callers -> Nat \ {0}]
  /\ MaxCalls \in [Runs -> Nat \ {0}]

ASSUME LimitAssumption ==
  /\ {BatchSlots, GroupMax, RaiseAfter, LeaseTTL, Window} \subseteq Nat \ {0}
  /\ {BatchBudget, Budget, PriorityTTL, MaxRetry} \subseteq Nat

NoRun == "none"

VARIABLES
  callers,   \* what each caller is at and remembers
  ledger,    \* model_request_ledger, by order of insertion
  accounts,  \* model_account_capacity
  deadlines  \* history: the latest retry time recorded for each account

vars == <<callers, ledger, accounts, deadlines>>

-----------------------------------------------------------------------------
(* Types *)

\* Inside the transaction of a reservation; in all but the first of them with
\* the lock of the account as well.
Decided == {"granted", "denied", "deferred"}
InTransaction == {"locked"} \cup Decided
Holding == {"reserved", "aborted", "sent", "calling", "streaming"}
Pcs == {"idle", "refused", "finishing"} \cup InTransaction \cup Holding

Ended == {"completed", "failed", "interrupted"}

Entry == [account : Accounts, run : Runs, batch : BOOLEAN, adaptive : BOOLEAN,
          state : {"reserved", "sent"} \cup Ended, lease : 0..LeaseTTL, recent : 0..Window]

Caller == [pc : Pcs, id : Nat, outcome : Ended, retry : 0..MaxRetry]

Account == [cooldown : 0..MaxRetry, priority : 0..PriorityTTL, holder : Runs \cup {NoRun},
            sentinel : 0..LeaseTTL, concurrency : 1..GroupMax, streak : 0..(RaiseAfter - 1)]

TypeOK ==
  /\ callers \in [Callers -> Caller]
  /\ ledger \in Seq(Entry)
  /\ accounts \in [Accounts -> Account]
  /\ deadlines \in [Accounts -> 0..MaxRetry]
  /\ \A c \in Callers : callers[c].pc \in Holding \cup {"finishing"} =>
       callers[c].id \in DOMAIN ledger

-----------------------------------------------------------------------------
(* Helpers *)

Larger(m, n) == IF m >= n THEN m ELSE n
Smaller(m, n) == IF m <= n THEN m ELSE n

Batch(c) == LaneOf[c] # "interactive"

Mine(c) == accounts[AccountOf[c]]

\* Entries in states reserved and sent whose lease has not run out.
Active(n) == ledger[n].state \in {"reserved", "sent"} /\ ledger[n].lease > 0

ActiveOf(a, batch) ==
  {n \in DOMAIN ledger : Active(n) /\ ledger[n].account = a /\ ledger[n].batch = batch}

RecentOf(a) == {n \in DOMAIN ledger : ledger[n].account = a /\ ledger[n].recent > 0}

CallsOf(run) == {n \in DOMAIN ledger : ledger[n].run = run}

Spent(c) == Cardinality(CallsOf(RunOf[c])) >= MaxCalls[RunOf[c]]

\* The lock of a run, or of an account, that nobody waits for (a fault).
NoLock(c) == TRUE

\* pg_advisory_xact_lock of the run.
RunFree(c) ==
  \A d \in Callers : callers[d].pc \in InTransaction => RunOf[d] # RunOf[c]

\* The row lock of the account.
AccountFree(c) ==
  \A d \in Callers : callers[d].pc \in Decided => AccountOf[d] # AccountOf[c]

Slots(c) ==
  LET wanted == IF LaneOf[c] = "group" THEN Smaller(Mine(c).concurrency, Concurrency[c])
                                       ELSE Concurrency[c]
  IN  IF Batch(c) THEN Smaller(wanted, BatchSlots) ELSE 1

\* Before the ledger is looked at: the cooldown, and for batches the priority
\* of another run.
Deferred(c) ==
  \/ Mine(c).cooldown > 0
  \/ Batch(c) /\ Mine(c).priority > 0 /\ Mine(c).holder # RunOf[c]

WindowFull(c) ==
  Cardinality(RecentOf(AccountOf[c])) >= IF Batch(c) THEN BatchBudget ELSE Budget

Admits(c) ==
  /\ Cardinality(ActiveOf(AccountOf[c], Batch(c))) < Slots(c)
  /\ ~Spent(c)
  /\ ~WindowFull(c)

GoTo(c, pc) == callers' = [callers EXCEPT ![c].pc = pc]

Idle == [pc |-> "idle", id |-> 0, outcome |-> "interrupted", retry |-> 0]

Return(c) == callers' = [callers EXCEPT ![c] = Idle]

\* The call throws or returns with an outcome to be recorded.
FinishWith(c, outcome, retry) ==
  callers' = [callers EXCEPT ![c] =
                [@ EXCEPT !.pc = "finishing", !.outcome = outcome, !.retry = retry]]

-----------------------------------------------------------------------------
Init ==
  /\ callers = [c \in Callers |-> Idle]
  /\ ledger = << >>
  /\ accounts = [a \in Accounts |-> [cooldown |-> 0, priority |-> 0, holder |-> NoRun,
                                     sentinel |-> 0, concurrency |-> 1, streak |-> 0]]
  /\ deadlines = [a \in Accounts |-> 0]

-----------------------------------------------------------------------------
(* The reservation *)

\* The transaction begins and locks the run.
LockRun(c) ==
  /\ callers[c].pc = "idle"
  /\ RunFree(c)
  /\ GoTo(c, "locked")
  /\ UNCHANGED <<ledger, accounts, deadlines>>

\* The account is locked and everything read that decides.
Decide(c) ==
  /\ callers[c].pc = "locked"
  /\ AccountFree(c)
  /\ GoTo(c, IF Deferred(c) THEN "deferred" ELSE IF Admits(c) THEN "granted" ELSE "denied")
  /\ UNCHANGED <<ledger, accounts, deadlines>>

\* Entries of the account whose lease ran out are interrupted.
Swept(c) ==
  [n \in DOMAIN ledger |->
     IF /\ ledger[n].account = AccountOf[c] /\ ledger[n].state \in {"reserved", "sent"}
        /\ ledger[n].lease = 0
     THEN [ledger[n] EXCEPT !.state = "interrupted"] ELSE ledger[n]]

Reserved(c) ==
  [account |-> AccountOf[c], run |-> RunOf[c], batch |-> Batch(c),
   adaptive |-> LaneOf[c] = "group", state |-> "reserved", lease |-> LeaseTTL,
   recent |-> Window]

CommitGranted(c) ==
  /\ callers[c].pc = "granted"
  /\ ledger' = Append(Swept(c), Reserved(c))
  /\ accounts' = [accounts EXCEPT ![AccountOf[c]] =
       [@ EXCEPT !.sentinel = LeaseTTL,
                 !.priority = IF Batch(c) THEN Mine(c).priority ELSE 0,
                 !.holder = IF Batch(c) THEN Mine(c).holder ELSE NoRun]]
  /\ callers' = [callers EXCEPT ![c] =
       [@ EXCEPT !.pc = "reserved", !.id = Len(ledger) + 1]]
  /\ UNCHANGED deadlines

CommitDenied(c) ==
  /\ callers[c].pc \in {"denied", "deferred"}
  /\ ledger' = IF callers[c].pc = "denied" THEN Swept(c) ELSE ledger
  /\ GoTo(c, "refused")
  /\ UNCHANGED <<accounts, deadlines>>

\* An interactive run that does not wait, with budget left, asks for priority,
\* unless another run has it, and throws model_capacity_wait.
SetPriority(c) ==
  /\ callers[c].pc = "refused"
  /\ c \notin Waits /\ ~Batch(c) /\ ~Spent(c)
  /\ AccountFree(c)
  /\ accounts' = IF Mine(c).priority = 0 \/ Mine(c).holder = RunOf[c]
                 THEN [accounts EXCEPT ![AccountOf[c]] =
                         [@ EXCEPT !.priority = PriorityTTL, !.holder = RunOf[c]]]
                 ELSE accounts
  /\ Return(c)
  /\ UNCHANGED <<ledger, deadlines>>

\* The budget of the run is spent, or the caller waits to ask again or is put
\* off to a later job, without asking for priority.
GiveUp(c) ==
  /\ callers[c].pc = "refused"
  /\ c \in Waits \/ Batch(c) \/ Spent(c)
  /\ Return(c)
  /\ UNCHANGED <<ledger, accounts, deadlines>>

-----------------------------------------------------------------------------
(* The request *)

\* The statement that marks the entry as sent looks at nothing else, and is not
\* stopped by an abort: fetch then is.
MarkSent(c) ==
  /\ callers[c].pc \in {"reserved", "aborted"}
  /\ ledger' = [ledger EXCEPT ![callers[c].id].state = "sent"]
  /\ IF callers[c].pc = "reserved" THEN GoTo(c, "sent") ELSE FinishWith(c, "interrupted", 0)
  /\ UNCHANGED <<accounts, deadlines>>

Call(c) ==
  /\ callers[c].pc = "sent"
  /\ GoTo(c, "calling")
  /\ UNCHANGED <<ledger, accounts, deadlines>>

\* A response with a body is handed to the consumer, the slot stays taken.
Respond(c) ==
  /\ callers[c].pc = "calling"
  /\ GoTo(c, "streaming")
  /\ UNCHANGED <<ledger, accounts, deadlines>>

\* 429, and 5xx for groups: the provider, or the code, names a time to wait for.
RespondLimited(c, retry) ==
  /\ callers[c].pc = "calling"
  /\ retry > 0
  /\ FinishWith(c, "failed", retry)
  /\ UNCHANGED <<ledger, accounts, deadlines>>

RespondWithoutBody(c, outcome) ==
  /\ callers[c].pc = "calling"
  /\ FinishWith(c, outcome, 0)
  /\ UNCHANGED <<ledger, accounts, deadlines>>

\* The body is read to its end.
Consume(c) ==
  /\ callers[c].pc = "streaming"
  /\ FinishWith(c, "completed", 0)
  /\ UNCHANGED <<ledger, accounts, deadlines>>

\* An abort by the caller, an error of a statement or of the network, or the
\* consumer cancels.
Interrupt(c) ==
  /\ callers[c].pc \in Holding
  /\ FinishWith(c, "interrupted", 0)
  /\ UNCHANGED <<ledger, accounts, deadlines>>

-----------------------------------------------------------------------------
(* The end of a request *)

\* greatest(cooldown_until, p_cooldown) without greatest (a fault).
LastCooldown(cooldown, retry) == IF retry > 0 THEN retry ELSE cooldown

LongestCooldown(cooldown, retry) == Larger(cooldown, retry)

Ends(n) == ledger[n].state \in {"reserved", "sent"}

\* The longest lease of the active entries of an account.
NoLease(a, entries) == 0

LongestLease(a, entries) ==
  LET leases == {0} \cup {entries[n].lease : n \in
        {m \in DOMAIN entries : entries[m].account = a /\ entries[m].state \in {"reserved", "sent"}}}
  IN  CHOOSE lease \in leases : \A other \in leases : other <= lease

\* The concurrency is halved down to nothing (a fault).
AdaptedToZero(account, outcome) ==
  IF outcome # "completed" THEN [account EXCEPT !.concurrency = @ \div 2, !.streak = 0]
                           ELSE account

\* What a grouped request teaches about the concurrency.
Adapted(account, outcome) ==
  LET raise == account.streak >= RaiseAfter - 1 IN
  [account EXCEPT
     !.concurrency = IF outcome # "completed" THEN Larger(1, @ \div 2)
                     ELSE IF raise THEN Smaller(GroupMax, @ + 1) ELSE @,
     !.streak = IF outcome # "completed" \/ raise THEN 0 ELSE @ + 1]

Finish(c) ==
  LET n == callers[c].id
      a == AccountOf[c]
      retry == callers[c].retry
      entries == IF Ends(n)
                 THEN [ledger EXCEPT ![n] = [@ EXCEPT !.state = callers[c].outcome, !.lease = 0]]
                 ELSE ledger
      account == [accounts[a] EXCEPT !.cooldown = LongestCooldown(@, retry),
                                     !.sentinel = LongestLease(a, entries)]
  IN
  /\ callers[c].pc = "finishing"
  /\ AccountFree(c)
  /\ ledger' = entries
  /\ accounts' = [accounts EXCEPT ![a] =
       IF Ends(n) /\ ledger[n].adaptive THEN Adapted(account, callers[c].outcome) ELSE account]
  /\ deadlines' = [deadlines EXCEPT ![a] = Larger(@, retry)]
  /\ Return(c)

\* The statement that finishes fails; the entry stays until its lease runs out.
FinishLost(c) ==
  /\ callers[c].pc = "finishing"
  /\ Return(c)
  /\ UNCHANGED <<ledger, accounts, deadlines>>

-----------------------------------------------------------------------------
(* Leases and time *)

\* A lease that ran out is renewed (a fault).
RenewsLate(n) == ledger[n].state \in {"reserved", "sent"}

Renews(n) == Active(n)

\* The timer of a request that is in progress.
Heartbeat(c) ==
  LET n == callers[c].id IN
  /\ callers[c].pc \in Holding
  /\ AccountFree(c)
  /\ Renews(n)
  /\ ledger' = [ledger EXCEPT ![n].lease = LeaseTTL]
  /\ accounts' = [accounts EXCEPT ![AccountOf[c]].sentinel = LeaseTTL]
  /\ UNCHANGED <<callers, deadlines>>

\* It is not renewed, or the statement fails: the signal is aborted.  A stream
\* notices when it is read (Interrupt).
LoseLease(c) ==
  /\ \/ /\ callers[c].pc = "reserved"
        /\ GoTo(c, "aborted")
     \/ /\ callers[c].pc \in {"sent", "calling"}
        /\ FinishWith(c, "interrupted", 0)
  /\ UNCHANGED <<ledger, accounts, deadlines>>

\* The process dies: its transaction is rolled back, its connections close.
Crash(c) ==
  /\ callers[c].pc # "idle"
  /\ Return(c)
  /\ UNCHANGED <<ledger, accounts, deadlines>>

Before(n) == IF n = 0 THEN 0 ELSE n - 1

Tick ==
  /\ \A c \in Callers : callers[c].pc \notin Decided
  /\ ledger' = [n \in DOMAIN ledger |->
       [ledger[n] EXCEPT !.lease = Before(@), !.recent = Before(@)]]
  /\ accounts' = [a \in Accounts |->
       [accounts[a] EXCEPT !.cooldown = Before(@), !.priority = Before(@),
                           !.sentinel = Before(@)]]
  /\ deadlines' = [a \in Accounts |-> Before(deadlines[a])]
  /\ UNCHANGED callers

-----------------------------------------------------------------------------
Reserve(c) ==
  \/ LockRun(c) \/ Decide(c) \/ CommitGranted(c) \/ CommitDenied(c)
  \/ SetPriority(c) \/ GiveUp(c)

Request(c) ==
  \/ MarkSent(c) \/ Call(c) \/ Respond(c) \/ Consume(c) \/ Interrupt(c)
  \/ \E retry \in 1..MaxRetry : RespondLimited(c, retry)
  \/ \E outcome \in {"completed", "failed"} : RespondWithoutBody(c, outcome)
  \/ Finish(c) \/ FinishLost(c)

Next ==
  \/ \E c \in Callers : Reserve(c) \/ Request(c) \/ Heartbeat(c) \/ LoseLease(c) \/ Crash(c)
  \/ Tick

Spec == Init /\ [][Next]_vars

-----------------------------------------------------------------------------
(* Properties *)

\* Requests that the provider works on and whose lease holds.
InProgress(a, batch) ==
  {c \in Callers : /\ callers[c].pc \in {"calling", "streaming"}
                   /\ AccountOf[c] = a /\ Batch(c) = batch
                   /\ ledger[callers[c].id].lease > 0}

\* docs/operations/parallel-analysis.md:17, 19: however many workers there are
\* and however their requests end, an account has at most BatchSlots batch
\* requests and one interactive request in progress whose leases hold, also
\* when a request whose lease ran out goes on, is marked as sent or ends late.
SlotsKept ==
  \A a \in Accounts : /\ Cardinality(InProgress(a, TRUE)) <= BatchSlots
                      /\ Cardinality(InProgress(a, FALSE)) <= 1

\* A run never makes more requests than its budget, over all accounts, retries,
\* failures and restarts.
RunBudgetKept == \A run \in Runs : Cardinality(CallsOf(run)) <= MaxCalls[run]

\* In no window do batches take what is reserved for interactive requests, and
\* all together keep the budget of the account.
WindowKept ==
  \A a \in Accounts :
    /\ Cardinality(RecentOf(a)) <= Larger(Budget, BatchBudget)
    /\ Cardinality({n \in RecentOf(a) : ledger[n].batch}) <= BatchBudget

\* A worker of an older version looks at the lease of the account only: it
\* covers every active request.
SentinelCovers ==
  \A n \in DOMAIN ledger : Active(n) => ledger[n].lease <= accounts[ledger[n].account].sentinel

\* Whatever the order in which responses with different retry times are
\* recorded, the longest is waited for: while it lasts no reservation of the
\* account is decided in favour.
RetryAfterKept ==
  [][\A c \in Callers :
       callers[c].pc = "locked" /\ callers'[c].pc = "granted" => deadlines[AccountOf[c]] = 0]_vars

\* The adaptive concurrency bounds what groups add: with the request that is
\* reserved for a group, the batch requests of the account are no more than the
\* concurrency its failures and successes have left at that time.
GroupKept ==
  [][\A c \in Callers :
       callers[c].pc = "granted" /\ callers'[c].pc = "reserved" /\ LaneOf[c] = "group" =>
         Cardinality({n \in DOMAIN ledger' : Active(n)' /\ ledger'[n].batch
                        /\ ledger'[n].account = AccountOf[c]})
           <= accounts[AccountOf[c]].concurrency]_vars

=============================================================================

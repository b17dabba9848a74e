------------------------ MODULE ModelAdmissionProofs ------------------------
(***************************************************************************)
(* For any callers, accounts, runs and limits: slots, budgets, windows and *)
(* cooldowns are kept.  Inv, the inductive invariant, says that the two    *)
(* locks exclude, and that what a reservation decided under them still     *)
(* holds when it is committed.                                             *)
(***************************************************************************)
EXTENDS ModelAdmission, FiniteSetTheorems, WellFoundedInduction, TLAPS

\* The states in which a caller has an entry of its own.
Owning == Holding \cup {"finishing"}

\* An entry that ended has no lease.
EntriesInv == \A n \in DOMAIN ledger : ledger[n].state \in Ended => ledger[n].lease = 0

LocksInv ==
  /\ \A c, d \in Callers :
       callers[c].pc \in InTransaction /\ callers[d].pc \in InTransaction /\ RunOf[c] = RunOf[d]
         => c = d
  /\ \A c, d \in Callers :
       callers[c].pc \in Decided /\ callers[d].pc \in Decided /\ AccountOf[c] = AccountOf[d]
         => c = d

OwnersInv ==
  /\ \A c \in Callers : callers[c].pc \in Owning =>
       /\ ledger[callers[c].id].account = AccountOf[c]
       /\ ledger[callers[c].id].batch = Batch(c)
  /\ \A c, d \in Callers :
       callers[c].pc \in Owning /\ callers[d].pc \in Owning /\ callers[c].id = callers[d].id
         => c = d

\* What was decided is still true.
GrantsInv == \A c \in Callers : callers[c].pc = "granted" => Admits(c)

\* Slots, counted in the ledger.
ActiveInv ==
  \A a \in Accounts : /\ Cardinality(ActiveOf(a, TRUE)) <= BatchSlots
                      /\ Cardinality(ActiveOf(a, FALSE)) <= 1

CooldownInv == \A a \in Accounts : deadlines[a] = accounts[a].cooldown

Inv ==
  /\ TypeOK /\ EntriesInv /\ LocksInv /\ OwnersInv /\ GrantsInv /\ ActiveInv
  /\ RunBudgetKept /\ WindowKept /\ SentinelCovers /\ CooldownInv

-----------------------------------------------------------------------------
(* Facts *)

LEMMA Limits ==
  /\ LeaseTTL \in Nat /\ LeaseTTL > 0 /\ GroupMax \in Nat /\ GroupMax > 0
  /\ RaiseAfter \in Nat /\ RaiseAfter > 0 /\ Window \in Nat /\ Window > 0
  /\ BatchSlots \in Nat /\ BatchSlots > 0
  /\ BatchBudget \in Nat /\ Budget \in Nat /\ PriorityTTL \in Nat /\ MaxRetry \in Nat
BY LimitAssumption

LEMMA MaximumExists ==
  ASSUME NEW S, NEW n \in Nat, S \subseteq 0..n, S # {}
  PROVE  \E m \in S : \A k \in S : k <= m
<1>1. PICK T : T = {n - s : s \in S}
  OBVIOUS
<1>2. T \subseteq Nat /\ T # {}
  <2>1. \A s \in S : n - s \in Nat
    OBVIOUS
  <2> QED
    BY <1>1, <2>1
<1>3. PICK t \in T : \A u \in T : ~(<<u, t>> \in OpToRel(<, Nat))
  BY <1>2, NatLessThanWellFounded, WFMin, Zenon
<1>4. \A u \in T : ~(u < t)
  BY <1>2, <1>3 DEF OpToRel
<1>5. PICK m \in S : t = n - m
  BY <1>1
<1>6. \A k \in S : n - k \in T
  BY <1>1
<1> QED
  BY <1>4, <1>5, <1>6

\* The sentinel that is written at the end of a request covers what is active.
LEMMA LongestLeaseBounds ==
  ASSUME NEW entries \in Seq(Entry), NEW a \in Accounts
  PROVE  /\ LongestLease(a, entries) \in 0..LeaseTTL
         /\ \A n \in DOMAIN entries :
              entries[n].account = a /\ entries[n].state \in {"reserved", "sent"} =>
                entries[n].lease <= LongestLease(a, entries)
<1>1. PICK leases : leases = {0} \cup {entries[n].lease : n \in
        {m \in DOMAIN entries : entries[m].account = a /\ entries[m].state \in {"reserved", "sent"}}}
  OBVIOUS
<1>2. leases \subseteq 0..LeaseTTL /\ leases # {}
  <2>1. \A n \in DOMAIN entries : entries[n].lease \in 0..LeaseTTL
    <3>1. \A n \in DOMAIN entries : entries[n] \in Entry
      OBVIOUS
    <3> QED
      BY <3>1 DEF Entry
  <2> QED
    BY <1>1, <2>1, Limits
<1>3. \E m \in leases : \A k \in leases : k <= m
  BY <1>2, MaximumExists, Limits
<1>4. LongestLease(a, entries) = CHOOSE m \in leases : \A k \in leases : k <= m
  BY <1>1 DEF LongestLease
<1>5. LongestLease(a, entries) \in leases /\ \A k \in leases : k <= LongestLease(a, entries)
  BY <1>3, <1>4
<1> QED
  BY <1>1, <1>2, <1>5

LEMMA EntryTypes ==
  ASSUME TypeOK, NEW n \in DOMAIN ledger
  PROVE  /\ ledger[n] \in Entry /\ ledger[n].lease \in Nat /\ ledger[n].recent \in Nat
         /\ ledger[n].state \in {"reserved", "sent"} \cup Ended
         /\ ledger[n].account \in Accounts /\ ledger[n].batch \in BOOLEAN
<1>1. ledger[n] \in Entry
  BY DEF TypeOK
<1> QED
  BY <1>1, Limits DEF Entry

\* An entry is active exactly while it has a lease.
LEMMA ActiveLease ==
  ASSUME TypeOK, EntriesInv, NEW n \in DOMAIN ledger
  PROVE  Active(n) <=> ledger[n].lease > 0
  BY EntryTypes DEF EntriesInv, Active

LEMMA LedgerFinite ==
  ASSUME TypeOK
  PROVE  /\ IsFiniteSet(DOMAIN ledger) /\ DOMAIN ledger = 1..Len(ledger) /\ Len(ledger) \in Nat
         /\ \A S \in SUBSET DOMAIN ledger : IsFiniteSet(S) /\ Cardinality(S) \in Nat
<1>1. DOMAIN ledger = 1..Len(ledger) /\ Len(ledger) \in Nat
  BY DEF TypeOK
<1>2. IsFiniteSet(DOMAIN ledger)
  BY <1>1, FS_Interval
<1>3. \A S \in SUBSET DOMAIN ledger : IsFiniteSet(S) /\ Cardinality(S) \in Nat
  BY <1>2, FS_Subset, FS_CardinalityType
<1> QED
  BY <1>1, <1>2, <1>3

LEMMA SmallerSet ==
  ASSUME NEW S, IsFiniteSet(S), NEW T \in SUBSET S, NEW n \in Nat, Cardinality(S) <= n
  PROVE  Cardinality(T) <= n
<1>1. Cardinality(S) \in Nat /\ Cardinality(T) \in Nat /\ Cardinality(T) <= Cardinality(S)
  BY FS_Subset, FS_CardinalityType
<1> QED
  BY <1>1

LEMMA CallerTypes ==
  ASSUME TypeOK, NEW c \in Callers
  PROVE  /\ callers[c] \in Caller /\ callers[c].pc \in Pcs /\ callers[c].id \in Nat
         /\ callers[c].outcome \in Ended /\ callers[c].retry \in 0..MaxRetry
         /\ AccountOf[c] \in Accounts /\ RunOf[c] \in Runs
         /\ accounts[AccountOf[c]] \in Account
         /\ callers[c].pc \in Owning => callers[c].id \in DOMAIN ledger
<1>1. callers[c] \in Caller /\ AccountOf[c] \in Accounts /\ RunOf[c] \in Runs
  BY CallerAssumption DEF TypeOK
<1> QED
  BY <1>1 DEF Caller, TypeOK, Owning

-----------------------------------------------------------------------------
(* Steps that add nothing to the ledger *)

\* Entries keep what they are about, and nothing comes back to life.
Shrinks ==
  /\ ledger' \in Seq(Entry) /\ DOMAIN ledger' = DOMAIN ledger
  /\ \A n \in DOMAIN ledger :
       /\ ledger'[n].account = ledger[n].account /\ ledger'[n].run = ledger[n].run
       /\ ledger'[n].batch = ledger[n].batch
       /\ ledger'[n].recent > 0 => ledger[n].recent > 0
       /\ ledger'[n].lease > 0 => ledger[n].lease > 0
       /\ ledger'[n].state \in Ended => ledger'[n].lease = 0

LEMMA ShrunkSets ==
  ASSUME Inv, Shrinks
  PROVE  /\ \A run : CallsOf(run)' = CallsOf(run)
         /\ \A a : RecentOf(a)' \subseteq RecentOf(a)
         /\ \A a, batch : ActiveOf(a, batch)' \subseteq ActiveOf(a, batch)
         /\ \A n \in DOMAIN ledger' : Active(n)' <=> ledger'[n].lease > 0
<1>1. ASSUME NEW n \in DOMAIN ledger
      PROVE  /\ Active(n) <=> ledger[n].lease > 0
             /\ Active(n)' <=> ledger'[n].lease > 0
             /\ Active(n)' => Active(n)
  <2>1. Active(n) <=> ledger[n].lease > 0
    BY ActiveLease DEF Inv
  <2>2. ledger'[n] \in Entry
    BY DEF Shrinks
  <2>3. ledger'[n].state \in {"reserved", "sent"} \cup Ended
    BY <2>2 DEF Entry
  <2>4. Active(n)' <=> ledger'[n].lease > 0
    BY <2>3 DEF Shrinks, Active
  <2> QED
    BY <2>1, <2>4 DEF Shrinks
<1>2. \A run : CallsOf(run)' = CallsOf(run)
  BY DEF CallsOf, Shrinks
<1>3. \A a : RecentOf(a)' \subseteq RecentOf(a)
  BY DEF RecentOf, Shrinks
<1>4. \A a, batch : ActiveOf(a, batch)' \subseteq ActiveOf(a, batch)
  BY <1>1 DEF ActiveOf, Shrinks
<1> QED
  BY <1>1, <1>2, <1>3, <1>4 DEF Shrinks

LEMMA ShrinkStep ==
  ASSUME Inv, Shrinks, TypeOK', LocksInv', SentinelCovers', CooldownInv',
         \A c \in Callers : callers'[c].pc \in Owning =>
           callers[c].pc \in Owning /\ callers'[c].id = callers[c].id,
         \A c \in Callers : callers'[c].pc = "granted" => 
           /\ callers[c].pc = "granted" \/ Admits(c)
           /\ accounts'[AccountOf[c]].concurrency = accounts[AccountOf[c]].concurrency
  PROVE  Inv'
<1>1. /\ \A run : CallsOf(run)' = CallsOf(run)
      /\ \A a : RecentOf(a)' \subseteq RecentOf(a)
      /\ \A a, batch : ActiveOf(a, batch)' \subseteq ActiveOf(a, batch)
  BY ShrunkSets
<1>2. /\ \A a : IsFiniteSet(RecentOf(a)) /\ Cardinality(RecentOf(a)) \in Nat
      /\ \A a : IsFiniteSet(RecentOf(a)') /\ Cardinality(RecentOf(a)') \in Nat
      /\ \A a : Cardinality(RecentOf(a)') <= Cardinality(RecentOf(a))
      /\ \A a, batch : IsFiniteSet(ActiveOf(a, batch)) /\ Cardinality(ActiveOf(a, batch)) \in Nat
      /\ \A a, batch : Cardinality(ActiveOf(a, batch)') \in Nat
      /\ \A a, batch : Cardinality(ActiveOf(a, batch)') <= Cardinality(ActiveOf(a, batch))
  <2>1. \A a, batch : RecentOf(a) \subseteq DOMAIN ledger /\ ActiveOf(a, batch) \subseteq DOMAIN ledger
    BY DEF RecentOf, ActiveOf
  <2>2. \A a, batch : /\ IsFiniteSet(RecentOf(a)) /\ Cardinality(RecentOf(a)) \in Nat
                      /\ IsFiniteSet(ActiveOf(a, batch)) /\ Cardinality(ActiveOf(a, batch)) \in Nat
    BY <2>1, LedgerFinite DEF Inv
  <2> QED
    BY <1>1, <2>2, FS_Subset, FS_CardinalityType
<1>3. EntriesInv'
  BY DEF Shrinks, EntriesInv
<1>4. OwnersInv'
  <2>1. ASSUME NEW c \in Callers, callers'[c].pc \in Owning
        PROVE  /\ callers[c].pc \in Owning /\ callers'[c].id = callers[c].id
               /\ ledger'[callers'[c].id].account = AccountOf[c]
               /\ ledger'[callers'[c].id].batch = Batch(c)
    <3>1. callers[c].pc \in Owning /\ callers'[c].id = callers[c].id
      BY <2>1
    <3>2. callers[c].id \in DOMAIN ledger
      BY <3>1, CallerTypes DEF Inv
    <3> QED
      BY <3>1, <3>2 DEF Inv, OwnersInv, Shrinks
  <2> QED
    BY <2>1 DEF Inv, OwnersInv, Batch
<1>5. GrantsInv'
  <2> SUFFICES ASSUME NEW c \in Callers, callers'[c].pc = "granted" PROVE Admits(c)'
    BY DEF GrantsInv
  <2>1. Admits(c) /\ Mine(c)'.concurrency = Mine(c).concurrency
    BY DEF Inv, GrantsInv, Mine
  <2>2. Slots(c)' = Slots(c) /\ Spent(c)' = Spent(c)
    BY <1>1, <2>1 DEF Slots, Spent, Batch, Smaller
  <2>3. Slots(c) \in Nat
    <3>1. Mine(c).concurrency \in Nat /\ Concurrency[c] \in Nat
      BY CallerTypes, CallerAssumption, Limits DEF Inv, Mine, Account
    <3> QED
      BY <3>1, Limits DEF Slots, Smaller
  <2>4. Cardinality(ActiveOf(AccountOf[c], Batch(c))') < Slots(c)
    BY <1>2, <2>1, <2>3 DEF Admits
  <2>5. ~WindowFull(c)'
    BY <1>2, <2>1, Limits DEF Admits, WindowFull, Batch
  <2> QED
    BY <2>1, <2>2, <2>4, <2>5 DEF Admits, Batch
<1>6. ActiveInv'
  <2> SUFFICES ASSUME NEW a \in Accounts
               PROVE  /\ Cardinality(ActiveOf(a, TRUE)') <= BatchSlots
                      /\ Cardinality(ActiveOf(a, FALSE)') <= 1
    BY DEF ActiveInv
  <2>1. /\ Cardinality(ActiveOf(a, TRUE)) <= BatchSlots
        /\ Cardinality(ActiveOf(a, FALSE)) <= 1
    BY DEF Inv, ActiveInv
  <2>2. /\ ActiveOf(a, TRUE)' \subseteq ActiveOf(a, TRUE) /\ IsFiniteSet(ActiveOf(a, TRUE))
        /\ ActiveOf(a, FALSE)' \subseteq ActiveOf(a, FALSE) /\ IsFiniteSet(ActiveOf(a, FALSE))
    BY <1>1, <1>2, Zenon
  <2>3. Cardinality(ActiveOf(a, TRUE)') <= BatchSlots
    BY <2>1, <2>2, SmallerSet, Limits, Zenon
  <2>4. Cardinality(ActiveOf(a, FALSE)') <= 1
    <3>1. 1 \in Nat
      OBVIOUS
    <3> QED
      BY <2>1, <2>2, <3>1, SmallerSet, Zenon
  <2> QED
    BY <2>3, <2>4
<1>7. RunBudgetKept'
  BY <1>1 DEF Inv, RunBudgetKept
<1>8. WindowKept'
  <2> SUFFICES ASSUME NEW a \in Accounts
               PROVE  /\ Cardinality(RecentOf(a)') <= Larger(Budget, BatchBudget)
                      /\ Cardinality({n \in RecentOf(a) : ledger[n].batch}') <= BatchBudget
    BY DEF WindowKept
  <2>1. Larger(Budget, BatchBudget) \in Nat
    BY Limits DEF Larger
  <2>2. /\ {n \in RecentOf(a) : ledger[n].batch}' \subseteq {n \in RecentOf(a) : ledger[n].batch}
        /\ {n \in RecentOf(a) : ledger[n].batch} \subseteq DOMAIN ledger
    BY <1>1 DEF RecentOf, Shrinks
  <2>3. Cardinality({n \in RecentOf(a) : ledger[n].batch}) <= BatchBudget
        /\ Cardinality(RecentOf(a)) <= Larger(Budget, BatchBudget)
    BY DEF Inv, WindowKept
  <2>4. Cardinality({n \in RecentOf(a) : ledger[n].batch}') <= BatchBudget
    BY <2>2, <2>3, SmallerSet, LedgerFinite, Limits DEF Inv
  <2> QED
    BY <1>2, <2>1, <2>3, <2>4
<1> QED
  BY <1>3, <1>4, <1>5, <1>6, <1>7, <1>8 DEF Inv


-----------------------------------------------------------------------------
(* Steps of one caller *)

\* Caller c goes on as v, and enters no lock that is not free.
Moves(c, v) ==
  /\ callers' = [callers EXCEPT ![c] = v] /\ v \in Caller
  /\ v.pc \in Owning => callers[c].pc \in Owning /\ v.id = callers[c].id
  /\ v.pc \in InTransaction => callers[c].pc \in InTransaction \/ RunFree(c)
  /\ v.pc \in Decided => callers[c].pc \in Decided \/ AccountFree(c)

LEMMA MovesKeep ==
  ASSUME Inv, NEW c \in Callers, NEW v, Moves(c, v)
  PROVE  /\ callers' \in [Callers -> Caller] /\ callers'[c] = v
         /\ \A d \in Callers : d # c => callers'[d] = callers[d]
         /\ LocksInv'
         /\ \A d \in Callers : callers'[d].pc \in Owning =>
              callers[d].pc \in Owning /\ callers'[d].id = callers[d].id
<1>1. /\ callers' \in [Callers -> Caller] /\ callers'[c] = v
      /\ \A d \in Callers : d # c => callers'[d] = callers[d]
  BY DEF Moves, Inv, TypeOK
<1>2. LocksInv'
  <2>1. ASSUME NEW d \in Callers, NEW e \in Callers, callers'[d].pc \in InTransaction,
               callers'[e].pc \in InTransaction, RunOf[d] = RunOf[e]
        PROVE  d = e
    <3>1. d # c => callers[d].pc \in InTransaction
      BY <1>1, <2>1
    <3>2. e # c => callers[e].pc \in InTransaction
      BY <1>1, <2>1
    <3>3. callers[c].pc \in InTransaction \/ (d # c /\ e # c) \/ RunFree(c)
      BY <1>1, <2>1 DEF Moves
    <3> QED
      BY <2>1, <3>1, <3>2, <3>3 DEF Inv, LocksInv, RunFree
  <2>2. ASSUME NEW d \in Callers, NEW e \in Callers, callers'[d].pc \in Decided,
               callers'[e].pc \in Decided, AccountOf[d] = AccountOf[e]
        PROVE  d = e
    <3>1. d # c => callers[d].pc \in Decided
      BY <1>1, <2>2
    <3>2. e # c => callers[e].pc \in Decided
      BY <1>1, <2>2
    <3>3. callers[c].pc \in Decided \/ (d # c /\ e # c) \/ AccountFree(c)
      BY <1>1, <2>2 DEF Moves
    <3> QED
      BY <2>2, <3>1, <3>2, <3>3 DEF Inv, LocksInv, AccountFree
  <2> QED
    BY <2>1, <2>2 DEF LocksInv
<1> QED
  BY <1>1, <1>2 DEF Moves

\* A step that leaves the tables.
LEMMA CallerStep ==
  ASSUME Inv, NEW c \in Callers, NEW v, Moves(c, v), v.pc = "granted" => Admits(c),
         UNCHANGED <<ledger, accounts, deadlines>>
  PROVE  Inv'
<1>1. /\ callers' \in [Callers -> Caller] /\ callers'[c] = v
      /\ \A d \in Callers : d # c => callers'[d] = callers[d]
      /\ LocksInv'
      /\ \A d \in Callers : callers'[d].pc \in Owning =>
           callers[d].pc \in Owning /\ callers'[d].id = callers[d].id
  BY MovesKeep
<1>2. Shrinks
  BY DEF Shrinks, Inv, TypeOK, EntriesInv
<1>3. TypeOK'
  BY <1>1 DEF Inv, TypeOK, Owning
<1>4. SentinelCovers' /\ CooldownInv'
  BY DEF Inv, SentinelCovers, CooldownInv, Active
<1>5. \A d \in Callers : callers'[d].pc = "granted" =>
        /\ callers[d].pc = "granted" \/ Admits(d)
        /\ accounts'[AccountOf[d]].concurrency = accounts[AccountOf[d]].concurrency
  BY <1>1
<1> QED
  BY <1>1, <1>2, <1>3, <1>4, <1>5, ShrinkStep

\* A caller goes on at pc.
LEMMA GoToMoves ==
  ASSUME Inv, NEW c \in Callers, NEW pc \in Pcs, GoTo(c, pc),
         pc \in Owning => callers[c].pc \in Owning,
         pc \in InTransaction => callers[c].pc \in InTransaction \/ RunFree(c),
         pc \in Decided => callers[c].pc \in Decided \/ AccountFree(c)
  PROVE  \E v : Moves(c, v) /\ v.pc = pc
<1>1. PICK v : v = [callers[c] EXCEPT !.pc = pc]
  OBVIOUS
<1>2. callers[c] \in Caller
  BY CallerTypes DEF Inv
<1>3. v \in Caller /\ v.pc = pc /\ v.id = callers[c].id
  BY <1>1, <1>2 DEF Caller
<1>4. callers' = [callers EXCEPT ![c] = v]
  BY <1>1 DEF GoTo, Inv, TypeOK
<1> QED
  BY <1>3, <1>4 DEF Moves

LEMMA ReturnMoves ==
  ASSUME Inv, NEW c \in Callers, Return(c)
  PROVE  Moves(c, Idle) /\ Idle.pc = "idle"
<1>1. Idle \in Caller /\ Idle.pc = "idle"
  BY Limits DEF Idle, Caller, Pcs, Ended
<1> QED
  BY <1>1 DEF Return, Moves, Owning, Holding, InTransaction, Decided

LEMMA FinishMoves ==
  ASSUME Inv, NEW c \in Callers, NEW outcome \in Ended, NEW retry \in 0..MaxRetry,
         FinishWith(c, outcome, retry), callers[c].pc \in Owning
  PROVE  \E v : Moves(c, v) /\ v.pc = "finishing"
<1>1. PICK v : v = [callers[c] EXCEPT !.pc = "finishing", !.outcome = outcome, !.retry = retry]
  OBVIOUS
<1>2. callers[c] \in Caller
  BY CallerTypes DEF Inv
<1>3. v \in Caller /\ v.pc = "finishing" /\ v.id = callers[c].id
  BY <1>1, <1>2 DEF Caller, Pcs
<1>4. callers' = [callers EXCEPT ![c] = v]
  BY <1>1, Zenon DEF FinishWith
<1> HIDE <1>1
<1> QED
  BY <1>3, <1>4 DEF Moves, InTransaction, Decided

LEMMA PlainInv ==
  ASSUME Inv, NEW c \in Callers,
         \/ LockRun(c) \/ Decide(c) \/ GiveUp(c) \/ Call(c) \/ Respond(c) \/ Consume(c)
         \/ Interrupt(c) \/ LoseLease(c) \/ FinishLost(c) \/ Crash(c)
         \/ \E retry \in 1..MaxRetry : RespondLimited(c, retry)
         \/ \E outcome \in {"completed", "failed"} : RespondWithoutBody(c, outcome)
  PROVE  Inv'
<1>1. UNCHANGED <<ledger, accounts, deadlines>>
  BY DEF LockRun, Decide, GiveUp, Call, Respond, Consume, Interrupt, LoseLease, FinishLost, Crash,
         RespondLimited, RespondWithoutBody
<1>2. ASSUME NEW v, Moves(c, v), v.pc # "granted" PROVE Inv'
  BY <1>1, <1>2, CallerStep
<1>3. CASE LockRun(c)
  <2>1. "locked" \in Pcs /\ "locked" \notin Owning /\ "locked" \notin Decided
    BY DEF Pcs, Owning, Holding, InTransaction, Decided
  <2> QED
    BY <1>2, <1>3, <2>1, GoToMoves DEF LockRun
<1>4. CASE Decide(c)
  <2>1. PICK pc \in Decided : /\ pc = IF Deferred(c) THEN "deferred"
                                      ELSE IF Admits(c) THEN "granted" ELSE "denied"
    BY DEF Decided
  <2>2. pc \in Pcs /\ pc \notin Owning /\ callers[c].pc \in InTransaction
    BY <1>4, <2>1 DEF Decide, Pcs, Owning, Holding, InTransaction, Decided
  <2>3. PICK v : Moves(c, v) /\ v.pc = pc
    BY <1>4, <2>1, <2>2, GoToMoves DEF Decide
  <2>4. v.pc = "granted" => Admits(c)
    BY <2>1, <2>3
  <2> QED
    BY <1>1, <2>3, <2>4, CallerStep
<1>5. CASE Return(c)
  BY <1>2, <1>5, ReturnMoves
<1>6. ASSUME NEW pc \in {"calling", "streaming", "aborted"}, GoTo(c, pc), callers[c].pc \in Owning
      PROVE  Inv'
  <2>1. pc \in Pcs /\ pc \notin InTransaction /\ pc \notin Decided /\ pc # "granted"
    BY DEF Pcs, Holding, InTransaction, Decided
  <2> QED
    BY <1>2, <1>6, <2>1, GoToMoves
<1>7. ASSUME NEW outcome \in Ended, NEW retry \in 0..MaxRetry, FinishWith(c, outcome, retry),
             callers[c].pc \in Owning
      PROVE  Inv'
  BY <1>2, <1>7, FinishMoves
<1>8. CASE Call(c) \/ Respond(c)
  BY <1>6, <1>8 DEF Call, Respond, Owning, Holding
<1>9. CASE Consume(c) \/ Interrupt(c)
  BY <1>7, <1>9, Limits DEF Consume, Interrupt, Ended, Owning, Holding
<1>10. CASE LoseLease(c)
  BY <1>6, <1>7, <1>10, Limits DEF LoseLease, Ended, Owning, Holding
<1>11. ASSUME NEW retry \in 1..MaxRetry, RespondLimited(c, retry) PROVE Inv'
  BY <1>7, <1>11, Limits DEF RespondLimited, Ended, Owning, Holding
<1>12. ASSUME NEW outcome \in {"completed", "failed"}, RespondWithoutBody(c, outcome) PROVE Inv'
  BY <1>7, <1>12, Limits DEF RespondWithoutBody, Ended, Owning, Holding
<1>13. CASE GiveUp(c) \/ FinishLost(c) \/ Crash(c)
  BY <1>5, <1>13 DEF GiveUp, FinishLost, Crash
<1> QED
  BY <1>3, <1>4, <1>8, <1>9, <1>10, <1>11, <1>12, <1>13

-----------------------------------------------------------------------------
(* Steps that write the tables *)

\* Caller c goes on as v, what it writes to the ledger shrinks it, and its account
\* becomes w.
Writes(c, v, w) ==
  /\ Moves(c, v) /\ v.pc # "granted" /\ Shrinks
  /\ w \in Account /\ accounts' = [accounts EXCEPT ![AccountOf[c]] = w]
  /\ deadlines' \in [Accounts -> 0..MaxRetry] /\ deadlines'[AccountOf[c]] = w.cooldown
  /\ \A a \in Accounts \ {AccountOf[c]} : deadlines'[a] = deadlines[a]
  /\ w.concurrency = Mine(c).concurrency \/ AccountFree(c)
  /\ \A n \in DOMAIN ledger :
       IF ledger[n].account = AccountOf[c]
       THEN ledger'[n].state \in {"reserved", "sent"} => ledger'[n].lease <= w.sentinel
       ELSE ledger'[n].lease <= ledger[n].lease

LEMMA WriteStep ==
  ASSUME Inv, NEW c \in Callers, NEW v, NEW w, Writes(c, v, w)
  PROVE  Inv'
<1>1. /\ callers' \in [Callers -> Caller] /\ callers'[c] = v
      /\ \A d \in Callers : d # c => callers'[d] = callers[d]
      /\ LocksInv'
      /\ \A d \in Callers : callers'[d].pc \in Owning =>
           callers[d].pc \in Owning /\ callers'[d].id = callers[d].id
  BY MovesKeep DEF Writes
<1>2. /\ accounts' \in [Accounts -> Account] /\ accounts'[AccountOf[c]] = w
      /\ \A a \in Accounts : a # AccountOf[c] => accounts'[a] = accounts[a]
      /\ AccountOf[c] \in Accounts
  BY CallerTypes DEF Writes, Inv, TypeOK
<1>3. TypeOK'
  <2>1. ledger' \in Seq(Entry) /\ DOMAIN ledger' = DOMAIN ledger
    BY DEF Writes, Shrinks
  <2>2. \A d \in Callers : callers'[d].pc \in Owning => callers'[d].id \in DOMAIN ledger'
    BY <1>1, <2>1, CallerTypes DEF Inv
  <2>3. deadlines' \in [Accounts -> 0..MaxRetry]
    BY DEF Writes
  <2> QED
    BY <1>1, <1>2, <2>1, <2>2, <2>3 DEF TypeOK, Owning
<1>4. SentinelCovers'
  <2> SUFFICES ASSUME NEW n \in DOMAIN ledger', Active(n)'
               PROVE  ledger'[n].lease <= accounts'[ledger'[n].account].sentinel
    BY DEF SentinelCovers
  <2>1. /\ n \in DOMAIN ledger /\ ledger'[n].account = ledger[n].account
        /\ ledger[n].account \in Accounts
        /\ ledger'[n].lease > 0 => ledger[n].lease > 0
    BY EntryTypes DEF Writes, Shrinks, Inv
  <2>2. CASE ledger[n].account = AccountOf[c]
    BY <1>2, <2>1, <2>2 DEF Writes, Active
  <2>3. CASE ledger[n].account # AccountOf[c]
    <3>1. ledger[n].lease <= accounts[ledger[n].account].sentinel
      BY <2>1, ActiveLease DEF Active, Inv, SentinelCovers
    <3>2. ledger'[n].lease <= ledger[n].lease
      BY <2>1, <2>3 DEF Writes
    <3>3. /\ ledger[n].lease \in Nat /\ accounts[ledger[n].account].sentinel \in Nat
          /\ accounts'[ledger[n].account] = accounts[ledger[n].account]
      <4>1. accounts[ledger[n].account] \in Account
        BY <2>1 DEF Inv, TypeOK
      <4> QED
        BY <1>2, <2>1, <2>3, <4>1, EntryTypes, Limits DEF Inv, Account
    <3>4. ledger'[n].lease \in Nat
      <4>1. ledger'[n] \in Entry
        BY DEF Writes, Shrinks
      <4> QED
        BY <4>1, Limits DEF Entry
    <3> QED
      BY <2>1, <3>1, <3>2, <3>3, <3>4
  <2> QED
    BY <2>2, <2>3
<1>5. CooldownInv'
  BY <1>2 DEF CooldownInv, Inv, Writes
<1>6. \A d \in Callers : callers'[d].pc = "granted" =>
        /\ callers[d].pc = "granted"
        /\ accounts'[AccountOf[d]].concurrency = accounts[AccountOf[d]].concurrency
  <2> SUFFICES ASSUME NEW d \in Callers, callers'[d].pc = "granted"
               PROVE  /\ callers[d].pc = "granted"
                      /\ accounts'[AccountOf[d]].concurrency = accounts[AccountOf[d]].concurrency
    OBVIOUS
  <2>1. d # c /\ callers[d].pc = "granted"
    BY <1>1 DEF Writes
  <2>2. AccountOf[d] \in Accounts
    BY CallerTypes DEF Inv
  <2>3. CASE AccountOf[d] = AccountOf[c]
    <3>1. w.concurrency = Mine(c).concurrency
      BY <2>1, <2>3 DEF Writes, AccountFree, Decided
    <3> QED
      BY <1>2, <2>1, <2>3, <3>1 DEF Mine
  <2> QED
    BY <1>2, <2>1, <2>2, <2>3
<1>7. Shrinks
  BY DEF Writes
<1> QED
  BY <1>1, <1>3, <1>4, <1>5, <1>6, <1>7, ShrinkStep

\* A step that leaves the ledger is one that shrinks it.
LEMMA SameLedger ==
  ASSUME Inv, UNCHANGED ledger
  PROVE  /\ Shrinks
         /\ \A n \in DOMAIN ledger :
              /\ ledger[n].account \in Accounts /\ ledger'[n].lease = ledger[n].lease
              /\ ledger'[n].lease <= ledger[n].lease
              /\ ledger'[n].state \in {"reserved", "sent"} =>
                   ledger'[n].lease <= accounts[ledger[n].account].sentinel
<1>1. Shrinks
  BY DEF Shrinks, Inv, TypeOK, EntriesInv
<1>2. ASSUME NEW n \in DOMAIN ledger, ledger[n].state \in {"reserved", "sent"}
      PROVE  ledger[n].lease <= accounts[ledger[n].account].sentinel
  <2>1. CASE Active(n)
    BY <2>1 DEF Inv, SentinelCovers
  <2>2. CASE ~Active(n)
    <3>1. ledger[n].lease = 0
      BY <1>2, <2>2, EntryTypes DEF Active, Inv
    <3>2. accounts[ledger[n].account] \in Account
      BY EntryTypes DEF Inv, TypeOK
    <3>3. accounts[ledger[n].account].sentinel \in Nat
      BY <3>2, Limits DEF Account
    <3> QED
      BY <3>1, <3>3
  <2> QED
    BY <2>1, <2>2
<1> QED
  BY <1>1, <1>2, EntryTypes DEF Inv

LEMMA SetPriorityInv ==
  ASSUME Inv, NEW c \in Callers, SetPriority(c)
  PROVE  Inv'
<1>1. Mine(c) \in Account /\ RunOf[c] \in Runs /\ AccountOf[c] \in Accounts
  BY CallerTypes DEF Inv, Mine
<1>2. PICK x : x = [Mine(c) EXCEPT !.priority = PriorityTTL, !.holder = RunOf[c]]
  OBVIOUS
<1>3. x \in Account /\ x.cooldown = Mine(c).cooldown /\ x.sentinel = Mine(c).sentinel
      /\ x.concurrency = Mine(c).concurrency
  <2>1. PICK m : m = Mine(c)
    OBVIOUS
  <2>2. m \in Account /\ x = [m EXCEPT !.priority = PriorityTTL, !.holder = RunOf[c]]
    BY <1>1, <1>2, <2>1
  <2>3. PriorityTTL \in 0..PriorityTTL /\ RunOf[c] \in Runs \cup {NoRun}
    BY <1>1, Limits
  <2> HIDE <1>2
  <2>4. x \in Account /\ x.cooldown = m.cooldown /\ x.sentinel = m.sentinel
        /\ x.concurrency = m.concurrency
    BY <2>2, <2>3 DEF Account
  <2> QED
    BY <2>1, <2>4
<1> HIDE <1>2
<1>4. PICK w : w = IF Mine(c).priority = 0 \/ Mine(c).holder = RunOf[c] THEN x ELSE Mine(c)
  OBVIOUS
<1>5. w \in Account /\ w.cooldown = Mine(c).cooldown /\ w.sentinel = Mine(c).sentinel
      /\ w.concurrency = Mine(c).concurrency
  BY <1>1, <1>4, <1>3
<1>6. accounts' = [accounts EXCEPT ![AccountOf[c]] = w]
  <2>1. CASE Mine(c).priority = 0 \/ Mine(c).holder = RunOf[c]
    <3>1. accounts' = [accounts EXCEPT ![AccountOf[c]] = x]
      BY <1>2, <2>1 DEF SetPriority, Mine
    <3>2. w = x
      BY <1>4, <2>1, Zenon
    <3> QED
      BY <3>1, <3>2
  <2>2. CASE ~(Mine(c).priority = 0 \/ Mine(c).holder = RunOf[c])
    <3>1. accounts' = accounts
      BY <2>2, Zenon DEF SetPriority
    <3>2. w = accounts[AccountOf[c]]
      BY <1>4, <2>2, Zenon DEF Mine
    <3> QED
      BY <1>1, <3>1, <3>2 DEF Inv, TypeOK
  <2> QED
    BY <2>1, <2>2
<1> HIDE <1>4
<1>7. Moves(c, Idle) /\ Idle.pc = "idle"
  BY ReturnMoves DEF SetPriority
<1>8. Writes(c, Idle, w)
  BY <1>1, <1>5, <1>6, <1>7, SameLedger DEF SetPriority, Writes, Mine, Inv, CooldownInv, TypeOK
<1> QED
  BY <1>8, WriteStep

\* The sweep ends what ran out.
LEMMA SweptShrinks ==
  ASSUME Inv, NEW c \in Callers
  PROVE  /\ Swept(c) \in Seq(Entry) /\ DOMAIN Swept(c) = DOMAIN ledger
         /\ \A n \in DOMAIN ledger :
              /\ Swept(c)[n].account = ledger[n].account /\ Swept(c)[n].run = ledger[n].run
              /\ Swept(c)[n].batch = ledger[n].batch /\ Swept(c)[n].recent = ledger[n].recent
              /\ Swept(c)[n].lease = ledger[n].lease
              /\ Swept(c)[n].state # ledger[n].state =>
                   Swept(c)[n].state = "interrupted" /\ ledger[n].lease = 0
<1>1. ASSUME NEW n \in DOMAIN ledger
      PROVE  /\ Swept(c)[n] \in Entry
             /\ Swept(c)[n].account = ledger[n].account /\ Swept(c)[n].run = ledger[n].run
             /\ Swept(c)[n].batch = ledger[n].batch /\ Swept(c)[n].recent = ledger[n].recent
             /\ Swept(c)[n].lease = ledger[n].lease
             /\ Swept(c)[n].state # ledger[n].state =>
                  Swept(c)[n].state = "interrupted" /\ ledger[n].lease = 0
  <2>1. PICK x : x = [ledger[n] EXCEPT !.state = "interrupted"]
    OBVIOUS
  <2>2. ledger[n] \in Entry
    BY EntryTypes DEF Inv
  <2>3. /\ x \in Entry /\ x.account = ledger[n].account /\ x.run = ledger[n].run
        /\ x.batch = ledger[n].batch /\ x.recent = ledger[n].recent /\ x.lease = ledger[n].lease
        /\ x.state = "interrupted"
    BY <2>1, <2>2 DEF Entry, Ended
  <2>4. Swept(c)[n] = IF /\ ledger[n].account = AccountOf[c]
                         /\ ledger[n].state \in {"reserved", "sent"} /\ ledger[n].lease = 0
                      THEN x ELSE ledger[n]
    BY <2>1, Zenon DEF Swept
  <2> HIDE <2>1
  <2> QED
    BY <2>2, <2>3, <2>4
<1>2. DOMAIN Swept(c) = 1..Len(ledger) /\ Len(ledger) \in Nat /\ DOMAIN ledger = 1..Len(ledger)
  BY DEF Swept, Inv, TypeOK
<1>3. Swept(c) = [n \in 1..Len(ledger) |-> Swept(c)[n]]
  BY <1>2 DEF Swept
<1>4. Swept(c) \in Seq(Entry)
  BY <1>1, <1>2, <1>3
<1> QED
  BY <1>1, <1>2, <1>4

LEMMA CommitDeniedInv ==
  ASSUME Inv, NEW c \in Callers, CommitDenied(c)
  PROVE  Inv'
<1>1. PICK v : Moves(c, v) /\ v.pc = "refused"
  <2>1. "refused" \in Pcs /\ "refused" \notin Owning /\ "refused" \notin InTransaction
        /\ "refused" \notin Decided
    BY DEF Pcs, Owning, Holding, InTransaction, Decided
  <2> QED
    BY <2>1, GoToMoves DEF CommitDenied
<1>2. Mine(c) \in Account /\ AccountOf[c] \in Accounts
  BY CallerTypes DEF Inv, Mine
<1>3. accounts' = [accounts EXCEPT ![AccountOf[c]] = Mine(c)]
  BY <1>2 DEF CommitDenied, Mine, Inv, TypeOK
<1>4. /\ Shrinks
      /\ \A n \in DOMAIN ledger :
           /\ ledger'[n].lease <= ledger[n].lease
           /\ ledger'[n].state \in {"reserved", "sent"} =>
                ledger'[n].lease <= accounts[ledger[n].account].sentinel
  <2>1. CASE ledger' = ledger
    BY <2>1, SameLedger
  <2>2. CASE ledger' = Swept(c)
    <3>1. Shrinks
      <4>1. ASSUME NEW n \in DOMAIN ledger, ledger'[n].state \in Ended
            PROVE  ledger'[n].lease = 0
        <5>1. ledger'[n].lease = ledger[n].lease
              /\ (ledger'[n].state = ledger[n].state \/ ledger[n].lease = 0)
          BY <2>2, SweptShrinks
        <5> QED
          BY <4>1, <5>1 DEF Inv, EntriesInv
      <4> QED
        BY <2>2, <4>1, SweptShrinks DEF Shrinks
    <3>2. ASSUME NEW n \in DOMAIN ledger, ledger'[n].state \in {"reserved", "sent"}
          PROVE  ledger'[n].lease <= accounts[ledger[n].account].sentinel
      <4>1. ledger'[n].state = ledger[n].state /\ ledger'[n].lease = ledger[n].lease
        BY <2>2, <3>2, SweptShrinks
      <4>2. Active(n) \/ ledger[n].lease = 0
        BY <3>2, <4>1, EntryTypes DEF Active, Inv
      <4>3. accounts[ledger[n].account] \in Account
        BY EntryTypes DEF Inv, TypeOK
      <4>4. accounts[ledger[n].account].sentinel \in Nat
        BY <4>3, Limits DEF Account
      <4> QED
        BY <4>1, <4>2, <4>4 DEF Inv, SentinelCovers
    <3>3. \A n \in DOMAIN ledger : ledger'[n].lease <= ledger[n].lease
      BY <2>2, SweptShrinks, EntryTypes DEF Inv
    <3> QED
      BY <3>1, <3>2, <3>3
  <2> QED
    BY <2>1, <2>2 DEF CommitDenied
<1>5. Writes(c, v, Mine(c))
  BY <1>1, <1>2, <1>3, <1>4 DEF CommitDenied, Writes, Mine, Inv, CooldownInv, TypeOK
<1> QED
  BY <1>5, WriteStep

LEMMA MarkSentInv ==
  ASSUME Inv, NEW c \in Callers, MarkSent(c)
  PROVE  Inv'
<1> DEFINE n == callers[c].id
<1>1. callers[c].pc \in Owning /\ n \in DOMAIN ledger /\ ledger[n].account = AccountOf[c]
  <2>1. callers[c].pc \in Owning
    BY DEF MarkSent, Owning, Holding
  <2> QED
    BY <2>1, CallerTypes DEF Inv, OwnersInv
<1>2. \E v : Moves(c, v) /\ v.pc # "granted"
  <2>1. CASE GoTo(c, "sent")
    <3>1. "sent" \in Pcs /\ "sent" \notin InTransaction /\ "sent" \notin Decided
      BY DEF Pcs, Holding, InTransaction, Decided
    <3> QED
      BY <1>1, <2>1, <3>1, GoToMoves
  <2>2. CASE FinishWith(c, "interrupted", 0)
    <3>1. "interrupted" \in Ended /\ 0 \in 0..MaxRetry
      BY Limits DEF Ended
    <3>2. \E v : Moves(c, v) /\ v.pc = "finishing"
      BY <1>1, <2>2, <3>1, FinishMoves
    <3> QED
      BY <3>2
  <2> QED
    BY <2>1, <2>2 DEF MarkSent
<1>3. PICK x : x = [ledger[n] EXCEPT !.state = "sent"]
  OBVIOUS
<1>4. ledger[n] \in Entry
  BY <1>1, EntryTypes DEF Inv
<1>5. /\ x \in Entry /\ x.account = ledger[n].account /\ x.run = ledger[n].run
      /\ x.batch = ledger[n].batch /\ x.recent = ledger[n].recent /\ x.lease = ledger[n].lease
      /\ x.state = "sent"
  BY <1>3, <1>4 DEF Entry
<1>6. /\ ledger' \in Seq(Entry) /\ DOMAIN ledger' = DOMAIN ledger /\ ledger'[n] = x
      /\ \A m \in DOMAIN ledger : m # n => ledger'[m] = ledger[m]
  <2>1. ledger' = [ledger EXCEPT ![n] = x]
    BY <1>3 DEF MarkSent
  <2> HIDE DEF n
  <2> HIDE <1>3
  <2> QED
    BY <1>1, <1>5, <2>1 DEF Inv, TypeOK
<1> HIDE <1>3 DEF n
<1>7. Shrinks
  BY <1>1, <1>5, <1>6, EntryTypes DEF Shrinks, Inv, EntriesInv, Ended
<1>8. \A m \in DOMAIN ledger :
        /\ ledger'[m].lease = ledger[m].lease /\ ledger[m].lease \in Nat
        /\ accounts[ledger[m].account].sentinel \in Nat
        /\ ledger[m].lease <= accounts[ledger[m].account].sentinel
  <2> TAKE m \in DOMAIN ledger
  <2>1. ledger'[m].lease = ledger[m].lease /\ ledger[m].lease \in Nat
    BY <1>5, <1>6, EntryTypes DEF Inv
  <2>2. accounts[ledger[m].account] \in Account
    BY EntryTypes DEF Inv, TypeOK
  <2>3. accounts[ledger[m].account].sentinel \in Nat
    BY <2>2, Limits DEF Account
  <2>4. Active(m) \/ ledger[m].lease = 0
    BY <2>1, ActiveLease DEF Inv
  <2> QED
    BY <2>1, <2>3, <2>4 DEF Inv, SentinelCovers
<1>9. Mine(c) \in Account /\ AccountOf[c] \in Accounts
  BY CallerTypes DEF Inv, Mine
<1>10. accounts' = [accounts EXCEPT ![AccountOf[c]] = Mine(c)]
  BY <1>9 DEF MarkSent, Mine, Inv, TypeOK
<1>11. \A m \in DOMAIN ledger :
         IF ledger[m].account = AccountOf[c]
         THEN ledger'[m].state \in {"reserved", "sent"} => ledger'[m].lease <= Mine(c).sentinel
         ELSE ledger'[m].lease <= ledger[m].lease
  BY <1>8 DEF Mine
<1>12. /\ deadlines' \in [Accounts -> 0..MaxRetry] /\ deadlines'[AccountOf[c]] = Mine(c).cooldown
       /\ \A a \in Accounts \ {AccountOf[c]} : deadlines'[a] = deadlines[a]
  BY <1>9 DEF MarkSent, Mine, Inv, CooldownInv, TypeOK
<1> QED
  BY <1>2, <1>7, <1>9, <1>10, <1>11, <1>12, WriteStep DEF Writes

LEMMA HeartbeatInv ==
  ASSUME Inv, NEW c \in Callers, Heartbeat(c)
  PROVE  Inv'
<1> DEFINE n == callers[c].id
<1>1. callers[c].pc \in Owning /\ callers[c] \in Caller /\ n \in DOMAIN ledger
      /\ callers[c].pc \notin InTransaction /\ callers[c].pc # "granted"
  <2>1. callers[c].pc \in Owning /\ callers[c].pc \notin InTransaction /\ callers[c].pc # "granted"
    BY DEF Heartbeat, Owning, Holding, InTransaction, Decided
  <2> QED
    BY <2>1, CallerTypes DEF Inv
<1>2. Moves(c, callers[c])
  BY <1>1 DEF Heartbeat, Moves, InTransaction, Inv, TypeOK
<1>3. PICK x : x = [ledger[n] EXCEPT !.lease = LeaseTTL]
  OBVIOUS
<1>4. ledger[n] \in Entry /\ ledger[n].lease > 0 /\ ledger[n].state \in {"reserved", "sent"}
  BY <1>1, EntryTypes DEF Inv, Heartbeat, Renews, Active
<1>5. /\ x \in Entry /\ x.account = ledger[n].account /\ x.run = ledger[n].run
      /\ x.batch = ledger[n].batch /\ x.recent = ledger[n].recent /\ x.lease = LeaseTTL
      /\ x.state = ledger[n].state
  BY <1>3, <1>4, Limits DEF Entry
<1>6. /\ ledger' \in Seq(Entry) /\ DOMAIN ledger' = DOMAIN ledger /\ ledger'[n] = x
      /\ \A m \in DOMAIN ledger : m # n => ledger'[m] = ledger[m]
  <2>1. ledger' = [ledger EXCEPT ![n] = x]
    BY <1>3 DEF Heartbeat
  <2> HIDE <1>3 DEF n
  <2> QED
    BY <1>1, <1>5, <2>1 DEF Inv, TypeOK
<1> HIDE <1>3 DEF n
<1>7. Shrinks
  BY <1>1, <1>4, <1>5, <1>6, EntryTypes DEF Shrinks, Inv, EntriesInv, Ended
<1>8. PICK w : w = [Mine(c) EXCEPT !.sentinel = LeaseTTL]
  OBVIOUS
<1>9. Mine(c) \in Account /\ AccountOf[c] \in Accounts
  BY CallerTypes DEF Inv, Mine
<1>10. w \in Account /\ w.sentinel = LeaseTTL /\ w.cooldown = Mine(c).cooldown
       /\ w.concurrency = Mine(c).concurrency
  BY <1>8, <1>9, Limits DEF Account
<1>11. accounts' = [accounts EXCEPT ![AccountOf[c]] = w]
  BY <1>8 DEF Heartbeat, Mine
<1> HIDE <1>8
<1>12. \A m \in DOMAIN ledger :
         IF ledger[m].account = AccountOf[c]
         THEN ledger'[m].state \in {"reserved", "sent"} => ledger'[m].lease <= w.sentinel
         ELSE ledger'[m].lease <= ledger[m].lease
  <2> TAKE m \in DOMAIN ledger
  <2>1. ledger[m] \in Entry /\ ledger[m].lease \in Nat /\ ledger[m].lease <= LeaseTTL
    BY EntryTypes, Limits DEF Entry, Inv
  <2>2. CASE m = n
    <3>1. ledger[n].account = AccountOf[c] /\ ledger'[m].lease <= w.sentinel
      BY <1>1, <1>5, <1>6, <1>10, <2>2, Limits DEF Inv, OwnersInv, n
    <3> QED
      BY <2>2, <3>1
  <2>3. CASE m # n
    BY <1>6, <1>10, <2>1, <2>3
  <2> QED
    BY <2>2, <2>3
<1>13. /\ deadlines' \in [Accounts -> 0..MaxRetry] /\ deadlines'[AccountOf[c]] = w.cooldown
       /\ \A a \in Accounts \ {AccountOf[c]} : deadlines'[a] = deadlines[a]
  BY <1>9, <1>10 DEF Heartbeat, Mine, Inv, CooldownInv, TypeOK
<1> QED
  BY <1>1, <1>2, <1>7, <1>10, <1>11, <1>12, <1>13, WriteStep DEF Writes

\* The end of a grouped request leaves a concurrency between 1 and GroupMax, and
\* the rest of the account.
LEMMA AdaptedType ==
  ASSUME NEW account \in Account, NEW outcome
  PROVE  /\ Adapted(account, outcome) \in Account
         /\ Adapted(account, outcome).cooldown = account.cooldown
         /\ Adapted(account, outcome).sentinel = account.sentinel
<1>1. PICK concurrency :
        concurrency = IF outcome # "completed" THEN Larger(1, account.concurrency \div 2)
                      ELSE IF account.streak >= RaiseAfter - 1
                           THEN Smaller(GroupMax, account.concurrency + 1)
                           ELSE account.concurrency
  OBVIOUS
<1>2. PICK streak :
        streak = IF outcome # "completed" \/ account.streak >= RaiseAfter - 1 THEN 0
                 ELSE account.streak + 1
  OBVIOUS
<1>3. Adapted(account, outcome) = [account EXCEPT !.concurrency = concurrency, !.streak = streak]
  BY <1>1, <1>2, Zenon DEF Adapted
<1>4. /\ account.concurrency \in 1..GroupMax /\ account.streak \in 0..(RaiseAfter - 1)
  BY DEF Account
<1>5. concurrency \in 1..GroupMax
  <2>1. Larger(1, account.concurrency \div 2) \in 1..GroupMax
    <3>1. account.concurrency \div 2 \in Nat /\ account.concurrency \div 2 <= account.concurrency
      BY <1>4, Limits
    <3> QED
      BY <1>4, <3>1, Limits DEF Larger
  <2>2. Smaller(GroupMax, account.concurrency + 1) \in 1..GroupMax
    BY <1>4, Limits DEF Smaller
  <2> QED
    BY <1>1, <1>4, <2>1, <2>2
<1>6. streak \in 0..(RaiseAfter - 1)
  BY <1>2, <1>4, Limits
<1> HIDE <1>1, <1>2
<1> QED
  BY <1>3, <1>5, <1>6 DEF Account

LEMMA FinishInv ==
  ASSUME Inv, NEW c \in Callers, Finish(c)
  PROVE  Inv'
<1> DEFINE n == callers[c].id
           a == AccountOf[c]
<1>1. /\ callers[c].pc = "finishing" /\ AccountFree(c) /\ Return(c)
      /\ callers[c].outcome \in Ended /\ callers[c].retry \in 0..MaxRetry
      /\ n \in DOMAIN ledger /\ ledger[n].account = a /\ a \in Accounts
  <2>1. callers[c].pc = "finishing" /\ AccountFree(c) /\ Return(c)
    BY DEF Finish
  <2>2. callers[c].pc \in Owning
    BY <2>1 DEF Owning
  <2> QED
    BY <2>1, <2>2, CallerTypes DEF Inv, OwnersInv
<1>2. Moves(c, Idle) /\ Idle.pc = "idle"
  BY <1>1, ReturnMoves
<1>3. PICK x : x = [ledger[n] EXCEPT !.state = callers[c].outcome, !.lease = 0]
  OBVIOUS
<1>4. PICK entries : entries = IF Ends(n) THEN [ledger EXCEPT ![n] = x] ELSE ledger
  OBVIOUS
<1>5. PICK account : account = [accounts[a] EXCEPT
                                  !.cooldown = LongestCooldown(accounts[a].cooldown, callers[c].retry),
                                  !.sentinel = LongestLease(a, entries)]
  OBVIOUS
<1>6. PICK w : w = IF Ends(n) /\ ledger[n].adaptive THEN Adapted(account, callers[c].outcome)
                   ELSE account
  OBVIOUS
<1>7. /\ ledger' = entries /\ accounts' = [accounts EXCEPT ![a] = w]
      /\ deadlines' = [deadlines EXCEPT ![a] = Larger(deadlines[a], callers[c].retry)]
  BY <1>3, <1>4, <1>5, <1>6, Zenon DEF Finish
<1>8. /\ x \in Entry /\ x.account = ledger[n].account /\ x.run = ledger[n].run
      /\ x.batch = ledger[n].batch /\ x.recent = ledger[n].recent /\ x.lease = 0
      /\ x.state = callers[c].outcome
  <2>1. PICK y, outcome : y = ledger[n] /\ outcome = callers[c].outcome
    OBVIOUS
  <2>2. y \in Entry /\ outcome \in Ended /\ 0 \in 0..LeaseTTL
    BY <1>1, <2>1, EntryTypes, Limits DEF Inv
  <2>3. x = [y EXCEPT !.state = outcome, !.lease = 0]
    BY <1>3, <2>1, Zenon
  <2>4. /\ x \in Entry /\ x.account = y.account /\ x.run = y.run
        /\ x.batch = y.batch /\ x.recent = y.recent /\ x.lease = 0 /\ x.state = outcome
    BY <2>2, <2>3 DEF Entry
  <2> QED
    BY <2>1, <2>4
<1> HIDE <1>3 DEF n, a
<1>9. /\ entries \in Seq(Entry) /\ DOMAIN entries = DOMAIN ledger
      /\ entries[n] = IF Ends(n) THEN x ELSE ledger[n]
      /\ \A m \in DOMAIN ledger : m # n => entries[m] = ledger[m]
  <2>1. CASE Ends(n)
    <3>1. entries = [ledger EXCEPT ![n] = x]
      BY <1>4, <2>1, Zenon
    <3> QED
      BY <1>1, <1>8, <2>1, <3>1 DEF Inv, TypeOK
  <2>2. CASE ~Ends(n)
    BY <1>4, <2>2 DEF Inv, TypeOK
  <2> QED
    BY <2>1, <2>2
<1> HIDE <1>4
<1>10. Shrinks
  <2>1. \A m \in DOMAIN ledger : ledger[m].lease \in Nat
    BY EntryTypes DEF Inv
  <2> QED
    BY <1>1, <1>7, <1>8, <1>9, <2>1 DEF Shrinks, Inv, EntriesInv
<1>11. /\ LongestLease(a, entries) \in 0..LeaseTTL
       /\ \A m \in DOMAIN ledger :
            entries[m].account = a /\ entries[m].state \in {"reserved", "sent"} =>
              entries[m].lease <= LongestLease(a, entries)
  BY <1>1, <1>9, LongestLeaseBounds
<1>12. accounts[a] \in Account /\ accounts[a].cooldown \in 0..MaxRetry
       /\ accounts[a].cooldown = deadlines[a]
  BY <1>1 DEF Inv, TypeOK, Account, CooldownInv
<1>13. /\ account \in Account /\ account.sentinel = LongestLease(a, entries)
       /\ account.cooldown = Larger(deadlines[a], callers[c].retry)
       /\ account.cooldown \in 0..MaxRetry
  <2>1. PICK old, cooldown, lease :
          /\ old = accounts[a] /\ lease = LongestLease(a, entries)
          /\ cooldown = LongestCooldown(accounts[a].cooldown, callers[c].retry)
    OBVIOUS
  <2>2. cooldown = Larger(deadlines[a], callers[c].retry) /\ cooldown \in 0..MaxRetry
    BY <1>1, <1>12, <2>1, Limits DEF LongestCooldown, Larger
  <2>3. old \in Account /\ lease \in 0..LeaseTTL
    BY <1>11, <1>12, <2>1
  <2>4. account = [old EXCEPT !.cooldown = cooldown, !.sentinel = lease]
    BY <1>5, <2>1, Zenon
  <2>5. account \in Account /\ account.sentinel = lease /\ account.cooldown = cooldown
    BY <2>2, <2>3, <2>4 DEF Account
  <2> QED
    BY <2>1, <2>2, <2>5
<1> HIDE <1>5
<1>14. w \in Account /\ w.cooldown = account.cooldown /\ w.sentinel = account.sentinel
  <2>1. w = account \/ w = Adapted(account, callers[c].outcome)
    BY <1>6, Zenon
  <2> QED
    BY <1>13, <2>1, AdaptedType
<1>15. \A m \in DOMAIN ledger :
         IF ledger[m].account = a
         THEN ledger'[m].state \in {"reserved", "sent"} => ledger'[m].lease <= w.sentinel
         ELSE ledger'[m].lease <= ledger[m].lease
  <2> TAKE m \in DOMAIN ledger
  <2>1. CASE ledger[m].account = a
    <3>1. entries[m].account = a
      BY <1>8, <1>9, <2>1
    <3> QED
      BY <1>7, <1>11, <1>13, <1>14, <2>1, <3>1
  <2>2. CASE ledger[m].account # a
    <3>1. ledger'[m] = ledger[m]
      BY <1>1, <1>7, <1>9, <2>2
    <3>2. ledger[m].lease \in Nat
      BY EntryTypes DEF Inv
    <3> QED
      BY <2>2, <3>1, <3>2
  <2> QED
    BY <2>1, <2>2
<1>16. /\ deadlines' \in [Accounts -> 0..MaxRetry] /\ deadlines'[a] = w.cooldown
       /\ \A b \in Accounts \ {a} : deadlines'[b] = deadlines[b]
  BY <1>1, <1>7, <1>13, <1>14 DEF Inv, TypeOK
<1> QED
  BY <1>1, <1>2, <1>7, <1>10, <1>14, <1>15, <1>16, WriteStep DEF Writes, a

-----------------------------------------------------------------------------
(* Time *)

LEMMA BeforeType ==
  ASSUME NEW m \in Nat, NEW n \in 0..m
  PROVE  Before(n) \in 0..m /\ Before(n) <= n
BY DEF Before

LEMMA TickInv ==
  ASSUME Inv, Tick
  PROVE  Inv'
<1>1. ASSUME NEW n \in DOMAIN ledger
      PROVE  /\ ledger'[n] \in Entry
             /\ ledger'[n].account = ledger[n].account /\ ledger'[n].run = ledger[n].run
             /\ ledger'[n].batch = ledger[n].batch /\ ledger'[n].state = ledger[n].state
             /\ ledger'[n].lease = Before(ledger[n].lease)
             /\ ledger'[n].recent = Before(ledger[n].recent)
  <2>1. PICK y, lease, recent : /\ y = ledger[n] /\ lease = Before(ledger[n].lease)
                                /\ recent = Before(ledger[n].recent)
    OBVIOUS
  <2>2. y \in Entry /\ lease \in 0..LeaseTTL /\ recent \in 0..Window
    <3>1. ledger[n] \in Entry
      BY EntryTypes DEF Inv
    <3>2. ledger[n].lease \in 0..LeaseTTL /\ ledger[n].recent \in 0..Window
      BY <3>1 DEF Entry
    <3> QED
      BY <2>1, <3>1, <3>2, BeforeType, Limits
  <2>3. ledger'[n] = [y EXCEPT !.lease = lease, !.recent = recent]
    BY <2>1, Zenon DEF Tick
  <2>4. /\ ledger'[n] \in Entry /\ ledger'[n].account = y.account /\ ledger'[n].run = y.run
        /\ ledger'[n].batch = y.batch /\ ledger'[n].state = y.state
        /\ ledger'[n].lease = lease /\ ledger'[n].recent = recent
    BY <2>2, <2>3 DEF Entry
  <2> QED
    BY <2>1, <2>4
<1>2. DOMAIN ledger' = DOMAIN ledger /\ ledger' \in Seq(Entry)
  <2>1. DOMAIN ledger = 1..Len(ledger) /\ Len(ledger) \in Nat
    BY DEF Inv, TypeOK
  <2>2. ledger' = [n \in 1..Len(ledger) |-> ledger'[n]]
    BY <2>1 DEF Tick
  <2> QED
    BY <1>1, <2>1, <2>2
<1>3. ASSUME NEW a \in Accounts
      PROVE  /\ accounts'[a] \in Account
             /\ accounts'[a].cooldown = Before(accounts[a].cooldown)
             /\ accounts'[a].sentinel = Before(accounts[a].sentinel)
             /\ accounts'[a].concurrency = accounts[a].concurrency
             /\ deadlines'[a] = Before(deadlines[a]) /\ deadlines'[a] \in 0..MaxRetry
  <2>1. PICK y, cooldown, priority, sentinel :
          /\ y = accounts[a] /\ cooldown = Before(accounts[a].cooldown)
          /\ priority = Before(accounts[a].priority) /\ sentinel = Before(accounts[a].sentinel)
    OBVIOUS
  <2>2. /\ y \in Account /\ cooldown \in 0..MaxRetry /\ priority \in 0..PriorityTTL
        /\ sentinel \in 0..LeaseTTL
    <3>1. accounts[a] \in Account
      BY DEF Inv, TypeOK
    <3>2. /\ accounts[a].cooldown \in 0..MaxRetry /\ accounts[a].priority \in 0..PriorityTTL
          /\ accounts[a].sentinel \in 0..LeaseTTL
      BY <3>1 DEF Account
    <3> QED
      BY <2>1, <3>1, <3>2, BeforeType, Limits
  <2>3. accounts'[a] = [y EXCEPT !.cooldown = cooldown, !.priority = priority, !.sentinel = sentinel]
    BY <2>1, Zenon DEF Tick
  <2>4. /\ accounts'[a] \in Account /\ accounts'[a].cooldown = cooldown
        /\ accounts'[a].sentinel = sentinel /\ accounts'[a].concurrency = y.concurrency
    BY <2>2, <2>3 DEF Account
  <2>5. deadlines'[a] = Before(deadlines[a]) /\ deadlines'[a] \in 0..MaxRetry
    <3>1. deadlines[a] \in 0..MaxRetry
      BY DEF Inv, TypeOK
    <3> QED
      BY <3>1, BeforeType, Limits DEF Tick
  <2> QED
    BY <2>1, <2>4, <2>5
<1>4. TypeOK'
  <2>1. accounts' \in [Accounts -> Account]
    <3>1. accounts' = [a \in Accounts |-> accounts'[a]]
      BY DEF Tick
    <3> QED
      BY <1>3, <3>1
  <2>2. deadlines' \in [Accounts -> 0..MaxRetry]
    BY <1>3 DEF Tick
  <2> QED
    BY <1>2, <2>1, <2>2 DEF TypeOK, Inv, Tick
<1>5. Shrinks
  <2>1. ASSUME NEW n \in DOMAIN ledger
        PROVE  /\ ledger[n].recent \in Nat /\ ledger[n].lease \in Nat
               /\ ledger[n].state \in Ended => ledger[n].lease = 0
    BY EntryTypes DEF Inv, EntriesInv
  <2> QED
    BY <1>1, <1>2, <2>1 DEF Shrinks, Before
<1>6. SentinelCovers'
  <2> SUFFICES ASSUME NEW n \in DOMAIN ledger, Active(n)'
               PROVE  ledger'[n].lease <= accounts'[ledger'[n].account].sentinel
    BY <1>2 DEF SentinelCovers
  <2>1. Active(n) /\ ledger[n].lease \in Nat /\ ledger[n].account \in Accounts
    BY <1>1, EntryTypes DEF Active, Before, Inv
  <2>2. ledger[n].lease <= accounts[ledger[n].account].sentinel
    BY <2>1 DEF Inv, SentinelCovers
  <2>3. accounts[ledger[n].account] \in Account
    BY <2>1 DEF Inv, TypeOK
  <2>4. accounts[ledger[n].account].sentinel \in Nat
    BY <2>3, Limits DEF Account
  <2>5. Before(ledger[n].lease) <= Before(accounts[ledger[n].account].sentinel)
    BY <2>1, <2>2, <2>4 DEF Before
  <2> QED
    BY <1>1, <1>3, <2>1, <2>5
<1>7. CooldownInv'
  BY <1>3 DEF CooldownInv, Inv
<1>8. LocksInv'
  BY DEF Tick, Inv, LocksInv
<1>9. \A c \in Callers : callers'[c].pc # "granted"
  BY DEF Tick, Decided
<1>10. \A c \in Callers : callers'[c] = callers[c]
  BY DEF Tick
<1> QED
  BY <1>4, <1>5, <1>6, <1>7, <1>8, <1>9, <1>10, ShrinkStep

-----------------------------------------------------------------------------
(* The step that adds to the ledger *)

LEMMA OneMore ==
  ASSUME NEW S, IsFiniteSet(S), NEW e, NEW T \in SUBSET (S \cup {e}), NEW n \in Nat,
         Cardinality(S) < n
  PROVE  Cardinality(T) <= n
<1>1. IsFiniteSet(S \cup {e}) /\ Cardinality(S) \in Nat
      /\ (Cardinality(S \cup {e}) = Cardinality(S) \/ Cardinality(S \cup {e}) = Cardinality(S) + 1)
  BY FS_AddElement, FS_CardinalityType
<1>2. Cardinality(S \cup {e}) <= n
  BY <1>1
<1> QED
  BY <1>1, <1>2, SmallerSet

\* What a request that is granted adds, and to whom.
LEMMA GrantedAdds ==
  ASSUME Inv, NEW c \in Callers, CommitGranted(c), NEW new, new = Len(ledger) + 1
  PROVE  /\ ledger' \in Seq(Entry) /\ DOMAIN ledger' = DOMAIN ledger \cup {new}
         /\ new \notin DOMAIN ledger /\ ledger'[new] = Reserved(c)
         /\ \A n \in DOMAIN ledger :
              /\ ledger'[n].account = ledger[n].account /\ ledger'[n].run = ledger[n].run
              /\ ledger'[n].batch = ledger[n].batch /\ ledger'[n].recent = ledger[n].recent
              /\ ledger'[n].lease = ledger[n].lease
              /\ ledger'[n].state \in Ended => ledger[n].lease = 0
              /\ Active(n)' => Active(n)
         /\ Reserved(c) \in Entry
<1>1. Reserved(c) \in Entry
  BY CallerTypes, Limits DEF Inv, Reserved, Entry, Batch
<1>2. Len(ledger) \in Nat /\ DOMAIN ledger = 1..Len(ledger)
  BY DEF Inv, TypeOK
<1>3. Swept(c) \in Seq(Entry) /\ DOMAIN Swept(c) = 1..Len(ledger) /\ Len(Swept(c)) = Len(ledger)
  BY <1>2, SweptShrinks
<1>4. ledger' = Append(Swept(c), Reserved(c))
  BY DEF CommitGranted
<1>5. /\ ledger' \in Seq(Entry) /\ DOMAIN ledger' = 1..(Len(ledger) + 1)
      /\ ledger'[Len(ledger) + 1] = Reserved(c)
      /\ \A n \in DOMAIN ledger : ledger'[n] = Swept(c)[n]
  <2>1. PICK swept, entry : swept = Swept(c) /\ entry = Reserved(c)
    OBVIOUS
  <2>2. /\ swept \in Seq(Entry) /\ entry \in Entry /\ Len(swept) = Len(ledger)
        /\ ledger' = Append(swept, entry)
    BY <1>1, <1>3, <1>4, <2>1
  <2>3. /\ ledger' \in Seq(Entry) /\ DOMAIN ledger' = 1..(Len(ledger) + 1)
        /\ ledger'[Len(ledger) + 1] = entry
        /\ \A n \in 1..Len(ledger) : ledger'[n] = swept[n]
    BY <1>2, <2>2
  <2> QED
    BY <1>2, <2>1, <2>3
<1>6. ASSUME NEW n \in DOMAIN ledger
      PROVE  /\ ledger'[n].state \in Ended => ledger[n].lease = 0
             /\ Active(n)' => Active(n)
  <2>1. /\ ledger'[n].lease = ledger[n].lease
        /\ ledger'[n].state = ledger[n].state \/ (ledger'[n].state = "interrupted" /\ ledger[n].lease = 0)
    BY <1>5, SweptShrinks
  <2>2. ledger[n].lease \in Nat /\ (ledger[n].state \in Ended => ledger[n].lease = 0)
    BY EntryTypes DEF Inv, EntriesInv
  <2> QED
    BY <2>1, <2>2 DEF Active
<1> QED
  BY <1>1, <1>2, <1>5, <1>6, SweptShrinks

LEMMA SlotsType ==
  ASSUME TypeOK, NEW c \in Callers
  PROVE  Slots(c) \in Nat /\ Slots(c) <= IF Batch(c) THEN BatchSlots ELSE 1
<1>1. Mine(c) \in Account
  BY CallerTypes DEF Mine
<1>2. Mine(c).concurrency \in Nat /\ Concurrency[c] \in Nat
  BY <1>1, CallerAssumption, Limits DEF Account
<1> QED
  BY <1>2, Limits DEF Slots, Smaller

LEMMA SetTypes ==
  ASSUME TypeOK
  PROVE  /\ \A run : IsFiniteSet(CallsOf(run)) /\ Cardinality(CallsOf(run)) \in Nat
         /\ \A a : IsFiniteSet(RecentOf(a)) /\ Cardinality(RecentOf(a)) \in Nat
         /\ \A a, batch : /\ IsFiniteSet(ActiveOf(a, batch))
                          /\ Cardinality(ActiveOf(a, batch)) \in Nat
<1>1. \A run, a, batch : /\ CallsOf(run) \subseteq DOMAIN ledger /\ RecentOf(a) \subseteq DOMAIN ledger
                         /\ ActiveOf(a, batch) \subseteq DOMAIN ledger
  BY DEF CallsOf, RecentOf, ActiveOf
<1> QED
  BY <1>1, LedgerFinite

LEMMA CommitGrantedInv ==
  ASSUME Inv, NEW c \in Callers, CommitGranted(c)
  PROVE  Inv'
<1>1. PICK new : new = Len(ledger) + 1
  OBVIOUS
<1>2. /\ ledger' \in Seq(Entry) /\ DOMAIN ledger' = DOMAIN ledger \cup {new}
      /\ new \notin DOMAIN ledger /\ ledger'[new] = Reserved(c)
      /\ \A n \in DOMAIN ledger :
           /\ ledger'[n].account = ledger[n].account /\ ledger'[n].run = ledger[n].run
           /\ ledger'[n].batch = ledger[n].batch /\ ledger'[n].recent = ledger[n].recent
           /\ ledger'[n].lease = ledger[n].lease
           /\ ledger'[n].state \in Ended => ledger[n].lease = 0
           /\ Active(n)' => Active(n)
      /\ Reserved(c) \in Entry /\ new \in Nat
  <2>1. new \in Nat
    BY <1>1, LedgerFinite DEF Inv
  <2> QED
    BY <1>1, <2>1, GrantedAdds, Zenon
<1>3. /\ Reserved(c).account = AccountOf[c] /\ Reserved(c).run = RunOf[c]
      /\ Reserved(c).batch = Batch(c) /\ Reserved(c).lease = LeaseTTL
      /\ Reserved(c).state = "reserved"
  BY DEF Reserved
<1>4. /\ callers[c] \in Caller /\ Mine(c) \in Account /\ AccountOf[c] \in Accounts
      /\ RunOf[c] \in Runs /\ callers[c].pc = "granted" /\ Admits(c)
  BY CallerTypes DEF CommitGranted, Inv, GrantsInv, Mine
<1>5. /\ callers' \in [Callers -> Caller] /\ callers'[c].pc = "reserved" /\ callers'[c].id = new
      /\ \A d \in Callers : d # c => callers'[d] = callers[d]
  <2>1. PICK v : v = [callers[c] EXCEPT !.pc = "reserved", !.id = new]
    OBVIOUS
  <2>2. v \in Caller /\ v.pc = "reserved" /\ v.id = new
    <3>1. PICK u : u = callers[c]
      OBVIOUS
    <3>2. u \in Caller /\ v = [u EXCEPT !.pc = "reserved", !.id = new] /\ "reserved" \in Pcs
      BY <1>4, <2>1, <3>1 DEF Pcs, Holding
    <3> HIDE <2>1
    <3> QED
      BY <1>2, <3>2 DEF Caller
  <2>3. callers' = [callers EXCEPT ![c] = v]
    BY <1>1, <2>1, Zenon DEF CommitGranted
  <2> HIDE <2>1
  <2> QED
    BY <2>2, <2>3 DEF Inv, TypeOK
<1>6. /\ accounts' \in [Accounts -> Account] /\ accounts'[AccountOf[c]].sentinel = LeaseTTL
      /\ accounts'[AccountOf[c]].cooldown = accounts[AccountOf[c]].cooldown
      /\ \A a \in Accounts : a # AccountOf[c] => accounts'[a] = accounts[a]
  <2>1. PICK priority, holder :
          /\ priority = IF Batch(c) THEN Mine(c).priority ELSE 0
          /\ holder = IF Batch(c) THEN Mine(c).holder ELSE NoRun
    OBVIOUS
  <2>2. PICK w : w = [Mine(c) EXCEPT !.sentinel = LeaseTTL, !.priority = priority, !.holder = holder]
    OBVIOUS
  <2>3. accounts' = [accounts EXCEPT ![AccountOf[c]] = w]
    BY <2>1, <2>2, Zenon DEF CommitGranted, Mine
  <2>4. w \in Account /\ w.sentinel = LeaseTTL /\ w.cooldown = Mine(c).cooldown
    <3>1. /\ priority \in 0..PriorityTTL /\ holder \in Runs \cup {NoRun}
          /\ LeaseTTL \in 0..LeaseTTL
      BY <1>4, <2>1, Limits DEF Account
    <3>2. PICK m : m = Mine(c)
      OBVIOUS
    <3>3. m \in Account /\ w = [m EXCEPT !.sentinel = LeaseTTL, !.priority = priority, !.holder = holder]
      BY <1>4, <2>2, <3>2
    <3> HIDE <2>1, <2>2
    <3>4. w \in Account /\ w.sentinel = LeaseTTL /\ w.cooldown = m.cooldown
      BY <3>1, <3>3 DEF Account
    <3> QED
      BY <3>2, <3>4
  <2> HIDE <2>1, <2>2
  <2> QED
    BY <1>4, <2>3, <2>4 DEF Inv, TypeOK, Mine
<1> HIDE <1>1
<1>7. /\ \A run \in Runs : CallsOf(run)' \subseteq CallsOf(run) \cup {new}
      /\ \A run \in Runs : run # RunOf[c] => CallsOf(run)' = CallsOf(run)
      /\ \A a \in Accounts : RecentOf(a)' \subseteq RecentOf(a) \cup {new}
      /\ \A a \in Accounts : a # AccountOf[c] => RecentOf(a)' = RecentOf(a)
      /\ \A a \in Accounts, batch \in BOOLEAN :
           /\ ActiveOf(a, batch)' \subseteq ActiveOf(a, batch) \cup {new}
           /\ a # AccountOf[c] \/ batch # Batch(c) => ActiveOf(a, batch)' \subseteq ActiveOf(a, batch)
  <2>1. /\ \A run \in Runs : CallsOf(run)' \subseteq CallsOf(run) \cup {new}
        /\ \A run \in Runs : run # RunOf[c] => CallsOf(run)' = CallsOf(run)
    BY <1>2, <1>3 DEF CallsOf
  <2>2. /\ \A a \in Accounts : RecentOf(a)' \subseteq RecentOf(a) \cup {new}
        /\ \A a \in Accounts : a # AccountOf[c] => RecentOf(a)' = RecentOf(a)
    BY <1>2, <1>3 DEF RecentOf
  <2>3. ASSUME NEW a \in Accounts, NEW batch \in BOOLEAN
        PROVE  /\ ActiveOf(a, batch)' \subseteq ActiveOf(a, batch) \cup {new}
               /\ a # AccountOf[c] \/ batch # Batch(c) => ActiveOf(a, batch)' \subseteq ActiveOf(a, batch)
    BY <1>2, <1>3 DEF ActiveOf
  <2> QED
    BY <2>1, <2>2, <2>3, Zenon
<1>8. TypeOK'
  <2>1. \A d \in Callers : callers'[d].pc \in Owning => callers'[d].id \in DOMAIN ledger'
    BY <1>2, <1>5, CallerTypes DEF Inv
  <2> QED
    BY <1>2, <1>5, <1>6, <2>1 DEF TypeOK, Inv, CommitGranted, Owning
<1>9. EntriesInv'
  BY <1>2, <1>3 DEF EntriesInv, Ended
<1>10. LocksInv'
  <2>1. \A d \in Callers : /\ callers'[d].pc \in InTransaction => callers[d].pc \in InTransaction
                           /\ callers'[d].pc \in Decided => callers[d].pc \in Decided
    <3>1. "reserved" \notin InTransaction /\ "reserved" \notin Decided
      BY DEF InTransaction, Decided
    <3> QED
      BY <1>5, <3>1
  <2> QED
    BY <2>1 DEF LocksInv, Inv
<1>11. OwnersInv'
  <2>1. ASSUME NEW d \in Callers, callers'[d].pc \in Owning
        PROVE  /\ ledger'[callers'[d].id].account = AccountOf[d]
               /\ ledger'[callers'[d].id].batch = Batch(d)
               /\ callers'[d].id = new => d = c
               /\ d # c => callers[d].pc \in Owning /\ callers'[d].id = callers[d].id
    <3>1. CASE d = c
      BY <1>2, <1>3, <1>5, <3>1
    <3>2. CASE d # c
      <4>1. callers'[d] = callers[d] /\ callers[d].pc \in Owning /\ callers[d].id \in DOMAIN ledger
        BY <1>5, <2>1, <3>2, CallerTypes DEF Inv
      <4> QED
        BY <1>2, <3>2, <4>1 DEF Inv, OwnersInv
    <3> QED
      BY <3>1, <3>2
  <2>2. ASSUME NEW d \in Callers, NEW e \in Callers, callers'[d].pc \in Owning,
               callers'[e].pc \in Owning, callers'[d].id = callers'[e].id
        PROVE  d = e
    <3>1. CASE d = c \/ e = c
      BY <1>5, <2>1, <2>2, <3>1
    <3>2. CASE d # c /\ e # c
      BY <2>1, <2>2, <3>2 DEF Inv, OwnersInv
    <3> QED
      BY <3>1, <3>2
  <2> QED
    BY <2>1, <2>2 DEF OwnersInv, Batch
<1>12. GrantsInv'
  <2> SUFFICES ASSUME NEW d \in Callers, callers'[d].pc = "granted" PROVE Admits(d)'
    BY DEF GrantsInv
  <2>1. d # c /\ callers[d].pc = "granted" /\ Admits(d)
    BY <1>5 DEF Inv, GrantsInv
  <2>2. AccountOf[d] \in Accounts /\ RunOf[d] \in Runs /\ Batch(d) \in BOOLEAN
    BY CallerTypes DEF Inv, Batch
  <2>3. RunOf[d] # RunOf[c] /\ AccountOf[d] # AccountOf[c]
    BY <1>4, <2>1 DEF Inv, LocksInv, InTransaction, Decided
  <2>4. /\ CallsOf(RunOf[d])' = CallsOf(RunOf[d]) /\ RecentOf(AccountOf[d])' = RecentOf(AccountOf[d])
        /\ ActiveOf(AccountOf[d], Batch(d))' \subseteq ActiveOf(AccountOf[d], Batch(d))
        /\ accounts'[AccountOf[d]] = accounts[AccountOf[d]]
    BY <1>6, <1>7, <2>2, <2>3 DEF Batch
  <2>5. Slots(d)' = Slots(d) /\ Spent(d)' = Spent(d) /\ WindowFull(d)' = WindowFull(d)
    BY <2>4 DEF Slots, Spent, WindowFull, Batch, Mine, Smaller
  <2>6. Cardinality(ActiveOf(AccountOf[d], Batch(d))') < Slots(d)
    <3>1. /\ IsFiniteSet(ActiveOf(AccountOf[d], Batch(d)))
          /\ Cardinality(ActiveOf(AccountOf[d], Batch(d))) \in Nat /\ Slots(d) \in Nat
      BY SetTypes, SlotsType DEF Inv
    <3>2. /\ Cardinality(ActiveOf(AccountOf[d], Batch(d))') \in Nat
          /\ Cardinality(ActiveOf(AccountOf[d], Batch(d))')
               <= Cardinality(ActiveOf(AccountOf[d], Batch(d)))
      BY <2>4, <3>1, FS_Subset, FS_CardinalityType
    <3> QED
      BY <2>1, <3>1, <3>2 DEF Admits
  <2> QED
    BY <2>1, <2>5, <2>6 DEF Admits, Batch
<1>13. ActiveInv'
  <2>1. ASSUME NEW a \in Accounts, NEW batch \in BOOLEAN, NEW limit \in Nat,
               limit = IF batch THEN BatchSlots ELSE 1,
               Cardinality(ActiveOf(a, batch)) <= limit
        PROVE  Cardinality(ActiveOf(a, batch)') <= limit
    <3>1. IsFiniteSet(ActiveOf(a, batch)) /\ Cardinality(ActiveOf(a, batch)) \in Nat
      BY SetTypes DEF Inv
    <3>2. CASE a = AccountOf[c] /\ batch = Batch(c)
      <4>1. Cardinality(ActiveOf(a, batch)) < limit
        BY <1>4, <2>1, <3>1, <3>2, SlotsType, Limits DEF Admits, Inv
      <4> QED
        BY <1>7, <3>1, <4>1, OneMore
    <3>3. CASE ~(a = AccountOf[c] /\ batch = Batch(c))
      <4>1. ActiveOf(a, batch)' \subseteq ActiveOf(a, batch)
        BY <1>7, <3>3, Zenon
      <4> QED
        BY <2>1, <3>1, <4>1, SmallerSet
    <3> QED
      BY <3>2, <3>3
  <2>2. ASSUME NEW a \in Accounts
        PROVE  /\ Cardinality(ActiveOf(a, TRUE)') <= BatchSlots
               /\ Cardinality(ActiveOf(a, FALSE)') <= 1
    <3>1. TRUE \in BOOLEAN /\ FALSE \in BOOLEAN /\ BatchSlots \in Nat /\ 1 \in Nat
          /\ (IF TRUE THEN BatchSlots ELSE 1) = BatchSlots /\ (IF FALSE THEN BatchSlots ELSE 1) = 1
      BY Limits
    <3>2. /\ Cardinality(ActiveOf(a, TRUE)) <= BatchSlots
          /\ Cardinality(ActiveOf(a, FALSE)) <= 1
      BY DEF Inv, ActiveInv
    <3> QED
      BY <2>1, <3>1, <3>2, Zenon
  <2> QED
    BY <2>2, Zenon DEF ActiveInv
<1>14. RunBudgetKept'
  <2> SUFFICES ASSUME NEW run \in Runs PROVE Cardinality(CallsOf(run)') <= MaxCalls[run]
    BY DEF RunBudgetKept
  <2>1. IsFiniteSet(CallsOf(run)) /\ Cardinality(CallsOf(run)) \in Nat /\ MaxCalls[run] \in Nat
        /\ Cardinality(CallsOf(run)) <= MaxCalls[run]
    BY SetTypes, CallerAssumption DEF Inv, RunBudgetKept
  <2>2. CASE run = RunOf[c]
    <3>1. Cardinality(CallsOf(run)) < MaxCalls[run]
      BY <1>4, <2>1, <2>2 DEF Admits, Spent
    <3> QED
      BY <1>7, <2>1, <3>1, OneMore
  <2> QED
    BY <1>7, <2>1, <2>2
<1>15. WindowKept'
  <2> SUFFICES ASSUME NEW a \in Accounts
               PROVE  /\ Cardinality(RecentOf(a)') <= Larger(Budget, BatchBudget)
                      /\ Cardinality({n \in RecentOf(a) : ledger[n].batch}') <= BatchBudget
    BY DEF WindowKept
  <2>1. PICK recent, batches, batches2 :
          /\ recent = RecentOf(a) /\ batches = {n \in RecentOf(a) : ledger[n].batch}
          /\ batches2 = {n \in RecentOf(a) : ledger[n].batch}'
    OBVIOUS
  <2>2. /\ IsFiniteSet(recent) /\ Cardinality(recent) \in Nat /\ batches \subseteq recent
        /\ IsFiniteSet(batches) /\ Cardinality(batches) \in Nat
        /\ Cardinality(batches) <= Cardinality(recent)
    <3>1. IsFiniteSet(recent) /\ Cardinality(recent) \in Nat /\ batches \subseteq recent
      BY <2>1, SetTypes DEF Inv
    <3> QED
      BY <3>1, FS_Subset, FS_CardinalityType
  <2>3. Cardinality(batches) <= BatchBudget /\ Cardinality(recent) <= Larger(Budget, BatchBudget)
    BY <2>1 DEF Inv, WindowKept
  <2>4. Larger(Budget, BatchBudget) \in Nat /\ Budget <= Larger(Budget, BatchBudget)
        /\ BatchBudget <= Larger(Budget, BatchBudget)
    BY Limits DEF Larger
  <2>5. RecentOf(a)' \subseteq recent \cup {new} /\ (a # AccountOf[c] => RecentOf(a)' = recent)
    BY <1>7, <2>1
  <2>6. batches2 \subseteq batches \cup {new}
        /\ (a # AccountOf[c] \/ ~Batch(c) => batches2 \subseteq batches)
    BY <1>2, <1>3, <2>1 DEF RecentOf
  <2>7. a = AccountOf[c] => Cardinality(recent) < IF Batch(c) THEN BatchBudget ELSE Budget
    BY <1>4, <2>1, <2>2, Limits DEF Admits, WindowFull
  <2>8. Cardinality(RecentOf(a)') <= Larger(Budget, BatchBudget)
    <3>1. CASE a = AccountOf[c]
      <4>1. Cardinality(recent) < Larger(Budget, BatchBudget)
        BY <2>2, <2>4, <2>7, <3>1, Limits
      <4> QED
        BY <2>2, <2>4, <2>5, <4>1, OneMore
    <3> QED
      BY <2>3, <2>5, <3>1
  <2>9. Cardinality(batches2) <= BatchBudget
    <3>1. CASE a = AccountOf[c] /\ Batch(c)
      <4>1. Cardinality(batches) < BatchBudget
        BY <2>2, <2>7, <3>1, Limits
      <4> QED
        BY <2>2, <2>6, <4>1, OneMore, Limits
    <3>2. CASE ~(a = AccountOf[c] /\ Batch(c))
      BY <2>2, <2>3, <2>6, <3>2, SmallerSet, Limits
    <3> QED
      BY <3>1, <3>2
  <2> QED
    BY <2>1, <2>8, <2>9
<1>16. SentinelCovers'
  <2> SUFFICES ASSUME NEW n \in DOMAIN ledger', Active(n)'
               PROVE  ledger'[n].lease <= accounts'[ledger'[n].account].sentinel
    BY DEF SentinelCovers
  <2>1. CASE ledger'[n].account = AccountOf[c]
    <3>1. ledger'[n] \in Entry
      BY <1>2
    <3>2. ledger'[n].lease <= LeaseTTL
      BY <3>1, Limits DEF Entry
    <3> QED
      BY <1>6, <2>1, <3>2
  <2>2. CASE ledger'[n].account # AccountOf[c]
    <3>1. n \in DOMAIN ledger /\ ledger'[n].account = ledger[n].account
          /\ ledger'[n].lease = ledger[n].lease /\ Active(n) /\ ledger[n].account \in Accounts
      BY <1>2, <1>3, <2>2, EntryTypes DEF Inv
    <3> QED
      BY <1>6, <2>2, <3>1 DEF Inv, SentinelCovers
  <2> QED
    BY <2>1, <2>2
<1>17. CooldownInv'
  BY <1>6 DEF CooldownInv, Inv, CommitGranted
<1> QED
  BY <1>8, <1>9, <1>10, <1>11, <1>12, <1>13, <1>14, <1>15, <1>16, <1>17 DEF Inv

-----------------------------------------------------------------------------
(* The invariant *)

LEMMA InitInv ==
  ASSUME Init
  PROVE  Inv
<1>1. Idle \in Caller /\ Idle.pc = "idle"
  BY Limits DEF Idle, Caller, Pcs, Ended
<1>2. /\ \A c \in Callers : callers[c] = Idle
      /\ \A c \in Callers : /\ callers[c].pc \notin Owning /\ callers[c].pc \notin InTransaction
                           /\ callers[c].pc \notin Decided /\ callers[c].pc # "granted"
  BY <1>1 DEF Init, Owning, Holding, InTransaction, Decided
<1>3. ledger = << >> /\ DOMAIN ledger = {}
  BY DEF Init
<1>4. TypeOK
  <2>1. accounts \in [Accounts -> Account]
    BY Limits DEF Init, Account
  <2>2. deadlines \in [Accounts -> 0..MaxRetry]
    BY Limits DEF Init
  <2>3. callers \in [Callers -> Caller]
    BY <1>1 DEF Init
  <2>4. ledger \in Seq(Entry)
    BY <1>3
  <2> QED
    BY <1>2, <2>1, <2>2, <2>3, <2>4 DEF TypeOK, Owning
<1>5. /\ \A run \in Runs : CallsOf(run) = {}
      /\ \A a \in Accounts : RecentOf(a) = {} /\ {n \in RecentOf(a) : ledger[n].batch} = {}
      /\ \A a \in Accounts : ActiveOf(a, TRUE) = {} /\ ActiveOf(a, FALSE) = {}
  BY <1>3 DEF CallsOf, RecentOf, ActiveOf
<1>6. Cardinality({}) = 0
  BY FS_EmptySet
<1>7. ActiveInv
  <2>1. 0 <= BatchSlots /\ 0 <= 1
    BY Limits
  <2>2. \A a \in Accounts : /\ Cardinality(ActiveOf(a, TRUE)) = 0
                            /\ Cardinality(ActiveOf(a, FALSE)) = 0
    BY <1>5, <1>6, Zenon
  <2> QED
    BY <2>1, <2>2, Zenon DEF ActiveInv
<1>8. RunBudgetKept
  <2>1. \A run \in Runs : 0 <= MaxCalls[run]
    BY CallerAssumption
  <2> QED
    BY <1>5, <1>6, <2>1, Zenon DEF RunBudgetKept
<1>9. WindowKept
  <2>1. 0 <= Larger(Budget, BatchBudget)
    BY Limits DEF Larger
  <2>2. 0 <= BatchBudget
    BY Limits
  <2> QED
    BY <1>5, <1>6, <2>1, <2>2, Zenon DEF WindowKept
<1>10. SentinelCovers /\ EntriesInv
  BY <1>3 DEF SentinelCovers, EntriesInv
<1>11. CooldownInv
  BY DEF CooldownInv, Init
<1>12. LocksInv /\ OwnersInv /\ GrantsInv
  BY <1>2 DEF LocksInv, OwnersInv, GrantsInv
<1> QED
  BY <1>4, <1>7, <1>8, <1>9, <1>10, <1>11, <1>12 DEF Inv

LEMMA NextInv ==
  ASSUME Inv, [Next]_vars
  PROVE  Inv'
<1>1. ASSUME NEW c \in Callers, Reserve(c) PROVE Inv'
  BY <1>1, PlainInv, CommitGrantedInv, CommitDeniedInv, SetPriorityInv DEF Reserve
<1>2. ASSUME NEW c \in Callers, Request(c) PROVE Inv'
  <2>1. CASE MarkSent(c) \/ Finish(c)
    BY <2>1, MarkSentInv, FinishInv
  <2>2. CASE Call(c) \/ Respond(c) \/ Consume(c) \/ Interrupt(c) \/ FinishLost(c)
    BY <2>2, PlainInv
  <2>3. CASE \/ \E retry \in 1..MaxRetry : RespondLimited(c, retry)
             \/ \E outcome \in {"completed", "failed"} : RespondWithoutBody(c, outcome)
    BY <2>3, PlainInv
  <2> QED
    BY <1>2, <2>1, <2>2, <2>3 DEF Request
<1>3. ASSUME NEW c \in Callers, Heartbeat(c) \/ LoseLease(c) \/ Crash(c) PROVE Inv'
  BY <1>3, PlainInv, HeartbeatInv
<1>4. CASE Tick
  BY <1>4, TickInv
<1>5. CASE UNCHANGED vars
  <2>1. Shrinks
    BY <1>5, SameLedger DEF vars
  <2>2. TypeOK' /\ LocksInv' /\ CooldownInv'
    BY <1>5 DEF vars, Inv, TypeOK, LocksInv, CooldownInv
  <2>3. SentinelCovers'
    BY <1>5 DEF vars, Inv, SentinelCovers, Active
  <2> QED
    BY <1>5, <2>1, <2>2, <2>3, ShrinkStep DEF vars
<1> QED
  BY <1>1, <1>2, <1>3, <1>4, <1>5 DEF Next

\* Inv is inductive.
THEOREM Invariant == Spec => []Inv
<1>1. Init => Inv
  BY InitInv
<1>2. Inv /\ [Next]_vars => Inv'
  BY NextInv
<1> QED
  BY <1>1, <1>2, PTL DEF Spec

-----------------------------------------------------------------------------
(* Results *)

\* Callers, the ledger and the accounts keep their types, and a caller that has an
\* entry finds it in the ledger.
THEOREM TypeCorrect == Spec => []TypeOK
<1>1. Inv => TypeOK
  BY DEF Inv
<1> QED
  BY <1>1, Invariant, PTL

\* No run makes more requests than its budget, over all accounts and restarts: the
\* count is read under the lock of the run, which the insertion still holds.
THEOREM RunBudgets == Spec => []RunBudgetKept
<1>1. Inv => RunBudgetKept
  BY DEF Inv
<1> QED
  BY <1>1, Invariant, PTL

\* The requests of an account in a window keep the budgets, and batches keep to
\* theirs.
THEOREM Windows == Spec => []WindowKept
<1>1. Inv => WindowKept
  BY DEF Inv
<1> QED
  BY <1>1, Invariant, PTL

\* The lease that workers of an older version look at covers every active request.
THEOREM Sentinels == Spec => []SentinelCovers
<1>1. Inv => SentinelCovers
  BY DEF Inv
<1> QED
  BY <1>1, Invariant, PTL

\* A request in progress has an active entry of its own.
LEMMA SlotsFromEntries ==
  ASSUME Inv
  PROVE  SlotsKept
<1>1. ASSUME NEW a \in Accounts, NEW batch \in BOOLEAN, NEW limit \in Nat,
             Cardinality(ActiveOf(a, batch)) <= limit
      PROVE  Cardinality(InProgress(a, batch)) <= limit
  <2>1. PICK S, T : S = InProgress(a, batch) /\ T = ActiveOf(a, batch)
    OBVIOUS
  <2>2. PICK f : f = [c \in S |-> callers[c].id]
    OBVIOUS
  <2>3. ASSUME NEW c \in S
        PROVE  c \in Callers /\ callers[c].pc \in Owning /\ callers[c].id \in T
    <3>1. /\ c \in Callers /\ callers[c].pc \in Owning
          /\ AccountOf[c] = a /\ Batch(c) = batch /\ ledger[callers[c].id].lease > 0
      BY <2>1 DEF InProgress, Owning, Holding
    <3>2. callers[c].id \in DOMAIN ledger
      BY <3>1, CallerTypes DEF Inv
    <3>3. Active(callers[c].id)
      BY <3>1, <3>2, ActiveLease DEF Inv
    <3> QED
      BY <2>1, <3>1, <3>2, <3>3 DEF ActiveOf, Inv, OwnersInv
  <2>4. f \in [S -> T] /\ \A c, d \in S : f[c] = f[d] => c = d
    BY <2>2, <2>3 DEF Inv, OwnersInv
  <2>5. f \in Injection(S, T)
    BY <2>4 DEF Injection, IsInjective
  <2>6. IsFiniteSet(T) /\ Cardinality(T) \in Nat
    BY <2>1, SetTypes DEF Inv
  <2>7. IsFiniteSet(S) /\ Cardinality(S) <= Cardinality(T) /\ Cardinality(S) \in Nat
    BY <2>5, <2>6, FS_Injection, FS_CardinalityType
  <2> QED
    BY <1>1, <2>1, <2>6, <2>7
<1>2. ASSUME NEW a \in Accounts
      PROVE  /\ Cardinality(InProgress(a, TRUE)) <= BatchSlots
             /\ Cardinality(InProgress(a, FALSE)) <= 1
  <2>1. TRUE \in BOOLEAN /\ FALSE \in BOOLEAN /\ BatchSlots \in Nat /\ 1 \in Nat
    BY Limits
  <2>2. Cardinality(ActiveOf(a, TRUE)) <= BatchSlots /\ Cardinality(ActiveOf(a, FALSE)) <= 1
    BY DEF Inv, ActiveInv
  <2> QED
    BY <1>1, <2>1, <2>2, Zenon
<1> QED
  BY <1>2, Zenon DEF SlotsKept

\* An account never has more requests in progress than its slots, while their
\* leases hold: what a reservation counted under the lock of the account is still
\* true when it commits, and nothing that ends late comes back.
THEOREM SlotLimits == Spec => []SlotsKept
<1>1. Inv => SlotsKept
  BY SlotsFromEntries
<1> QED
  BY <1>1, Invariant, PTL

\* Only a decision grants, and only its commit reserves.
LEMMA GrantingSteps ==
  ASSUME TypeOK, [Next]_vars, NEW c \in Callers, callers'[c].pc # callers[c].pc,
         callers'[c].pc \in {"granted", "reserved"}
  PROVE  Decide(c) \/ CommitGranted(c)
<1>1. callers \in [Callers -> Caller]
  BY DEF TypeOK
<1>2. ASSUME NEW d \in Callers, NEW pc, GoTo(d, pc), pc \notin {"granted", "reserved"}
      PROVE  FALSE
  BY <1>1, <1>2 DEF GoTo, Caller
<1>3. ASSUME NEW d \in Callers, Return(d)
      PROVE  FALSE
  BY <1>1, <1>3 DEF Return, Idle
<1>4. ASSUME NEW d \in Callers, NEW outcome, NEW retry, FinishWith(d, outcome, retry)
      PROVE  FALSE
  <2>1. PICK v : v = [callers[d] EXCEPT !.pc = "finishing", !.outcome = outcome, !.retry = retry]
    OBVIOUS
  <2>2. callers' = [callers EXCEPT ![d] = v]
    BY <1>4, <2>1, Zenon DEF FinishWith
  <2>3. v.pc = "finishing"
    <3>1. PICK u : u = callers[d]
      OBVIOUS
    <3>2. u \in Caller /\ v = [u EXCEPT !.pc = "finishing", !.outcome = outcome, !.retry = retry]
      BY <1>1, <2>1, <3>1
    <3> HIDE <2>1
    <3> QED
      BY <3>2 DEF Caller
  <2> HIDE <2>1
  <2> QED
    BY <1>1, <2>2, <2>3
<1>5. callers' # callers
  OBVIOUS
<1>6. ASSUME NEW d \in Callers, d # c, Decide(d) \/ CommitGranted(d) PROVE FALSE
  BY <1>1, <1>6 DEF Decide, CommitGranted, GoTo
<1>7. ASSUME NEW d \in Callers, Reserve(d) PROVE Decide(c) \/ CommitGranted(c)
  <2>1. CASE LockRun(d) \/ CommitDenied(d)
    BY <1>2, <2>1 DEF LockRun, CommitDenied
  <2>2. CASE SetPriority(d) \/ GiveUp(d)
    BY <1>3, <2>2 DEF SetPriority, GiveUp
  <2> QED
    BY <1>6, <1>7, <2>1, <2>2 DEF Reserve
<1>8. ASSUME NEW d \in Callers, Request(d) PROVE FALSE
  <2>1. CASE Call(d) \/ Respond(d)
    BY <1>2, <2>1 DEF Call, Respond
  <2>2. CASE MarkSent(d)
    BY <1>2, <1>4, <2>2 DEF MarkSent
  <2>3. CASE Consume(d) \/ Interrupt(d)
    BY <1>4, <2>3 DEF Consume, Interrupt
  <2>4. CASE \/ \E retry \in 1..MaxRetry : RespondLimited(d, retry)
             \/ \E outcome \in {"completed", "failed"} : RespondWithoutBody(d, outcome)
    BY <1>4, <2>4 DEF RespondLimited, RespondWithoutBody
  <2>5. CASE Finish(d) \/ FinishLost(d)
    BY <1>3, <2>5 DEF Finish, FinishLost
  <2> QED
    BY <1>8, <2>1, <2>2, <2>3, <2>4, <2>5 DEF Request
<1>9. ASSUME NEW d \in Callers, Heartbeat(d) \/ LoseLease(d) \/ Crash(d) PROVE FALSE
  BY <1>2, <1>3, <1>4, <1>5, <1>9 DEF Heartbeat, LoseLease, Crash
<1>10. ~Tick
  BY <1>5 DEF Tick
<1> QED
  BY <1>5, <1>7, <1>8, <1>9, <1>10 DEF Next, vars

\* While the longest of the retry times that were recorded for an account lasts, no
\* reservation of it is decided in favour.
THEOREM RetryTimes == Spec => RetryAfterKept
<1> DEFINE Cooled == \A c \in Callers :
                       callers[c].pc = "locked" /\ callers'[c].pc = "granted" =>
                         deadlines[AccountOf[c]] = 0
<1>1. Inv /\ [Next]_vars => [Cooled]_vars
  <2> SUFFICES ASSUME Inv, [Next]_vars, NEW c \in Callers, callers[c].pc = "locked",
                      callers'[c].pc = "granted"
               PROVE  deadlines[AccountOf[c]] = 0
    OBVIOUS
  <2>1. Decide(c)
    <3>1. Decide(c) \/ CommitGranted(c)
      BY GrantingSteps DEF Inv
    <3> QED
      BY <3>1 DEF CommitGranted
  <2>2. callers'[c].pc = IF Deferred(c) THEN "deferred" ELSE IF Admits(c) THEN "granted" ELSE "denied"
    BY <2>1, CallerTypes DEF Decide, GoTo, Inv, TypeOK, Caller
  <2>3. ~Deferred(c)
    BY <2>2
  <2>4. Mine(c) \in Account /\ AccountOf[c] \in Accounts
    BY CallerTypes DEF Inv, Mine
  <2>5. Mine(c).cooldown \in Nat /\ deadlines[AccountOf[c]] = Mine(c).cooldown
    BY <2>4, Limits DEF Account, Inv, CooldownInv, Mine
  <2> QED
    BY <2>3, <2>5 DEF Deferred
<1> QED
  BY <1>1, Invariant, PTL DEF Spec, RetryAfterKept

\* With the request that is reserved for a group, the batch requests of an account
\* are no more than its adaptive concurrency.
THEOREM GroupLimits == Spec => GroupKept
<1> DEFINE Bounded == \A c \in Callers :
       callers[c].pc = "granted" /\ callers'[c].pc = "reserved" /\ LaneOf[c] = "group" =>
         Cardinality({n \in DOMAIN ledger' : Active(n)' /\ ledger'[n].batch
                        /\ ledger'[n].account = AccountOf[c]})
           <= accounts[AccountOf[c]].concurrency
<1>1. Inv /\ [Next]_vars => [Bounded]_vars
  <2> SUFFICES ASSUME Inv, [Next]_vars, NEW c \in Callers, callers[c].pc = "granted",
                      callers'[c].pc = "reserved", LaneOf[c] = "group"
               PROVE  Cardinality({n \in DOMAIN ledger' : Active(n)' /\ ledger'[n].batch
                                     /\ ledger'[n].account = AccountOf[c]})
                        <= accounts[AccountOf[c]].concurrency
    OBVIOUS
  <2>1. CommitGranted(c)
    <3>1. Decide(c) \/ CommitGranted(c)
      BY GrantingSteps DEF Inv
    <3> QED
      BY <3>1 DEF Decide
  <2>2. PICK active : active = ActiveOf(AccountOf[c], TRUE)
    OBVIOUS
  <2>3. Batch(c) = TRUE /\ Cardinality(active) < Slots(c)
    <3>1. Batch(c) = TRUE
      BY DEF Batch
    <3> QED
      BY <2>2, <3>1, Zenon DEF Inv, GrantsInv, Admits
  <2>4. Mine(c) \in Account /\ Mine(c).concurrency \in Nat /\ Concurrency[c] \in Nat
    <3>1. Mine(c) \in Account
      BY CallerTypes DEF Inv, Mine
    <3> QED
      BY <3>1, Limits, CallerAssumption DEF Account
  <2>5. Slots(c) <= Mine(c).concurrency /\ Slots(c) \in Nat
    BY <2>3, <2>4, Limits DEF Slots, Smaller
  <2>6. IsFiniteSet(active) /\ Cardinality(active) \in Nat
    BY <2>2, SetTypes DEF Inv
  <2>7. Cardinality(active) < Mine(c).concurrency
    BY <2>3, <2>4, <2>5, <2>6
  <2>8. PICK new : new = Len(ledger) + 1
    OBVIOUS
  <2>9. {n \in DOMAIN ledger' : Active(n)' /\ ledger'[n].batch /\ ledger'[n].account = AccountOf[c]}
          \subseteq active \cup {new}
    <3>1. /\ DOMAIN ledger' = DOMAIN ledger \cup {new}
          /\ \A n \in DOMAIN ledger :
               /\ ledger'[n].account = ledger[n].account /\ ledger'[n].batch = ledger[n].batch
               /\ Active(n)' => Active(n)
               /\ ledger[n].batch \in BOOLEAN
      BY <2>1, <2>8, GrantedAdds, EntryTypes DEF Inv
    <3> QED
      BY <2>2, <3>1 DEF ActiveOf
  <2> QED
    BY <2>4, <2>6, <2>7, <2>9, OneMore DEF Mine
<1> QED
  BY <1>1, Invariant, PTL DEF Spec, GroupKept

=============================================================================

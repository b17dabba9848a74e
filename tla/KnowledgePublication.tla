------------------------ MODULE KnowledgePublication ------------------------
(***************************************************************************)
(* The publication of review knowledge                                     *)
(* (apps/runtime/src/services/knowledge-publication.ts and                 *)
(* knowledge-projection.ts, with the triggers of migration 0039): the      *)
(* memories of one repository, their approvals, a criterion with its       *)
(* exception, and the workers that turn them into releases.                *)
(*                                                                         *)
(* A transaction that changes a source asks, through a trigger, for a new  *)
(* revision of the parts it may change; but nothing asks when the base of  *)
(* a pull request moves under a message that a criterion cites, nor when   *)
(* an exception runs out, until the deadlines are next reconciled.  A      *)
(* worker claims a part, projects it from a snapshot, and publishes what   *)
(* it projected only if the revision it claimed is still asked for.        *)
(***************************************************************************)
EXTENDS Naturals

CONSTANTS
  Parts,       \* components of the knowledge that are published
  Workers,     \* processes; each runs one publication at a time
  NoWorker,
  MaxChanges,  \* bound of the model on changes of the sources, expiry included
  MaxFaults,   \* bound on crashes, failures of the storage and lost claims
  MaxHistory   \* bound on changes and faults together

ASSUME PartsAssumption == Parts \in (SUBSET {"policy", "collective", "personal"}) \ {{}}
ASSUME WorkersAssumption == NoWorker \notin Workers
ASSUME BoundAssumption == {MaxChanges, MaxFaults, MaxHistory} \subseteq Nat

VARIABLES
  memory,    \* one review memory of each scope: review_memories
  approved,  \* the version of it approved for publication, 0: none
  criterion, \* the current revision of a criterion: review_rules, review_decisions
  exception, \* an exception of that revision: review_rule_exceptions
  large,     \* parts whose approved content is over the limit of a component
  access,    \* who may read, maintain and own, and whether the repository is enabled
  revision,  \* review_knowledge_security_state.authorization_revision
  scope,     \* review_knowledge_scopes
  runs,      \* publishKnowledge in progress
  changes, faults

sources == <<memory, approved, criterion, exception, large, access, revision>>
vars == <<sources, scope, runs, changes, faults>>

-----------------------------------------------------------------------------
(* Types *)

Memories == {"collective", "personal"}
Versions == 0..MaxChanges + 1

\* What the decision cites, if the criterion is active.  source: the base of the
\* pull request of the cited message is as it was, has moved, or has moved and
\* returned; or the message itself was edited or removed.
Criterion == [revision : Versions, kind : {"none", "memory", "message"}, version : Versions,
              source : {"same", "moved", "returned", "edited"}]

\* What a release says: the version of the memory or the revision of the criterion,
\* 0 when it is left out, and whether the exception is listed.
Contents == [item : Versions, exception : BOOLEAN]
Nothing == [item |-> 0, exception |-> FALSE]

Access == [available : BOOLEAN, reader : BOOLEAN, maintainer : BOOLEAN, owner : BOOLEAN]

Pcs == {"idle", "claimed", "projected", "failing"}

\* live: claim_until lies ahead.  due: retry_after has come.  content: what the
\* current release says.
Scope == [requested : Nat, published : Nat, claim : Workers \cup {NoWorker}, live : BOOLEAN,
          due : BOOLEAN, sequence : Nat, content : Contents]

Run == [pc : Pcs, part : Parts, requested : Nat, content : Contents]
Idle == [pc |-> "idle", part |-> CHOOSE p \in Parts : TRUE, requested |-> 0,
         content |-> Nothing]

TypeOK ==
  /\ memory \in [Memories -> [version : Versions, active : BOOLEAN]]
  /\ approved \in [Memories -> Versions]
  /\ criterion \in Criterion
  /\ exception \in {"none", "granted", "expired"}
  /\ large \in SUBSET Parts
  /\ access \in Access
  /\ scope \in [Parts -> Scope]
  /\ runs \in [Workers -> Run]
  /\ changes \in 0..MaxChanges /\ faults \in 0..MaxFaults
  /\ \A p \in Parts : scope[p].published <= scope[p].requested
  /\ \A m \in Memories : approved[m] <= memory[m].version

-----------------------------------------------------------------------------
(* What a part says *)

\* The repository, its tenant and its instance are enabled, and the user may read.
Reads == access.available /\ access.reader

\* An administrator, who may maintain, may read.
Allowed(m) == Reads /\ (m = "collective" => access.maintainer)

OwnerAllowed == access.available /\ access.owner

\* The approval is for the fingerprint of what is active now, and of someone
\* who could still give it.
Projected(m) ==
  IF memory[m].active /\ approved[m] = memory[m].version /\ Allowed(m)
  THEN [item |-> memory[m].version, exception |-> FALSE]
  ELSE Nothing

\* What the decision cites is as it was when it was made.
Permitted(away) ==
  \/ /\ criterion.kind = "memory"
     /\ memory["collective"].active /\ memory["collective"].version = criterion.version
  \/ criterion.kind = "message" /\ ~away

\* The policy if the cited message is away, and the exception granted.
PolicyWith(away, granted) ==
  IF Permitted(away)
  THEN [item |-> criterion.revision, exception |-> granted]
  ELSE Nothing

\* The hash of the cited message, base included, is not that of the decision.
MessageDiffers == criterion.source = "moved" \/ criterion.source = "edited"

Projection(p) ==
  IF p = "policy"
  THEN PolicyWith(MessageDiffers, exception = "granted" /\ OwnerAllowed)
  ELSE Projected(p)

TooLarge(p) == p \in large /\ Projection(p) # Nothing

\* The projection throws, and will as long as this lasts.
Unprojectable(p) ==
  ~access.available \/ (p = "personal" /\ ~access.reader) \/ TooLarge(p)

-----------------------------------------------------------------------------
\* The publication is installed over what there is, criteria and exceptions too.
Init ==
  /\ memory = [m \in Memories |-> [version |-> 1, active |-> TRUE]]
  /\ approved = [m \in Memories |-> 0]
  /\ criterion \in
       {[revision |-> 0, kind |-> "none", version |-> 0, source |-> "same"]} \cup
       [revision : {1}, kind : {"memory", "message"}, version : {1}, source : {"same"}]
  /\ exception \in IF criterion.kind = "none" THEN {"none"} ELSE {"none", "granted"}
  /\ large = {}
  /\ access = [available |-> TRUE, reader |-> TRUE, maintainer |-> TRUE, owner |-> TRUE]
  /\ revision = 1
  /\ scope = [p \in Parts |->
       [requested |-> IF p = "personal" THEN 0 ELSE 1, published |-> 0, claim |-> NoWorker,
        live |-> FALSE, due |-> TRUE, sequence |-> 0, content |-> Nothing]]
  /\ runs = [w \in Workers |-> Idle]
  /\ changes = 0 /\ faults = 0

-----------------------------------------------------------------------------
(* Changes of the sources, each with the requests of its triggers *)

Request(parts) ==
  scope' = [p \in Parts |->
    IF p \in parts THEN [scope[p] EXCEPT !.requested = @ + 1, !.due = TRUE] ELSE scope[p]]

\* The scope of a user exists once the user, or a memory of the user, asked for it.
Existing == {p \in Parts : p = "personal" => scope[p].requested > 0}

TouchedItself(m) == {m} \cap Parts

\* A collective memory may be the source of a criterion.
Touched(m) == IF m = "collective" THEN {"collective", "policy"} ELSE {m}

Changing ==
  /\ changes < MaxChanges /\ changes + faults < MaxHistory
  /\ changes' = changes + 1
  /\ UNCHANGED <<runs, faults>>

\* An edit, an archival or a return, or a change of what the memory was drawn from.
Edit(m) ==
  /\ Changing
  /\ \E active \in BOOLEAN :
       memory' = [memory EXCEPT ![m] = [version |-> @.version + 1, active |-> active]]
  /\ Request(Touched(m))
  /\ UNCHANGED <<approved, criterion, exception, large, access, revision>>

\* The approver names the fingerprint of what was read before, here of any version.
Approve(m, version) ==
  /\ Changing
  /\ memory[m].active /\ version = memory[m].version
  /\ Allowed(m)
  /\ approved' = [approved EXCEPT ![m] = version]
  /\ large' \in {large \ {m}, large \cup {m}}
  /\ Request({m})
  /\ UNCHANGED <<memory, criterion, exception, access, revision>>

\* A revision is activated whose decision cites the collective memory or a message.
\* The exceptions of the revision before are not its own.
Decide(kind) ==
  /\ Changing
  /\ kind = "memory" => memory["collective"].active
  /\ criterion' = [revision |-> criterion.revision + 1, kind |-> kind,
                   version |-> memory["collective"].version, source |-> "same"]
  /\ exception' = "none"
  /\ large' \in {large \ {"policy"}, large \cup ({"policy"} \cap Parts)}
  /\ Request({"policy"})
  /\ UNCHANGED <<memory, approved, access, revision>>

Retire ==
  /\ Changing
  /\ criterion.kind # "none"
  /\ criterion' = [criterion EXCEPT !.kind = "none"]
  /\ exception' = "none"
  /\ Request({"policy"})
  /\ UNCHANGED <<memory, approved, large, access, revision>>

\* The cited message is edited, or deleted upstream.
EditMessage ==
  /\ Changing
  /\ criterion.kind = "message"
  /\ criterion' = [criterion EXCEPT !.source = "edited"]
  /\ Request(Existing)
  /\ UNCHANGED <<memory, approved, exception, large, access, revision>>

\* A poll stores another base of the pull request.  No trigger watches it, although
\* the base is part of what the hash of the decision is compared with.
MoveBase ==
  /\ Changing
  /\ criterion.kind = "message" /\ criterion.source # "edited"
  /\ criterion' = [criterion EXCEPT !.source = IF @ = "moved" THEN "returned" ELSE "moved"]
  /\ UNCHANGED <<memory, approved, exception, large, access, revision, scope>>

\* The right of the owner was checked before the transaction, and may be gone.
Grant ==
  /\ Changing
  /\ criterion.kind # "none" /\ exception = "none"
  /\ exception' = "granted"
  /\ Request({"policy"})
  /\ UNCHANGED <<memory, approved, criterion, large, access, revision>>

Revoke ==
  /\ Changing
  /\ exception # "none"
  /\ exception' = "none"
  /\ Request({"policy"})
  /\ UNCHANGED <<memory, approved, criterion, large, access, revision>>

\* Time passes expires_at: the projection leaves the exception out from now on.
Expire ==
  /\ Changing
  /\ exception = "granted"
  /\ exception' = "expired"
  /\ UNCHANGED <<memory, approved, criterion, large, access, revision, scope>>

\* The deadline is processed, and the policy asked for at last.
Reconcile ==
  /\ exception = "expired"
  /\ exception' = "none"
  /\ Request({"policy"})
  /\ UNCHANGED <<memory, approved, criterion, large, access, revision, runs, changes, faults>>

\* Grants, memberships, roles and users; the repository, its tenant and its instance.
SetAccess ==
  /\ Changing
  /\ access' \in {[access EXCEPT !.available = ~@], [access EXCEPT !.reader = ~@],
                 [access EXCEPT !.maintainer = ~@], [access EXCEPT !.owner = ~@]}
  /\ revision' = revision + 1
  /\ Request(Existing)
  /\ UNCHANGED <<memory, approved, criterion, exception, large>>

\* A client asks for the manifest of a user for the first time.
EnsureScopes ==
  /\ "personal" \in Parts /\ Reads
  /\ scope["personal"].requested = 0
  /\ scope' = [scope EXCEPT !["personal"].requested = 1]
  /\ UNCHANGED <<sources, runs, changes, faults>>

-----------------------------------------------------------------------------
(* Publications *)

worker == <<sources, changes>>

GoTo(w, pc) == runs' = [runs EXCEPT ![w].pc = pc]
Return(w) == runs' = [runs EXCEPT ![w] = Idle]

Fault ==
  /\ faults < MaxFaults /\ changes + faults < MaxHistory
  /\ faults' = faults + 1

ClaimableOnce(p) ==
  /\ scope[p].requested > scope[p].published /\ scope[p].due
  /\ scope[p].claim = NoWorker

Claimable(p) ==
  /\ scope[p].requested > scope[p].published /\ scope[p].due
  /\ scope[p].claim = NoWorker \/ ~scope[p].live

Claim(w, p) ==
  /\ runs[w].pc = "idle"
  /\ Claimable(p)
  /\ scope' = [scope EXCEPT ![p] = [@ EXCEPT !.claim = w, !.live = TRUE]]
  /\ runs' = [runs EXCEPT ![w] =
       [pc |-> "claimed", part |-> p, requested |-> scope[p].requested, content |-> Nothing]]
  /\ UNCHANGED <<worker, faults>>

OwnedAtAnyRevision(w) ==
  LET s == scope[runs[w].part] IN s.claim = w /\ s.live

\* The claim is held, and for the revision that is asked for.
Owned(w) ==
  LET s == scope[runs[w].part] IN
  s.claim = w /\ s.live /\ s.requested = runs[w].requested

Unclaimed(w) ==
  IF scope[runs[w].part].claim = w
  THEN [scope EXCEPT ![runs[w].part] = [@ EXCEPT !.claim = NoWorker, !.live = FALSE]]
  ELSE scope

\* The snapshot in which the claim is checked is the one that is projected.  A
\* run that lost its claim removes it, if it still is its own, and ends.
Project(w) ==
  /\ runs[w].pc = "claimed"
  /\ LET p == runs[w].part IN
     \/ ~Owned(w) /\ scope' = Unclaimed(w) /\ Return(w)
     \/ /\ Owned(w)
        /\ Unprojectable(p)
        /\ GoTo(w, "failing")
        /\ UNCHANGED scope
     \/ /\ Owned(w)
        /\ ~Unprojectable(p)
        /\ runs' = [runs EXCEPT ![w].pc = "projected", ![w].content = Projection(p)]
        /\ UNCHANGED scope
  /\ UNCHANGED <<worker, faults>>

PublishedAhead(s, run) ==
  [s EXCEPT !.published = run.requested + 1, !.claim = NoWorker, !.live = FALSE,
            !.sequence = IF @ > 0 /\ s.content = run.content THEN @ ELSE @ + 1,
            !.content = run.content]

Published(s, run) ==
  [s EXCEPT !.published = run.requested, !.claim = NoWorker, !.live = FALSE,
            !.sequence = IF @ > 0 /\ s.content = run.content THEN @ ELSE @ + 1,
            !.content = run.content]

\* The row of the scope is locked from the check to the commit.
Finish(w) ==
  /\ runs[w].pc = "projected"
  /\ \/ ~Owned(w) /\ scope' = Unclaimed(w)
     \/ Owned(w) /\ scope' = [scope EXCEPT ![runs[w].part] = Published(@, runs[w])]
  /\ Return(w)
  /\ UNCHANGED <<worker, faults>>

\* An artifact cannot be written or verified, or a query fails.
Break(w) ==
  /\ runs[w].pc \in {"claimed", "projected"}
  /\ Fault
  /\ GoTo(w, "failing")
  /\ UNCHANGED <<worker, scope>>

Fail(w) ==
  /\ runs[w].pc = "failing"
  /\ scope' = IF scope[runs[w].part].claim = w
              THEN [Unclaimed(w) EXCEPT ![runs[w].part].due = FALSE]
              ELSE scope
  /\ Return(w)
  /\ UNCHANGED <<worker, faults>>

Crash(w) ==
  /\ runs[w].pc # "idle"
  /\ Fault
  /\ Return(w)
  /\ UNCHANGED <<worker, scope>>

-----------------------------------------------------------------------------
(* Time *)

BecomeDue(p) ==
  /\ ~scope[p].due
  /\ scope' = [scope EXCEPT ![p].due = TRUE]
  /\ UNCHANGED <<worker, runs, faults>>

Working(p) == scope[p].claim # NoWorker
  /\ runs[scope[p].claim].pc # "idle" /\ runs[scope[p].claim].part = p

\* Two minutes pass; under a publication that is still at work this is a fault.
ExpireClaim(p) ==
  /\ scope[p].claim # NoWorker /\ scope[p].live
  /\ scope' = [scope EXCEPT ![p].live = FALSE]
  /\ \/ ~Working(p) /\ UNCHANGED faults
     \/ Working(p) /\ Fault
  /\ UNCHANGED <<worker, runs>>

-----------------------------------------------------------------------------
RunStep(w) == Project(w) \/ Finish(w) \/ Fail(w)

Next ==
  \/ \E m \in Memories : Edit(m)
  \/ \E m \in Memories \cap Parts, version \in Versions : Approve(m, version)
  \/ \E kind \in {"memory", "message"} : Decide(kind)
  \/ Retire \/ EditMessage \/ MoveBase \/ Grant \/ Revoke \/ Expire \/ Reconcile
  \/ SetAccess \/ EnsureScopes
  \/ \E w \in Workers :
       RunStep(w) \/ Break(w) \/ Crash(w) \/ \E p \in Parts : Claim(w, p)
  \/ \E p \in Parts : BecomeDue(p) \/ ExpireClaim(p)

Spec == Init /\ [][Next]_vars

\* Scopes are claimed in the order of retry_after and a failure puts a scope off,
\* so one that stays claimable is claimed although the others come and go.  The
\* deadlines are reconciled by the same loop, once a minute.
FairSpec ==
  /\ Spec
  /\ WF_vars(Reconcile)
  /\ \A w \in Workers : WF_vars(RunStep(w))
  /\ \A p \in Parts :
       /\ SF_vars(\E w \in Workers : Claim(w, p))
       /\ WF_vars(BecomeDue(p))
       /\ WF_vars(ExpireClaim(p))

-----------------------------------------------------------------------------
(* Properties *)

\* A cited message is not away while the base was never seen to move, and is while
\* it is edited; in between either may be what the last snapshot saw.
Away == {away \in BOOLEAN :
           /\ criterion.source = "same" => ~away
           /\ criterion.source = "edited" => away}

\* An exception that ran out may be listed until the deadlines are reconciled.
Granted == {granted \in BOOLEAN :
              /\ granted => exception # "none" /\ OwnerAllowed
              /\ exception = "granted" /\ OwnerAllowed => granted}

MaySay(p) ==
  IF p = "policy"
  THEN {PolicyWith(away, granted) : away \in Away, granted \in Granted}
  ELSE {Projection(p)}

\* A part with nothing left to publish says what its sources say, but for the two
\* that change unseen: no other change slips between the snapshot of a projection
\* and the release made from it, whatever the triggers, the claims and the crashes
\* did in between.
ReleaseMatchesSource ==
  \A p \in Parts :
    scope[p].requested > 0 /\ scope[p].requested = scope[p].published
    => scope[p].content \in MaySay(p)

Due(p) ==
  scope[p].requested > scope[p].published \/ (p = "policy" /\ exception = "expired")

\* A requested revision is published in the end, and so is the end of an exception;
\* only a part that cannot be projected waits for as long as that lasts.
EveryRequestIsPublished ==
  \A p \in Parts : Due(p) ~> ~Due(p) \/ Unprojectable(p)

Feed == INSTANCE KnowledgeFeed WITH
  Parts <- Parts, Contents <- Contents,
  MaxAuthorization <- MaxChanges + 1, MaxSequence <- 2 * MaxChanges + 1,
  pending <- [p \in Parts |-> scope[p].requested = 0 \/ scope[p].requested > scope[p].published],
  release <- [p \in Parts |-> [sequence |-> scope[p].sequence, content |-> scope[p].content]],
  authorization <- revision,
  allowed <- Reads

\* The publication implements what it promises to the clients.
ImplementsFeed == Feed!FeedSpec

=============================================================================

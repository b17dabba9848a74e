---------------------------- MODULE CentralCache ----------------------------
(***************************************************************************)
(* The local copy of the review knowledge that the processes of one user   *)
(* share (packages/client-core/src/central-cache.ts), filled from the      *)
(* server that KnowledgeFeed describes.                                    *)
(*                                                                         *)
(* The index record is written by compare and swap.  What a process reads  *)
(* of it and then writes is one step here: had anything come between, the  *)
(* write would fail, and any write may fail here, with or without effect.  *)
(* Time counts the periods after which a manifest is to be refreshed.      *)
(***************************************************************************)
EXTENDS KnowledgeFeed

CONSTANTS
  Processes,
  None,
  OfflineLease,   \* offlineLeaseSeconds, in periods
  MaxGeneration,  \* bound of the model on synchronizations and connections
  MaxTime,        \* bound on the periods
  MaxEvents,      \* bound on generations, periods, changes of the server and faults together
  MaxFaults       \* bound on crashes, failed writes and answers that are no answers

ASSUME NoneAssumption == None \notin Processes
ASSUME FeedBoundAssumption == {MaxAuthorization, MaxSequence} \subseteq Nat \ {0}
ASSUME CacheBoundAssumption == {OfflineLease, MaxGeneration, MaxTime, MaxEvents, MaxFaults} \subseteq Nat

VARIABLES
  index,    \* the record settings/snapshot
  records,  \* the bundles in the store
  procs,    \* synchronize, disable and their cleanup, per process
  call,     \* a refusal of another request that is on its way, with its generation
  now,
  events, faults,
  epoch,    \* history: connections and disconnections so far
  newest,   \* history: the newest releases and authorization ever activated
  denial    \* history: the holder of the claim was denied, and since then no other
            \* synchronization succeeded and the connection was not closed

cache == <<index, records, procs, call, now, events, faults, epoch, newest, denial>>
vars == <<feed, cache>>

-----------------------------------------------------------------------------
(* Types *)

Generations == 0..MaxGeneration

Manifest == [authorization : 1..MaxAuthorization,
             parts : [Parts -> [sequence : 0..MaxSequence, content : Contents]],
             issued : 0..MaxTime]

\* A bundle is staged at most once per synchronization and part.
Bundle == [generation : Generations, part : Parts, content : Contents]

Floors == [authorization : 0..MaxAuthorization, sequences : [Parts -> 0..MaxSequence]]

Active == [manifest : Manifest, refs : [Parts -> Bundle], epoch : Nat]

\* live: the deadline of the claim lies ahead.
Index == [generation : Generations, status : {"enabled", "disconnected", "revoked"},
          claim : Processes \cup {None}, live : BOOLEAN, floors : Floors,
          identityUnavailable : BOOLEAN, syncFailed : BOOLEAN, active : Active \cup {None}]

Pcs == {"idle", "claimed", "unchanged", "manifest", "fetching", "staging", "failing", "purging"}
Codes == {"none", "revoked", "identity-unavailable", "unavailable", "other"}
Reasons == {"revoked", "identity-unavailable"}

Proc == [pc : Pcs, generation : Generations, code : Codes, uncertain : BOOLEAN,
         manifest : Manifest \cup {None}, todo : SUBSET Parts,
         refs : UNION {[fetched -> Bundle] : fetched \in SUBSET Parts},
         inventory : SUBSET Bundle, epoch : Nat, denied : BOOLEAN]

TypeOK ==
  /\ FeedTypeOK
  /\ index \in Index
  /\ records \subseteq Bundle
  /\ procs \in [Processes -> Proc]
  /\ call \in [generation : Generations, epoch : Nat, reason : Reasons] \cup {None}
  /\ now \in 0..MaxTime /\ events \in 0..MaxEvents /\ faults \in 0..MaxFaults
  /\ index.claim # None => index.status = "enabled"

-----------------------------------------------------------------------------
Idle(denied) ==
  [pc |-> "idle", generation |-> 0, code |-> "none", uncertain |-> FALSE, manifest |-> None,
   todo |-> {}, refs |-> << >>, inventory |-> {}, epoch |-> 0, denied |-> denied]

CacheInit ==
  /\ index = [generation |-> 0, status |-> "enabled", claim |-> None, live |-> FALSE,
              floors |-> [authorization |-> 0, sequences |-> [part \in Parts |-> 0]],
              active |-> None, identityUnavailable |-> FALSE, syncFailed |-> FALSE]
  /\ records = {}
  /\ procs = [p \in Processes |-> Idle(FALSE)]
  /\ call = None
  /\ now = 0 /\ events = 0 /\ faults = 0
  /\ epoch = 1
  /\ newest = [authorization |-> 0, sequences |-> [part \in Parts |-> 0]]
  /\ denial = FALSE

Init == FeedInit /\ CacheInit

-----------------------------------------------------------------------------
(* Verification and reads *)

Until(mode) == IF mode = "online" THEN 1 ELSE OfflineLease

Verified(manifest, floors, mode) ==
  /\ now < manifest.issued + Until(mode)
  /\ manifest.authorization >= floors.authorization
  /\ \A part \in Parts : manifest.parts[part].sequence >= floors.sequences[part]

Complete(active) ==
  \A part \in Parts :
    /\ active.refs[part] \in records
    /\ active.refs[part].part = part
    /\ active.refs[part].content = active.manifest.parts[part].content

\* The claim is a barrier: while a synchronization may have learnt that access
\* is gone, nobody reads what was there before.
Readable(p, mode) ==
  /\ ~procs[p].denied
  /\ index.status = "enabled" /\ index.claim = None
  /\ ~index.identityUnavailable
  /\ mode = "online" => ~index.syncFailed
  /\ index.active # None
  /\ Verified(index.active.manifest, index.floors, mode)
  /\ Complete(index.active)

-----------------------------------------------------------------------------
(* Writes of the index *)

\* A longer history is explored with fewer changes and faults.
Affordable == index.generation + events + faults < MaxEvents

Fault == faults < MaxFaults /\ Affordable /\ faults' = faults + 1

\* done, broken: what the process does after the write, and after its failure.
Put(p, next, done, broken) ==
  \/ /\ index' = next
     /\ procs' = [procs EXCEPT ![p] = done]
     /\ UNCHANGED faults
  \/ /\ Fault
     /\ index' \in {index, next}
     /\ procs' = [procs EXCEPT ![p] = broken]

Mine(p) == index.generation = procs[p].generation /\ index.claim = p

Enabled(p) == index.status = "enabled"

Owned(p) ==
  /\ index.status = "enabled"
  /\ index.generation = procs[p].generation
  /\ index.claim = p /\ index.live

Failing(p, code) == [procs[p] EXCEPT !.pc = "failing", !.code = code]

Abort(p, code) ==
  /\ procs' = [procs EXCEPT ![p] = Failing(p, code)]
  /\ UNCHANGED <<feed, index, records, call, now, events, faults, epoch, newest>>

-----------------------------------------------------------------------------
(* Synchronization *)

Begin(p) ==
  /\ procs[p].pc = "idle" /\ ~procs[p].denied
  /\ index.status = "enabled"
  /\ index.claim = None \/ ~index.live
  /\ index.generation < MaxGeneration
  /\ Put(p, [index EXCEPT !.generation = @ + 1, !.claim = p, !.live = TRUE],
         [procs[p] EXCEPT !.pc = "claimed", !.generation = index.generation + 1, !.epoch = epoch],
         procs[p])
  /\ UNCHANGED <<feed, records, call, now, events, epoch, newest, denial>>

Current == [authorization |-> authorization, parts |-> release, issued |-> now]

\* The bundles are listed, the manifest is asked for, and the server answers.
\* A manifest is issued again as it is until its period ends.
Answer(p) ==
  /\ procs[p].pc = "claimed"
  /\ Offered
  /\ procs' = [procs EXCEPT ![p] =
       [@ EXCEPT !.pc = IF index.active # None /\ index.active.manifest = Current
                        THEN "unchanged"
                        ELSE "manifest",
                 !.manifest = Current, !.inventory = records]]
  /\ UNCHANGED <<feed, index, records, call, now, events, faults, epoch, newest, denial>>

Deny(p) ==
  /\ procs[p].pc = "claimed"
  /\ ~allowed
  /\ Abort(p, "revoked")
  /\ denial' = (denial \/ Mine(p))

NotReady(p) ==
  /\ procs[p].pc = "claimed"
  /\ allowed /\ ~Offered
  /\ Abort(p, "unavailable")
  /\ UNCHANGED denial

\* The network or the identity provider fails, or the caller cancels.
Interrupt(p) ==
  /\ procs[p].pc \in {"claimed", "fetching"}
  /\ Fault
  /\ \E code \in {"identity-unavailable", "unavailable", "other"} :
       procs' = [procs EXCEPT ![p] = Failing(p, code)]
  /\ UNCHANGED <<feed, index, records, call, now, events, epoch, newest, denial>>

Synchronized ==
  [index EXCEPT !.identityUnavailable = FALSE, !.syncFailed = FALSE, !.claim = None,
                !.live = FALSE]

CanConfirm(p) ==
  /\ Owned(p) /\ ~procs[p].denied
  /\ index.active # None
  /\ Verified(index.active.manifest, index.floors, "online")
  /\ Complete(index.active)

Confirm(p) ==
  /\ procs[p].pc = "unchanged"
  /\ CanConfirm(p)
  /\ Put(p, Synchronized, Idle(FALSE), Failing(p, "other"))
  /\ denial' = (denial /\ index'.claim # None)
  /\ UNCHANGED <<feed, records, call, now, events, epoch, newest>>

Larger(m, n) == IF m > n THEN m ELSE n

Raised(floors, manifest) ==
  [authorization |-> manifest.authorization,
   sequences |-> [part \in Parts |->
                    Larger(floors.sequences[part], manifest.parts[part].sequence)]]

CanAccept(p) == Owned(p) /\ Verified(procs[p].manifest, index.floors, "online")

\* The floors of a manifest are kept before any of its bundles is asked for.
RaiseFloors(p) ==
  /\ procs[p].pc = "manifest"
  /\ CanAccept(p)
  /\ Put(p, [index EXCEPT !.floors = Raised(@, procs[p].manifest)],
         [procs[p] EXCEPT !.pc = "fetching", !.todo = Parts],
         [Failing(p, "other") EXCEPT !.uncertain = TRUE])
  /\ UNCHANGED <<feed, records, call, now, events, epoch, newest, denial>>

Reject(p) ==
  /\ \/ procs[p].pc = "unchanged" /\ ~CanConfirm(p)
     \/ procs[p].pc = "manifest" /\ ~CanAccept(p)
     \/ procs[p].pc = "fetching" /\ procs[p].todo = {} /\ ~CanAccept(p)
  /\ Abort(p, "other")
  /\ UNCHANGED denial

\* A bundle of the same content is not asked for again.
Reusable(p, part) ==
  /\ index.active # None
  /\ index.active.manifest.parts[part].content = procs[p].manifest.parts[part].content

Fetched(p, part, bundle) ==
  [procs[p] EXCEPT !.todo = @ \ {part}, !.pc = "fetching",
                   !.refs = [q \in DOMAIN @ \cup {part} |-> IF q = part THEN bundle ELSE @[q]]]

\* The parts are fetched one after the other, in a fixed order.
Following(p, part) == part \in procs[p].todo /\ part = CHOOSE q \in procs[p].todo : TRUE

Reuse(p, part) ==
  /\ procs[p].pc = "fetching" /\ Following(p, part)
  /\ index.generation = procs[p].generation /\ Reusable(p, part)
  /\ IF index.active.refs[part] \in records
     THEN procs' = [procs EXCEPT ![p] = Fetched(p, part, index.active.refs[part])]
     ELSE procs' = [procs EXCEPT ![p] = Failing(p, "other")]
  /\ UNCHANGED <<feed, index, records, call, now, events, faults, epoch, newest, denial>>

\* The server serves the bundles of a manifest while it is the one it would issue.
Served(manifest) ==
  Offered /\ manifest.authorization = authorization /\ manifest.parts = release

Download(p, part) ==
  /\ procs[p].pc = "fetching" /\ Following(p, part)
  /\ index.generation = procs[p].generation => ~Reusable(p, part)
  /\ \/ Served(procs[p].manifest) /\ Owned(p)
        /\ procs' = [procs EXCEPT ![p] = [procs[p] EXCEPT !.pc = "staging", !.todo = @ \ {part}]]
        /\ UNCHANGED denial
     \/ Served(procs[p].manifest) /\ ~Owned(p)
        /\ procs' = [procs EXCEPT ![p] = Failing(p, "other")]
        /\ UNCHANGED denial
     \/ allowed /\ ~Served(procs[p].manifest)
        /\ procs' = [procs EXCEPT ![p] = Failing(p, "unavailable")]
        /\ UNCHANGED denial
     \/ ~allowed
        /\ procs' = [procs EXCEPT ![p] = Failing(p, "revoked")]
        /\ denial' = (denial \/ Mine(p))
  /\ UNCHANGED <<feed, index, records, call, now, events, faults, epoch, newest>>

Staged(p, part) ==
  [generation |-> procs[p].generation, part |-> part,
   content |-> procs[p].manifest.parts[part].content]

\* The bundle is stored whether or not the claim is still held.
Stage(p) ==
  /\ procs[p].pc = "staging"
  /\ LET part == CHOOSE q \in Parts : q \notin procs[p].todo \cup DOMAIN procs[p].refs IN
     /\ records' = records \cup {Staged(p, part)}
     /\ procs' = [procs EXCEPT ![p] = Fetched(p, part, Staged(p, part))]
  /\ UNCHANGED <<feed, index, call, now, events, faults, epoch, newest, denial>>

Activated(p) ==
  [Synchronized EXCEPT
     !.floors = [@ EXCEPT !.sequences = Raised(index.floors, procs[p].manifest).sequences],
     !.active = [manifest |-> procs[p].manifest, refs |-> procs[p].refs, epoch |-> procs[p].epoch]]

Cleaning(p, inventory, denied) ==
  [Idle(denied) EXCEPT !.pc = "purging", !.inventory = inventory]

Listed(p) == procs[p].inventory

\* Bundles that are neither kept nor of a later synchronization.
Garbage(p) == procs[p].inventory \ {procs[p].refs[part] : part \in Parts}

Activate(p) ==
  /\ procs[p].pc = "fetching" /\ procs[p].todo = {}
  /\ CanAccept(p)
  /\ Put(p, Activated(p), Cleaning(p, Garbage(p), procs[p].denied), Failing(p, "other"))
  /\ newest' = IF index'.active # index.active THEN Raised(newest, procs[p].manifest) ELSE newest
  /\ denial' = (denial /\ index'.claim # None)
  /\ UNCHANGED <<feed, records, call, now, events, epoch>>

Purge(p) ==
  /\ procs[p].pc = "purging"
  /\ records' = records \ procs[p].inventory
  /\ procs' = [procs EXCEPT ![p] = Idle(@.denied)]
  /\ UNCHANGED <<feed, index, call, now, events, faults, epoch, newest, denial>>

-----------------------------------------------------------------------------
(* The end of a synchronization that failed *)

ClosedUnderClaim(status) ==
  [index EXCEPT !.generation = @ + 1, !.status = status, !.active = None]

Closed(status) ==
  [index EXCEPT !.generation = @ + 1, !.status = status, !.claim = None, !.live = FALSE,
                !.active = None]

Leave(p) ==
  /\ procs[p].pc = "failing"
  /\ Mine(p) => procs[p].uncertain /\ procs[p].code = "other"
  /\ procs' = [procs EXCEPT ![p] = Idle(@.denied)]
  /\ UNCHANGED <<feed, index, records, call, now, events, faults, epoch, newest, denial>>

\* The process forgets its access even if the index cannot be written.
SettleDenied(p) ==
  /\ procs[p].pc = "failing" /\ Mine(p)
  /\ procs[p].code = "revoked"
  /\ index.generation < MaxGeneration
  /\ Put(p, Closed("revoked"), Cleaning(p, records, TRUE), Idle(TRUE))
  /\ epoch' = IF index'.status = "revoked" THEN epoch + 1 ELSE epoch
  /\ denial' = (denial /\ index'.status = "enabled")
  /\ UNCHANGED <<feed, records, call, now, events, newest>>

\* An identity that cannot be established bars the reads of this connection until
\* a synchronization succeeds, and gives up the claim of whoever synchronizes.
Unidentified == [index EXCEPT !.identityUnavailable = TRUE, !.claim = None, !.live = FALSE]

SettleIdentity(p) ==
  /\ procs[p].pc = "failing" /\ Mine(p)
  /\ procs[p].code = "identity-unavailable"
  /\ Put(p, Unidentified, Idle(procs[p].denied), Idle(procs[p].denied))
  /\ UNCHANGED <<feed, records, call, now, events, epoch, newest, denial>>

SettleFailure(p) ==
  /\ procs[p].pc = "failing" /\ Mine(p)
  /\ procs[p].code \in {"unavailable", "other"} /\ ~procs[p].uncertain
  /\ Put(p, [index EXCEPT !.claim = None, !.live = FALSE,
                          !.syncFailed = @ \/ procs[p].code = "unavailable"],
         Idle(procs[p].denied), Idle(procs[p].denied))
  /\ UNCHANGED <<feed, records, call, now, events, epoch, newest, denial>>

-----------------------------------------------------------------------------
(* Refusals of other requests, disconnection and reconnection *)

\* Another request under the connection is refused, by the server or because the
\* identity provider cannot be asked; the answer is on its way.
CallRefused(reason) ==
  /\ call = None
  /\ index.status = "enabled" /\ index.generation > 0
  /\ \/ reason = "revoked" /\ ~allowed /\ UNCHANGED faults
     \/ reason = "identity-unavailable" /\ Fault
  /\ call' = [generation |-> index.generation, epoch |-> epoch, reason |-> reason]
  /\ UNCHANGED <<feed, index, records, procs, now, events, epoch, newest, denial>>

CalledEnabled == index.status = "enabled"

CalledNow == index.generation = call.generation

RejectAuthority(p) ==
  /\ call # None /\ procs[p].pc = "idle"
  /\ call' = None
  /\ \/ ~CalledNow /\ UNCHANGED <<index, procs, faults, epoch>>
     \/ /\ CalledNow /\ call.reason = "identity-unavailable"
        /\ Put(p, Unidentified, procs[p], procs[p])
        /\ UNCHANGED epoch
     \/ /\ CalledNow /\ call.reason = "revoked"
        /\ index.generation < MaxGeneration
        /\ Put(p, Closed("revoked"), Cleaning(p, records, TRUE), Idle(TRUE))
        /\ epoch' = IF index'.status = "revoked" THEN epoch + 1 ELSE epoch
  /\ denial' = (denial /\ index'.status = "enabled")
  /\ UNCHANGED <<feed, records, now, events, newest>>

\* Also when the connection is closed already: its generation rises once more.
Disable(p) ==
  /\ procs[p].pc = "idle"
  /\ index.generation < MaxGeneration
  /\ Put(p, Closed("disconnected"), Cleaning(p, records, TRUE), Idle(TRUE))
  /\ epoch' = IF index'.generation # index.generation THEN epoch + 1 ELSE epoch
  /\ denial' = (denial /\ index'.status = "enabled")
  /\ UNCHANGED <<feed, records, call, now, events, newest>>

\* The user has logged in again.
Resume(p) ==
  /\ procs[p].pc = "idle"
  /\ index.status # "enabled" /\ index.generation < MaxGeneration
  /\ Put(p, [index EXCEPT !.generation = @ + 1, !.status = "enabled", !.active = None],
         Idle(FALSE), procs[p])
  /\ epoch' = IF index'.status = "enabled" THEN epoch + 1 ELSE epoch
  /\ UNCHANGED <<feed, records, call, now, events, newest, denial>>

-----------------------------------------------------------------------------
(* Time, faults and the server *)

Crash(p) ==
  /\ Fault
  /\ procs' = [procs EXCEPT ![p] = Idle(FALSE)]
  /\ UNCHANGED <<feed, index, records, call, now, events, epoch, newest, denial>>

ExpireClaim ==
  /\ index.claim # None /\ index.live
  /\ index' = [index EXCEPT !.live = FALSE]
  /\ UNCHANGED <<feed, records, procs, call, now, events, faults, epoch, newest, denial>>

Event == Affordable /\ events' = events + 1

Tick ==
  /\ now < MaxTime
  /\ now' = now + 1
  /\ Event
  /\ UNCHANGED <<feed, index, records, procs, call, faults, epoch, newest, denial>>

Server ==
  /\ \/ Event /\ (ChangeAccess \/ \E changed \in (SUBSET Parts) \ {{}} : Change(changed))
     \/ UNCHANGED events /\ \E part \in Parts : Release(part)
  /\ UNCHANGED <<index, records, procs, call, now, faults, epoch, newest, denial>>

CacheNext ==
  \/ Tick \/ ExpireClaim \/ \E reason \in Reasons : CallRefused(reason)
  \/ \E p \in Processes :
       \/ Begin(p) \/ Answer(p) \/ Deny(p) \/ NotReady(p) \/ Interrupt(p)
       \/ Confirm(p) \/ RaiseFloors(p) \/ Reject(p) \/ Stage(p)
       \/ \E part \in Parts : Reuse(p, part) \/ Download(p, part)
       \/ Activate(p) \/ Purge(p)
       \/ Leave(p) \/ SettleDenied(p) \/ SettleIdentity(p) \/ SettleFailure(p)
       \/ RejectAuthority(p) \/ Disable(p) \/ Resume(p) \/ Crash(p)

Next == Server \/ CacheNext

Spec == Init /\ [][Next]_vars

-----------------------------------------------------------------------------
(* Properties *)

\* Every bundle of the active snapshot is in the store and is the one its
\* manifest names, although superseded bundles are deleted by processes that
\* no longer hold anything while others store and reuse bundles.
ActiveIsComplete == index.active # None => Complete(index.active)

\* A snapshot never replaces a newer one, in any part or in the authorization:
\* not when an old synchronization wakes up after it was superseded, and not
\* over a disconnection and a new connection.
NoRollback ==
  index.active # None =>
    /\ index.active.manifest.authorization >= newest.authorization
    /\ \A part \in Parts :
         index.active.manifest.parts[part].sequence >= newest.sequences[part]

\* What is active was asked for under the connection that is there now: neither
\* a synchronization nor a restart brings a disconnected snapshot back.
ActiveOfConnection == index.active # None => index.active.epoch = epoch

\* A connection is revoked by a denial received under it, never by one that
\* was on its way from before the user connected again.
OnlyOwnDenial ==
  [][index.status = "enabled" /\ index'.status = "revoked"
     => \E p \in Processes :
          \/ procs[p].pc = "failing" /\ procs[p].code = "revoked" /\ procs[p].epoch = epoch
          \/ call # None /\ call' = None /\ call.epoch = epoch /\ call.reason = "revoked"]_vars

\* "If disk failure or a crash prevents persisting a received denial/revocation,
\* another process must resynchronize before consuming the former snapshot."
LostDenialHolds ==
  denial => \A p \in Processes : ~Readable(p, "offline")

=============================================================================

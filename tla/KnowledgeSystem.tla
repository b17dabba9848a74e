-------------------------- MODULE KnowledgeSystem --------------------------
(***************************************************************************)
(* The way of review knowledge from its sources to a reader: the           *)
(* publication on the server (KnowledgePublication) and, instead of the    *)
(* promise of KnowledgeFeed, that publication itself under the cache of    *)
(* one user's processes (CentralCache, KnowledgeDelivery).  A step is one  *)
(* of the server or one of the client; the client sees of the server only  *)
(* what the feed shows, in the manifest and the bundles it is served.      *)
(***************************************************************************)
EXTENDS KnowledgePublication

CONSTANTS
  Processes,        \* the client's, as in CentralCache
  NoProcess,
  OfflineLease, MaxGeneration, MaxTime, MaxClientFaults

ClientAssumption ==
  /\ NoProcess \notin Processes
  /\ {OfflineLease, MaxGeneration, MaxTime, MaxClientFaults} \subseteq Nat

VARIABLES index, records, procs, call, now, events, clientFaults, epoch, newest, denial,
  said,   \* history: what was on offer, as in KnowledgeDelivery
  facts   \* history: what the parts might say while the user could read, with the period

\* Each change of the sources asks once, and an exception once more when it has run out.
Client == INSTANCE CentralCacheProofs WITH
  MaxAuthorization <- MaxChanges + 1, MaxSequence <- 2 * MaxChanges + 1,
  None <- NoProcess,
  MaxEvents <- MaxGeneration + MaxTime + 2 * MaxChanges + MaxClientFaults + 1,
  MaxFaults <- MaxClientFaults,
  pending <- [p \in Parts |-> scope[p].requested = 0 \/ scope[p].requested > scope[p].published],
  release <- [p \in Parts |-> [sequence |-> scope[p].sequence, content |-> scope[p].content]],
  authorization <- revision,
  allowed <- Reads,
  faults <- clientFaults

client == <<index, records, procs, call, now, clientFaults, epoch, newest, denial>>
systemVars == <<vars, client, events, said, facts>>

Facts ==
  IF Reads THEN {[at |-> now, may |-> [p \in Parts |-> MaySay(p)]]} ELSE {}

SystemInit ==
  /\ Init
  /\ Client!CacheInit
  /\ said = Client!Saying
  /\ facts = Facts

\* Something that was published, or may be, is asked for again.
Asked ==
  \/ revision' # revision
  \/ \E p \in Parts : 0 < scope[p].requested /\ scope[p].requested < scope'[p].requested

ServerStep ==
  /\ Next
  /\ events' = IF Asked THEN events + 1 ELSE events
  /\ UNCHANGED client

SystemNext ==
  /\ ServerStep \/ (UNCHANGED vars /\ Client!CacheNext)
  /\ said' = said \cup Client!Saying'
  /\ facts' = facts \cup Facts'

SystemSpec == SystemInit /\ [][SystemNext]_systemVars

-----------------------------------------------------------------------------
(* Properties *)

\* The publication and the cache together are the delivery that the cache was
\* verified for.
ImplementsDelivery == Client!DeliverySpec

\* What a process may read is what the memories, approvals, criteria, exceptions and
\* rights allowed the parts to say, together and to a user allowed to know it, less
\* than the period or the lease ago: across claims, crashes and failures of the
\* publication, and superseded synchronizations, failed writes and restarts of the
\* client.  Only a cited message whose base moved, or an exception that ran out, may
\* be told as it was before (MaySay).
ReadsMatchSources ==
  \A process \in Processes, mode \in {"online", "offline"} :
    Client!Readable(process, mode) =>
      \E fact \in facts :
        /\ now < fact.at + Client!Until(mode)
        /\ \A part \in Parts : index.active.refs[part].content \in fact.may[part]

=============================================================================

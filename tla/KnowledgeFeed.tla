--------------------------- MODULE KnowledgeFeed ---------------------------
(***************************************************************************)
(* What the publication of review knowledge promises to a client: nothing  *)
(* is offered while a part is pending, a change of access leaves every     *)
(* part pending, and a release that ends the waiting bears a sequence that *)
(* rises with every difference.  KnowledgePublication implements it;       *)
(* CentralCache consumes it.  It promises nothing of the sources: what a   *)
(* release owes to them is stated in KnowledgePublication.                 *)
(***************************************************************************)
EXTENDS Naturals

CONSTANTS
  Parts,             \* components of the knowledge: policy, collective, personal
  Contents,          \* what a part may say
  MaxAuthorization,  \* bound on the changes of access
  MaxSequence        \* bound on the releases of a part

VARIABLES
  pending,        \* parts with a request that is not published
  release,        \* current release of each part; sequence 0: none yet
  authorization,  \* revision of the access rights
  allowed         \* the client's user may read the repository

feed == <<pending, release, authorization, allowed>>

FeedTypeOK ==
  /\ pending \in [Parts -> BOOLEAN]
  /\ release \in [Parts -> [sequence : 0..MaxSequence, content : Contents]]
  /\ authorization \in 1..MaxAuthorization
  /\ allowed \in BOOLEAN

FeedInit ==
  /\ pending = [p \in Parts |-> TRUE]
  /\ \E c \in Contents : release = [p \in Parts |-> [sequence |-> 0, content |-> c]]
  /\ authorization = 1
  /\ allowed = TRUE

\* Some parts are asked for again.
Change(changed) ==
  /\ pending' = [p \in Parts |-> p \in changed \/ pending[p]]
  /\ UNCHANGED <<release, authorization, allowed>>

\* A change of who may read or approve.
ChangeAccess ==
  /\ authorization < MaxAuthorization
  /\ authorization' = authorization + 1
  /\ allowed' \in BOOLEAN
  /\ pending' = [p \in Parts |-> TRUE]
  /\ UNCHANGED release

Released(old, new) ==
  IF old.sequence > 0 /\ old.content = new
  THEN old
  ELSE [sequence |-> old.sequence + 1, content |-> new]

Release(p) ==
  /\ pending[p]
  /\ release[p].sequence < MaxSequence
  /\ \E c \in Contents : release' = [release EXCEPT ![p] = Released(@, c)]
  /\ pending' = [pending EXCEPT ![p] = FALSE]
  /\ UNCHANGED <<authorization, allowed>>

FeedNext ==
  \/ \E changed \in SUBSET Parts : Change(changed)
  \/ ChangeAccess
  \/ \E p \in Parts : Release(p)

FeedSpec == FeedInit /\ [][FeedNext]_feed

\* The knowledge is offered to whoever asks (a fault).
OfferedToAnyone == \A p \in Parts : ~pending[p]

\* The manifest the client is offered, if it is offered one.
Offered == allowed /\ \A p \in Parts : ~pending[p]
Offer == [authorization |-> authorization, parts |-> release]

=============================================================================

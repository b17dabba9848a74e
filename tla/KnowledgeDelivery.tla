------------------------- MODULE KnowledgeDelivery -------------------------
(***************************************************************************)
(* What reaches a reader: the client's cache (CentralCache) together with  *)
(* a history of what the server offered as a whole (KnowledgeFeed) while   *)
(* the user was allowed to know it.  The history changes nothing of the    *)
(* cache; it lets a property speak of what a process reads and of what was *)
(* once on offer in one formula, across publication, manifests, bundles,   *)
(* superseded synchronizations, failed writes and restarts.                *)
(***************************************************************************)
EXTENDS CentralCache

VARIABLE said  \* history: what was on offer to the user, with the period

deliveryVars == <<vars, said>>

Saying ==
  IF allowed /\ \A p \in Parts : ~pending[p]
  THEN {[at |-> now, content |-> [p \in Parts |-> release[p].content]]}
  ELSE {}

DeliveryInit == Init /\ said = Saying

DeliveryNext == Next /\ said' = said \cup Saying'

DeliverySpec == DeliveryInit /\ [][DeliveryNext]_deliveryVars

-----------------------------------------------------------------------------
(* Properties *)

\* What a process may read was on offer as a whole at one moment, at which its
\* user was allowed to read it, and that moment lies back less than the period,
\* or offline the lease: parts of two moments are never mixed, and no release,
\* manifest or bundle outlives the lease however it came into the store.
ReadsWereOffered ==
  \A p \in Processes, mode \in {"online", "offline"} :
    Readable(p, mode) =>
      \E s \in said :
        /\ now < s.at + Until(mode)
        /\ \A part \in Parts : index.active.refs[part].content = s.content[part]

=============================================================================

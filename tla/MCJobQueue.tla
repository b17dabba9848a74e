---------------------------- MODULE MCJobQueue ----------------------------
(* Small instances of JobQueue for TLC. *)
EXTENDS JobQueue, TLC

CONSTANTS a, p, h   \* an analysis, a publication, a history job

TypeOfName ==
  (a :> "analysis.run") @@ (p :> "github.review.publish") @@ (h :> "history.collect")

MCType == [j \in Jobs |-> TypeOfName[j]]

=============================================================================

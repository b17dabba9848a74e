------------------------ MODULE MCReviewPublication ------------------------
(* Small instances of ReviewPublication for TLC. *)
EXTENDS ReviewPublication, TLC

CONSTANTS h1, h2   \* two heads of the pull request

\* Two analyses of one head; no report is ever made of the other one.
MCHead == [a \in Analyses |-> h1]
=============================================================================

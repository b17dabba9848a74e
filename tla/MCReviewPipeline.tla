-------------------------- MODULE MCReviewPipeline --------------------------
(* Small instances of ReviewPipeline for TLC. *)
EXTENDS ReviewPipeline, TLC

CONSTANTS h1, h2, alice   \* two states of the pull request and a user
=============================================================================

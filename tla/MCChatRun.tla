----------------------------- MODULE MCChatRun -----------------------------
(* Small instances of ChatRun for TLC. *)
EXTENDS ChatRun, TLC

\* The model answers, asks, or asks and then reads.
ShortPlans == {<< >>, <<"ask">>, <<"ask", "read">>}
=============================================================================

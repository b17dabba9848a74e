-------------------------- MODULE MCCentralCache --------------------------
\* Two processes that share a cache; neither they nor what the knowledge says
\* are told apart.
EXTENDS KnowledgeDelivery, TLC
Symmetry == Permutations(Processes) \cup Permutations(Contents)

\* The last generation is reached, and what reaches it is checked, but nothing
\* is explored from there.
WithinBounds ==
  /\ index.generation < MaxGeneration
  /\ index.generation + events + faults <= MaxEvents
===========================================================================

---------------------- MODULE MCKnowledgePublication ----------------------
\* A small instance of KnowledgePublication for TLC: its constants are in the cfg.
EXTENDS KnowledgePublication
============================================================================

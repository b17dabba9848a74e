-------------------------- MODULE MCModelAdmission --------------------------
(* Small instances of ModelAdmission for TLC. *)
EXTENDS ModelAdmission, TLC

CONSTANTS b1, b2, i1,  \* callers
          a1, a2,      \* accounts
          r1, r2, r3   \* runs

\* Requests of two reviews and a generation of criteria under one account.
SharedAccount == [c \in {b1, b2, i1} |-> a1]
SharedRun == (b1 :> r1) @@ (b2 :> r2) @@ (i1 :> r3)
SharedLane == (b1 :> "batch") @@ (b2 :> "batch") @@ (i1 :> "interactive")

\* Two grouped reviews under one account, one of them under another as well.
GroupAccount == (b1 :> a1) @@ (b2 :> a1) @@ (i1 :> a2)
GroupRun == (b1 :> r1) @@ (b2 :> r2) @@ (i1 :> r1)
GroupLane == (b1 :> "group") @@ (b2 :> "group") @@ (i1 :> "batch")

FourEach == [c \in {b1, b2, i1} |-> 4]
OneCall == [r \in {r1, r2, r3} |-> 1]
TwoAndOne == (r1 :> 2) @@ (r2 :> 1) @@ (r3 :> 1)
=============================================================================

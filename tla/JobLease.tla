------------------------------ MODULE JobLease ------------------------------
(***************************************************************************)
(* What the job queue promises to the rest of the system, with nothing of  *)
(* how it is done: a job is granted under increasing tokens, its result is *)
(* committed only under the token that is held, and a job ends once.       *)
(* JobQueue implements it with lease rows, attempts, heartbeats, recovery  *)
(* and fences.                                                             *)
(***************************************************************************)
EXTENDS Naturals

CONSTANTS
  Jobs,
  Results,    \* jobs that commit a result under their token
  OneShot,    \* those whose result is committed at most once
  Kept,       \* those that are never given up once the result is there
  Reopenable  \* jobs a user may reopen after a failure

VARIABLES
  phase,     \* where each job is
  token,     \* the last token granted for it
  committed  \* the tokens under which its result was committed

leaseVars == <<phase, token, committed>>

Phases == {"absent", "queued", "running", "completed", "failed"}

LeaseTypeOK ==
  /\ phase \in [Jobs -> Phases]
  /\ token \in [Jobs -> Nat]
  /\ committed \in [Jobs -> SUBSET Nat]

Init ==
  /\ phase = [j \in Jobs |-> "absent"]
  /\ token = [j \in Jobs |-> 0]
  /\ committed = [j \in Jobs |-> {}]

Move(j, from, to) ==
  /\ phase[j] = from
  /\ phase' = [phase EXCEPT ![j] = to]
  /\ UNCHANGED committed

Submit(j) == Move(j, "absent", "queued") /\ UNCHANGED token

Grant(j) ==
  /\ Move(j, "queued", "running")
  /\ token' = [token EXCEPT ![j] = @ + 1]

Commit(j) ==
  /\ phase[j] = "running"
  /\ j \in Results
  /\ j \in OneShot => committed[j] = {}
  /\ committed' = [committed EXCEPT ![j] = @ \cup {token[j]}]
  /\ UNCHANGED <<phase, token>>

Complete(j) ==
  /\ j \in Results => committed[j] # {}
  /\ Move(j, "running", "completed")
  /\ UNCHANGED token

\* The holder fails, defers or disappears; the job is granted again or given up.
Release(j) ==
  /\ j \in Kept => committed[j] = {}
  /\ Move(j, "running", "queued") \/ Move(j, "running", "failed")
  /\ UNCHANGED token

\* Some of the waiting jobs are cancelled at once.
Cancel(cancelled) ==
  /\ \A j \in cancelled : phase[j] = "queued"
  /\ phase' = [j \in Jobs |-> IF j \in cancelled THEN "failed" ELSE phase[j]]
  /\ UNCHANGED <<token, committed>>

Reopen(j) ==
  /\ j \in Reopenable
  /\ committed[j] = {}
  /\ Move(j, "failed", "queued")
  /\ UNCHANGED token

Next ==
  \/ \E j \in Jobs : Submit(j) \/ Grant(j) \/ Commit(j) \/ Complete(j)
                       \/ Release(j) \/ Reopen(j)
  \/ \E cancelled \in SUBSET Jobs : Cancel(cancelled)

Spec == Init /\ [][Next]_leaseVars

-----------------------------------------------------------------------------
(* Properties *)

\* What comes of the promise: a one-shot result has one author, a completed job
\* has its result, and a job that is kept for its result is not waiting again,
\* given up or cancelled.
Settled ==
  \A j \in Jobs :
    /\ j \in OneShot => \A s, t \in committed[j] : s = t
    /\ j \in Results /\ phase[j] = "completed" => committed[j] # {}
    /\ j \in Kept /\ committed[j] # {} => phase[j] \in {"running", "completed"}

=============================================================================

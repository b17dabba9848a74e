------------------------------ MODULE ChatRun ------------------------------
(***************************************************************************)
(* The interactive chat (apps/runtime/src/services/chat-agent.ts and       *)
(* routes/chat-runs.ts): the runs of one session, the executions of a run  *)
(* by workers, the questions an execution asks, and the answers,           *)
(* instructions and cancellations of the user.                             *)
(*                                                                         *)
(* A transaction, or a statement outside of one, is an action.  Between    *)
(* two of them an execution works with the copy of the run it loaded when  *)
(* it claimed it; what it may still write is decided by the fence.         *)
(***************************************************************************)
EXTENDS Naturals, Sequences, FiniteSets

CONSTANTS
  Runs,           \* idempotency keys of the session
  Instructions,   \* instructions the user may send to a run
  Plans,          \* sequences of tool calls a model may answer with
  MaxModelCalls,  \* configuration.maxModelCalls
  LeaseTTL,       \* of an execution, in ticks
  MaxWaits,       \* bound of the model on waits for the account
  MaxLosses       \* bound of the model on crashes and stalls together

ASSUME PlanAssumption == Plans \subseteq Seq({"ask", "read"})

ASSUME BoundAssumption ==
  /\ {MaxModelCalls, LeaseTTL} \subseteq Nat \ {0}
  /\ {MaxWaits, MaxLosses} \subseteq Nat

VARIABLES
  rows,          \* chat_runs
  messages,      \* status of the assistant message of each run
  instructions,  \* chat_run_instructions
  questions,     \* chat_questions
  requests,      \* requests of each run in model_request_ledger
  execs,         \* calls of executeAgentRun in progress
  losses, waits  \* counted for the bounds

vars == <<rows, messages, instructions, questions, requests, execs, losses, waits>>

-----------------------------------------------------------------------------
(* Types *)

Active == {"queued", "running", "awaiting_input", "waiting_capacity", "cancelling"}
Ended == {"completed", "partial", "failed", "cancelled"}

\* A tool call: the id the provider gives to it is new with every answer.
Call == [kind : {"ask", "read"}, fence : Nat, step : Nat, index : Nat]

\* expired: 24 hours have passed.  due: resume_after has.
Row == [status : {"none"} \cup Active \cup Ended, fence : Nat, lease : 0..LeaseTTL,
        due : BOOLEAN, expired : BOOLEAN, finished : BOOLEAN,
        pending : Seq(Call), heard : SUBSET Instructions]

Question == [run : Runs, call : Call, state : {"open", "answered", "overdue"}]

Pcs == {"cancel", "loop", "tool", "start", "model", "called", "turned", "answered",
        "waiting", "failing", "cancelling", "ending"}

\* tools: the model may call tools, as it may not in the last call of the budget.
Exec == [run : Runs, fence : Nat, pc : Pcs, pending : Seq(Call), heard : SUBSET Instructions,
         tools : BOOLEAN]

TypeOK ==
  /\ rows \in [Runs -> Row]
  /\ messages \in [Runs -> {"none", "pending", "completed", "failed"}]
  /\ instructions \in [Runs -> [Instructions -> {"none", "pending", "applied"}]]
  /\ questions \subseteq Question
  /\ requests \in [Runs -> 0..MaxModelCalls]
  /\ execs \subseteq Exec
  /\ losses \in 0..MaxLosses /\ waits \in 0..MaxWaits
  /\ \A x \in execs : x.fence <= rows[x.run].fence
  /\ \A x, y \in execs : x.run = y.run /\ x.fence = y.fence => x = y

-----------------------------------------------------------------------------
Init ==
  /\ rows = [r \in Runs |->
       [status |-> "none", fence |-> 0, lease |-> 0, due |-> TRUE, expired |-> FALSE,
        finished |-> FALSE, pending |-> << >>, heard |-> {}]]
  /\ messages = [r \in Runs |-> "none"]
  /\ instructions = [r \in Runs |-> [i \in Instructions |-> "none"]]
  /\ questions = {}
  /\ requests = [r \in Runs |-> 0]
  /\ execs = {}
  /\ losses = 0 /\ waits = 0

-----------------------------------------------------------------------------
(* The user *)

user == <<requests, execs, losses, waits>>

\* The active runs are looked up under the lock of the user.
Create(r) ==
  /\ rows[r].status = "none"
  /\ \A other \in Runs : rows[other].status \notin Active
  /\ rows' = [rows EXCEPT ![r].status = "queued"]
  /\ messages' = [messages EXCEPT ![r] = "pending"]
  /\ UNCHANGED <<instructions, questions, user>>

Cancel(r) ==
  /\ rows[r].status \in Active \ {"cancelling"}
  /\ rows' = [rows EXCEPT ![r].status = "cancelling", ![r].due = TRUE]
  /\ UNCHANGED <<messages, instructions, questions, user>>

Instruct(r, i) ==
  /\ rows[r].status \in {"queued", "running", "waiting_capacity"}
  /\ instructions[r][i] = "none"
  /\ instructions' = [instructions EXCEPT ![r][i] = "pending"]
  /\ UNCHANGED <<rows, messages, questions, user>>

Answer(q) ==
  /\ q \in questions /\ q.state = "open"
  /\ rows[q.run].status = "awaiting_input"
  /\ questions' = (questions \ {q}) \cup {[q EXCEPT !.state = "answered"]}
  /\ rows' = [rows EXCEPT ![q.run].status = "queued", ![q.run].due = TRUE]
  /\ UNCHANGED <<messages, instructions, user>>

-----------------------------------------------------------------------------
(* Claims *)

OpenQuestions(r) == {q \in questions : q.run = r /\ q.state # "answered"}

SweptQuestion(r) == \E q \in OpenQuestions(r) : q.state = "overdue"

\* The sweep ends the run and leaves its message (a fault).
UnsweptMessages(r) == messages

SweptMessages(r) == [messages EXCEPT ![r] = "failed"]

\* The first statement of a claim fails what has expired.
Sweep(r) ==
  /\ \/ rows[r].status \in {"queued", "waiting_capacity", "awaiting_input"} /\ rows[r].expired
     \/ rows[r].status = "awaiting_input" /\ SweptQuestion(r)
  /\ rows' = [rows EXCEPT ![r].status = "failed", ![r].lease = 0]
  /\ messages' = SweptMessages(r)
  /\ UNCHANGED <<instructions, questions, user>>

\* A run that is being cancelled is not taken up again (a fault).
ClaimableUncancelled(row) ==
  \/ row.status \in {"queued", "waiting_capacity"} /\ row.lease = 0 /\ row.due
  \/ row.status = "running" /\ row.lease = 0

Claimable(row) ==
  \/ row.status \in {"queued", "waiting_capacity", "cancelling"} /\ row.lease = 0 /\ row.due
  \/ row.status = "running" /\ row.lease = 0

ClaimedStatus(status) == IF status = "cancelling" THEN "cancelling" ELSE "running"

\* A claim keeps the fence (a fault).
SameFence(row) == row.fence

NextFence(row) == row.fence + 1

Claim(r) ==
  LET status == ClaimedStatus(rows[r].status)
      fence == NextFence(rows[r])
  IN
  /\ Claimable(rows[r])
  /\ rows' = [rows EXCEPT ![r] =
       [@ EXCEPT !.status = status, !.fence = fence, !.lease = LeaseTTL]]
  /\ execs' = execs \cup
       {[run |-> r, fence |-> fence, pc |-> IF status = "running" THEN "loop" ELSE "cancel",
         pending |-> rows[r].pending, heard |-> rows[r].heard, tools |-> FALSE]}
  /\ UNCHANGED <<messages, instructions, questions, requests, losses, waits>>

-----------------------------------------------------------------------------
(* What an execution writes *)

\* The lease without the fence (a fault).
HeldByLease(x) == rows[x.run].lease > 0

Held(x) == rows[x.run].fence = x.fence /\ rows[x.run].lease > 0

\* A cancellation does not reject what is written after it (a fault).
RejectedByFence(x, status) == ~Held(x)

\* persistRun throws.
Rejected(x, status) ==
  \/ ~Held(x)
  \/ rows[x.run].status = "cancelling" /\ status # "cancelled"

Become(x, y) == execs' = (execs \ {x}) \cup {y}
GoTo(x, pc) == Become(x, [x EXCEPT !.pc = pc])
\* The tool calls play no further part.
Fail(x) == Become(x, [x EXCEPT !.pc = "failing", !.pending = << >>, !.tools = FALSE])
Return(x) == execs' = execs \ {x}

MessageOf(status) == IF status \in {"completed", "partial"} THEN "completed" ELSE "failed"

\* The transaction of persistRun when it does not throw.
Persist(x, status, finished) ==
  /\ ~Rejected(x, status)
  /\ rows' = [rows EXCEPT ![x.run] =
       [@ EXCEPT !.status = status, !.finished = finished,
                 !.pending = IF status \in Ended THEN << >> ELSE x.pending,
                 !.heard = x.heard, !.lease = IF status = "running" THEN rows[x.run].lease ELSE 0,
                 !.due = status # "waiting_capacity"]]
  /\ instructions' = [instructions EXCEPT ![x.run] =
       [i \in Instructions |-> IF i \in x.heard THEN "applied" ELSE @[i]]]
  /\ messages' = IF status \in Ended THEN [messages EXCEPT ![x.run] = MessageOf(status)]
                                     ELSE messages

\* A write in the midst of the work, and what it does when it throws.
PersistOr(x, y) ==
  \/ Persist(y, "running", FALSE) /\ Become(x, y)
  \/ Rejected(x, "running") /\ Fail(x) /\ UNCHANGED <<rows, instructions, messages>>

-----------------------------------------------------------------------------
(* The steps of an execution *)

step == <<questions, requests, losses, waits>>

ConfirmCancel(x) ==
  /\ x.pc = "cancel"
  /\ \/ Persist(x, "cancelled", FALSE) /\ Return(x)
     \/ Rejected(x, "cancelled") /\ Fail(x) /\ UNCHANGED <<rows, instructions, messages>>
  /\ UNCHANGED step

AtTool(x, kind) == x.pc = "loop" /\ x.pending # << >> /\ Head(x.pending).kind = kind

IsAnswered(x) ==
  \E q \in questions : q.run = x.run /\ q.call = Head(x.pending) /\ q.state = "answered"

\* ask_user whose question has its answer.
TakeAnswer(x) ==
  /\ AtTool(x, "ask")
  /\ IsAnswered(x)
  /\ GoTo(x, "tool")
  /\ UNCHANGED <<rows, instructions, messages, step>>

\* The call is shifted from the checkpoint before it has its answer (a fault).
ShiftedCheckpoint(x) == Tail(x.pending)

AskedCheckpoint(x) == x.pending

\* ask_user: the question is stored, the checkpoint too, and the lease given back.
Ask(x) ==
  /\ AtTool(x, "ask")
  /\ ~IsAnswered(x)
  /\ IF Held(x) /\ rows[x.run].status = "running"
     THEN /\ questions' = questions \cup {[run |-> x.run, call |-> Head(x.pending), state |-> "open"]}
          /\ rows' = [rows EXCEPT ![x.run] =
               [@ EXCEPT !.status = "awaiting_input", !.pending = AskedCheckpoint(x), !.heard = x.heard,
                         !.lease = 0]]
          /\ Return(x)
     ELSE Fail(x) /\ UNCHANGED <<rows, questions>>
  /\ UNCHANGED <<messages, instructions, requests, losses, waits>>

\* Beyond the budget of tool calls an error is the output, and nothing is written.
StartTool(x) ==
  /\ AtTool(x, "read")
  /\ \/ PersistOr(x, [x EXCEPT !.pc = "tool"])
     \/ GoTo(x, "tool") /\ UNCHANGED <<rows, instructions, messages>>
  /\ UNCHANGED step

\* The output of a tool, an error of it included, is part of the checkpoint.
EndTool(x) ==
  /\ x.pc = "tool"
  /\ PersistOr(x, [x EXCEPT !.pc = "loop", !.pending = Tail(@)])
  /\ UNCHANGED step

AtModel(x) == x.pc = "loop" /\ x.pending = << >>

EndOfBudget(x) ==
  /\ AtModel(x)
  /\ requests[x.run] >= MaxModelCalls
  /\ \/ Persist(x, "partial", FALSE) /\ Return(x)
     \/ Rejected(x, "partial") /\ Fail(x) /\ UNCHANGED <<rows, instructions, messages>>
  /\ UNCHANGED step

Unapplied(r) == {i \in Instructions : instructions[r][i] = "pending"}

Hear(x) ==
  /\ AtModel(x)
  /\ requests[x.run] < MaxModelCalls
  /\ Become(x, [x EXCEPT !.pc = "start", !.heard = @ \cup Unapplied(x.run),
                         !.tools = requests[x.run] < MaxModelCalls - 1])
  /\ UNCHANGED <<rows, instructions, messages, step>>

StartModel(x) ==
  /\ x.pc = "start"
  /\ PersistOr(x, [x EXCEPT !.pc = "model"])
  /\ UNCHANGED step

Request(x) ==
  /\ x.pc = "model"
  /\ requests[x.run] < MaxModelCalls
  /\ requests' = [requests EXCEPT ![x.run] = @ + 1]
  /\ GoTo(x, "called")
  /\ UNCHANGED <<rows, instructions, messages, questions, losses, waits>>

CallsOf(x, plan) ==
  [n \in DOMAIN plan |-> [kind |-> plan[n], fence |-> x.fence, step |-> requests[x.run], index |-> n]]

Turn(x, plan) ==
  /\ x.pc = "called"
  /\ x.tools \/ plan = << >>
  /\ Become(x, [x EXCEPT !.pc = IF plan = << >> THEN "answered" ELSE "turned",
                         !.pending = CallsOf(x, plan), !.tools = FALSE])
  /\ UNCHANGED <<rows, instructions, messages, step>>

\* No capacity, or 429.
Throttle(x) ==
  /\ x.pc \in {"model", "called"}
  /\ waits < MaxWaits
  /\ waits' = waits + 1
  /\ GoTo(x, "waiting")
  /\ UNCHANGED <<rows, instructions, messages, questions, requests, losses>>

EndTurn(x) ==
  /\ x.pc = "turned"
  /\ PersistOr(x, [x EXCEPT !.pc = "loop"])
  /\ UNCHANGED step

Overheard(x) == \E i \in Unapplied(x.run) : i \notin x.heard

Complete(x, status) ==
  /\ x.pc = "answered"
  /\ \/ ~Overheard(x) /\ Persist(x, status, TRUE) /\ Return(x)
     \/ /\ IF Rejected(x, status) THEN Fail(x) ELSE Overheard(x) /\ GoTo(x, "loop")
        /\ UNCHANGED <<rows, instructions, messages>>
  /\ UNCHANGED step

PersistWait(x) ==
  /\ x.pc = "waiting"
  /\ Return(x)
  /\ \/ Persist(x, "waiting_capacity", FALSE)
     \/ Rejected(x, "waiting_capacity") /\ UNCHANGED <<rows, instructions, messages>>
  /\ UNCHANGED step

\* An abort, the 10 minutes, withdrawn access, an error of a statement or of the
\* model, a budget spent meanwhile.
Throw(x) ==
  /\ x.pc \notin {"failing", "cancelling", "ending", "waiting"}
  /\ Fail(x)
  /\ UNCHANGED <<rows, instructions, messages, step>>

\* The run is read once more to decide how it ends.
ReadState(x) ==
  /\ x.pc = "failing"
  /\ IF rows[x.run].fence # x.fence THEN Return(x)
     ELSE GoTo(x, IF rows[x.run].status = "cancelling" THEN "cancelling" ELSE "ending")
  /\ UNCHANGED <<rows, instructions, messages, step>>

\* Partial if there is some content.  An error of this write is swallowed.
PersistEnd(x, status) ==
  /\ x.pc \in {"cancelling", "ending"}
  /\ (status = "cancelled") <=> (x.pc = "cancelling")
  /\ Return(x)
  /\ \/ Persist(x, status, FALSE)
     \/ Rejected(x, status) /\ UNCHANGED <<rows, instructions, messages>>
  /\ UNCHANGED step

ExecStep(x) ==
  \/ ConfirmCancel(x) \/ TakeAnswer(x) \/ Ask(x) \/ StartTool(x) \/ EndTool(x)
  \/ EndOfBudget(x) \/ Hear(x) \/ StartModel(x) \/ Request(x)
  \/ \E plan \in Plans : Turn(x, plan)
  \/ Throttle(x) \/ EndTurn(x)
  \/ \E status \in {"completed", "partial"} : Complete(x, status)
  \/ PersistWait(x) \/ Throw(x) \/ ReadState(x)
  \/ \E status \in {"partial", "failed", "cancelled"} : PersistEnd(x, status)

-----------------------------------------------------------------------------
(* Timers, time and crashes *)

\* A heartbeat that renews nothing aborts the execution (Throw).
Heartbeat(x) ==
  /\ Held(x) /\ rows[x.run].status = "running"
  /\ rows' = [rows EXCEPT ![x.run].lease = LeaseTTL]
  /\ UNCHANGED <<messages, instructions, execs, step>>

\* A lease of a live execution runs out only if the execution stalls.
Elapse(r) ==
  LET stalls == rows[r].lease = 1 /\ \E x \in execs : x.run = r /\ x.fence = rows[r].fence IN
  /\ rows[r].lease > 0
  /\ stalls => losses < MaxLosses
  /\ losses' = IF stalls THEN losses + 1 ELSE losses
  /\ rows' = [rows EXCEPT ![r].lease = @ - 1]
  /\ UNCHANGED <<messages, instructions, questions, requests, execs, waits>>

Crash(x) ==
  /\ losses < MaxLosses
  /\ losses' = losses + 1
  /\ Return(x)
  /\ UNCHANGED <<rows, messages, instructions, questions, requests, waits>>

BecomeDue(r) ==
  /\ ~rows[r].due
  /\ rows' = [rows EXCEPT ![r].due = TRUE]
  /\ UNCHANGED <<messages, instructions, questions, user>>

Expire(r) ==
  /\ rows[r].status \in Active /\ ~rows[r].expired
  /\ rows' = [rows EXCEPT ![r].expired = TRUE]
  /\ UNCHANGED <<messages, instructions, questions, user>>

ExpireQuestion(q) ==
  /\ q \in questions /\ q.state = "open"
  /\ questions' = (questions \ {q}) \cup {[q EXCEPT !.state = "overdue"]}
  /\ UNCHANGED <<rows, messages, instructions, user>>

-----------------------------------------------------------------------------
User(r) == Create(r) \/ Cancel(r) \/ \E i \in Instructions : Instruct(r, i)

Worker(r) == Sweep(r) \/ Claim(r) \/ Elapse(r) \/ BecomeDue(r) \/ Expire(r)

Next ==
  \/ \E r \in Runs : User(r) \/ Worker(r)
  \/ \E q \in questions : Answer(q) \/ ExpireQuestion(q)
  \/ \E x \in execs : ExecStep(x) \/ Heartbeat(x) \/ Crash(x)

Spec == Init /\ [][Next]_vars

\* Workers claim, executions go on, time passes.  The user need not do anything.
Fairness ==
  /\ \A r \in Runs : /\ WF_vars(Sweep(r)) /\ WF_vars(Claim(r)) /\ WF_vars(Elapse(r))
                     /\ WF_vars(BecomeDue(r)) /\ WF_vars(Expire(r))
  /\ WF_vars(\E q \in questions : ExpireQuestion(q))
  /\ WF_vars(\E x \in execs : ExecStep(x))

FairSpec == Spec /\ Fairness

-----------------------------------------------------------------------------
(* Properties *)

\* The message a run answers with is pending exactly as long as the run is
\* active, whichever of its executions, sweeps and cancellations ends it, and
\* then tells how it ended.
MessageMatchesRun ==
  \A r \in Runs :
    messages[r] = CASE rows[r].status = "none" -> "none"
                    [] rows[r].status \in Active -> "pending"
                    [] rows[r].status \in Ended -> MessageOf(rows[r].status)

\* A run waits for an answer exactly to one question, that of the call it goes
\* on with; no other question of it is open, and none is left behind by a run
\* that goes on.
QuestionIsAsked ==
  \A r \in Runs :
    /\ rows[r].status = "awaiting_input" =>
         \E q \in OpenQuestions(r) : rows[r].pending # << >> /\ q.call = Head(rows[r].pending)
    /\ Cardinality(OpenQuestions(r)) <= 1
    /\ rows[r].status \in {"queued", "running", "waiting_capacity", "completed"} =>
         OpenQuestions(r) = {}

\* docs/product/features.md:79: an instruction that was accepted, even in the
\* midst of the last answer, is part of what the model saw before a run is
\* completed, and what the checkpoint says was heard is marked as applied.
CompletedHeardAll ==
  \A r \in Runs :
    rows[r].finished => \A i \in Instructions :
                          instructions[r][i] # "none" => i \in rows[r].heard /\ instructions[r][i] = "applied"

\* A run that ended stays as it is, and one whose cancellation was accepted
\* becomes nothing but cancelled, whatever its executions have read before.
EndingsHold ==
  [][\A r \in Runs :
       /\ rows[r].status \in Ended => rows'[r].status = rows[r].status /\ messages'[r] = messages[r]
       /\ rows[r].status = "cancelling" => rows'[r].status \in {"cancelling", "cancelled"}]_vars

\* Every run ends, without any act of the user.
EveryRunEnds == \A r \in Runs : rows[r].status \in Active ~> rows[r].status \in Ended

=============================================================================

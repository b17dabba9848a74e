---------------------------- MODULE ChatRunProofs ----------------------------
(***************************************************************************)
(* For any runs, instructions, plans and limits: the message of a run says *)
(* how it ends, endings hold, nothing the user said is lost and a question *)
(* is asked once.  Inv, the inductive invariant, says what an execution    *)
(* may rely on while it holds the fence.                                   *)
(***************************************************************************)
EXTENDS ChatRun, FiniteSetTheorems, TLAPS

\* Only what runs, or is being cancelled, is leased.
LeaseInv ==
  \A r \in Runs : rows[r].lease > 0 => rows[r].status \in {"running", "cancelling"}

\* The copy of the current execution and the checkpoint have all that was applied.
HeardInv ==
  /\ \A r \in Runs, i \in Instructions : instructions[r][i] = "applied" => i \in rows[r].heard
  /\ \A x \in execs : x.fence = rows[x.run].fence => rows[x.run].heard \subseteq x.heard
  /\ \A r \in Runs : rows[r].finished => rows[r].status \in Ended

\* Where a run may be that has a question without an answer.
Questioned == {"awaiting_input", "cancelling", "failed", "cancelled"}

\* The question a run waits with is that of the call it goes on with.
Asked(r) ==
  \E q \in OpenQuestions(r) : rows[r].pending # << >> /\ q.call = Head(rows[r].pending)

QuestionsInv ==
  \A r \in Runs :
    /\ rows[r].status = "awaiting_input" => Asked(r)
    /\ \A p, q \in OpenQuestions(r) : p = q
    /\ rows[r].status \notin Questioned => OpenQuestions(r) = {}

\* A tool is run for a call that is at hand.
ToolsInv == \A x \in execs : x.pc = "tool" => x.pending # << >>

Inv ==
  /\ TypeOK /\ LeaseInv /\ HeardInv /\ QuestionsInv /\ ToolsInv
  /\ MessageMatchesRun /\ CompletedHeardAll

Statuses == {"none"} \cup Active \cup Ended

-----------------------------------------------------------------------------
(* What the updates do *)

LEMMA BoundTypes ==
  /\ LeaseTTL \in Nat /\ LeaseTTL > 0 /\ MaxModelCalls \in Nat /\ MaxModelCalls > 0
  /\ MaxWaits \in Nat /\ MaxLosses \in Nat
BY BoundAssumption

\* What a message says when its run is at a status.
Told(status) ==
  CASE status = "none" -> "none"
    [] status \in Active -> "pending"
    [] status \in Ended -> MessageOf(status)

LEMMA ToldByRun == MessageMatchesRun <=> \A r \in Runs : messages[r] = Told(rows[r].status)
  BY Zenon DEF MessageMatchesRun, Told

LEMMA ToldValues ==
  /\ Told("none") = "none"
  /\ \A status \in Active : Told(status) = "pending"
  /\ \A status \in Ended : Told(status) = MessageOf(status)
<1>1. /\ "none" \notin Active /\ "none" \notin Ended
      /\ \A status \in Active : status # "none" /\ status \notin Ended
      /\ \A status \in Ended : status # "none" /\ status \notin Active
  BY DEF Active, Ended
<1> QED
  BY <1>1, Zenon DEF Told

LEMMA ToldTypes ==
  \A status \in Statuses : Told(status) \in {"none", "pending", "completed", "failed"}
  BY ToldValues DEF Statuses, MessageOf

\* What is known of an execution and its row.
LEMMA ExecTypes ==
  ASSUME TypeOK, NEW x \in execs
  PROVE  /\ x \in Exec /\ x.run \in Runs /\ x.fence \in Nat /\ x.pc \in Pcs
         /\ x.pending \in Seq(Call) /\ x.heard \subseteq Instructions
         /\ rows[x.run] \in Row /\ rows[x.run].fence \in Nat /\ rows[x.run].lease \in Nat
<1>1. x \in Exec
  BY DEF TypeOK
<1>2. /\ x.run \in Runs /\ x.fence \in Nat /\ x.pc \in Pcs
      /\ x.pending \in Seq(Call) /\ x.heard \subseteq Instructions
  BY <1>1 DEF Exec
<1>3. rows[x.run] \in Row
  BY <1>2 DEF TypeOK
<1>4. rows[x.run].fence \in Nat /\ rows[x.run].lease \in Nat
  BY <1>3, BoundTypes DEF Row
<1> QED
  BY <1>1, <1>2, <1>3, <1>4

LEMMA RowReplaced ==
  ASSUME TypeOK, NEW r \in Runs, NEW row \in Row, rows' = [rows EXCEPT ![r] = row]
  PROVE  /\ rows' \in [Runs -> Row] /\ rows'[r] = row
         /\ \A s \in Runs : s # r => rows'[s] = rows[s]
  BY DEF TypeOK

\* The executions that are left when x becomes y, or returns.
LEMMA ExecReplaced ==
  ASSUME TypeOK, NEW x \in execs, NEW y \in Exec, y.run = x.run, y.fence = x.fence,
         Become(x, y) \/ Return(x)
  PROVE  /\ execs' \subseteq Exec
         /\ \A z \in execs' : z = y \/ (z \in execs /\ z # x)
         /\ \A z, w \in execs' : z.run = w.run /\ z.fence = w.fence => z = w
         /\ \A z \in execs' : z.fence <= rows[z.run].fence
  BY DEF TypeOK, Become, Return

\* A change of one row that leaves the fence, the checkpoint and the questions.
LEMMA RowStep ==
  ASSUME Inv, NEW r \in Runs, NEW row \in Row, rows' = [rows EXCEPT ![r] = row],
         row.fence = rows[r].fence, row.heard = rows[r].heard,
         row.finished = rows[r].finished, row.pending = rows[r].pending,
         row.lease > 0 => row.status \in {"running", "cancelling"},
         rows[r].status \in Ended => row.status \in Ended,
         row.status = "awaiting_input" => rows[r].status = "awaiting_input",
         rows[r].status \in Questioned => row.status \in Questioned,
         messages' \in [Runs -> {"none", "pending", "completed", "failed"}],
         \A s \in Runs : s # r => messages'[s] = messages[s],
         messages'[r] = Told(row.status),
         UNCHANGED <<instructions, questions, requests, execs, waits>>,
         losses' \in 0..MaxLosses
  PROVE  Inv'
<1>1. /\ rows' \in [Runs -> Row] /\ rows'[r] = row
      /\ \A s \in Runs : s # r => rows'[s] = rows[s]
  BY RowReplaced DEF Inv
<1>2. \A s \in Runs : /\ rows'[s].fence = rows[s].fence /\ rows'[s].heard = rows[s].heard
                      /\ rows'[s].finished = rows[s].finished /\ rows'[s].pending = rows[s].pending
  BY <1>1
<1>3. TypeOK'
  BY <1>1, <1>2 DEF Inv, TypeOK, Exec
<1>4. LeaseInv'
  BY <1>1 DEF Inv, LeaseInv
<1>5. HeardInv'
  BY <1>1, <1>2 DEF Inv, HeardInv, TypeOK, Exec
<1>6. QuestionsInv'
  <2> SUFFICES ASSUME NEW s \in Runs
               PROVE  /\ rows'[s].status = "awaiting_input" => Asked(s)'
                      /\ \A p, q \in OpenQuestions(s)' : p = q
                      /\ rows'[s].status \notin Questioned => OpenQuestions(s)' = {}
    BY DEF QuestionsInv
  <2>1. OpenQuestions(s)' = OpenQuestions(s)
    BY DEF OpenQuestions
  <2>2. Asked(s) => Asked(s)'
    BY <1>2, <2>1 DEF Asked
  <2>3. /\ rows'[s].status = "awaiting_input" => rows[s].status = "awaiting_input"
        /\ rows'[s].status \notin Questioned => rows[s].status \notin Questioned
    BY <1>1
  <2> QED
    BY <2>1, <2>2, <2>3 DEF Inv, QuestionsInv
<1>7. \A s \in Runs : messages'[s] = Told(rows'[s].status)
  <2>1. \A s \in Runs : messages[s] = Told(rows[s].status)
    BY ToldByRun DEF Inv
  <2> QED
    BY <1>1, <2>1
<1>8. CompletedHeardAll'
  BY <1>2 DEF Inv, CompletedHeardAll
<1> QED
  <2>1. MessageMatchesRun'
    BY <1>7, Zenon DEF MessageMatchesRun, Told
  <2>2. ToolsInv'
    BY DEF Inv, ToolsInv
  <2> QED
    BY <1>3, <1>4, <1>5, <1>6, <2>1, <2>2, <1>8 DEF Inv

\* A step of an execution that writes none of its rows.
LEMMA ExecStepInv ==
  ASSUME Inv, NEW x \in execs, NEW y \in Exec, y.run = x.run, y.fence = x.fence,
         x.heard \subseteq y.heard, y.pc = "tool" => y.pending # << >>,
         Become(x, y) \/ Return(x),
         requests' \in [Runs -> 0..MaxModelCalls], waits' \in 0..MaxWaits,
         losses' \in 0..MaxLosses,
         UNCHANGED <<rows, messages, instructions, questions>>
  PROVE  Inv'
<1>1. /\ execs' \subseteq Exec
      /\ \A z \in execs' : z = y \/ (z \in execs /\ z # x)
      /\ \A z, w \in execs' : z.run = w.run /\ z.fence = w.fence => z = w
      /\ \A z \in execs' : z.fence <= rows[z.run].fence
  BY ExecReplaced DEF Inv
<1>2. TypeOK'
  BY <1>1 DEF Inv, TypeOK
<1>3. HeardInv'
  <2>1. \A z \in execs' : z.fence = rows[z.run].fence => rows[z.run].heard \subseteq z.heard
    BY <1>1 DEF Inv, HeardInv
  <2> QED
    BY <2>1 DEF Inv, HeardInv
<1>4. LeaseInv' /\ MessageMatchesRun' /\ CompletedHeardAll'
  BY DEF Inv, LeaseInv, MessageMatchesRun, CompletedHeardAll
<1>5. QuestionsInv'
  BY DEF Inv, QuestionsInv, Asked, OpenQuestions
<1>6. ToolsInv'
  BY <1>1 DEF Inv, ToolsInv
<1> QED
  BY <1>2, <1>3, <1>4, <1>5, <1>6 DEF Inv


\* A write of an execution that is not rejected.
LEMMA PersistInv ==
  ASSUME Inv, NEW x \in execs, NEW y \in Exec, y.run = x.run, y.fence = x.fence,
         x.heard \subseteq y.heard, y.pc = "tool" => y.pending # << >>,
         NEW status \in Statuses \ {"none", "queued", "awaiting_input", "cancelling"},
         NEW finished \in BOOLEAN, finished => status \in Ended /\ ~Overheard(y),
         Persist(y, status, finished), Become(x, y) \/ Return(x),
         UNCHANGED step
  PROVE  Inv'
<1>1. PICK r \in Runs : r = x.run
  BY ExecTypes DEF Inv
<1>2. /\ rows[r].fence = y.fence /\ rows[r].lease > 0
      /\ rows[r].status = "cancelling" => status = "cancelled"
      /\ rows[r] \in Row /\ y.pending \in Seq(Call) /\ y.heard \subseteq Instructions
  BY <1>1, ExecTypes DEF Inv, Persist, Rejected, Held, Exec
<1>3. rows[r].status \in {"running", "cancelling"} /\ messages[r] = "pending"
  <2>1. rows[r].status \in {"running", "cancelling"}
    BY <1>2 DEF Inv, LeaseInv
  <2> QED
    BY <2>1, ToldByRun, ToldValues DEF Inv, Active
<1>4. PICK pending \in Seq(Call), lease \in 0..LeaseTTL, due \in BOOLEAN :
        /\ pending = IF status \in Ended THEN << >> ELSE y.pending
        /\ lease = IF status = "running" THEN rows[r].lease ELSE 0
        /\ due = (status # "waiting_capacity")
  <2>1. rows[r].lease \in 0..LeaseTTL /\ 0 \in 0..LeaseTTL /\ << >> \in Seq(Call)
    BY <1>2, BoundTypes DEF Row
  <2> QED
    BY <1>2, <2>1
<1>17. PICK row : row = [rows[r] EXCEPT !.status = status, !.finished = finished,
                           !.pending = pending, !.heard = y.heard, !.lease = lease, !.due = due]
  OBVIOUS
<1>5. /\ row \in Row /\ row.status = status /\ row.fence = rows[r].fence
      /\ row.finished = finished /\ row.heard = y.heard
      /\ row.lease > 0 => status = "running"
  <2>1. status \in {"none"} \cup Active \cup Ended
    BY DEF Statuses
  <2>2. row.lease = lease /\ (lease > 0 => status = "running")
    BY <1>2, <1>4, <1>17 DEF Row
  <2>3. row \in Row /\ row.status = status /\ row.fence = rows[r].fence
        /\ row.finished = finished /\ row.heard = y.heard
    BY <1>2, <1>17, <2>1 DEF Row
  <2> QED
    BY <2>2, <2>3
<1>6. rows' = [rows EXCEPT ![r] = row]
  <2>1. rows' = [rows EXCEPT ![y.run] =
                   [rows[y.run] EXCEPT !.status = status, !.finished = finished,
                          !.pending = IF status \in Ended THEN << >> ELSE y.pending,
                          !.heard = y.heard,
                          !.lease = IF status = "running" THEN rows[y.run].lease ELSE 0,
                          !.due = status # "waiting_capacity"]]
    BY Zenon DEF Persist
  <2>2. y.run = r
    BY <1>1
  <2>3. row = [rows[y.run] EXCEPT !.status = status, !.finished = finished,
                          !.pending = IF status \in Ended THEN << >> ELSE y.pending,
                          !.heard = y.heard,
                          !.lease = IF status = "running" THEN rows[y.run].lease ELSE 0,
                          !.due = status # "waiting_capacity"]
    BY <1>4, <1>17, <2>2, Zenon
  <2> QED
    BY <2>1, <2>2, <2>3, Zenon
<1> HIDE <1>17
<1>7. /\ rows' \in [Runs -> Row] /\ rows'[r] = row
      /\ \A s \in Runs : s # r => rows'[s] = rows[s]
      /\ \A s \in Runs : rows'[s].fence = rows[s].fence
  BY <1>5, <1>6, RowReplaced DEF Inv
<1>8. /\ instructions' \in [Runs -> [Instructions -> {"none", "pending", "applied"}]]
      /\ \A s \in Runs : s # r => instructions'[s] = instructions[s]
      /\ \A i \in Instructions :
           instructions'[r][i] = IF i \in y.heard THEN "applied" ELSE instructions[r][i]
  <2>1. PICK told : told = [i \in Instructions |-> IF i \in y.heard THEN "applied" ELSE instructions[r][i]]
    OBVIOUS
  <2>2. instructions' = [instructions EXCEPT ![r] = told]
    BY <1>1, <2>1 DEF Persist, Inv, TypeOK
  <2>3. told \in [Instructions -> {"none", "pending", "applied"}]
    BY <2>1 DEF Inv, TypeOK
  <2> QED
    BY <2>1, <2>2, <2>3 DEF Inv, TypeOK
<1>9. /\ messages' \in [Runs -> {"none", "pending", "completed", "failed"}]
      /\ \A s \in Runs : s # r => messages'[s] = messages[s]
      /\ messages'[r] = Told(status)
  <2>1. CASE status \in Ended
    <3>1. messages' = [messages EXCEPT ![r] = MessageOf(status)]
      BY <1>1, <2>1 DEF Persist
    <3> QED
      BY <2>1, <3>1, ToldValues DEF Inv, TypeOK, MessageOf
  <2>2. CASE status \notin Ended
    <3>1. messages' = messages /\ status \in Active
      BY <2>2 DEF Persist, Statuses
    <3> QED
      BY <1>3, <3>1, ToldValues DEF Inv, TypeOK
  <2> QED
    BY <2>1, <2>2
<1>10. /\ execs' \subseteq Exec
       /\ \A z \in execs' : z = y \/ (z \in execs /\ z # x)
       /\ \A z, w \in execs' : z.run = w.run /\ z.fence = w.fence => z = w
       /\ \A z \in execs' : z.fence <= rows[z.run].fence
  BY ExecReplaced DEF Inv
<1>11. TypeOK'
  <2>1. \A z \in execs' : z.fence <= rows'[z.run].fence
    BY <1>7, <1>10 DEF Exec
  <2> QED
    BY <1>7, <1>8, <1>9, <1>10, <2>1 DEF Inv, TypeOK, step
<1>12. LeaseInv'
  BY <1>5, <1>7 DEF Inv, LeaseInv
<1>13. HeardInv'
  <2>1. ASSUME NEW s \in Runs, NEW i \in Instructions, instructions'[s][i] = "applied"
        PROVE  i \in rows'[s].heard
    <3>1. CASE s = r
      <4>1. instructions[r][i] = "applied" => i \in rows[r].heard
        BY DEF Inv, HeardInv
      <4>2. rows[r].heard \subseteq x.heard
        BY <1>1, <1>2 DEF Inv, HeardInv
      <4> QED
        BY <1>5, <1>7, <1>8, <2>1, <3>1, <4>1, <4>2
    <3>2. CASE s # r
      BY <1>7, <1>8, <2>1, <3>2 DEF Inv, HeardInv
    <3> QED
      BY <3>1, <3>2
  <2>2. ASSUME NEW z \in execs', z.fence = rows'[z.run].fence
        PROVE  rows'[z.run].heard \subseteq z.heard
    <3>1. CASE z = y
      BY <1>1, <1>5, <1>7, <3>1
    <3>2. CASE z \in execs /\ z # x
      <4>1. z.run \in Runs /\ z.fence = rows[z.run].fence
        BY <1>7, <1>10, <2>2 DEF Exec
      <4>2. z.run # r
        BY <1>1, <1>2, <3>2, <4>1 DEF Inv, TypeOK
      <4> QED
        BY <1>7, <3>2, <4>1, <4>2 DEF Inv, HeardInv
    <3> QED
      BY <1>10, <3>1, <3>2
  <2>3. \A s \in Runs : rows'[s].finished => rows'[s].status \in Ended
    BY <1>5, <1>7 DEF Inv, HeardInv
  <2> QED
    BY <2>1, <2>2, <2>3 DEF HeardInv
<1>14. QuestionsInv'
  <2> SUFFICES ASSUME NEW s \in Runs
               PROVE  /\ rows'[s].status = "awaiting_input" => Asked(s)'
                      /\ \A p, q \in OpenQuestions(s)' : p = q
                      /\ rows'[s].status \notin Questioned => OpenQuestions(s)' = {}
    BY DEF QuestionsInv
  <2>1. OpenQuestions(s)' = OpenQuestions(s)
    BY DEF OpenQuestions, step
  <2>2. CASE s = r
    <3>1. rows'[s].status = status
      BY <1>5, <1>7, <2>2
    <3>2. \/ OpenQuestions(s) = {}
          \/ rows[r].status = "cancelling" /\ status = "cancelled"
      BY <1>2, <1>3, <2>2 DEF Inv, QuestionsInv, Questioned
    <3> QED
      BY <2>1, <3>1, <3>2 DEF Inv, QuestionsInv, Questioned
  <2>3. CASE s # r
    <3>1. rows'[s] = rows[s]
      BY <1>7, <2>3
    <3>2. Asked(s) => Asked(s)'
      BY <2>1, <3>1 DEF Asked
    <3> QED
      BY <2>1, <3>1, <3>2 DEF Inv, QuestionsInv
  <2> QED
    BY <2>2, <2>3
<1>15. MessageMatchesRun'
  <2>1. \A s \in Runs : messages'[s] = Told(rows'[s].status)
    <3>1. \A s \in Runs : messages[s] = Told(rows[s].status)
      BY ToldByRun DEF Inv
    <3> QED
      BY <1>5, <1>7, <1>9, <3>1
  <2> QED
    BY <2>1, Zenon DEF MessageMatchesRun, Told
<1>16. CompletedHeardAll'
  <2> SUFFICES ASSUME NEW s \in Runs, rows'[s].finished, NEW i \in Instructions,
                      instructions'[s][i] # "none"
               PROVE  i \in rows'[s].heard /\ instructions'[s][i] = "applied"
    BY DEF CompletedHeardAll
  <2>1. CASE s # r
    BY <1>7, <1>8, <2>1 DEF Inv, CompletedHeardAll
  <2>2. CASE s = r
    <3>1. ~Overheard(y)
      BY <1>5, <1>7, <2>2
    <3>2. instructions[r][i] = "pending" => i \in y.heard
      BY <1>1, <3>1 DEF Overheard, Unapplied
    <3>3. instructions[r][i] = "applied" => i \in y.heard
      BY <1>1, <1>2 DEF Inv, HeardInv
    <3>4. instructions[r][i] \in {"none", "pending", "applied"}
      BY DEF Inv, TypeOK
    <3> QED
      BY <1>5, <1>7, <1>8, <2>2, <3>2, <3>3, <3>4
  <2> QED
    BY <2>1, <2>2
<1>18. ToolsInv'
  BY <1>10 DEF Inv, ToolsInv
<1> QED
  BY <1>11, <1>12, <1>13, <1>14, <1>15, <1>16, <1>18 DEF Inv

-----------------------------------------------------------------------------
(* The steps of an execution *)

LEMMA GoToInv ==
  ASSUME Inv, NEW x \in execs, NEW pc \in Pcs, pc = "tool" => x.pending # << >>, GoTo(x, pc),
         requests' \in [Runs -> 0..MaxModelCalls], waits' \in 0..MaxWaits,
         UNCHANGED <<rows, messages, instructions, questions, losses>>
  PROVE  Inv'
<1>1. PICK y : y = [x EXCEPT !.pc = pc]
  OBVIOUS
<1>2. /\ y \in Exec /\ y.run = x.run /\ y.fence = x.fence /\ y.heard = x.heard
      /\ y.pc = pc /\ y.pending = x.pending
  BY <1>1, ExecTypes DEF Inv, Exec
<1>3. Become(x, y) /\ losses' \in 0..MaxLosses
  BY <1>1 DEF GoTo, Inv, TypeOK
<1> QED
  BY <1>2, <1>3, ExecStepInv

LEMMA FailInv ==
  ASSUME Inv, NEW x \in execs, Fail(x), UNCHANGED <<rows, messages, instructions, step>>
  PROVE  Inv'
<1>1. PICK y : y = [x EXCEPT !.pc = "failing", !.pending = << >>, !.tools = FALSE]
  OBVIOUS
<1>2. /\ y \in Exec /\ y.run = x.run /\ y.fence = x.fence /\ y.heard = x.heard
      /\ y.pc = "failing"
  <2>1. << >> \in Seq(Call) /\ x \in Exec
    BY ExecTypes DEF Inv
  <2> QED
    BY <1>1, <2>1 DEF Exec, Pcs
<1>3. /\ Become(x, y) /\ UNCHANGED questions
      /\ requests' \in [Runs -> 0..MaxModelCalls] /\ waits' \in 0..MaxWaits
      /\ losses' \in 0..MaxLosses
  BY <1>1 DEF Fail, Inv, TypeOK, step
<1> QED
  BY <1>2, <1>3, ExecStepInv

LEMMA ReturnInv ==
  ASSUME Inv, NEW x \in execs, Return(x), losses' \in 0..MaxLosses,
         UNCHANGED <<rows, messages, instructions, questions, requests, waits>>
  PROVE  Inv'
<1>1. /\ x \in Exec
      /\ x.pc = "tool" => x.pending # << >>
      /\ requests' \in [Runs -> 0..MaxModelCalls] /\ waits' \in 0..MaxWaits
  BY DEF Inv, TypeOK, ToolsInv
<1> QED
  BY <1>1, ExecStepInv

\* A write with which an execution goes on as y.
LEMMA PersistOrInv ==
  ASSUME Inv, NEW x \in execs, NEW y \in Exec, y.run = x.run, y.fence = x.fence,
         x.heard \subseteq y.heard, y.pc = "tool" => y.pending # << >>,
         PersistOr(x, y), UNCHANGED step
  PROVE  Inv'
<1>1. CASE Persist(y, "running", FALSE) /\ Become(x, y)
  <2>1. "running" \in Statuses \ {"none", "queued", "awaiting_input", "cancelling"}
    BY DEF Statuses, Active
  <2> QED
    BY <1>1, <2>1, PersistInv
<1>2. CASE Fail(x) /\ UNCHANGED <<rows, instructions, messages>>
  BY <1>2, FailInv
<1> QED
  BY <1>1, <1>2 DEF PersistOr

\* A last write of an execution.
LEMMA PersistLastInv ==
  ASSUME Inv, NEW x \in execs,
         NEW status \in Statuses \ {"none", "queued", "awaiting_input", "cancelling"},
         NEW finished \in BOOLEAN, finished => status \in Ended /\ ~Overheard(x),
         Persist(x, status, finished), Return(x), UNCHANGED step
  PROVE  Inv'
<1>1. x \in Exec /\ (x.pc = "tool" => x.pending # << >>)
  BY DEF Inv, TypeOK, ToolsInv
<1> QED
  BY <1>1, PersistInv

LEMMA CancelStepInv == ASSUME Inv, NEW x \in execs, ConfirmCancel(x) PROVE Inv'
<1>1. "cancelled" \in Statuses \ {"none", "queued", "awaiting_input", "cancelling"}
  BY DEF Statuses, Ended
<1>2. CASE Persist(x, "cancelled", FALSE) /\ Return(x)
  BY <1>1, <1>2, PersistLastInv DEF ConfirmCancel
<1>3. CASE Fail(x) /\ UNCHANGED <<rows, instructions, messages>>
  BY <1>3, FailInv DEF ConfirmCancel
<1> QED
  BY <1>2, <1>3 DEF ConfirmCancel

LEMMA ToolStepInv ==
  ASSUME Inv, NEW x \in execs, TakeAnswer(x) \/ StartTool(x) \/ EndTool(x)
  PROVE  Inv'
<1>1. /\ requests' \in [Runs -> 0..MaxModelCalls] /\ waits' \in 0..MaxWaits
      /\ UNCHANGED <<losses, questions>> /\ UNCHANGED step
  BY DEF TakeAnswer, StartTool, EndTool, step, Inv, TypeOK
<1>2. CASE GoTo(x, "tool") /\ x.pending # << >> /\ UNCHANGED <<rows, instructions, messages>>
  BY <1>1, <1>2, GoToInv DEF Pcs
<1>3. CASE PersistOr(x, [x EXCEPT !.pc = "tool"]) /\ x.pending # << >>
  <2>1. PICK y : y = [x EXCEPT !.pc = "tool"]
    OBVIOUS
  <2>2. /\ y \in Exec /\ y.run = x.run /\ y.fence = x.fence /\ y.heard = x.heard
        /\ y.pending # << >>
    BY <1>3, <2>1, ExecTypes DEF Inv, Exec, Pcs
  <2> QED
    BY <1>1, <1>3, <2>1, <2>2, PersistOrInv
<1>4. CASE PersistOr(x, [x EXCEPT !.pc = "loop", !.pending = Tail(@)]) /\ x.pc = "tool"
  <2>1. PICK y : y = [x EXCEPT !.pc = "loop", !.pending = Tail(x.pending)]
    OBVIOUS
  <2>2. Tail(x.pending) \in Seq(Call)
    BY <1>4, ExecTypes DEF Inv, ToolsInv
  <2>3. y \in Exec /\ y.run = x.run /\ y.fence = x.fence /\ y.heard = x.heard /\ y.pc = "loop"
    BY <2>1, <2>2, ExecTypes DEF Inv, Exec, Pcs
  <2>4. PersistOr(x, y)
    BY <1>4, <2>1
  <2> QED
    BY <1>1, <2>3, <2>4, PersistOrInv
<1> QED
  BY <1>2, <1>3, <1>4 DEF TakeAnswer, StartTool, EndTool, AtTool

LEMMA ModelStepInv ==
  ASSUME Inv, NEW x \in execs, EndOfBudget(x) \/ Hear(x) \/ StartModel(x) \/ Request(x)
  PROVE  Inv'
<1>1. CASE EndOfBudget(x)
  <2>1. "partial" \in Statuses \ {"none", "queued", "awaiting_input", "cancelling"}
    BY DEF Statuses, Ended
  <2>2. CASE Persist(x, "partial", FALSE) /\ Return(x)
    BY <1>1, <2>1, <2>2, PersistLastInv DEF EndOfBudget
  <2>3. CASE Fail(x) /\ UNCHANGED <<rows, instructions, messages>>
    BY <1>1, <2>3, FailInv DEF EndOfBudget
  <2> QED
    BY <1>1, <2>2, <2>3 DEF EndOfBudget
<1>2. CASE Hear(x)
  <2>0. PICK tools \in BOOLEAN : tools = (requests[x.run] < MaxModelCalls - 1)
    <3>1. CASE requests[x.run] < MaxModelCalls - 1
      <4>1. (requests[x.run] < MaxModelCalls - 1) = TRUE
        BY <3>1
      <4> QED
        BY <4>1, Zenon
    <3>2. CASE ~(requests[x.run] < MaxModelCalls - 1)
      <4>1. (requests[x.run] < MaxModelCalls - 1) = FALSE
        BY <3>2
      <4> QED
        BY <4>1, Zenon
    <3> QED
      BY <3>1, <3>2, Zenon
  <2>1. PICK y : y = [x EXCEPT !.pc = "start", !.heard = x.heard \cup Unapplied(x.run),
                               !.tools = tools]
    OBVIOUS
  <2>2. x.heard \cup Unapplied(x.run) \subseteq Instructions
    BY ExecTypes DEF Inv, Unapplied
  <2>3. /\ y \in Exec /\ y.run = x.run /\ y.fence = x.fence /\ y.pc = "start"
        /\ y.heard = x.heard \cup Unapplied(x.run)
    BY <2>1, <2>2, ExecTypes DEF Inv, Exec, Pcs
  <2>4. Become(x, y)
    BY <1>2, <2>0, <2>1, Zenon DEF Hear
  <2>5. /\ requests' \in [Runs -> 0..MaxModelCalls] /\ waits' \in 0..MaxWaits
        /\ losses' \in 0..MaxLosses /\ UNCHANGED <<rows, messages, instructions, questions>>
    BY <1>2 DEF Hear, step, Inv, TypeOK
  <2> QED
    BY <2>3, <2>4, <2>5, ExecStepInv
<1>3. CASE StartModel(x)
  <2>1. PICK y : y = [x EXCEPT !.pc = "model"]
    OBVIOUS
  <2>2. y \in Exec /\ y.run = x.run /\ y.fence = x.fence /\ y.heard = x.heard /\ y.pc = "model"
    BY <2>1, ExecTypes DEF Inv, Exec, Pcs
  <2> QED
    BY <1>3, <2>1, <2>2, PersistOrInv DEF StartModel
<1>4. CASE Request(x)
  <2>1. requests[x.run] + 1 \in 0..MaxModelCalls
    BY <1>4, ExecTypes, BoundTypes DEF Request, Inv, TypeOK
  <2>2. requests' \in [Runs -> 0..MaxModelCalls] /\ waits' \in 0..MaxWaits
    BY <1>4, <2>1 DEF Request, Inv, TypeOK
  <2> QED
    BY <1>4, <2>2, GoToInv DEF Request, Pcs
<1> QED
  BY <1>1, <1>2, <1>3, <1>4

LEMMA TurnInv ==
  ASSUME Inv, NEW x \in execs, (\E plan \in Plans : Turn(x, plan)) \/ EndTurn(x)
  PROVE  Inv'
<1>1. ASSUME NEW plan \in Plans, Turn(x, plan) PROVE Inv'
  <2>1. PICK pc \in Pcs : pc = IF plan = << >> THEN "answered" ELSE "turned"
    BY DEF Pcs
  <2>2. PICK y : y = [x EXCEPT !.pc = pc, !.pending = CallsOf(x, plan), !.tools = FALSE]
    OBVIOUS
  <2>3. CallsOf(x, plan) \in Seq(Call)
    <3>1. plan \in Seq({"ask", "read"})
      BY PlanAssumption
    <3>2. requests[x.run] \in Nat /\ x.fence \in Nat
      BY ExecTypes, BoundTypes DEF Inv, TypeOK
    <3>3. Len(plan) \in Nat /\ DOMAIN plan = 1..Len(plan)
          /\ \A n \in DOMAIN plan : plan[n] \in {"ask", "read"} /\ n \in Nat
      BY <3>1
    <3>4. \A n \in 1..Len(plan) : CallsOf(x, plan)[n] \in Call
      BY <3>2, <3>3 DEF CallsOf, Call
    <3>5. CallsOf(x, plan) = [n \in 1..Len(plan) |-> CallsOf(x, plan)[n]]
      BY <3>3 DEF CallsOf
    <3> QED
      BY <3>3, <3>4, <3>5
  <2>4. y \in Exec /\ y.run = x.run /\ y.fence = x.fence /\ y.heard = x.heard /\ y.pc # "tool"
    BY <2>1, <2>2, <2>3, ExecTypes DEF Inv, Exec
  <2>5. Become(x, y)
    BY <1>1, <2>1, <2>2 DEF Turn
  <2>6. /\ requests' \in [Runs -> 0..MaxModelCalls] /\ waits' \in 0..MaxWaits
        /\ losses' \in 0..MaxLosses /\ UNCHANGED <<rows, messages, instructions, questions>>
    BY <1>1 DEF Turn, step, Inv, TypeOK
  <2> QED
    BY <2>4, <2>5, <2>6, ExecStepInv
<1>2. CASE EndTurn(x)
  <2>1. PICK y : y = [x EXCEPT !.pc = "loop"]
    OBVIOUS
  <2>2. y \in Exec /\ y.run = x.run /\ y.fence = x.fence /\ y.heard = x.heard /\ y.pc = "loop"
    BY <2>1, ExecTypes DEF Inv, Exec, Pcs
  <2> QED
    BY <1>2, <2>1, <2>2, PersistOrInv DEF EndTurn
<1> QED
  BY <1>1, <1>2

LEMMA EndStepInv ==
  ASSUME Inv, NEW x \in execs,
         \/ \E status \in {"completed", "partial"} : Complete(x, status)
         \/ PersistWait(x) \/ Throw(x) \/ ReadState(x) \/ Throttle(x)
         \/ \E status \in {"partial", "failed", "cancelled"} : PersistEnd(x, status)
  PROVE  Inv'
<1>1. /\ {"completed", "partial", "failed", "cancelled", "waiting_capacity"} \subseteq
           Statuses \ {"none", "queued", "awaiting_input", "cancelling"}
      /\ {"completed", "partial"} \subseteq Ended
  BY DEF Statuses, Active, Ended
<1>2. /\ waits \in 0..MaxWaits /\ losses \in 0..MaxLosses
      /\ requests \in [Runs -> 0..MaxModelCalls]
  BY DEF Inv, TypeOK
<1>3. ASSUME NEW status \in {"completed", "partial"}, Complete(x, status) PROVE Inv'
  <2>1. CASE ~Overheard(x) /\ Persist(x, status, TRUE) /\ Return(x)
    BY <1>1, <1>3, <2>1, PersistLastInv DEF Complete
  <2>2. CASE Fail(x) /\ UNCHANGED <<rows, instructions, messages>>
    BY <1>3, <2>2, FailInv DEF Complete
  <2>3. CASE GoTo(x, "loop") /\ UNCHANGED <<rows, instructions, messages>>
    BY <1>2, <1>3, <2>3, GoToInv DEF Complete, step, Pcs
  <2> QED
    BY <1>3, <2>1, <2>2, <2>3 DEF Complete
<1>4. CASE PersistWait(x)
  <2>1. CASE Persist(x, "waiting_capacity", FALSE)
    BY <1>1, <1>4, <2>1, PersistLastInv DEF PersistWait
  <2>2. CASE UNCHANGED <<rows, instructions, messages>>
    BY <1>2, <1>4, <2>2, ReturnInv DEF PersistWait, step
  <2> QED
    BY <1>4, <2>1, <2>2 DEF PersistWait
<1>5. CASE Throw(x)
  BY <1>5, FailInv DEF Throw
<1>6. CASE ReadState(x)
  <2>1. CASE Return(x)
    BY <1>2, <1>6, <2>1, ReturnInv DEF ReadState, step
  <2>2. ASSUME NEW pc \in {"cancelling", "ending"}, GoTo(x, pc) PROVE Inv'
    BY <1>2, <1>6, <2>2, GoToInv DEF ReadState, step, Pcs
  <2> QED
    BY <1>6, <2>1, <2>2 DEF ReadState
<1>7. CASE Throttle(x)
  BY <1>2, <1>7, GoToInv, BoundTypes DEF Throttle, Pcs
<1>8. ASSUME NEW status \in {"partial", "failed", "cancelled"}, PersistEnd(x, status) PROVE Inv'
  <2>1. CASE Persist(x, status, FALSE)
    BY <1>1, <1>8, <2>1, PersistLastInv DEF PersistEnd
  <2>2. CASE UNCHANGED <<rows, instructions, messages>>
    BY <1>2, <1>8, <2>2, ReturnInv DEF PersistEnd, step
  <2> QED
    BY <1>8, <2>1, <2>2 DEF PersistEnd
<1> QED
  BY <1>3, <1>4, <1>5, <1>6, <1>7, <1>8

-----------------------------------------------------------------------------
(* Questions *)

LEMMA AskInv == ASSUME Inv, NEW x \in execs, Ask(x) PROVE Inv'
<1>1. CASE Fail(x) /\ UNCHANGED <<rows, questions>>
  BY <1>1, FailInv DEF Ask, step
<1>2. CASE /\ Held(x) /\ rows[x.run].status = "running" /\ Return(x)
           /\ rows' = [rows EXCEPT ![x.run] =
                [rows[x.run] EXCEPT !.status = "awaiting_input", !.pending = x.pending,
                                    !.heard = x.heard, !.lease = 0]]
           /\ questions' = questions \cup
                {[run |-> x.run, call |-> Head(x.pending), state |-> "open"]}
  <2>1. PICK r \in Runs : r = x.run
    BY ExecTypes DEF Inv
  <2>2. /\ rows[r] \in Row /\ rows[r].fence = x.fence /\ rows[r].status = "running"
        /\ x.pending \in Seq(Call) /\ x.pending # << >> /\ x.heard \subseteq Instructions
        /\ rows[r].heard \subseteq x.heard
    BY <1>2, <2>1, ExecTypes DEF Inv, HeardInv, Ask, AtTool, Held
  <2>3. PICK row : row = [rows[r] EXCEPT !.status = "awaiting_input", !.pending = x.pending,
                                         !.heard = x.heard, !.lease = 0]
    OBVIOUS
  <2>4. /\ row \in Row /\ row.status = "awaiting_input" /\ row.fence = rows[r].fence
        /\ row.finished = rows[r].finished /\ row.heard = x.heard /\ row.lease = 0
        /\ row.pending = x.pending
    <3>1. 0 \in 0..LeaseTTL
      BY BoundTypes
    <3> QED
      BY <2>2, <2>3, <3>1 DEF Row, Active
  <2>5. rows' = [rows EXCEPT ![r] = row]
    BY <1>2, <2>1, <2>3, Zenon
  <2>6. /\ rows' \in [Runs -> Row] /\ rows'[r] = row
        /\ \A s \in Runs : s # r => rows'[s] = rows[s]
        /\ \A s \in Runs : rows'[s].fence = rows[s].fence
    BY <2>4, <2>5, RowReplaced DEF Inv
  <2>7. /\ execs' \subseteq Exec /\ execs' = execs \ {x}
        /\ \A z, w \in execs' : z.run = w.run /\ z.fence = w.fence => z = w
        /\ \A z \in execs' : z.fence <= rows'[z.run].fence
    BY <1>2, <2>6, ExecTypes DEF Return, Inv, TypeOK
  <2>8. PICK q : q = [run |-> r, call |-> Head(x.pending), state |-> "open"]
    OBVIOUS
  <2>9. q \in Question /\ q.run = r /\ q.call = Head(x.pending) /\ q.state = "open"
    <3>1. Head(x.pending) \in Call
      BY <2>2
    <3> QED
      BY <2>8, <3>1 DEF Question
  <2>10. questions' = questions \cup {q} /\ UNCHANGED <<messages, instructions, requests, losses, waits>>
    BY <1>2, <2>1, <2>8 DEF Ask
  <2>11. TypeOK'
    BY <2>6, <2>7, <2>9, <2>10 DEF Inv, TypeOK
  <2>12. LeaseInv'
    BY <2>4, <2>6 DEF Inv, LeaseInv
  <2>13. HeardInv'
    <3>1. \A s \in Runs, i \in Instructions : instructions'[s][i] = "applied" => i \in rows'[s].heard
      BY <2>2, <2>4, <2>6, <2>10 DEF Inv, HeardInv
    <3>2. ASSUME NEW z \in execs', z.fence = rows'[z.run].fence
          PROVE  rows'[z.run].heard \subseteq z.heard
      <4>1. z \in execs /\ z # x /\ z.run \in Runs /\ z.fence = rows[z.run].fence
        BY <2>6, <2>7, <3>2 DEF Exec
      <4>2. z.run # r
        BY <2>1, <2>2, <4>1 DEF Inv, TypeOK
      <4> QED
        BY <2>6, <4>1, <4>2 DEF Inv, HeardInv
    <3>3. \A s \in Runs : rows'[s].finished => rows'[s].status \in Ended
      <4>1. ~rows[r].finished
        BY <2>2 DEF Inv, HeardInv, Ended
      <4> QED
        BY <2>4, <2>6, <4>1 DEF Inv, HeardInv
    <3> QED
      BY <3>1, <3>2, <3>3 DEF HeardInv
  <2>14. QuestionsInv'
    <3> SUFFICES ASSUME NEW s \in Runs
                 PROVE  /\ rows'[s].status = "awaiting_input" => Asked(s)'
                        /\ \A p, o \in OpenQuestions(s)' : p = o
                        /\ rows'[s].status \notin Questioned => OpenQuestions(s)' = {}
      BY DEF QuestionsInv
    <3>1. CASE s # r
      <4>1. OpenQuestions(s)' = OpenQuestions(s)
        BY <2>9, <2>10, <3>1 DEF OpenQuestions
      <4>2. Asked(s) => Asked(s)'
        BY <2>6, <3>1, <4>1 DEF Asked
      <4> QED
        BY <2>6, <3>1, <4>1, <4>2 DEF Inv, QuestionsInv
    <3>2. CASE s = r
      <4>1. OpenQuestions(r) = {}
        BY <2>2 DEF Inv, QuestionsInv, Questioned
      <4>2. OpenQuestions(s)' = {q}
        BY <2>9, <2>10, <3>2, <4>1 DEF OpenQuestions
      <4>3. Asked(s)'
        BY <2>2, <2>4, <2>6, <2>9, <3>2, <4>2 DEF Asked
      <4>4. rows'[s].status \in Questioned
        BY <2>4, <2>6, <3>2 DEF Questioned
      <4> QED
        BY <4>2, <4>3, <4>4
    <3> QED
      BY <3>1, <3>2
  <2>15. MessageMatchesRun'
    <3>1. \A s \in Runs : messages[s] = Told(rows[s].status)
      BY ToldByRun DEF Inv
    <3>2. Told("awaiting_input") = Told("running")
      BY ToldValues DEF Active
    <3>3. \A s \in Runs : messages'[s] = Told(rows'[s].status)
      BY <2>2, <2>4, <2>6, <2>10, <3>1, <3>2
    <3> QED
      BY <3>3, Zenon DEF MessageMatchesRun, Told
  <2>16. CompletedHeardAll'
    <3>1. ~rows[r].finished
      BY <2>2 DEF Inv, HeardInv, Ended
    <3> QED
      BY <2>4, <2>6, <2>10, <3>1 DEF Inv, CompletedHeardAll
  <2>17. ToolsInv'
    BY <2>7 DEF Inv, ToolsInv
  <2> QED
    BY <2>11, <2>12, <2>13, <2>14, <2>15, <2>16, <2>17 DEF Inv
<1> QED
  BY <1>1, <1>2 DEF Ask, AskedCheckpoint

\* A question of a run becomes another one, with its answer or without.
LEMMA AnswerInv == ASSUME Inv, NEW q \in questions, Answer(q) PROVE Inv'
<1>1. q \in Question /\ q.run \in Runs /\ q.state = "open"
  BY DEF Answer, Inv, TypeOK, Question
<1>2. PICK r \in Runs : r = q.run
  BY <1>1
<1>3. rows[r] \in Row /\ rows[r].status = "awaiting_input" /\ messages[r] = "pending"
  <2>1. rows[r] \in Row /\ rows[r].status = "awaiting_input"
    BY <1>2 DEF Answer, Inv, TypeOK
  <2> QED
    BY <2>1, ToldByRun, ToldValues DEF Inv, Active
<1>4. rows[r].lease = 0 /\ ~rows[r].finished
  <2>1. rows[r].lease \in Nat /\ ~(rows[r].lease > 0)
    BY <1>3, BoundTypes DEF Row, Inv, LeaseInv
  <2> QED
    BY <1>3, <2>1 DEF Inv, HeardInv, Ended
<1>5. PICK row : row = [rows[r] EXCEPT !.status = "queued", !.due = TRUE]
  OBVIOUS
<1>6. /\ row \in Row /\ row.status = "queued" /\ row.fence = rows[r].fence
      /\ row.finished = rows[r].finished /\ row.heard = rows[r].heard /\ row.lease = 0
  BY <1>3, <1>4, <1>5 DEF Row, Active
<1>7. rows' = [rows EXCEPT ![r] = row]
  <2>1. rows' = [rows EXCEPT ![r] = [rows[r] EXCEPT !.status = "queued", !.due = TRUE]]
    BY <1>2 DEF Answer, Inv, TypeOK
  <2> QED
    BY <1>5, <2>1
<1>8. /\ rows' \in [Runs -> Row] /\ rows'[r] = row
      /\ \A s \in Runs : s # r => rows'[s] = rows[s]
      /\ \A s \in Runs : /\ rows'[s].fence = rows[s].fence /\ rows'[s].heard = rows[s].heard
                         /\ rows'[s].finished = rows[s].finished
  BY <1>6, <1>7, RowReplaced DEF Inv
<1>9. PICK p : p = [q EXCEPT !.state = "answered"]
  OBVIOUS
<1>10. p \in Question /\ p.run = r /\ p.state = "answered"
  BY <1>1, <1>2, <1>9 DEF Question
<1>11. /\ questions' = (questions \ {q}) \cup {p}
       /\ UNCHANGED <<messages, instructions, requests, execs, losses, waits>>
  BY <1>9 DEF Answer, user
<1>12. TypeOK'
  BY <1>8, <1>10, <1>11 DEF Inv, TypeOK, Exec
<1>13. LeaseInv' /\ HeardInv'
  <2>1. LeaseInv'
    BY <1>6, <1>8 DEF Inv, LeaseInv
  <2>2. \A s \in Runs : rows'[s].finished => rows'[s].status \in Ended
    BY <1>4, <1>8 DEF Inv, HeardInv
  <2>3. \A z \in execs : z.run \in Runs
    BY DEF Inv, TypeOK, Exec
  <2> QED
    BY <1>8, <1>11, <2>1, <2>2, <2>3 DEF Inv, HeardInv
<1>14. QuestionsInv'
  <2> SUFFICES ASSUME NEW s \in Runs
               PROVE  /\ rows'[s].status = "awaiting_input" => Asked(s)'
                      /\ \A o, t \in OpenQuestions(s)' : o = t
                      /\ rows'[s].status \notin Questioned => OpenQuestions(s)' = {}
    BY DEF QuestionsInv
  <2>1. CASE s # r
    <3>1. OpenQuestions(s)' = OpenQuestions(s)
      BY <1>2, <1>10, <1>11, <2>1 DEF OpenQuestions
    <3>2. Asked(s) => Asked(s)'
      BY <1>8, <2>1, <3>1 DEF Asked
    <3> QED
      BY <1>8, <2>1, <3>1, <3>2 DEF Inv, QuestionsInv
  <2>2. CASE s = r
    <3>1. q \in OpenQuestions(r) /\ \A o \in OpenQuestions(r) : o = q
      BY <1>1, <1>2 DEF Inv, QuestionsInv, OpenQuestions
    <3>2. OpenQuestions(s)' = {}
      BY <1>10, <1>11, <2>2, <3>1 DEF OpenQuestions
    <3> QED
      BY <1>6, <1>8, <2>2, <3>2
  <2> QED
    BY <2>1, <2>2
<1>15. MessageMatchesRun'
  <2>1. \A s \in Runs : messages[s] = Told(rows[s].status)
    BY ToldByRun DEF Inv
  <2>2. Told("awaiting_input") = Told("queued")
    BY ToldValues DEF Active
  <2>3. \A s \in Runs : messages'[s] = Told(rows'[s].status)
    BY <1>3, <1>6, <1>8, <1>11, <2>1, <2>2
  <2> QED
    BY <2>3, Zenon DEF MessageMatchesRun, Told
<1>16. CompletedHeardAll'
  BY <1>8, <1>11 DEF Inv, CompletedHeardAll
<1>17. ToolsInv'
  BY <1>11 DEF Inv, ToolsInv
<1> QED
  BY <1>12, <1>13, <1>14, <1>15, <1>16, <1>17 DEF Inv

LEMMA ExpireQuestionInv == ASSUME Inv, NEW q \in questions, ExpireQuestion(q) PROVE Inv'
<1>1. q \in Question /\ q.run \in Runs /\ q.state = "open"
  BY DEF ExpireQuestion, Inv, TypeOK, Question
<1>2. PICK p : p = [q EXCEPT !.state = "overdue"]
  OBVIOUS
<1>3. p \in Question /\ p.run = q.run /\ p.call = q.call /\ p.state = "overdue"
  BY <1>1, <1>2 DEF Question
<1>4. /\ questions' = (questions \ {q}) \cup {p}
      /\ UNCHANGED <<rows, messages, instructions, requests, execs, losses, waits>>
  BY <1>2 DEF ExpireQuestion, user
<1>5. TypeOK'
  BY <1>3, <1>4 DEF Inv, TypeOK
<1>6. LeaseInv' /\ HeardInv' /\ MessageMatchesRun' /\ CompletedHeardAll' /\ ToolsInv'
  BY <1>4 DEF Inv, LeaseInv, HeardInv, MessageMatchesRun, CompletedHeardAll, ToolsInv
<1>7. QuestionsInv'
  <2> SUFFICES ASSUME NEW s \in Runs
               PROVE  /\ rows'[s].status = "awaiting_input" => Asked(s)'
                      /\ \A o, t \in OpenQuestions(s)' : o = t
                      /\ rows'[s].status \notin Questioned => OpenQuestions(s)' = {}
    BY DEF QuestionsInv
  <2>1. CASE s # q.run
    <3>1. OpenQuestions(s)' = OpenQuestions(s)
      BY <1>3, <1>4, <2>1 DEF OpenQuestions
    <3>2. Asked(s) => Asked(s)'
      BY <1>4, <3>1 DEF Asked
    <3> QED
      BY <1>4, <3>1, <3>2 DEF Inv, QuestionsInv
  <2>2. CASE s = q.run
    <3>1. q \in OpenQuestions(s) /\ \A o \in OpenQuestions(s) : o = q
      BY <1>1, <2>2 DEF Inv, QuestionsInv, OpenQuestions
    <3>2. OpenQuestions(s)' = {p}
      BY <1>3, <1>4, <2>2, <3>1 DEF OpenQuestions
    <3>3. Asked(s) => Asked(s)'
      BY <1>3, <1>4, <3>1, <3>2 DEF Asked
    <3> QED
      BY <1>4, <3>1, <3>2, <3>3 DEF Inv, QuestionsInv
  <2> QED
    BY <2>1, <2>2
<1> QED
  BY <1>5, <1>6, <1>7 DEF Inv

-----------------------------------------------------------------------------
(* The user, claims, timers and crashes *)

\* A change of the status, the lease and the times of a row.
LEMMA StatusStep ==
  ASSUME Inv, NEW r \in Runs, NEW status \in Statuses, NEW lease \in 0..LeaseTTL,
         NEW due \in BOOLEAN, NEW expired \in BOOLEAN,
         rows' = [rows EXCEPT ![r] = [rows[r] EXCEPT !.status = status, !.lease = lease,
                                                     !.due = due, !.expired = expired]],
         lease > 0 => status \in {"running", "cancelling"},
         rows[r].status \in Ended => status \in Ended,
         status = "awaiting_input" => rows[r].status = "awaiting_input",
         rows[r].status \in Questioned => status \in Questioned,
         \/ messages' = [messages EXCEPT ![r] = Told(status)]
         \/ messages' = messages /\ Told(status) = messages[r],
         losses' \in 0..MaxLosses,
         UNCHANGED <<instructions, questions, requests, execs, waits>>
  PROVE  Inv'
<1>1. PICK row : row = [rows[r] EXCEPT !.status = status, !.lease = lease,
                                       !.due = due, !.expired = expired]
  OBVIOUS
<1>2. rows[r] \in Row
  BY DEF Inv, TypeOK
<1>3. /\ row \in Row /\ row.status = status /\ row.lease = lease
      /\ row.fence = rows[r].fence /\ row.heard = rows[r].heard
      /\ row.finished = rows[r].finished /\ row.pending = rows[r].pending
  BY <1>1, <1>2 DEF Row, Statuses
<1>4. rows' = [rows EXCEPT ![r] = row]
  BY <1>1, Zenon
<1>5. /\ messages' \in [Runs -> {"none", "pending", "completed", "failed"}]
      /\ \A s \in Runs : s # r => messages'[s] = messages[s]
      /\ messages'[r] = Told(status)
  BY ToldTypes DEF Inv, TypeOK
<1>6. /\ row.lease > 0 => row.status \in {"running", "cancelling"}
      /\ rows[r].status \in Ended => row.status \in Ended
      /\ row.status = "awaiting_input" => rows[r].status = "awaiting_input"
      /\ rows[r].status \in Questioned => row.status \in Questioned
      /\ messages'[r] = Told(row.status)
  BY <1>3, <1>5
<1> HIDE <1>1
<1> QED
  BY <1>3, <1>4, <1>5, <1>6, RowStep

LEMMA UserInv == ASSUME Inv, NEW r \in Runs, User(r) PROVE Inv'
<1>1. /\ rows[r] \in Row /\ losses \in 0..MaxLosses /\ TRUE \in BOOLEAN /\ 0 \in 0..LeaseTTL
      /\ messages[r] = Told(rows[r].status)
  BY ToldByRun, BoundTypes DEF Inv, TypeOK
<1>2. CASE Create(r)
  <2>1. rows[r].status = "none" /\ rows[r].lease \in Nat
    BY <1>1, <1>2, BoundTypes DEF Create, Row
  <2>2. rows' = [rows EXCEPT ![r] = [rows[r] EXCEPT !.status = "queued",
                   !.lease = rows[r].lease, !.due = rows[r].due, !.expired = rows[r].expired]]
    BY <1>1, <1>2 DEF Create, Row
  <2>3. /\ messages' = [messages EXCEPT ![r] = Told("queued")]
        /\ UNCHANGED <<instructions, questions, requests, execs, losses, waits>>
    BY <1>2, ToldValues DEF Create, user, Active
  <2>4. ~(rows[r].lease > 0)
    BY <2>1 DEF Inv, LeaseInv
  <2>5. "queued" \in Statuses
    BY DEF Statuses, Active
  <2>6. /\ "none" \notin Ended /\ "none" \notin Questioned
        /\ rows[r].lease \in 0..LeaseTTL /\ rows[r].due \in BOOLEAN /\ rows[r].expired \in BOOLEAN
    BY <1>1 DEF Ended, Questioned, Row
  <2> QED
    BY <1>1, <2>1, <2>2, <2>3, <2>4, <2>5, <2>6, StatusStep
<1>3. CASE Cancel(r)
  <2>1. rows' = [rows EXCEPT ![r] = [rows[r] EXCEPT !.status = "cancelling",
                   !.lease = rows[r].lease, !.due = TRUE, !.expired = rows[r].expired]]
    BY <1>1, <1>3 DEF Cancel, Row
  <2>2. /\ messages' = messages /\ Told("cancelling") = messages[r]
        /\ UNCHANGED <<instructions, questions, requests, execs, losses, waits>>
    BY <1>1, <1>3, ToldValues DEF Cancel, user, Active
  <2>3. "cancelling" \in Statuses /\ "cancelling" \in Questioned /\ rows[r].status \notin Ended
    BY <1>3 DEF Cancel, Statuses, Active, Ended, Questioned
  <2>4. rows[r].lease \in 0..LeaseTTL /\ rows[r].expired \in BOOLEAN
    BY <1>1 DEF Row
  <2> QED
    BY <1>1, <2>1, <2>2, <2>3, <2>4, StatusStep
<1>4. ASSUME NEW i \in Instructions, Instruct(r, i) PROVE Inv'
  <2>1. /\ instructions' \in [Runs -> [Instructions -> {"none", "pending", "applied"}]]
        /\ \A s \in Runs, j \in Instructions :
             instructions'[s][j] = instructions[s][j] \/ (s = r /\ instructions'[s][j] = "pending")
        /\ UNCHANGED <<rows, messages, questions, requests, execs, losses, waits>>
    <3>1. PICK told : told = [instructions[r] EXCEPT ![i] = "pending"]
      OBVIOUS
    <3>2. instructions' = [instructions EXCEPT ![r] = told]
      BY <1>4, <3>1 DEF Instruct, Inv, TypeOK
    <3>3. told \in [Instructions -> {"none", "pending", "applied"}]
          /\ \A j \in Instructions : told[j] = instructions[r][j] \/ told[j] = "pending"
      BY <3>1 DEF Inv, TypeOK
    <3> QED
      BY <1>4, <3>2, <3>3 DEF Instruct, Inv, TypeOK, user
  <2>2. rows[r].status \notin Ended
    BY <1>4 DEF Instruct, Ended
  <2>3. TypeOK'
    BY <2>1 DEF Inv, TypeOK
  <2>6. LeaseInv' /\ MessageMatchesRun' /\ ToolsInv'
    BY <2>1 DEF Inv, LeaseInv, MessageMatchesRun, ToolsInv
  <2>7. QuestionsInv'
    BY <2>1 DEF Inv, QuestionsInv, Asked, OpenQuestions
  <2>4. HeardInv'
    <3>1. \A s \in Runs, j \in Instructions : instructions'[s][j] = "applied" => j \in rows'[s].heard
      BY <2>1 DEF Inv, HeardInv
    <3> QED
      BY <2>1, <3>1 DEF Inv, HeardInv
  <2>5. CompletedHeardAll'
    <3>1. ~rows[r].finished
      BY <2>2 DEF Inv, HeardInv
    <3> QED
      BY <2>1, <3>1 DEF Inv, CompletedHeardAll
  <2> QED
    BY <2>3, <2>4, <2>5, <2>6, <2>7 DEF Inv
<1> QED
  BY <1>2, <1>3, <1>4 DEF User

LEMMA ClaimInv == ASSUME Inv, NEW r \in Runs, Claim(r) PROVE Inv'
<1>1. /\ rows[r] \in Row /\ rows[r].fence \in Nat /\ rows[r].pending \in Seq(Call)
      /\ rows[r].heard \subseteq Instructions /\ FALSE \in BOOLEAN
      /\ rows[r].status \in {"queued", "waiting_capacity", "cancelling", "running"}
      /\ messages[r] = Told(rows[r].status)
  <2>1. rows[r] \in Row /\ messages[r] = Told(rows[r].status)
    BY ToldByRun DEF Inv, TypeOK
  <2> QED
    BY <2>1 DEF Row, Claim, Claimable
<1>2. PICK status \in {"running", "cancelling"} : status = ClaimedStatus(rows[r].status)
  BY DEF ClaimedStatus
<1>3. status = "cancelling" <=> rows[r].status = "cancelling"
  BY <1>2 DEF ClaimedStatus
<1>4. PICK fence : fence = rows[r].fence + 1
  OBVIOUS
<1>5. PICK row : row = [rows[r] EXCEPT !.status = status, !.fence = fence, !.lease = LeaseTTL]
  OBVIOUS
<1>6. /\ row \in Row /\ row.status = status /\ row.fence = fence
      /\ row.heard = rows[r].heard /\ row.finished = rows[r].finished
      /\ row.pending = rows[r].pending
  <2>1. fence \in Nat /\ LeaseTTL \in 0..LeaseTTL
    BY <1>1, <1>4, BoundTypes
  <2> QED
    BY <1>1, <1>5, <2>1 DEF Row, Active
<1>7. rows' = [rows EXCEPT ![r] = row]
  <2>1. rows' = [rows EXCEPT ![r] =
          [rows[r] EXCEPT !.status = ClaimedStatus(rows[r].status),
                          !.fence = rows[r].fence + 1, !.lease = LeaseTTL]]
    BY DEF Claim, NextFence
  <2> QED
    BY <1>2, <1>4, <1>5, <2>1, Zenon
<1>8. /\ rows' \in [Runs -> Row] /\ rows'[r] = row
      /\ \A s \in Runs : s # r => rows'[s] = rows[s]
      /\ \A s \in Runs : /\ rows'[s].heard = rows[s].heard /\ rows'[s].finished = rows[s].finished
                         /\ rows'[s].pending = rows[s].pending
  BY <1>6, <1>7, RowReplaced DEF Inv
<1>9. PICK pc \in {"loop", "cancel"} : pc = IF status = "running" THEN "loop" ELSE "cancel"
  OBVIOUS
<1>10. PICK y : y = [run |-> r, fence |-> fence, pc |-> pc, pending |-> rows[r].pending,
                     heard |-> rows[r].heard, tools |-> FALSE]
  OBVIOUS
<1>11. /\ y \in Exec /\ y.run = r /\ y.fence = fence /\ y.heard = rows[r].heard /\ y.pc # "tool"
  <2>1. fence \in Nat /\ pc \in Pcs
    BY <1>1, <1>4 DEF Pcs
  <2> QED
    BY <1>1, <1>9, <1>10, <2>1 DEF Exec
<1>12. /\ execs' = execs \cup {y}
       /\ UNCHANGED <<messages, instructions, questions, requests, losses, waits>>
  BY <1>2, <1>4, <1>9, <1>10 DEF Claim, NextFence
<1>13. \A z \in execs : /\ z.run \in Runs /\ z.fence \in Nat /\ z.fence <= rows[z.run].fence
                        /\ z.run = r => z.fence < fence
  BY <1>1, <1>4 DEF Inv, TypeOK, Exec
<1>14. TypeOK'
  <2>1. execs' \subseteq Exec
    BY <1>11, <1>12 DEF Inv, TypeOK
  <2>2. \A z \in execs' : z.fence <= rows'[z.run].fence
    <3> SUFFICES ASSUME NEW z \in execs' PROVE z.fence <= rows'[z.run].fence
      OBVIOUS
    <3>1. CASE z = y
      BY <1>1, <1>4, <1>6, <1>8, <1>11, <3>1
    <3>2. CASE z \in execs /\ z.run = r
      BY <1>1, <1>4, <1>6, <1>8, <1>13, <3>2
    <3>3. CASE z \in execs /\ z.run # r
      BY <1>8, <1>13, <3>3
    <3> QED
      BY <1>12, <3>1, <3>2, <3>3
  <2>3. \A z, w \in execs' : z.run = w.run /\ z.fence = w.fence => z = w
    <3>1. \A z \in execs : z.run = r => z.fence # fence
      BY <1>1, <1>4, <1>13
    <3> QED
      BY <1>11, <1>12, <3>1 DEF Inv, TypeOK
  <2> QED
    BY <1>8, <1>12, <2>1, <2>2, <2>3 DEF Inv, TypeOK
<1>15. LeaseInv'
  BY <1>6, <1>8 DEF Inv, LeaseInv
<1>16. HeardInv'
  <2>1. \A z \in execs' : z.fence = rows'[z.run].fence => rows'[z.run].heard \subseteq z.heard
    <3> SUFFICES ASSUME NEW z \in execs', z.fence = rows'[z.run].fence
                 PROVE  rows'[z.run].heard \subseteq z.heard
      OBVIOUS
    <3>1. CASE z = y
      BY <1>6, <1>8, <1>11, <3>1
    <3>2. CASE z \in execs
      <4>1. z.run # r
        BY <1>1, <1>4, <1>6, <1>8, <1>13, <3>2
      <4> QED
        BY <1>8, <1>13, <3>2, <4>1 DEF Inv, HeardInv
    <3> QED
      BY <1>12, <3>1, <3>2
  <2>2. \A s \in Runs : rows'[s].finished => rows'[s].status \in Ended
    <3>1. ~rows[r].finished
      BY <1>1 DEF Inv, HeardInv, Ended
    <3> QED
      BY <1>6, <1>8, <3>1 DEF Inv, HeardInv
  <2> QED
    BY <1>8, <1>12, <2>1, <2>2 DEF Inv, HeardInv
<1>17. QuestionsInv'
  <2> SUFFICES ASSUME NEW s \in Runs
               PROVE  /\ rows'[s].status = "awaiting_input" => Asked(s)'
                      /\ \A p, q \in OpenQuestions(s)' : p = q
                      /\ rows'[s].status \notin Questioned => OpenQuestions(s)' = {}
    BY DEF QuestionsInv
  <2>1. OpenQuestions(s)' = OpenQuestions(s)
    BY <1>12 DEF OpenQuestions
  <2>2. Asked(s) => Asked(s)'
    BY <1>8, <2>1 DEF Asked
  <2>3. CASE s = r
    BY <1>1, <1>3, <1>6, <1>8, <2>1, <2>3 DEF Inv, QuestionsInv, Questioned
  <2>4. CASE s # r
    BY <1>8, <2>1, <2>2, <2>4 DEF Inv, QuestionsInv
  <2> QED
    BY <2>3, <2>4
<1>18. MessageMatchesRun'
  <2>1. \A s \in Runs : messages[s] = Told(rows[s].status)
    BY ToldByRun DEF Inv
  <2>2. Told(status) = Told(rows[r].status)
    BY <1>1, ToldValues DEF Active
  <2>3. \A s \in Runs : messages'[s] = Told(rows'[s].status)
    BY <1>6, <1>8, <1>12, <2>1, <2>2
  <2> QED
    BY <2>3, Zenon DEF MessageMatchesRun, Told
<1>19. CompletedHeardAll'
  BY <1>8, <1>12 DEF Inv, CompletedHeardAll
<1>20. ToolsInv'
  BY <1>11, <1>12 DEF Inv, ToolsInv
<1> QED
  BY <1>14, <1>15, <1>16, <1>17, <1>18, <1>19, <1>20 DEF Inv

LEMMA WorkerInv ==
  ASSUME Inv, NEW r \in Runs, Sweep(r) \/ Elapse(r) \/ BecomeDue(r) \/ Expire(r)
  PROVE  Inv'
<1>1. /\ rows[r] \in Row /\ losses \in 0..MaxLosses /\ TRUE \in BOOLEAN /\ 0 \in 0..LeaseTTL
      /\ messages[r] = Told(rows[r].status)
  BY ToldByRun, BoundTypes DEF Inv, TypeOK
<1>2. /\ rows[r].status \in Statuses /\ rows[r].lease \in 0..LeaseTTL /\ rows[r].lease \in Nat
      /\ rows[r].due \in BOOLEAN /\ rows[r].expired \in BOOLEAN
      /\ rows[r].lease > 0 => rows[r].status \in {"running", "cancelling"}
  BY <1>1, BoundTypes DEF Row, Statuses, Inv, LeaseInv
<1>3. CASE Sweep(r)
  <2>1. rows' = [rows EXCEPT ![r] = [rows[r] EXCEPT !.status = "failed",
                   !.lease = 0, !.due = rows[r].due, !.expired = rows[r].expired]]
    BY <1>1, <1>3 DEF Sweep, Row
  <2>2. /\ messages' = [messages EXCEPT ![r] = Told("failed")]
        /\ UNCHANGED <<instructions, questions, requests, execs, losses, waits>>
    BY <1>3, ToldValues DEF Sweep, SweptMessages, user, Ended, MessageOf
  <2>3. "failed" \in Statuses /\ "failed" \in Questioned /\ "failed" \in Ended
    BY DEF Statuses, Ended, Questioned
  <2>4. losses' \in 0..MaxLosses /\ ~(0 > 0) /\ "failed" # "awaiting_input"
    BY <1>1, <2>2
  <2> QED
    BY <1>1, <1>2, <2>1, <2>2, <2>3, <2>4, StatusStep
<1>4. CASE Elapse(r)
  <2>1. rows' = [rows EXCEPT ![r] = [rows[r] EXCEPT !.status = rows[r].status,
           !.lease = rows[r].lease - 1, !.due = rows[r].due, !.expired = rows[r].expired]]
    BY <1>1, <1>4 DEF Elapse, Row
  <2>2. rows[r].lease - 1 \in 0..LeaseTTL /\ (rows[r].lease - 1 > 0 => rows[r].lease > 0)
    BY <1>2, <1>4, BoundTypes DEF Elapse
  <2>3. /\ losses' \in 0..MaxLosses /\ messages' = messages /\ Told(rows[r].status) = messages[r]
        /\ UNCHANGED <<instructions, questions, requests, execs, waits>>
    BY <1>1, <1>4, BoundTypes DEF Elapse
  <2> QED
    BY <1>2, <2>1, <2>2, <2>3, StatusStep
<1>5. CASE BecomeDue(r) \/ Expire(r)
  <2>1. PICK due \in BOOLEAN, expired \in BOOLEAN :
          rows' = [rows EXCEPT ![r] = [rows[r] EXCEPT !.status = rows[r].status,
                     !.lease = rows[r].lease, !.due = due, !.expired = expired]]
    <3>1. CASE BecomeDue(r)
      BY <1>1, <1>2, <3>1 DEF BecomeDue, Row
    <3>2. CASE Expire(r)
      BY <1>1, <1>2, <3>2 DEF Expire, Row
    <3> QED
      BY <1>5, <3>1, <3>2
  <2>2. /\ messages' = messages /\ Told(rows[r].status) = messages[r]
        /\ UNCHANGED <<instructions, questions, requests, execs, losses, waits>>
    BY <1>1, <1>5 DEF BecomeDue, Expire, user
  <2> QED
    BY <1>1, <1>2, <2>1, <2>2, StatusStep
<1> QED
  BY <1>3, <1>4, <1>5

LEMMA HeartbeatInv == ASSUME Inv, NEW x \in execs, Heartbeat(x) PROVE Inv'
<1>1. PICK r \in Runs : r = x.run
  BY ExecTypes DEF Inv
<1>2. /\ rows[r] \in Row /\ messages[r] = Told(rows[r].status) /\ losses' \in 0..MaxLosses
      /\ rows[r].status = "running"
  BY <1>1, ToldByRun DEF Inv, TypeOK, Heartbeat, step
<1>3. /\ rows[r].status \in Statuses /\ rows[r].due \in BOOLEAN /\ rows[r].expired \in BOOLEAN
      /\ LeaseTTL \in 0..LeaseTTL
  BY <1>2, BoundTypes DEF Row, Statuses
<1>4. rows' = [rows EXCEPT ![r] = [rows[r] EXCEPT !.status = rows[r].status,
                 !.lease = LeaseTTL, !.due = rows[r].due, !.expired = rows[r].expired]]
  <2>1. rows' = [rows EXCEPT ![r] = [rows[r] EXCEPT !.lease = LeaseTTL]]
    BY <1>1 DEF Heartbeat, Inv, TypeOK
  <2> QED
    BY <1>2, <2>1 DEF Row
<1>5. messages' = messages /\ UNCHANGED <<instructions, questions, requests, execs, waits>>
  BY DEF Heartbeat, step
<1> QED
  BY <1>2, <1>3, <1>4, <1>5, StatusStep

LEMMA CrashInv == ASSUME Inv, NEW x \in execs, Crash(x) PROVE Inv'
<1>1. losses' \in 0..MaxLosses
  BY BoundTypes DEF Crash, Inv, TypeOK
<1> QED
  BY <1>1, ReturnInv DEF Crash

LEMMA InitInv == Init => Inv
<1> SUFFICES ASSUME Init PROVE Inv
  OBVIOUS
<1>1. /\ \A r \in Runs : rows[r] = [status |-> "none", fence |-> 0, lease |-> 0, due |-> TRUE,
                                    expired |-> FALSE, finished |-> FALSE, pending |-> << >>,
                                    heard |-> {}]
      /\ DOMAIN rows = Runs
  BY DEF Init
<1>2. \A r \in Runs : rows[r] \in Row
  <2>1. /\ 0 \in 0..LeaseTTL /\ << >> \in Seq(Call) /\ {} \in SUBSET Instructions
        /\ TRUE \in BOOLEAN /\ FALSE \in BOOLEAN /\ 0 \in Nat
    BY BoundTypes
  <2>2. PICK none : none = [status |-> "none", fence |-> 0, lease |-> 0, due |-> TRUE,
                            expired |-> FALSE, finished |-> FALSE, pending |-> << >>, heard |-> {}]
    OBVIOUS
  <2>3. none \in Row
    BY <2>1, <2>2 DEF Row
  <2> QED
    BY <1>1, <2>2, <2>3
<1>3. TypeOK
  <2>1. rows \in [Runs -> Row]
    BY <1>2 DEF Init
  <2>2. \A r \in Runs : 0 \in 0..MaxModelCalls /\ 0 \in 0..MaxLosses /\ 0 \in 0..MaxWaits
    BY BoundTypes
  <2> QED
    BY <2>1, <2>2, BoundTypes DEF Init, TypeOK
<1>4. LeaseInv /\ HeardInv /\ CompletedHeardAll /\ ToolsInv
  BY <1>1 DEF Init, LeaseInv, HeardInv, CompletedHeardAll, ToolsInv
<1>5. QuestionsInv
  BY <1>1 DEF Init, QuestionsInv, OpenQuestions
<1>6. MessageMatchesRun
  <2>1. \A r \in Runs : messages[r] = Told(rows[r].status)
    BY <1>1, ToldValues DEF Init
  <2> QED
    BY <2>1, Zenon DEF MessageMatchesRun, Told
<1> QED
  BY <1>3, <1>4, <1>5, <1>6 DEF Inv

LEMMA NextInv == Inv /\ [Next]_vars => Inv'
<1> SUFFICES ASSUME Inv, [Next]_vars PROVE Inv'
  OBVIOUS
<1>1. ASSUME NEW r \in Runs, User(r) \/ Worker(r) PROVE Inv'
  BY <1>1, UserInv, ClaimInv, WorkerInv DEF Worker
<1>2. ASSUME NEW q \in questions, Answer(q) \/ ExpireQuestion(q) PROVE Inv'
  BY <1>2, AnswerInv, ExpireQuestionInv
<1>3. ASSUME NEW x \in execs, ExecStep(x) \/ Heartbeat(x) \/ Crash(x) PROVE Inv'
  <2>1. CASE ExecStep(x)
    BY <2>1, CancelStepInv, ToolStepInv, AskInv, ModelStepInv, TurnInv, EndStepInv DEF ExecStep
  <2> QED
    BY <1>3, <2>1, HeartbeatInv, CrashInv
<1>4. CASE UNCHANGED vars
  <2>1. TypeOK' /\ LeaseInv' /\ HeardInv' /\ ToolsInv'
    BY <1>4 DEF vars, Inv, TypeOK, LeaseInv, HeardInv, ToolsInv
  <2>2. QuestionsInv' /\ CompletedHeardAll'
    BY <1>4 DEF vars, Inv, QuestionsInv, Asked, OpenQuestions, CompletedHeardAll
  <2>3. MessageMatchesRun'
    BY <1>4, Zenon DEF vars, Inv, MessageMatchesRun
  <2> QED
    BY <2>1, <2>2, <2>3 DEF Inv
<1> QED
  BY <1>1, <1>2, <1>3, <1>4 DEF Next

LEMMA Invariant == Spec => []Inv
  BY InitInv, NextInv, PTL DEF Spec


-----------------------------------------------------------------------------
(* Endings *)

\* What a step may do to a run that ended or is being cancelled.
Kept(r) ==
  /\ rows[r].status \in Ended => rows'[r].status = rows[r].status /\ messages'[r] = messages[r]
  /\ rows[r].status = "cancelling" => rows'[r].status \in {"cancelling", "cancelled"}

\* No write of an execution can be late: the lease went with the ending.
LEMMA PersistKeeps ==
  ASSUME Inv, NEW r \in Runs, NEW y, y.run \in Runs, NEW status, NEW finished,
         Persist(y, status, finished)
  PROVE  Kept(r)
<1>1. PICK s \in Runs : s = y.run
  OBVIOUS
<1>2. /\ rows[s] \in Row /\ rows[s].status \in {"running", "cancelling"}
      /\ rows[s].status = "cancelling" => status = "cancelled"
  BY <1>1 DEF Inv, TypeOK, LeaseInv, Persist, Rejected, Held
<1>3. rows' = [rows EXCEPT ![y.run] =
                [rows[y.run] EXCEPT !.status = status, !.finished = finished,
                       !.pending = IF status \in Ended THEN << >> ELSE y.pending,
                       !.heard = y.heard,
                       !.lease = IF status = "running" THEN rows[y.run].lease ELSE 0,
                       !.due = status # "waiting_capacity"]]
  BY Zenon DEF Persist
<1>4. PICK row : row = [rows[y.run] EXCEPT !.status = status, !.finished = finished,
                       !.pending = IF status \in Ended THEN << >> ELSE y.pending,
                       !.heard = y.heard,
                       !.lease = IF status = "running" THEN rows[y.run].lease ELSE 0,
                       !.due = status # "waiting_capacity"]
  OBVIOUS
<1>5. row.status = status
  BY <1>1, <1>2, <1>4 DEF Row
<1>6. rows' = [rows EXCEPT ![s] = row]
  BY <1>1, <1>3, <1>4, Zenon
<1> HIDE <1>3, <1>4
<1>7. /\ rows'[s].status = status
      /\ \A t \in Runs : t # s => rows'[t] = rows[t] /\ messages'[t] = messages[t]
  BY <1>1, <1>5, <1>6 DEF Persist, Inv, TypeOK
<1> QED
  BY <1>2, <1>7 DEF Kept, Ended

LEMMA PersistOrKeeps ==
  ASSUME Inv, NEW r \in Runs, NEW x \in execs, NEW y, y.run = x.run, PersistOr(x, y)
  PROVE  Kept(r)
<1>1. y.run \in Runs
  BY ExecTypes DEF Inv
<1> QED
  BY <1>1, PersistKeeps DEF PersistOr, Kept

LEMMA ExecKeeps == ASSUME Inv, NEW r \in Runs, NEW x \in execs, ExecStep(x) PROVE Kept(r)
<1>1. x \in Exec /\ x.run \in Runs
  BY ExecTypes DEF Inv
<1>2. ASSUME NEW status, NEW finished, Persist(x, status, finished) PROVE Kept(r)
  BY <1>1, <1>2, PersistKeeps
<1>3. CASE UNCHANGED <<rows, messages>>
  BY <1>3 DEF Kept
<1>4. CASE ConfirmCancel(x) \/ EndOfBudget(x)
  BY <1>2, <1>3, <1>4 DEF ConfirmCancel, EndOfBudget
<1>5. CASE StartTool(x) \/ EndTool(x) \/ StartModel(x) \/ EndTurn(x)
  <2>1. ASSUME NEW pc, PersistOr(x, [x EXCEPT !.pc = pc]) PROVE Kept(r)
    <3>1. PICK y : y = [x EXCEPT !.pc = pc]
      OBVIOUS
    <3>2. y.run = x.run
      BY <1>1, <3>1 DEF Exec
    <3> QED
      BY <2>1, <3>1, <3>2, PersistOrKeeps
  <2>2. ASSUME PersistOr(x, [x EXCEPT !.pc = "loop", !.pending = Tail(@)]) PROVE Kept(r)
    <3>1. PICK y : y = [x EXCEPT !.pc = "loop", !.pending = Tail(x.pending)]
      OBVIOUS
    <3>2. y.run = x.run /\ PersistOr(x, y)
      BY <1>1, <2>2, <3>1 DEF Exec
    <3> QED
      BY <3>2, PersistOrKeeps
  <2> QED
    BY <1>3, <1>5, <2>1, <2>2 DEF StartTool, EndTool, StartModel, EndTurn
<1>6. ASSUME NEW status, Complete(x, status) PROVE Kept(r)
  BY <1>2, <1>3, <1>6 DEF Complete
<1>7. ASSUME NEW status, PersistEnd(x, status) PROVE Kept(r)
  BY <1>2, <1>3, <1>7 DEF PersistEnd
<1>8. CASE PersistWait(x)
  BY <1>2, <1>3, <1>8 DEF PersistWait
<1>9. CASE TakeAnswer(x) \/ Hear(x) \/ Request(x) \/ Throttle(x) \/ Throw(x) \/ ReadState(x)
  BY <1>3, <1>9 DEF TakeAnswer, Hear, Request, Throttle, Throw, ReadState
<1>10. ASSUME NEW plan, Turn(x, plan) PROVE Kept(r)
  BY <1>3, <1>10 DEF Turn
<1>11. CASE Ask(x)
  <2>1. CASE UNCHANGED rows
    BY <1>3, <1>11, <2>1 DEF Ask
  <2>2. CASE ~UNCHANGED rows
    <3>1. rows[x.run].status = "running" /\ UNCHANGED messages
      BY <1>11, <2>2 DEF Ask
    <3>2. \A s \in Runs : s # x.run => rows'[s] = rows[s]
      BY <1>1, <1>11, <2>2 DEF Ask, Inv, TypeOK
    <3> QED
      BY <3>1, <3>2 DEF Kept, Ended
  <2> QED
    BY <2>1, <2>2
<1> QED
  BY <1>4, <1>5, <1>6, <1>7, <1>8, <1>9, <1>10, <1>11 DEF ExecStep

\* Requests, sweeps, claims and timers write a run only while it is active.
LEMMA OthersKeep ==
  ASSUME Inv, NEW r \in Runs, NEW s \in Runs, User(s) \/ Worker(s)
  PROVE  Kept(r)
<1>1. rows \in [Runs -> Row] /\ rows[s] \in Row /\ messages \in [Runs -> {"none", "pending", "completed", "failed"}]
  BY DEF Inv, TypeOK
<1>2. CASE Create(s)
  BY <1>1, <1>2 DEF Create, Kept, Ended
<1>3. CASE Cancel(s)
  BY <1>1, <1>3 DEF Cancel, Kept, Active, Ended, Row
<1>4. ASSUME NEW i \in Instructions, Instruct(s, i) PROVE Kept(r)
  BY <1>4 DEF Instruct, Kept
<1>5. CASE Sweep(s)
  BY <1>1, <1>5 DEF Sweep, SweptMessages, Kept, Ended
<1>6. CASE Claim(s)
  <2>1. PICK row : row = [rows[s] EXCEPT !.status = ClaimedStatus(rows[s].status),
                            !.fence = rows[s].fence + 1, !.lease = LeaseTTL]
    OBVIOUS
  <2>2. rows' = [rows EXCEPT ![s] = row] /\ UNCHANGED messages
    BY <1>6, <2>1, Zenon DEF Claim, NextFence
  <2>3. /\ row.status = ClaimedStatus(rows[s].status)
        /\ rows[s].status \in {"queued", "waiting_capacity", "cancelling", "running"}
    BY <1>1, <1>6, <2>1 DEF Row, Claim, Claimable
  <2> HIDE <2>1
  <2> QED
    BY <1>1, <2>2, <2>3 DEF Kept, Ended, ClaimedStatus
<1>7. CASE Elapse(s)
  BY <1>1, <1>7 DEF Elapse, Kept, Row
<1>8. CASE BecomeDue(s)
  BY <1>1, <1>8 DEF BecomeDue, Kept, Row
<1>9. CASE Expire(s)
  BY <1>1, <1>9 DEF Expire, Kept, Row
<1> QED
  BY <1>2, <1>3, <1>4, <1>5, <1>6, <1>7, <1>8, <1>9 DEF User, Worker

-----------------------------------------------------------------------------
(* The theorems *)

\* Rows, executions, questions and counters stay in their types, and there is
\* one execution per fence.
THEOREM TypeCorrect == Spec => []TypeOK
<1>1. Inv => TypeOK
  BY DEF Inv
<1> QED
  BY <1>1, Invariant, PTL

\* For any runs, plans and limits, a message is pending exactly as long as its
\* run is active and then tells how it ended.
THEOREM MessagesMatch == Spec => []MessageMatchesRun
<1>1. Inv => MessageMatchesRun
  BY DEF Inv
<1> QED
  BY <1>1, Invariant, PTL

\* For any runs, plans and limits, a completed run heard every instruction that
\* was accepted.
THEOREM InstructionsHeard == Spec => []CompletedHeardAll
<1>1. Inv => CompletedHeardAll
  BY DEF Inv
<1> QED
  BY <1>1, Invariant, PTL

\* For any runs, plans and limits, a run that waits for an answer has one open
\* question, that of the call it goes on with.
THEOREM QuestionsAsked == Spec => []QuestionIsAsked
<1>1. Inv => QuestionIsAsked
  <2> SUFFICES ASSUME Inv, NEW r \in Runs
               PROVE  /\ rows[r].status = "awaiting_input" => Asked(r)
                      /\ Cardinality(OpenQuestions(r)) <= 1
                      /\ rows[r].status \in {"queued", "running", "waiting_capacity", "completed"} =>
                           OpenQuestions(r) = {}
    BY DEF QuestionIsAsked, Asked
  <2>1. CASE OpenQuestions(r) = {}
    <3>1. Cardinality(OpenQuestions(r)) = 0
      BY <2>1, FS_EmptySet
    <3> QED
      BY <2>1, <3>1 DEF Inv, QuestionsInv
  <2>2. CASE OpenQuestions(r) # {}
    <3>1. PICK q : OpenQuestions(r) = {q}
      BY <2>2 DEF Inv, QuestionsInv
    <3>2. Cardinality(OpenQuestions(r)) = 1
      BY <3>1, FS_Singleton
    <3> QED
      BY <2>2, <3>2 DEF Inv, QuestionsInv, Questioned
  <2> QED
    BY <2>1, <2>2
<1> QED
  BY <1>1, Invariant, PTL

\* For any runs, plans and limits, a run that ended stays as it is and a
\* cancellation that was accepted ends in nothing else.
THEOREM EndingsKept == Spec => EndingsHold
<1>1. Inv /\ [Next]_vars => [\A r \in Runs : Kept(r)]_vars
  <2> SUFFICES ASSUME Inv, Next, NEW r \in Runs PROVE Kept(r)
    OBVIOUS
  <2>1. ASSUME NEW s \in Runs, User(s) \/ Worker(s) PROVE Kept(r)
    BY <2>1, OthersKeep
  <2>2. ASSUME NEW q \in questions, Answer(q) PROVE Kept(r)
    BY <2>2 DEF Answer, Kept, Ended, Inv, TypeOK, Question
  <2>3. ASSUME NEW q \in questions, ExpireQuestion(q) PROVE Kept(r)
    BY <2>3 DEF ExpireQuestion, Kept
  <2>4. ASSUME NEW x \in execs, ExecStep(x) PROVE Kept(r)
    BY <2>4, ExecKeeps
  <2>5. ASSUME NEW x \in execs, Heartbeat(x) PROVE Kept(r)
    <3>1. rows[x.run].status = "running" /\ UNCHANGED messages
      BY <2>5 DEF Heartbeat
    <3>2. \A s \in Runs : s # x.run => rows'[s] = rows[s]
      BY <2>5 DEF Heartbeat, Inv, TypeOK
    <3> QED
      BY <3>1, <3>2 DEF Kept, Ended
  <2>6. ASSUME NEW x \in execs, Crash(x) PROVE Kept(r)
    BY <2>6 DEF Crash, Kept
  <2> QED
    BY <2>1, <2>2, <2>3, <2>4, <2>5, <2>6 DEF Next
<1> QED
  BY <1>1, Invariant, PTL DEF Spec, EndingsHold, Kept

=============================================================================

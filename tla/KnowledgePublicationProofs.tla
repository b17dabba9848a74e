--------------------- MODULE KnowledgePublicationProofs ---------------------
(***************************************************************************)
(* For any parts, workers and bounds, a release that nothing is asked      *)
(* after says what its sources say, but for the two that change unseen,    *)
(* and the publication implements KnowledgeFeed.  Inv, the inductive       *)
(* invariant, relates what a run remembers to the row of its scope.  At    *)
(* the end, with the client of KnowledgeSystem: what its processes read    *)
(* might be said when it was issued.                                       *)
(***************************************************************************)
EXTENDS KnowledgeSystem, TLAPS

\* The request that the end of an exception has yet to bring.
Spare == IF exception = "expired" THEN 1 ELSE 0

\* A change brings a request, and the end of an exception one more; the first comes
\* of itself.
Bounds ==
  /\ \A m \in Memories : memory[m].version <= changes + 1
  /\ criterion.revision <= changes + 1
  /\ revision \in Nat /\ 1 <= revision /\ revision <= changes + 1
  /\ Spare <= changes
  /\ \A p \in Parts : scope[p].requested + Spare <= 2 * changes + 1
  /\ \A p \in Parts : scope[p].sequence <= scope[p].published

\* A run that holds the claim of its part has something to publish, and what it
\* projected may be said as long as nothing more is asked for.
RunInv(w) ==
  /\ runs[w].requested <= scope[runs[w].part].requested
  /\ runs[w].pc # "idle" => 0 < runs[w].requested
  /\ runs[w].pc \in {"claimed", "projected"} /\ scope[runs[w].part].claim = w
       => scope[runs[w].part].published < runs[w].requested
  /\ runs[w].pc = "projected" /\ scope[runs[w].part].requested = runs[w].requested
       => runs[w].content \in MaySay(runs[w].part)

Inv == TypeOK /\ Bounds /\ (\A w \in Workers : RunInv(w)) /\ ReleaseMatchesSource

-----------------------------------------------------------------------------
(* Types, and what a part says *)

LEMMA BoundTypes == MaxChanges \in Nat /\ MaxFaults \in Nat /\ MaxHistory \in Nat
  BY BoundAssumption

LEMMA NothingType == Nothing \in Contents /\ 0 \in Versions
  BY BoundTypes DEF Nothing, Contents, Versions

\* What a part says is of its type.
LEMMA ProjectionType ==
  ASSUME TypeOK, NEW p \in Parts
  PROVE  Projection(p) \in Contents
<1>1. p \in {"policy", "collective", "personal"}
  BY PartsAssumption
<1>2. ASSUME NEW away \in BOOLEAN, NEW granted \in BOOLEAN
      PROVE  PolicyWith(away, granted) \in Contents
  <2>1. criterion.revision \in Versions
    BY DEF TypeOK, Criterion
  <2> QED
    BY <2>1, NothingType DEF PolicyWith, Contents
<1>3. ASSUME NEW m \in Memories PROVE Projected(m) \in Contents
  <2>1. memory[m].version \in Versions
    BY DEF TypeOK
  <2> QED
    BY <2>1, NothingType DEF Projected, Contents
<1>4. PICK away \in BOOLEAN : away = MessageDiffers
  BY DEF MessageDiffers
<1>5. PICK granted \in BOOLEAN : granted = (exception = "granted" /\ OwnerAllowed)
  OBVIOUS
<1>6. CASE p = "policy"
  <2>1. Projection(p) = PolicyWith(away, granted)
    BY <1>4, <1>5, <1>6 DEF Projection
  <2> QED
    BY <1>2, <2>1
<1>7. CASE p # "policy"
  BY <1>1, <1>3, <1>7 DEF Projection, Memories
<1> QED
  BY <1>6, <1>7

\* A projection is what the part may say.
LEMMA ProjectionMayBeSaid ==
  ASSUME TypeOK, NEW p \in Parts
  PROVE  Projection(p) \in MaySay(p)
<1>1. PICK away \in BOOLEAN : away = MessageDiffers
  BY DEF MessageDiffers
<1>2. PICK granted \in BOOLEAN : granted = (exception = "granted" /\ OwnerAllowed)
  OBVIOUS
<1>3. CASE p = "policy"
  <2>1. away \in Away
    BY <1>1 DEF Away, MessageDiffers
  <2>2. granted \in Granted
    BY <1>2 DEF Granted
  <2>3. Projection(p) = PolicyWith(away, granted)
    BY <1>1, <1>2, <1>3 DEF Projection
  <2> QED
    BY <1>3, <2>1, <2>2, <2>3 DEF MaySay
<1>4. CASE p # "policy"
  BY <1>4 DEF MaySay
<1> QED
  BY <1>3, <1>4

\* The policy may say no less if nothing but the unseen changes come.
LEMMA PolicyMayStill ==
  ASSUME Away \subseteq Away', Granted \subseteq Granted',
         criterion'.kind = criterion.kind, criterion'.revision = criterion.revision,
         criterion'.version = criterion.version,
         memory'["collective"] = memory["collective"]
  PROVE  MaySay("policy") \subseteq MaySay("policy")'
<1>1. ASSUME NEW away, NEW granted
      PROVE  PolicyWith(away, granted)' = PolicyWith(away, granted)
  BY DEF PolicyWith, Permitted, Nothing
<1> QED
  BY <1>1 DEF MaySay

\* A memory says the same as long as it, its approval and the rights do.
LEMMA MemoryMaySame ==
  ASSUME NEW p \in Parts, p # "policy", memory'[p] = memory[p], approved'[p] = approved[p],
         access' = access
  PROVE  MaySay(p)' = MaySay(p)
  BY DEF MaySay, Projection, Projected, Allowed, Reads, Nothing

\* A worker at rest names some part.
LEMMA IdleType == Idle \in Run
<1>1. (CHOOSE p \in Parts : TRUE) \in Parts
  BY PartsAssumption, Zenon
<1> QED
  BY <1>1, NothingType DEF Idle, Run, Pcs

\* The sources are of their types and within what the changes allow.
SourcesOK ==
  /\ memory \in [Memories -> [version : Versions, active : BOOLEAN]]
  /\ approved \in [Memories -> Versions]
  /\ criterion \in Criterion
  /\ exception \in {"none", "granted", "expired"}
  /\ large \in SUBSET Parts
  /\ access \in Access
  /\ \A m \in Memories : approved[m] <= memory[m].version /\ memory[m].version <= changes + 1
  /\ criterion.revision <= changes + 1
  /\ revision \in Nat /\ 1 <= revision /\ revision <= changes + 1
  /\ changes \in 0..MaxChanges

LEMMA SourcesHold == ASSUME Inv PROVE SourcesOK
  BY DEF Inv, TypeOK, Bounds, SourcesOK

-----------------------------------------------------------------------------
(* The initial states *)

LEMMA InitInv == Init => Inv
<1> SUFFICES ASSUME Init PROVE Inv
  OBVIOUS
<1>1. /\ criterion \in Criterion /\ criterion.revision <= 1
      /\ exception \in {"none", "granted", "expired"} /\ exception # "expired"
  <2>1. 0 \in Versions /\ 1 \in Versions
    BY BoundTypes DEF Versions
  <2>2. criterion = [revision |-> 0, kind |-> "none", version |-> 0, source |-> "same"]
        \/ criterion \in [revision : {1}, kind : {"memory", "message"}, version : {1},
                          source : {"same"}]
    BY DEF Init
  <2>3. criterion \in Criterion /\ criterion.revision <= 1
    BY <2>1, <2>2 DEF Criterion
  <2>4. exception \in {"none"} \/ exception \in {"none", "granted"}
    BY DEF Init
  <2> QED
    BY <2>3, <2>4
<1>2. ASSUME NEW p \in Parts
      PROVE  /\ scope[p].requested = 0 \/ scope[p].requested = 1
             /\ scope[p].published = 0 /\ scope[p].sequence = 0
  <2>1. scope[p] = [requested |-> IF p = "personal" THEN 0 ELSE 1, published |-> 0,
                    claim |-> NoWorker, live |-> FALSE, due |-> TRUE, sequence |-> 0,
                    content |-> Nothing]
    BY DEF Init
  <2>2. CASE p = "personal"
    BY <2>1, <2>2
  <2>3. CASE p # "personal"
    BY <2>1, <2>3
  <2> QED
    BY <2>2, <2>3
<1>3. TypeOK
  <2>1. scope \in [Parts -> Scope]
    BY NothingType DEF Init, Scope
  <2>2. memory \in [Memories -> [version : Versions, active : BOOLEAN]]
        /\ approved \in [Memories -> Versions]
        /\ \A m \in Memories : approved[m] <= memory[m].version
    BY BoundTypes DEF Init, Versions, Memories
  <2>3. runs \in [Workers -> Run]
    BY IdleType DEF Init
  <2>4. access \in Access /\ large \in SUBSET Parts /\ changes \in 0..MaxChanges
        /\ faults \in 0..MaxFaults
    BY BoundTypes DEF Init, Access
  <2>5. ASSUME NEW p \in Parts PROVE scope[p].published <= scope[p].requested
    BY <1>2
  <2> QED
    BY <1>1, <2>1, <2>2, <2>3, <2>4, <2>5 DEF TypeOK
<1>4. Bounds
  <2>1. Spare = 0 /\ changes = 0
    BY <1>1 DEF Spare, Init
  <2>2. ASSUME NEW p \in Parts
        PROVE  scope[p].requested + Spare <= 2 * changes + 1
               /\ scope[p].sequence <= scope[p].published
    <3>1. scope[p].requested = 0 \/ scope[p].requested = 1
      BY <1>2
    <3> QED
      BY <1>2, <2>1, <3>1
  <2>3. \A m \in Memories : memory[m].version <= changes + 1
    BY <2>1 DEF Init
  <2>4. criterion.revision <= changes + 1
    BY <1>1, <2>1
  <2> QED
    BY <2>1, <2>2, <2>3, <2>4 DEF Init, Bounds
<1>5. \A w \in Workers : RunInv(w)
  <2> SUFFICES ASSUME NEW w \in Workers PROVE RunInv(w)
    OBVIOUS
  <2>1. runs[w] = Idle /\ Idle.part \in Parts /\ Idle.pc = "idle" /\ Idle.requested = 0
    BY IdleType DEF Init, Run, Idle
  <2>2. scope[Idle.part].requested \in Nat
    BY <2>1, <1>3 DEF TypeOK, Scope
  <2> QED
    BY <2>1, <2>2 DEF RunInv
<1>6. ReleaseMatchesSource
  BY <1>2 DEF ReleaseMatchesSource
<1> QED
  BY <1>3, <1>4, <1>5, <1>6 DEF Inv

-----------------------------------------------------------------------------
(* Changes of the sources *)

\* What a request does to the row of a part.
LEMMA RequestRow ==
  ASSUME Inv, NEW T, Request(T), NEW p \in Parts
  PROVE  /\ scope[p] \in Scope /\ scope[p].published <= scope[p].requested
         /\ scope'[p] \in Scope
         /\ scope'[p].published = scope[p].published
         /\ scope'[p].sequence = scope[p].sequence
         /\ scope'[p].content = scope[p].content
         /\ scope'[p].claim = scope[p].claim
         /\ p \in T => scope'[p].requested = scope[p].requested + 1
         /\ p \notin T => scope'[p].requested = scope[p].requested
<1>1. scope[p] \in Scope /\ scope[p].published <= scope[p].requested
  BY DEF Inv, TypeOK
<1>2. scope'[p] = IF p \in T THEN [scope[p] EXCEPT !.requested = @ + 1, !.due = TRUE]
                             ELSE scope[p]
  BY DEF Request
<1>3. CASE p \in T
  <2>1. scope'[p] = [scope[p] EXCEPT !.requested = scope[p].requested + 1, !.due = TRUE]
    BY <1>2, <1>3
  <2>2. scope'[p] = [requested |-> scope[p].requested + 1, published |-> scope[p].published,
                     claim |-> scope[p].claim, live |-> scope[p].live, due |-> TRUE,
                     sequence |-> scope[p].sequence, content |-> scope[p].content]
    BY <1>1, <2>1 DEF Scope
  <2>3. scope'[p] \in Scope
    BY <1>1, <2>2 DEF Scope
  <2> QED
    BY <1>1, <1>3, <2>2, <2>3
<1>4. CASE p \notin T
  BY <1>1, <1>2, <1>4
<1> QED
  BY <1>3, <1>4

\* A change keeps the invariant if it asks for every part that might now say less
\* than it did, and the requests stay in proportion to the changes.
LEMMA ChangeKeepsInv ==
  ASSUME Inv, NEW T, Request(T), runs' = runs, faults' = faults, SourcesOK',
         2 * changes + Spare' + 1 <= 2 * changes' + Spare, Spare' <= changes',
         \A p \in Parts \ T : MaySay(p) \subseteq MaySay(p)' \/ scope[p].requested = 0
  PROVE  Inv'
<1>1. changes \in Nat /\ changes' \in Nat /\ Spare \in 0..1 /\ Spare' \in 0..1
  BY BoundTypes DEF Inv, TypeOK, SourcesOK, Spare
<1>2. \A p \in Parts : /\ scope[p] \in Scope /\ scope'[p] \in Scope
                       /\ scope[p].published <= scope[p].requested
                       /\ scope'[p].published = scope[p].published
                       /\ scope'[p].sequence = scope[p].sequence
                       /\ scope'[p].content = scope[p].content
                       /\ scope'[p].claim = scope[p].claim
                       /\ p \in T => scope'[p].requested = scope[p].requested + 1
                       /\ p \notin T => scope'[p].requested = scope[p].requested
  BY RequestRow
<1>3. scope' \in [Parts -> Scope]
  BY <1>2 DEF Request
<1>4. TypeOK'
  <2>1. \A p \in Parts : scope'[p].published <= scope'[p].requested
    BY <1>2 DEF Scope
  <2> QED
    BY <1>3, <2>1 DEF Inv, TypeOK, SourcesOK
<1>5. Bounds'
  <2>1. ASSUME NEW p \in Parts PROVE scope'[p].requested + Spare' <= 2 * changes' + 1
    <3>1. scope[p].requested \in Nat /\ scope[p].requested + Spare <= 2 * changes + 1
      BY <1>2 DEF Inv, Bounds, Scope
    <3>2. scope'[p].requested \in Nat /\ scope'[p].requested <= scope[p].requested + 1
      BY <1>2, <3>1
    <3> QED
      BY <1>1, <3>1, <3>2
  <2>2. \A p \in Parts : scope'[p].sequence <= scope'[p].published
    BY <1>2 DEF Inv, Bounds
  <2> QED
    BY <2>1, <2>2 DEF Bounds, SourcesOK
<1>6. ASSUME NEW w \in Workers
      PROVE  RunInv(w)'
  <2> DEFINE p == runs[w].part
  <2>1. runs[w] \in Run /\ p \in Parts /\ runs'[w] = runs[w] /\ RunInv(w)
    BY DEF Inv, TypeOK, Run
  <2>2. scope[p].requested \in Nat /\ runs[w].requested \in Nat
    BY <1>2, <2>1 DEF Scope, Run
  <2>3. CASE p \in T
    BY <1>2, <2>1, <2>2, <2>3 DEF RunInv
  <2>4. CASE p \notin T
    <3>1. MaySay(p) \subseteq MaySay(p)' \/ scope[p].requested = 0
      BY <2>1, <2>4
    <3>2. runs[w].pc = "projected" /\ scope[p].requested = runs[w].requested
            => MaySay(p) \subseteq MaySay(p)'
      BY <2>1, <3>1 DEF RunInv
    <3> QED
      BY <1>2, <2>1, <2>2, <2>4, <3>2 DEF RunInv
  <2> QED
    BY <2>3, <2>4
<1>7. ReleaseMatchesSource'
  <2> SUFFICES ASSUME NEW p \in Parts, scope'[p].requested > 0,
                      scope'[p].requested = scope'[p].published
               PROVE  scope'[p].content \in MaySay(p)'
    BY DEF ReleaseMatchesSource
  <2>1. p \notin T
    BY <1>2 DEF Scope
  <2>2. scope[p].content \in MaySay(p)
    BY <1>2, <2>1 DEF Inv, ReleaseMatchesSource
  <2>3. MaySay(p) \subseteq MaySay(p)'
    BY <1>2, <2>1
  <2> QED
    BY <1>2, <2>2, <2>3
<1> QED
  BY <1>4, <1>5, <1>6, <1>7 DEF Inv

LEMMA Counting ==
  ASSUME NEW n \in Nat, NEW s \in 0..1, NEW t \in 0..1
  PROVE  2 * n + t + 1 <= 2 * (n + 1) + s /\ t <= n + 1
OBVIOUS

\* A counted change brings at most what it is counted for.
LEMMA ChangingCounts ==
  ASSUME Inv, Changing
  PROVE  /\ runs' = runs /\ faults' = faults
         /\ changes \in Nat /\ changes' = changes + 1 /\ changes' \in 0..MaxChanges
         /\ 2 * changes + Spare' + 1 <= 2 * changes' + Spare /\ Spare' <= changes'
<1>1. changes \in Nat /\ Spare \in 0..1 /\ Spare' \in 0..1
  BY DEF Inv, TypeOK, Spare
<1>2. changes < MaxChanges /\ changes' = changes + 1 /\ runs' = runs /\ faults' = faults
  BY DEF Changing
<1>3. changes' \in 0..MaxChanges
  BY <1>1, <1>2, BoundTypes
<1>4. 2 * changes + Spare' + 1 <= 2 * (changes + 1) + Spare /\ Spare' <= changes + 1
  BY <1>1, Counting
<1> QED
  BY <1>1, <1>2, <1>3, <1>4

\* The source changes, one by one: the new sources, and the parts that they leave
\* to say what they said.
LEMMA EditSources == ASSUME Inv, NEW m \in Memories, Edit(m) PROVE SourcesOK'
<1>1. PICK active \in BOOLEAN :
        memory' = [memory EXCEPT ![m] = [version |-> memory[m].version + 1, active |-> active]]
  BY DEF Edit
<1>2. SourcesOK /\ changes' = changes + 1 /\ changes \in Nat /\ changes' \in 0..MaxChanges
      /\ UNCHANGED <<approved, criterion, exception, large, access, revision>>
  BY SourcesHold, ChangingCounts DEF Edit
<1>3. memory[m].version + 1 \in Versions
  BY <1>2, BoundTypes DEF SourcesOK, Versions
<1>4. memory' \in [Memories -> [version : Versions, active : BOOLEAN]]
  BY <1>1, <1>2, <1>3 DEF SourcesOK
<1>5. \A n \in Memories : memory'[n].version = IF n = m THEN memory[n].version + 1
                                                       ELSE memory[n].version
  BY <1>1, <1>2 DEF SourcesOK
<1>6. \A n \in Memories : approved[n] <= memory'[n].version /\ memory'[n].version <= changes' + 1
  BY <1>2, <1>5 DEF SourcesOK, Versions
<1>7. criterion.revision \in Nat
  BY <1>2 DEF SourcesOK, Criterion, Versions
<1> QED
  BY <1>2, <1>4, <1>6, <1>7 DEF SourcesOK

LEMMA EditLeaves ==
  ASSUME Inv, NEW m \in Memories, Edit(m), NEW p \in Parts \ Touched(m)
  PROVE  MaySay(p) \subseteq MaySay(p)'
<1>1. PICK active \in BOOLEAN :
        memory' = [memory EXCEPT ![m] = [version |-> memory[m].version + 1, active |-> active]]
  BY DEF Edit
<1>2. \A n \in Memories : n # m => memory'[n] = memory[n]
  BY <1>1 DEF Inv, TypeOK
<1>3. UNCHANGED <<approved, criterion, exception, access>>
  BY DEF Edit
<1>4. m = "collective" \/ m = "personal"
  BY DEF Memories
<1>5. p \in {"policy", "collective", "personal"}
  BY PartsAssumption
<1>6. p # m /\ (p = "policy" => m # "collective")
  BY DEF Touched
<1>7. CASE p = "policy"
  <2>1. Away \subseteq Away' /\ Granted \subseteq Granted'
    BY <1>3 DEF Away, Granted, OwnerAllowed
  <2> QED
    BY <1>2, <1>3, <1>4, <1>6, <1>7, <2>1, PolicyMayStill DEF Memories
<1>8. CASE p # "policy"
  BY <1>2, <1>3, <1>5, <1>6, <1>8, MemoryMaySame DEF Memories
<1> QED
  BY <1>7, <1>8

LEMMA ApproveSources ==
  ASSUME Inv, NEW m \in Memories \cap Parts, NEW version \in Versions, Approve(m, version)
  PROVE  SourcesOK'
<1>1. SourcesOK /\ changes' = changes + 1 /\ changes \in Nat /\ changes' \in 0..MaxChanges
      /\ UNCHANGED <<memory, criterion, exception, access, revision>>
      /\ approved' = [approved EXCEPT ![m] = version] /\ version = memory[m].version
      /\ large' \in SUBSET Parts
  BY SourcesHold, ChangingCounts DEF Approve, SourcesOK
<1>2. approved' \in [Memories -> Versions]
  BY <1>1 DEF SourcesOK
<1>3. \A n \in Memories : approved'[n] <= memory[n].version /\ memory[n].version <= changes' + 1
  BY <1>1 DEF SourcesOK, Versions
<1>4. criterion.revision \in Nat
  BY <1>1 DEF SourcesOK, Criterion, Versions
<1> QED
  BY <1>1, <1>2, <1>3, <1>4 DEF SourcesOK

LEMMA ApproveLeaves ==
  ASSUME Inv, NEW m \in Memories \cap Parts, NEW version, Approve(m, version),
         NEW p \in Parts \ {m}
  PROVE  MaySay(p) \subseteq MaySay(p)'
<1>1. /\ approved' = [approved EXCEPT ![m] = version]
      /\ UNCHANGED <<memory, criterion, exception, access>>
      /\ approved \in [Memories -> Versions]
  BY DEF Approve, Inv, TypeOK
<1>2. p \in {"policy", "collective", "personal"}
  BY PartsAssumption
<1>3. p # "policy" => approved'[p] = approved[p]
  BY <1>1, <1>2 DEF Memories
<1>4. CASE p = "policy"
  <2>1. Away \subseteq Away' /\ Granted \subseteq Granted'
    BY <1>1 DEF Away, Granted, OwnerAllowed
  <2> QED
    BY <1>1, <1>4, <2>1, PolicyMayStill
<1>5. CASE p # "policy"
  BY <1>1, <1>3, <1>5, MemoryMaySame
<1> QED
  BY <1>4, <1>5

\* The changes that touch the policy only.
PolicyChange ==
  /\ UNCHANGED <<memory, approved, access, revision>>
  /\ criterion' \in Criterion /\ criterion'.revision <= changes' + 1
  /\ exception' \in {"none", "granted", "expired"}
  /\ large' \in SUBSET Parts

LEMMA Later ==
  ASSUME NEW r \in Nat, NEW n \in Nat, NEW m, m = n \/ m = n + 1, r <= n + 1
  PROVE  r <= m + 1
OBVIOUS

LEMMA PolicySources ==
  ASSUME Inv, PolicyChange, changes \in Nat, changes' \in 0..MaxChanges,
         changes' = changes \/ changes' = changes + 1
  PROVE  SourcesOK'
<1>1. SourcesOK
  BY SourcesHold
<1>2. \A n \in Memories : approved[n] <= memory[n].version /\ memory[n].version <= changes' + 1
  BY <1>1 DEF SourcesOK, Versions
<1>3. revision \in Nat /\ 1 <= revision /\ revision <= changes' + 1
  <2>1. revision \in Nat /\ 1 <= revision /\ revision <= changes + 1
    BY <1>1 DEF SourcesOK
  <2> QED
    BY <2>1, Later
<1>4. UNCHANGED <<memory, approved, access, revision>>
  BY DEF PolicyChange
<1> QED
  BY <1>1, <1>2, <1>3, <1>4 DEF SourcesOK, PolicyChange

LEMMA PolicyLeaves ==
  ASSUME PolicyChange, NEW p \in Parts, p # "policy"
  PROVE  MaySay(p) \subseteq MaySay(p)'
  BY MemoryMaySame DEF PolicyChange

LEMMA CriterionSteps ==
  ASSUME Inv, \/ \E kind \in {"memory", "message"} : Decide(kind)
              \/ Retire \/ EditMessage \/ MoveBase \/ Grant \/ Revoke \/ Expire
  PROVE  PolicyChange /\ Changing
<1>1. Changing /\ changes \in Nat /\ changes' = changes + 1
  BY ChangingCounts DEF Decide, Retire, EditMessage, MoveBase, Grant, Revoke, Expire
<1>2. SourcesOK
  BY SourcesHold
<1>3. criterion.revision \in Nat /\ criterion.revision + 1 <= changes' + 1
      /\ criterion.revision + 1 \in Versions /\ criterion.revision <= changes' + 1
  <2>1. criterion.revision \in Nat /\ criterion.revision <= changes + 1 /\ changes < MaxChanges
    BY <1>1, <1>2 DEF SourcesOK, Criterion, Versions, Changing
  <2> QED
    BY <1>1, <2>1, BoundTypes DEF Versions
<1>4. CASE \E kind \in {"memory", "message"} : Decide(kind)
  <2>1. PICK kind \in {"memory", "message"} : Decide(kind)
    BY <1>4
  <2>2. memory["collective"].version \in Versions
    BY <1>2 DEF SourcesOK, Memories
  <2>3. criterion' = [revision |-> criterion.revision + 1, kind |-> kind,
                      version |-> memory["collective"].version, source |-> "same"]
    BY <2>1 DEF Decide
  <2>4. criterion' \in Criterion /\ criterion'.revision <= changes' + 1
    BY <1>3, <2>2, <2>3 DEF Criterion
  <2>5. large' \in SUBSET Parts
    BY <1>2, <2>1 DEF Decide, SourcesOK
  <2> QED
    BY <1>1, <2>1, <2>4, <2>5 DEF Decide, PolicyChange
<1>5. CASE Retire
  <2>1. criterion' = [criterion EXCEPT !.kind = "none"]
    BY <1>5 DEF Retire
  <2>2. criterion' \in Criterion /\ criterion'.revision = criterion.revision
    BY <1>2, <2>1 DEF SourcesOK, Criterion
  <2> QED
    BY <1>1, <1>2, <1>3, <1>5, <2>2 DEF Retire, PolicyChange, SourcesOK
<1>6. CASE EditMessage \/ MoveBase
  <2>1. PICK source \in {"edited", "moved", "returned"} :
          criterion' = [criterion EXCEPT !.source = source]
    BY <1>6 DEF EditMessage, MoveBase
  <2>2. criterion' \in Criterion /\ criterion'.revision = criterion.revision
    BY <1>2, <2>1 DEF SourcesOK, Criterion
  <2> QED
    BY <1>1, <1>2, <1>3, <1>6, <2>2 DEF EditMessage, MoveBase, PolicyChange, SourcesOK
<1>7. CASE Grant \/ Revoke \/ Expire
  BY <1>1, <1>2, <1>3, <1>7 DEF Grant, Revoke, Expire, PolicyChange, SourcesOK
<1> QED
  BY <1>4, <1>5, <1>6, <1>7

\* Those of them that ask for the policy, at least.
LEMMA PolicyInv ==
  ASSUME Inv, PolicyChange, Changing, NEW T, Request(T), "policy" \in T \/ T = Existing
  PROVE  Inv'
<1>1. SourcesOK'
  BY ChangingCounts, PolicySources
<1>2. \A p \in Parts \ T : MaySay(p) \subseteq MaySay(p)' \/ scope[p].requested = 0
  <2> SUFFICES ASSUME NEW p \in Parts \ T, scope[p].requested # 0
               PROVE  MaySay(p) \subseteq MaySay(p)'
    OBVIOUS
  <2>1. p # "policy"
    <3>1. scope[p].requested \in Nat
      BY DEF Inv, TypeOK, Scope
    <3> QED
      BY <3>1 DEF Existing
  <2> QED
    BY <2>1, PolicyLeaves
<1> QED
  BY <1>1, <1>2, ChangingCounts, ChangeKeepsInv

\* The two changes that nothing asks after: the policy may say what it might before.
LEMMA UnseenLeaves ==
  ASSUME Inv, MoveBase \/ Expire, NEW p \in Parts
  PROVE  MaySay(p) \subseteq MaySay(p)'
<1>1. PolicyChange
  BY CriterionSteps
<1>2. CASE p = "policy"
  <2>1. CASE MoveBase
    <3>1. PICK source \in {"moved", "returned"} :
            criterion' = [criterion EXCEPT !.source = source]
      BY <2>1 DEF MoveBase
    <3>2. criterion \in Criterion /\ criterion.source # "edited"
      BY <2>1 DEF MoveBase, Inv, TypeOK
    <3>3. /\ criterion'.kind = criterion.kind /\ criterion'.revision = criterion.revision
          /\ criterion'.version = criterion.version /\ criterion'.source \in {"moved", "returned"}
      BY <3>1, <3>2 DEF Criterion
    <3>4. Away \subseteq Away' /\ Granted \subseteq Granted'
      BY <2>1, <3>3 DEF Away, Granted, OwnerAllowed, MoveBase
    <3> QED
      BY <1>2, <2>1, <3>3, <3>4, PolicyMayStill DEF MoveBase
  <2>2. CASE Expire
    <3>1. Away \subseteq Away' /\ Granted \subseteq Granted'
      BY <2>2 DEF Away, Granted, OwnerAllowed, Expire
    <3> QED
      BY <1>2, <2>2, <3>1, PolicyMayStill DEF Expire
  <2> QED
    BY <2>1, <2>2
<1>3. CASE p # "policy"
  BY <1>1, <1>3, PolicyLeaves
<1> QED
  BY <1>2, <1>3

LEMMA UnseenInv == ASSUME Inv, MoveBase \/ Expire PROVE Inv'
<1>1. PolicyChange /\ Changing
  BY CriterionSteps
<1>2. SourcesOK'
  BY <1>1, ChangingCounts, PolicySources
<1>3. Request({})
  <2>1. scope' = scope /\ scope \in [Parts -> Scope]
    BY DEF MoveBase, Expire, Inv, TypeOK
  <2> QED
    BY <2>1 DEF Request
<1>4. \A p \in Parts \ {} : MaySay(p) \subseteq MaySay(p)'
  BY UnseenLeaves
<1> QED
  BY <1>1, <1>2, <1>3, <1>4, ChangingCounts, ChangeKeepsInv

LEMMA ReconcileInv == ASSUME Inv, Reconcile PROVE Inv'
<1>1. /\ UNCHANGED <<memory, approved, criterion, large, access, revision, runs, changes, faults>>
      /\ exception = "expired" /\ exception' = "none" /\ Request({"policy"})
  BY DEF Reconcile
<1>2. SourcesOK /\ changes \in Nat /\ changes' \in 0..MaxChanges
  BY <1>1, SourcesHold DEF SourcesOK
<1>3. PolicyChange /\ SourcesOK'
  BY <1>1, <1>2, PolicySources DEF PolicyChange, SourcesOK
<1>4. 2 * changes + Spare' + 1 <= 2 * changes' + Spare /\ Spare' <= changes'
  BY <1>1, <1>2 DEF Spare
<1>5. \A p \in Parts \ {"policy"} : MaySay(p) \subseteq MaySay(p)'
  BY <1>3, PolicyLeaves
<1> QED
  BY <1>1, <1>3, <1>4, <1>5, ChangeKeepsInv

LEMMA SourceInv ==
  ASSUME Inv, \/ \E m \in Memories : Edit(m)
              \/ \E m \in Memories \cap Parts, version \in Versions : Approve(m, version)
              \/ \E kind \in {"memory", "message"} : Decide(kind)
              \/ Retire \/ EditMessage \/ MoveBase \/ Grant \/ Revoke \/ Expire \/ Reconcile
  PROVE  Inv'
<1>1. ASSUME NEW m \in Memories, Edit(m) PROVE Inv'
  <2>1. SourcesOK' /\ \A p \in Parts \ Touched(m) : MaySay(p) \subseteq MaySay(p)'
    BY <1>1, EditSources, EditLeaves
  <2>2. Request(Touched(m)) /\ Changing
    BY <1>1 DEF Edit
  <2> QED
    BY <2>1, <2>2, ChangingCounts, ChangeKeepsInv
<1>2. ASSUME NEW m \in Memories \cap Parts, NEW version \in Versions, Approve(m, version)
      PROVE  Inv'
  <2>1. SourcesOK' /\ \A p \in Parts \ {m} : MaySay(p) \subseteq MaySay(p)'
    BY <1>2, ApproveSources, ApproveLeaves
  <2>2. Request({m}) /\ Changing
    BY <1>2 DEF Approve
  <2> QED
    BY <2>1, <2>2, ChangingCounts, ChangeKeepsInv
<1>3. CASE (\E kind \in {"memory", "message"} : Decide(kind)) \/ Retire \/ Grant \/ Revoke
  <2>1. PolicyChange /\ Changing
    BY <1>3, CriterionSteps
  <2>2. Request({"policy"}) /\ "policy" \in {"policy"}
    BY <1>3 DEF Decide, Retire, Grant, Revoke
  <2> QED
    BY <2>1, <2>2, PolicyInv
<1>4. CASE EditMessage
  BY <1>4, CriterionSteps, PolicyInv DEF EditMessage
<1>5. CASE MoveBase \/ Expire
  BY <1>5, UnseenInv
<1>6. CASE Reconcile
  BY <1>6, ReconcileInv
<1> QED
  BY <1>1, <1>2, <1>3, <1>4, <1>5, <1>6

LEMMA SetAccessInv == ASSUME Inv, SetAccess PROVE Inv'
<1>1. SourcesOK /\ changes' = changes + 1 /\ changes \in Nat /\ changes' \in 0..MaxChanges
      /\ UNCHANGED <<memory, approved, criterion, exception, large>>
      /\ revision' = revision + 1 /\ Request(Existing) /\ Changing
  BY SourcesHold, ChangingCounts DEF SetAccess
<1>2. access' \in Access
  BY <1>1 DEF SetAccess, SourcesOK, Access
<1>3. \A n \in Memories : approved[n] <= memory[n].version /\ memory[n].version <= changes' + 1
  BY <1>1 DEF SourcesOK, Versions
<1>4. criterion.revision \in Nat
  BY <1>1 DEF SourcesOK, Criterion, Versions
<1>5. SourcesOK'
  BY <1>1, <1>2, <1>3, <1>4 DEF SourcesOK
<1>6. \A p \in Parts \ Existing : scope[p].requested = 0
  <2> SUFFICES ASSUME NEW p \in Parts, p \notin Existing PROVE scope[p].requested = 0
    OBVIOUS
  <2>1. scope[p].requested \in Nat
    BY DEF Inv, TypeOK, Scope
  <2>2. ~(scope[p].requested > 0)
    BY DEF Existing
  <2> QED
    BY <2>1, <2>2
<1> QED
  BY <1>1, <1>5, <1>6, ChangingCounts, ChangeKeepsInv

\* As long as the sources are the same, so is what a part may say.
LEMMA SameMaySay ==
  ASSUME UNCHANGED sources
  PROVE  /\ \A p \in Parts : MaySay(p)' = MaySay(p)
         /\ Spare' = Spare
<1>1. /\ memory' = memory /\ approved' = approved /\ criterion' = criterion
      /\ exception' = exception /\ large' = large /\ access' = access /\ revision' = revision
  BY DEF sources
<1>2. ASSUME NEW away, NEW granted
      PROVE  PolicyWith(away, granted)' = PolicyWith(away, granted)
  BY <1>1 DEF PolicyWith, Permitted, Nothing
<1>3. Away' = Away /\ Granted' = Granted
  BY <1>1 DEF Away, Granted, OwnerAllowed
<1>4. ASSUME NEW p \in Parts, p = "policy" PROVE MaySay(p)' = MaySay(p)
  BY <1>2, <1>3, <1>4 DEF MaySay
<1>5. ASSUME NEW p \in Parts, p # "policy" PROVE MaySay(p)' = MaySay(p)
  BY <1>1, <1>5 DEF MaySay, Projection, Projected, Allowed, Reads, Nothing
<1> QED
  BY <1>1, <1>4, <1>5 DEF Spare

\* The sources are within their types after a step that leaves them alone.
LEMMA SameSources ==
  ASSUME Inv, UNCHANGED worker
  PROVE  SourcesOK' /\ Spare' = Spare /\ changes' = changes
BY SourcesHold, SameMaySay DEF worker, sources, SourcesOK

LEMMA EnsureScopesInv == ASSUME Inv, EnsureScopes PROVE Inv'
<1> DEFINE q == "personal"
<1>1. /\ scope' = [scope EXCEPT ![q].requested = 1]
      /\ UNCHANGED <<sources, runs, changes, faults>>
      /\ scope[q].requested = 0 /\ q \in Parts
      /\ scope \in [Parts -> Scope]
  BY DEF EnsureScopes, sources, Inv, TypeOK
<1> HIDE DEF q
<1>2. /\ \A p \in Parts : scope[p] \in Scope /\ scope[p].published <= scope[p].requested
      /\ \A p \in Parts : MaySay(p)' = MaySay(p)
      /\ SourcesOK' /\ Spare' = Spare /\ changes' = changes /\ runs' = runs
  BY <1>1, SameMaySay, SameSources DEF Inv, TypeOK, worker
<1>8. /\ scope'[q] = [requested |-> 1, published |-> 0, claim |-> scope[q].claim,
                      live |-> scope[q].live, due |-> scope[q].due,
                      sequence |-> scope[q].sequence, content |-> scope[q].content]
      /\ scope'[q] \in Scope
      /\ scope[q].published = 0 /\ scope[q].sequence \in Nat
  <2>1. scope[q].published = 0 /\ scope[q] \in Scope
    BY <1>1, <1>2 DEF Scope
  <2>2. scope'[q] = [scope[q] EXCEPT !.requested = 1]
    BY <1>1
  <2>3. scope'[q] = [requested |-> 1, published |-> 0, claim |-> scope[q].claim,
                     live |-> scope[q].live, due |-> scope[q].due,
                     sequence |-> scope[q].sequence, content |-> scope[q].content]
    BY <2>1, <2>2 DEF Scope
  <2>4. scope'[q] \in Scope
    BY <2>1, <2>3 DEF Scope
  <2> QED
    BY <2>1, <2>3, <2>4 DEF Scope
<1>9. \A p \in Parts : p # q => scope'[p] = scope[p]
  BY <1>1
<1>10. changes \in Nat /\ Spare \in 0..1 /\ Spare <= changes
  BY DEF Inv, TypeOK, Bounds, Spare
<1>3. scope' \in [Parts -> Scope]
  <2>1. scope' = [p \in Parts |-> scope'[p]]
    BY <1>1
  <2>2. \A p \in Parts : scope'[p] \in Scope
    BY <1>2, <1>8, <1>9
  <2> QED
    BY <2>1, <2>2
<1>4. TypeOK'
  <2>1. \A p \in Parts : scope'[p].published <= scope'[p].requested
    BY <1>2, <1>8, <1>9
  <2> QED
    BY <1>1, <1>2, <1>3, <2>1 DEF Inv, TypeOK, SourcesOK
<1>5. Bounds'
  <2>1. ASSUME NEW p \in Parts
        PROVE  scope'[p].requested + Spare <= 2 * changes + 1
               /\ scope'[p].sequence <= scope'[p].published
    <3>1. CASE p = q
      BY <1>8, <1>10, <3>1 DEF Inv, Bounds
    <3>2. CASE p # q
      BY <1>9, <3>2 DEF Inv, Bounds
    <3> QED
      BY <3>1, <3>2
  <2> QED
    BY <1>2, <1>10, <2>1 DEF Bounds, SourcesOK
<1>6. ASSUME NEW w \in Workers PROVE RunInv(w)'
  <2>1. runs[w] \in Run /\ runs[w].part \in Parts /\ RunInv(w)
    BY DEF Inv, TypeOK, Run
  <2>2. scope[runs[w].part].requested \in Nat /\ runs[w].requested \in Nat
    BY <1>2, <2>1 DEF Scope, Run
  <2>3. CASE runs[w].part = q
    <3>1. runs[w].requested = 0 /\ runs[w].pc = "idle"
      BY <1>1, <2>1, <2>2, <2>3 DEF RunInv
    <3> QED
      BY <1>1, <1>8, <2>1, <2>3, <3>1 DEF RunInv
  <2>4. CASE runs[w].part # q
    BY <1>2, <1>9, <2>1, <2>4 DEF RunInv
  <2> QED
    BY <2>3, <2>4
<1>7. ReleaseMatchesSource'
  <2> SUFFICES ASSUME NEW p \in Parts, scope'[p].requested > 0,
                      scope'[p].requested = scope'[p].published
               PROVE  scope'[p].content \in MaySay(p)'
    BY DEF ReleaseMatchesSource
  <2>1. p # q
    BY <1>8
  <2> QED
    BY <1>2, <1>9, <2>1 DEF Inv, ReleaseMatchesSource
<1> QED
  BY <1>4, <1>5, <1>6, <1>7 DEF Inv

-----------------------------------------------------------------------------
(* Steps of a worker that publish nothing *)

\* What a step without a release leaves as it is.
Quiet ==
  /\ scope' \in [Parts -> Scope]
  /\ \A p \in Parts : /\ scope'[p].requested = scope[p].requested
                       /\ scope'[p].published = scope[p].published
                       /\ scope'[p].sequence = scope[p].sequence
                       /\ scope'[p].content = scope[p].content
  /\ UNCHANGED worker
  /\ faults' \in 0..MaxFaults

LEMMA QuietKeepsInv ==
  ASSUME Inv, Quiet, runs' \in [Workers -> Run], \A w \in Workers : RunInv(w)'
  PROVE  Inv'
<1>1. SourcesOK' /\ Spare' = Spare /\ changes' = changes
  BY SameSources DEF Quiet
<1>2. \A p \in Parts : MaySay(p)' = MaySay(p)
  BY SameMaySay DEF Quiet, worker
<1>3. ReleaseMatchesSource'
  BY <1>2 DEF Inv, ReleaseMatchesSource, Quiet
<1>4. TypeOK'
  BY <1>1 DEF Inv, TypeOK, Quiet, SourcesOK
<1>5. Bounds'
  BY <1>1 DEF Inv, Bounds, Quiet, SourcesOK
<1> QED
  BY <1>3, <1>4, <1>5 DEF Inv

\* A run that goes on as it was, and gains no claim, keeps its invariant.
LEMMA SameRun ==
  ASSUME Inv, Quiet, NEW w \in Workers, runs'[w] = runs[w],
         scope'[runs[w].part].claim = w => scope[runs[w].part].claim = w
  PROVE  RunInv(w)'
<1>1. runs[w].part \in Parts /\ RunInv(w)
  BY DEF Inv, TypeOK, Run
<1>2. MaySay(runs[w].part)' = MaySay(runs[w].part)
  <2>1. \A p \in Parts : MaySay(p)' = MaySay(p)
    BY SameMaySay DEF Quiet, worker
  <2>2. (runs[w].part)' = runs[w].part
    OBVIOUS
  <2> QED
    BY <1>1, <2>1, <2>2
<1> QED
  BY <1>1, <1>2 DEF RunInv, Quiet

LEMMA IdleRun ==
  ASSUME scope' \in [Parts -> Scope], NEW w \in Workers, runs'[w] = Idle
  PROVE  RunInv(w)'
<1>1. Idle.part \in Parts /\ Idle.pc = "idle" /\ Idle.requested = 0
  BY IdleType DEF Run, Idle
<1>2. scope'[Idle.part].requested \in Nat
  BY <1>1 DEF Scope
<1> QED
  BY <1>1, <1>2 DEF RunInv

\* One part has a new claim, lease or retry time.
ClaimOnly(p, claim) ==
  /\ scope' \in [Parts -> Scope] /\ scope'[p].claim = claim
  /\ scope'[p].requested = scope[p].requested /\ scope'[p].published = scope[p].published
  /\ scope'[p].sequence = scope[p].sequence /\ scope'[p].content = scope[p].content
  /\ \A q \in Parts : q # p => scope'[q] = scope[q]

LEMMA ClaimOnlyQuiet ==
  ASSUME NEW p \in Parts, NEW claim, ClaimOnly(p, claim),
         UNCHANGED worker,
         faults' \in 0..MaxFaults
  PROVE  /\ Quiet
         /\ \A q \in Parts : scope'[q].claim = IF q = p THEN claim ELSE scope[q].claim
  BY DEF Quiet, ClaimOnly

\* The steps of a worker, and of time, that publish nothing.
LEMMA ClaimQuiet ==
  ASSUME Inv, NEW w \in Workers, NEW p \in Parts, Claim(w, p)
  PROVE  Quiet /\ \A q \in Parts : scope'[q].claim = IF q = p THEN w ELSE scope[q].claim
<1>1. scope \in [Parts -> Scope] /\ faults \in 0..MaxFaults
  BY DEF Inv, TypeOK
<1>2. ClaimOnly(p, w)
  BY <1>1 DEF Claim, Scope, ClaimOnly
<1>3. UNCHANGED worker /\ faults' = faults
  BY DEF Claim
<1> QED
  BY <1>1, <1>2, <1>3, ClaimOnlyQuiet

LEMMA ClaimInv == ASSUME Inv, NEW w \in Workers, NEW p \in Parts, Claim(w, p) PROVE Inv'
<1>1. scope \in [Parts -> Scope] /\ runs \in [Workers -> Run] /\ w # NoWorker
  BY WorkersAssumption DEF Inv, TypeOK
<1>3. Quiet /\ \A q \in Parts : scope'[q].claim = IF q = p THEN w ELSE scope[q].claim
  BY ClaimQuiet
<1>4. /\ runs' = [runs EXCEPT ![w] =
             [pc |-> "claimed", part |-> p, requested |-> scope[p].requested,
              content |-> Nothing]]
      /\ scope[p].published < scope[p].requested /\ runs[w].pc = "idle"
  BY <1>1 DEF Claim, Claimable, Scope
<1>5. runs' \in [Workers -> Run]
  <2>1. Nothing \in Contents /\ scope[p].requested \in Nat
    BY <1>1, NothingType DEF Scope
  <2> QED
    BY <1>1, <1>4, <2>1 DEF Run, Pcs
<1>6. RunInv(w)'
  <2>1. runs'[w] = [pc |-> "claimed", part |-> p, requested |-> scope[p].requested,
                      content |-> Nothing]
    BY <1>1, <1>4
  <2>2. scope[p].requested \in Nat /\ scope[p].published \in Nat
    BY <1>1 DEF Scope
  <2> QED
    BY <1>3, <1>4, <2>1, <2>2 DEF RunInv, Quiet
<1>7. ASSUME NEW v \in Workers, v # w PROVE RunInv(v)'
  <2>1. runs'[v] = runs[v] /\ runs[v].part \in Parts
    BY <1>1, <1>4, <1>7 DEF Run
  <2>2. scope'[runs[v].part].claim = v => scope[runs[v].part].claim = v
    BY <1>3, <1>7, <2>1
  <2> QED
    BY <1>3, <2>1, <2>2, SameRun
<1> QED
  BY <1>3, <1>5, <1>6, <1>7, QuietKeepsInv

\* A worker gives up the claim if it is its own.
LEMMA UnclaimedQuiet ==
  ASSUME Inv, NEW p \in Parts, NEW due \in BOOLEAN,
         scope' = [scope EXCEPT ![p] =
                     [scope[p] EXCEPT !.claim = NoWorker, !.live = FALSE, !.due = due]],
         UNCHANGED worker,
         faults' \in 0..MaxFaults
  PROVE  /\ Quiet
         /\ \A q \in Parts : scope'[q].claim \in {scope[q].claim, NoWorker}
<1>1. scope \in [Parts -> Scope]
  BY DEF Inv, TypeOK
<1>2. ClaimOnly(p, NoWorker)
  BY <1>1 DEF Scope, ClaimOnly
<1> QED
  BY <1>2, ClaimOnlyQuiet

LEMMA UnclaimQuiet ==
  ASSUME Inv, NEW w \in Workers, scope' = Unclaimed(w),
         UNCHANGED worker,
         faults' \in 0..MaxFaults
  PROVE  /\ Quiet
         /\ \A q \in Parts : scope'[q].claim \in {scope[q].claim, NoWorker}
<1>1. scope \in [Parts -> Scope] /\ runs[w].part \in Parts
  BY DEF Inv, TypeOK, Run
<1>2. CASE scope' = scope
  BY <1>1, <1>2 DEF Quiet
<1>3. CASE scope' # scope
  <2>1. PICK p \in Parts : scope' =
          [scope EXCEPT ![p] = [scope[p] EXCEPT !.claim = NoWorker, !.live = FALSE]]
    BY <1>1, <1>3 DEF Unclaimed
  <2>2. scope' = [scope EXCEPT ![p] = [scope[p] EXCEPT !.claim = NoWorker, !.live = FALSE,
                                                       !.due = scope[p].due]]
    BY <1>1, <2>1 DEF Scope
  <2> QED
    BY <1>1, <2>2, UnclaimedQuiet DEF Scope
<1> QED
  BY <1>2, <1>3

\* A run that returns.
LEMMA ReturnInv ==
  ASSUME Inv, Quiet, NEW w \in Workers, Return(w),
         \A q \in Parts : scope'[q].claim \in {scope[q].claim, NoWorker}
  PROVE  Inv'
<1>1. runs \in [Workers -> Run] /\ scope' \in [Parts -> Scope]
  BY DEF Inv, TypeOK, Quiet
<1>2. runs' = [runs EXCEPT ![w] = Idle] /\ runs' \in [Workers -> Run]
  BY <1>1, IdleType DEF Return
<1>3. RunInv(w)'
  BY <1>1, <1>2, IdleRun
<1>4. ASSUME NEW v \in Workers, v # w PROVE RunInv(v)'
  <2>1. runs'[v] = runs[v] /\ runs[v].part \in Parts /\ v # NoWorker
    BY <1>1, <1>2, <1>4, WorkersAssumption DEF Run
  <2>2. scope'[runs[v].part].claim = v => scope[runs[v].part].claim = v
    BY <2>1
  <2> QED
    BY <2>1, <2>2, SameRun
<1> QED
  BY <1>2, <1>3, <1>4, QuietKeepsInv

\* A run that goes to another step and publishes nothing.
LEMMA StepInv ==
  ASSUME Inv, NEW w \in Workers, NEW run \in Run, runs' = [runs EXCEPT ![w] = run],
         scope' = scope, UNCHANGED worker,
         faults' \in 0..MaxFaults,
         run.part = runs[w].part, run.requested = runs[w].requested,
         runs[w].pc \in {"claimed", "projected"},
         run.pc \in {"projected", "failing"},
         run.pc = "projected" => run.content \in MaySay(run.part)
  PROVE  Inv'
<1>1. /\ scope \in [Parts -> Scope] /\ runs \in [Workers -> Run] /\ runs[w].part \in Parts
      /\ RunInv(w)
  BY DEF Inv, TypeOK, Run
<1>2. Quiet
  BY <1>1 DEF Quiet
<1>3. runs' \in [Workers -> Run] /\ runs'[w] = run
  BY <1>1
<1>5. RunInv(w)'
  <2>1. runs[w].pc # "idle"
    OBVIOUS
  <2>2. run.part \in Parts
    BY <1>1
  <2>3. \A p \in Parts : MaySay(p)' = MaySay(p)
    BY SameMaySay DEF worker
  <2>4. run.pc = "projected" => run.content \in MaySay(run.part)'
    BY <2>2, <2>3
  <2>5. MaySay(runs[w].part)' = MaySay(run.part)'
    <3>1. (runs[w].part)' = run.part
      BY <1>3
    <3> QED
      BY <2>2, <2>3, <3>1
  <2> QED
    BY <1>1, <1>3, <2>1, <2>2, <2>4, <2>5 DEF RunInv
<1>6. ASSUME NEW v \in Workers, v # w PROVE RunInv(v)'
  <2>1. runs'[v] = runs[v]
    BY <1>1, <1>6
  <2> QED
    BY <1>2, <2>1, SameRun
<1> QED
  BY <1>2, <1>3, <1>5, <1>6, QuietKeepsInv

LEMMA ProjectInv == ASSUME Inv, NEW w \in Workers, Project(w) PROVE Inv'
<1>1. /\ scope \in [Parts -> Scope] /\ runs \in [Workers -> Run] /\ faults \in 0..MaxFaults
      /\ runs[w] \in Run /\ runs[w].part \in Parts
  BY DEF Inv, TypeOK, Run
<1>2. /\ runs[w].pc = "claimed" /\ faults' = faults
      /\ UNCHANGED worker
  BY DEF Project
<1>3. CASE scope' = Unclaimed(w) /\ Return(w)
  <2>1. Quiet /\ \A q \in Parts : scope'[q].claim \in {scope[q].claim, NoWorker}
    BY <1>1, <1>2, <1>3, UnclaimQuiet
  <2> QED
    BY <1>3, <2>1, ReturnInv
<1>4. CASE GoTo(w, "failing") /\ scope' = scope
  <2>1. PICK run : run = [runs[w] EXCEPT !.pc = "failing"]
    OBVIOUS
  <2>2. run \in Run /\ run.pc = "failing" /\ run.part = runs[w].part
        /\ run.requested = runs[w].requested
    BY <1>1, <2>1 DEF Run, Pcs
  <2>3. runs' = [runs EXCEPT ![w] = run]
    BY <1>1, <1>4, <2>1 DEF GoTo
  <2> QED
    BY <1>1, <1>2, <1>4, <2>2, <2>3, StepInv
<1>5. CASE /\ scope' = scope
           /\ runs' = [runs EXCEPT ![w].pc = "projected",
                                   ![w].content = Projection(runs[w].part)]
  <2>1. PICK content : content = Projection(runs[w].part)
    OBVIOUS
  <2>2. content \in Contents /\ content \in MaySay(runs[w].part)
    BY <1>1, <2>1, ProjectionType, ProjectionMayBeSaid DEF Inv
  <2>3. PICK run : run = [runs[w] EXCEPT !.pc = "projected", !.content = content]
    OBVIOUS
  <2>4. run \in Run /\ run.pc = "projected" /\ run.part = runs[w].part
        /\ run.requested = runs[w].requested /\ run.content = content
    BY <1>1, <2>2, <2>3 DEF Run, Pcs
  <2>5. runs' = [runs EXCEPT ![w].pc = "projected", ![w].content = content]
    BY <1>5, <2>1
  <2>6. runs' = [runs EXCEPT ![w] = run]
    BY <1>1, <2>3, <2>5
  <2>7. run.content \in MaySay(run.part)
    BY <2>2, <2>4
  <2>8. scope' = scope /\ run.pc \in {"projected", "failing"}
        /\ runs[w].pc \in {"claimed", "projected"} /\ faults' \in 0..MaxFaults
    BY <1>1, <1>2, <1>5, <2>4
  <2> QED
    BY <1>2, <2>4, <2>6, <2>7, <2>8, StepInv
<1> QED
  BY <1>3, <1>4, <1>5 DEF Project, Unprojectable

LEMMA BreakInv == ASSUME Inv, NEW w \in Workers, Break(w) PROVE Inv'
<1>1. /\ runs \in [Workers -> Run] /\ faults \in 0..MaxFaults /\ runs[w] \in Run
  BY DEF Inv, TypeOK
<1>2. /\ runs[w].pc \in {"claimed", "projected"} /\ faults' = faults + 1 /\ faults < MaxFaults
      /\ UNCHANGED worker /\ scope' = scope
      /\ runs' = [runs EXCEPT ![w].pc = "failing"]
  BY DEF Break, Fault, GoTo
<1>3. faults' \in 0..MaxFaults
  BY <1>1, <1>2, BoundTypes
<1>4. PICK run : run = [runs[w] EXCEPT !.pc = "failing"]
  OBVIOUS
<1>5. run \in Run /\ run.pc = "failing" /\ run.part = runs[w].part
      /\ run.requested = runs[w].requested
  BY <1>1, <1>4 DEF Run, Pcs
<1>6. runs' = [runs EXCEPT ![w] = run]
  BY <1>1, <1>2, <1>4
<1> QED
  BY <1>2, <1>3, <1>5, <1>6, StepInv

LEMMA FailQuiet ==
  ASSUME Inv, NEW w \in Workers, Fail(w)
  PROVE  Quiet /\ \A q \in Parts : scope'[q].claim \in {scope[q].claim, NoWorker}
<1>1. /\ scope \in [Parts -> Scope] /\ runs[w].part \in Parts /\ faults \in 0..MaxFaults
  BY DEF Inv, TypeOK, Run
<1>2. /\ faults' = faults
      /\ UNCHANGED worker
  BY DEF Fail
<1>3. CASE scope[runs[w].part].claim = w
  <2>1. PICK p \in Parts : p = runs[w].part
    BY <1>1
  <2>2. scope' = [scope EXCEPT ![p] =
          [scope[p] EXCEPT !.claim = NoWorker, !.live = FALSE, !.due = FALSE]]
    BY <1>1, <1>3, <2>1 DEF Fail, Unclaimed
  <2> QED
    BY <1>1, <1>2, <2>2, UnclaimedQuiet
<1>4. CASE scope[runs[w].part].claim # w
  <2>1. scope' = scope
    BY <1>4 DEF Fail
  <2> QED
    BY <1>1, <1>2, <2>1 DEF Quiet
<1> QED
  BY <1>3, <1>4

LEMMA FailInv == ASSUME Inv, NEW w \in Workers, Fail(w) PROVE Inv'
  BY FailQuiet, ReturnInv DEF Fail

LEMMA CrashInv == ASSUME Inv, NEW w \in Workers, Crash(w) PROVE Inv'
<1>1. /\ scope \in [Parts -> Scope] /\ faults \in 0..MaxFaults
  BY DEF Inv, TypeOK
<1>2. /\ Return(w) /\ faults' \in 0..MaxFaults /\ scope' = scope
      /\ UNCHANGED worker
  BY <1>1, BoundTypes DEF Crash, Fault
<1>3. Quiet /\ \A q \in Parts : scope'[q].claim \in {scope[q].claim, NoWorker}
  BY <1>1, <1>2 DEF Quiet
<1> QED
  BY <1>2, <1>3, ReturnInv

\* A claim runs out, or a retry time comes.
LEMMA TimeQuiet ==
  ASSUME Inv, NEW p \in Parts, BecomeDue(p) \/ ExpireClaim(p)
  PROVE  Quiet /\ \A q \in Parts : scope'[q].claim = scope[q].claim
<1>1. scope \in [Parts -> Scope] /\ faults \in 0..MaxFaults
  BY DEF Inv, TypeOK
<1>2. /\ faults' \in 0..MaxFaults
      /\ UNCHANGED worker
  BY <1>1, BoundTypes DEF BecomeDue, ExpireClaim, Fault
<1>3. ClaimOnly(p, scope[p].claim)
  <2>1. CASE scope' = [scope EXCEPT ![p].due = TRUE]
    BY <1>1, <2>1 DEF Scope, ClaimOnly
  <2>2. CASE scope' = [scope EXCEPT ![p].live = FALSE]
    BY <1>1, <2>2 DEF Scope, ClaimOnly
  <2> QED
    BY <2>1, <2>2 DEF BecomeDue, ExpireClaim
<1> QED
  BY <1>2, <1>3, ClaimOnlyQuiet

LEMMA TimeInv == ASSUME Inv, NEW p \in Parts, BecomeDue(p) \/ ExpireClaim(p) PROVE Inv'
<1>1. runs \in [Workers -> Run] /\ runs' = runs
  BY DEF Inv, TypeOK, BecomeDue, ExpireClaim
<1>2. Quiet /\ \A q \in Parts : scope'[q].claim = scope[q].claim
  BY TimeQuiet
<1>3. \A w \in Workers : RunInv(w)'
  <2> SUFFICES ASSUME NEW w \in Workers PROVE RunInv(w)'
    OBVIOUS
  <2>1. runs[w].part \in Parts
    BY <1>1 DEF Run
  <2> QED
    BY <1>1, <1>2, <2>1, SameRun
<1> QED
  BY <1>1, <1>2, <1>3, QuietKeepsInv

\* The other steps of a worker show a client nothing.
LEMMA WorkerQuiet ==
  ASSUME Inv, NEW w \in Workers, Project(w) \/ Fail(w) \/ Break(w) \/ Crash(w)
  PROVE  Quiet
<1>1. CASE Fail(w)
  BY <1>1, FailQuiet
<1>2. CASE ~Fail(w)
  <2>1. /\ faults' \in 0..MaxFaults
        /\ UNCHANGED worker
        /\ scope' = scope \/ scope' = Unclaimed(w)
    BY <1>2, BoundTypes DEF Project, Break, Crash, Fault, Inv, TypeOK
  <2>2. CASE scope' = scope
    BY <2>1, <2>2 DEF Quiet, Inv, TypeOK
  <2>3. CASE scope' = Unclaimed(w)
    BY <2>1, <2>3, UnclaimQuiet
  <2> QED
    BY <2>1, <2>2, <2>3
<1> QED
  BY <1>1, <1>2

-----------------------------------------------------------------------------
(* A release *)

\* What a release does to the row of its part.
LEMMA PublishedRow ==
  ASSUME NEW s \in Scope, NEW run \in Run, s.requested = run.requested,
         s.published < run.requested, s.sequence <= s.published
  PROVE  /\ Published(s, run) \in Scope
         /\ Published(s, run).requested = s.requested
         /\ Published(s, run).published = s.requested
         /\ Published(s, run).claim = NoWorker
         /\ Published(s, run).content = run.content
         /\ Published(s, run).sequence <= s.requested
         /\ Published(s, run).sequence =
              IF s.sequence > 0 /\ s.content = run.content THEN s.sequence ELSE s.sequence + 1
<1>1. PICK sequence : sequence = IF s.sequence > 0 /\ s.content = run.content
                                 THEN s.sequence ELSE s.sequence + 1
  OBVIOUS
<1>2. s.sequence \in Nat /\ s.published \in Nat /\ run.requested \in Nat
      /\ run.content \in Contents
  BY DEF Scope, Run
<1>3. sequence \in Nat /\ sequence <= s.requested
  BY <1>1, <1>2
<1>4. Published(s, run) =
        [s EXCEPT !.published = run.requested, !.claim = NoWorker, !.live = FALSE,
                  !.sequence = sequence, !.content = run.content]
  BY <1>1 DEF Published
<1>5. Published(s, run) =
        [requested |-> s.requested, published |-> run.requested, claim |-> NoWorker,
         live |-> FALSE, due |-> s.due, sequence |-> sequence, content |-> run.content]
  BY <1>4 DEF Scope
<1>6. Published(s, run) \in Scope
  BY <1>2, <1>3, <1>5 DEF Scope
<1> QED
  BY <1>1, <1>3, <1>5, <1>6

\* The release of a run that still holds the claim.
Releasing(w) ==
  /\ Owned(w)
  /\ runs[w].pc = "projected"
  /\ scope' = [scope EXCEPT ![runs[w].part] = Published(scope[runs[w].part], runs[w])]
  /\ Return(w)
  /\ UNCHANGED <<worker, faults>>

\* The part that is released and what is released of it.
LEMMA ReleasingRow ==
  ASSUME Inv, NEW w \in Workers, Releasing(w)
  PROVE  LET p == runs[w].part IN
         /\ p \in Parts /\ scope[p] \in Scope /\ scope'[p] \in Scope
         /\ scope[p].claim = w
         /\ scope[p].published < scope[p].requested
         /\ scope'[p].requested = scope[p].requested
         /\ scope'[p].published = scope[p].requested
         /\ scope'[p].claim = NoWorker
         /\ runs[w].content \in Contents /\ runs[w].content \in MaySay(p)
         /\ scope'[p].content = runs[w].content
         /\ scope'[p].sequence <= scope[p].requested
         /\ scope'[p].sequence =
              IF scope[p].sequence > 0 /\ scope[p].content = runs[w].content
              THEN scope[p].sequence ELSE scope[p].sequence + 1
         /\ \A q \in Parts : q # p => scope'[q] = scope[q]
         /\ scope' \in [Parts -> Scope]
<1>1. PICK p \in Parts : p = runs[w].part
  BY DEF Inv, TypeOK, Run
<1>2. /\ scope \in [Parts -> Scope] /\ scope[p] \in Scope /\ runs[w] \in Run
      /\ scope[p].sequence <= scope[p].published
  BY DEF Inv, TypeOK, Bounds
<1>3. /\ scope[p].claim = w /\ scope[p].requested = runs[w].requested
      /\ scope[p].published < runs[w].requested /\ runs[w].content \in MaySay(p)
  <2>1. scope[p].claim = w /\ scope[p].requested = runs[w].requested
        /\ runs[w].pc = "projected"
    BY <1>1 DEF Releasing, Owned
  <2>2. RunInv(w)
    BY DEF Inv
  <2> QED
    BY <1>1, <2>1, <2>2 DEF RunInv
<1>4. PICK row : row = Published(scope[p], runs[w])
  OBVIOUS
<1>5. /\ row \in Scope /\ row.requested = scope[p].requested
      /\ row.published = scope[p].requested /\ row.claim = NoWorker
      /\ row.content = runs[w].content /\ row.sequence <= scope[p].requested
      /\ row.sequence = IF scope[p].sequence > 0 /\ scope[p].content = runs[w].content
                        THEN scope[p].sequence ELSE scope[p].sequence + 1
  BY <1>2, <1>3, <1>4, PublishedRow
<1>6. scope' = [scope EXCEPT ![p] = row]
  BY <1>1, <1>4 DEF Releasing
<1>7. scope' \in [Parts -> Scope] /\ scope'[p] = row
      /\ \A q \in Parts : q # p => scope'[q] = scope[q]
  BY <1>2, <1>5, <1>6
<1>8. runs[w].content \in Contents
  BY <1>2 DEF Run
<1> QED
  BY <1>1, <1>2, <1>3, <1>5, <1>7, <1>8

LEMMA ReleasingInv == ASSUME Inv, NEW w \in Workers, Releasing(w) PROVE Inv'
<1>1. PICK p \in Parts : p = runs[w].part
  BY DEF Inv, TypeOK, Run
<1>2. /\ scope[p] \in Scope /\ scope'[p] \in Scope /\ scope[p].claim = w
      /\ scope'[p].requested = scope[p].requested
      /\ scope'[p].published = scope[p].requested /\ scope'[p].claim = NoWorker
      /\ scope'[p].content \in MaySay(p) /\ scope'[p].sequence <= scope[p].requested
      /\ \A q \in Parts : q # p => scope'[q] = scope[q]
      /\ scope' \in [Parts -> Scope]
  BY <1>1, ReleasingRow
<1>3. /\ UNCHANGED <<worker, faults>>
      /\ runs \in [Workers -> Run] /\ runs' = [runs EXCEPT ![w] = Idle]
  BY DEF Releasing, Return, Inv, TypeOK
<1>4. runs' \in [Workers -> Run]
  BY <1>3, IdleType
<1>5. /\ \A q \in Parts : MaySay(q)' = MaySay(q)
      /\ SourcesOK' /\ Spare' = Spare /\ changes' = changes
  BY <1>3, SameMaySay, SameSources DEF worker
<1>6. TypeOK'
  <2>1. \A q \in Parts : scope'[q].published <= scope'[q].requested
    BY <1>2 DEF Inv, TypeOK, Scope
  <2> QED
    BY <1>2, <1>3, <1>4, <1>5, <2>1 DEF Inv, TypeOK, SourcesOK
<1>7. Bounds'
  <2>1. \A q \in Parts : scope'[q].requested + Spare <= 2 * changes + 1
                         /\ scope'[q].sequence <= scope'[q].published
    BY <1>2 DEF Inv, Bounds
  <2>2. Spare <= changes
    BY DEF Inv, Bounds
  <2> QED
    BY <1>5, <2>1, <2>2 DEF Bounds, SourcesOK
<1>8. RunInv(w)'
  BY <1>2, <1>3, IdleRun
<1>9. ASSUME NEW v \in Workers, v # w PROVE RunInv(v)'
  <2>1. runs'[v] = runs[v] /\ runs[v].part \in Parts /\ v # NoWorker /\ RunInv(v)
    BY <1>3, <1>9, WorkersAssumption DEF Inv, Run
  <2>2. MaySay(runs[v].part)' = MaySay(runs[v].part)
    <3>1. (runs[v].part)' = runs[v].part
      BY <2>1
    <3> QED
      BY <1>5, <2>1, <3>1
  <2>3. scope'[runs[v].part].requested = scope[runs[v].part].requested
    BY <1>2, <2>1
  <2>4. scope'[runs[v].part].claim = v =>
          scope[runs[v].part].claim = v
          /\ scope'[runs[v].part].published = scope[runs[v].part].published
    BY <1>2, <2>1
  <2> QED
    BY <2>1, <2>2, <2>3, <2>4 DEF RunInv
<1>10. ReleaseMatchesSource'
  BY <1>2, <1>5 DEF Inv, ReleaseMatchesSource
<1> QED
  BY <1>6, <1>7, <1>8, <1>9, <1>10 DEF Inv

\* A run that finds its claim lost publishes nothing.
LEMMA FinishCases ==
  ASSUME NEW w \in Workers, Finish(w)
  PROVE  Releasing(w) \/ scope' = Unclaimed(w)
  BY DEF Finish, Releasing

LEMMA FinishInv == ASSUME Inv, NEW w \in Workers, Finish(w) PROVE Inv'
<1>1. CASE Releasing(w)
  BY <1>1, ReleasingInv
<1>2. CASE scope' = Unclaimed(w)
  <2>1. /\ Return(w) /\ faults' \in 0..MaxFaults
        /\ UNCHANGED worker
    BY DEF Finish, Inv, TypeOK
  <2>2. Quiet /\ \A q \in Parts : scope'[q].claim \in {scope[q].claim, NoWorker}
    BY <1>2, <2>1, UnclaimQuiet
  <2> QED
    BY <2>1, <2>2, ReturnInv
<1> QED
  BY <1>1, <1>2, FinishCases

-----------------------------------------------------------------------------
(* The theorems *)

LEMMA StutterInv == ASSUME Inv, UNCHANGED vars PROVE Inv'
<1>1. Quiet /\ runs' = runs /\ scope' = scope
  BY DEF vars, worker, Quiet, Inv, TypeOK
<1>2. \A w \in Workers : RunInv(w)'
  BY <1>1, SameRun DEF Inv
<1> QED
  BY <1>1, <1>2, QuietKeepsInv DEF Inv, TypeOK

LEMMA NextInv == Inv /\ [Next]_vars => Inv'
<1> SUFFICES ASSUME Inv, [Next]_vars PROVE Inv'
  OBVIOUS
<1>1. CASE \/ \E m \in Memories : Edit(m)
           \/ \E m \in Memories \cap Parts, version \in Versions : Approve(m, version)
           \/ \E kind \in {"memory", "message"} : Decide(kind)
           \/ Retire \/ EditMessage \/ MoveBase \/ Grant \/ Revoke \/ Expire \/ Reconcile
  BY <1>1, SourceInv
<1>2. CASE SetAccess \/ EnsureScopes
  BY <1>2, SetAccessInv, EnsureScopesInv
<1>4. ASSUME NEW w \in Workers, RunStep(w) \/ Break(w) \/ Crash(w) PROVE Inv'
  BY <1>4, ProjectInv, FinishInv, FailInv, BreakInv, CrashInv DEF RunStep
<1>5. ASSUME NEW w \in Workers, NEW p \in Parts, Claim(w, p) PROVE Inv'
  BY <1>5, ClaimInv
<1>6. ASSUME NEW p \in Parts, BecomeDue(p) \/ ExpireClaim(p) PROVE Inv'
  BY <1>6, TimeInv
<1>7. CASE UNCHANGED vars
  BY <1>7, StutterInv
<1> QED
  BY <1>1, <1>2, <1>4, <1>5, <1>6, <1>7 DEF Next

LEMMA Invariant == Spec => []Inv
  BY InitInv, NextInv, PTL DEF Spec

\* A scope never has more published than was asked for, and what is approved is
\* no later than what there is.
THEOREM TypeCorrect == Spec => []TypeOK
<1>1. Inv => TypeOK
  BY DEF Inv
<1> QED
  BY <1>1, Invariant, PTL

\* For any parts and workers, and however many changes, crashes and lost claims
\* come between a snapshot and its release, a part with nothing left to publish
\* says what its sources say, the moved base and the ended exception aside: the
\* comparison of revisions at the end of a publication is enough, and those two are
\* all that the triggers miss.
THEOREM ReleasesMatch == Spec => []ReleaseMatchesSource
<1>1. Inv => ReleaseMatchesSource
  BY DEF Inv
<1> QED
  BY <1>1, Invariant, PTL

-----------------------------------------------------------------------------
(* The feed *)

\* What the feed sees of the publication.
Pending(p) == scope[p].requested = 0 \/ scope[p].requested > scope[p].published

Offering(p) == [sequence |-> scope[p].sequence, content |-> scope[p].content]

LEMMA FeedInitial == Init => Feed!FeedInit
<1> SUFFICES ASSUME Init PROVE Feed!FeedInit
  OBVIOUS
<1>1. ASSUME NEW p \in Parts
      PROVE  /\ scope[p].sequence = 0 /\ scope[p].content = Nothing
             /\ scope[p].requested = 0 \/ scope[p].requested > scope[p].published
  <2>1. scope[p] = [requested |-> IF p = "personal" THEN 0 ELSE 1, published |-> 0,
                    claim |-> NoWorker, live |-> FALSE, due |-> TRUE, sequence |-> 0,
                    content |-> Nothing]
    BY DEF Init
  <2>2. CASE p = "personal"
    BY <2>1, <2>2
  <2>3. CASE p # "personal"
    BY <2>1, <2>3
  <2> QED
    BY <2>2, <2>3
<1>2. Reads = TRUE /\ revision = 1
  BY DEF Init, Reads
<1>3. [p \in Parts |-> Offering(p)] = [p \in Parts |-> [sequence |-> 0, content |-> Nothing]]
  BY <1>1 DEF Offering
<1>4. [p \in Parts |-> Pending(p)] = [p \in Parts |-> TRUE]
  BY <1>1 DEF Pending
<1> QED
  BY <1>2, <1>3, <1>4, NothingType DEF Feed!FeedInit, Pending, Offering

\* Some parts are asked for again.
SomeAsked == \E touched \in (SUBSET Parts) \ {{}} : Feed!Change(touched)

\* A request is a change of the feed, if it is for a part that was asked for before.
LEMMA RequestIsChange ==
  ASSUME Inv, NEW T, Request(T), UNCHANGED <<access, revision>>
  PROVE  (Asked /\ SomeAsked) \/ (~Asked /\ UNCHANGED Feed!feed)
<1>1. PICK touched : touched = T \cap Parts
  OBVIOUS
<1>2. ASSUME NEW p \in Parts
      PROVE  /\ scope[p].requested \in Nat /\ scope[p].published \in Nat
             /\ scope[p].published <= scope[p].requested
             /\ scope'[p].published = scope[p].published /\ Offering(p)' = Offering(p)
             /\ scope'[p].requested = IF p \in touched THEN scope[p].requested + 1
                                                       ELSE scope[p].requested
  BY <1>1, RequestRow DEF Scope, Offering
<1>3. Reads' = Reads /\ revision' = revision
  BY DEF Reads
<1>4. CASE Asked
  <2>1. touched \in (SUBSET Parts) \ {{}}
    BY <1>1, <1>2, <1>4 DEF Asked
  <2>2. \A p \in Parts : Pending(p)' <=> p \in touched \/ Pending(p)
    BY <1>2 DEF Pending
  <2>3. Feed!Change(touched)
    BY <1>2, <1>3, <2>2 DEF Feed!Change, Pending, Offering
  <2> QED
    BY <1>4, <2>1, <2>3 DEF SomeAsked
<1>5. CASE ~Asked
  <2>1. \A p \in touched : scope[p].requested = 0
    BY <1>1, <1>2, <1>5 DEF Asked
  <2>2. \A p \in Parts : Pending(p)' <=> Pending(p)
    BY <1>2, <2>1 DEF Pending
  <2> QED
    BY <1>2, <1>3, <1>5, <2>2 DEF Feed!feed, Pending, Offering
<1> QED
  BY <1>4, <1>5

\* Every change of the sources but one of access is a request, of no part even.
LEMMA SourceRequests ==
  ASSUME Inv, \/ \E m \in Memories : Edit(m)
              \/ \E m \in Memories \cap Parts, version \in Versions : Approve(m, version)
              \/ \E kind \in {"memory", "message"} : Decide(kind)
              \/ Retire \/ EditMessage \/ MoveBase \/ Grant \/ Revoke \/ Expire \/ Reconcile
  PROVE  \E T : Request(T) /\ UNCHANGED <<access, revision>>
<1>1. CASE MoveBase \/ Expire
  <2>1. scope' = scope /\ scope \in [Parts -> Scope]
    BY <1>1 DEF MoveBase, Expire, Inv, TypeOK
  <2>2. Request({})
    BY <2>1 DEF Request
  <2> QED
    BY <1>1, <2>2 DEF MoveBase, Expire
<1>2. ASSUME NEW m \in Memories, Edit(m)
      PROVE  \E T : Request(T) /\ UNCHANGED <<access, revision>>
  BY <1>2 DEF Edit
<1>3. ASSUME NEW m \in Memories \cap Parts, NEW version \in Versions, Approve(m, version)
      PROVE  \E T : Request(T) /\ UNCHANGED <<access, revision>>
  BY <1>3 DEF Approve
<1>4. CASE \/ \E kind \in {"memory", "message"} : Decide(kind)
           \/ Retire \/ EditMessage \/ Grant \/ Revoke \/ Reconcile
  BY <1>4 DEF Decide, Retire, EditMessage, Grant, Revoke, Reconcile
<1> QED
  BY <1>1, <1>2, <1>3, <1>4

\* A change of who may read asks for every part.
LEMMA SetAccessIsChange == ASSUME Inv, SetAccess PROVE Asked /\ Feed!ChangeAccess
<1>1. /\ Request(Existing) /\ revision' = revision + 1 /\ changes < MaxChanges
      /\ access \in Access
  BY DEF SetAccess, Changing, Inv, TypeOK
<1>2. revision \in Nat /\ revision < MaxChanges + 1
  BY <1>1, BoundTypes DEF Inv, TypeOK, Bounds
<1>3. Reads' \in BOOLEAN
  BY DEF Reads
<1>4. \A p \in Parts : Pending(p)' /\ Offering(p)' = Offering(p)
  <2> SUFFICES ASSUME NEW p \in Parts PROVE Pending(p)' /\ Offering(p)' = Offering(p)
    OBVIOUS
  <2>1. scope[p].requested \in Nat /\ scope[p].published \in Nat
        /\ scope[p].published <= scope[p].requested
    BY <1>1, RequestRow DEF Scope
  <2>2. p \in Existing \/ scope[p].requested = 0
    BY <2>1 DEF Existing
  <2>3. CASE p \in Existing
    BY <1>1, <2>1, <2>3, RequestRow DEF Pending, Offering
  <2>4. CASE p \notin Existing
    BY <1>1, <2>1, <2>2, <2>4, RequestRow DEF Pending, Offering
  <2> QED
    BY <2>3, <2>4
<1>5. [p \in Parts |-> Pending(p)]' = [p \in Parts |-> TRUE]
  <2>1. \A p \in Parts : Pending(p)' = TRUE
    BY <1>4, Zenon DEF Pending
  <2> QED
    BY <2>1, Zenon
<1>6. [p \in Parts |-> Offering(p)]' = [p \in Parts |-> Offering(p)]
  BY <1>4
<1>7. Feed!ChangeAccess
  BY <1>1, <1>2, <1>3, <1>5, <1>6 DEF Feed!ChangeAccess, Pending, Offering
<1>8. Asked
  BY <1>1, <1>2 DEF Asked
<1> QED
  BY <1>7, <1>8

\* The first request for the knowledge of a user changes nothing a client sees.
LEMMA EnsureScopesStutters == ASSUME Inv, EnsureScopes PROVE ~Asked /\ UNCHANGED Feed!feed
<1>1. /\ scope' = [scope EXCEPT !["personal"].requested = 1]
      /\ UNCHANGED <<access, revision>>
      /\ scope["personal"].requested = 0 /\ "personal" \in Parts
      /\ scope \in [Parts -> Scope]
  BY DEF EnsureScopes, sources, Inv, TypeOK
<1>2. PICK p \in Parts : p = "personal"
  BY <1>1
<1>3. scope[p] \in Scope /\ scope[p].published = 0
  BY <1>1, <1>2 DEF Inv, TypeOK, Scope
<1>4. /\ scope'[p].requested = 1 /\ scope'[p].published = 0
      /\ scope'[p].sequence = scope[p].sequence /\ scope'[p].content = scope[p].content
  <2>1. scope'[p] = [scope[p] EXCEPT !.requested = 1]
    BY <1>1, <1>2
  <2> QED
    BY <1>3, <2>1 DEF Scope
<1>5. \A q \in Parts : q # p => scope'[q] = scope[q] /\ scope[q].requested \in Nat
  BY <1>1, <1>2 DEF Scope
<1>6. \A q \in Parts : (Pending(q)' <=> Pending(q)) /\ Offering(q)' = Offering(q)
  BY <1>1, <1>2, <1>3, <1>4, <1>5 DEF Pending, Offering
<1>7. ~Asked
  BY <1>1, <1>2, <1>5 DEF Asked
<1> QED
  BY <1>1, <1>6, <1>7 DEF Feed!feed, Pending, Offering, Reads

\* Nor does a step without a release.
LEMMA QuietStutters == ASSUME Inv, Quiet PROVE ~Asked /\ UNCHANGED Feed!feed
<1>1. \A p \in Parts : (Pending(p)' <=> Pending(p)) /\ Offering(p)' = Offering(p)
  BY DEF Quiet, Pending, Offering
<1>2. Reads' = Reads /\ revision' = revision
  BY DEF Quiet, worker, sources, Reads
<1>3. \A p \in Parts : scope[p].requested \in Nat /\ scope'[p].requested = scope[p].requested
  BY DEF Inv, TypeOK, Scope, Quiet
<1>4. ~Asked
  BY <1>2, <1>3 DEF Asked
<1> QED
  BY <1>1, <1>2, <1>4 DEF Feed!feed, Pending, Offering

LEMMA ReleasingIsRelease ==
  ASSUME Inv, NEW w \in Workers, Releasing(w)
  PROVE  ~Asked /\ \E p \in Parts : Feed!Release(p)
<1>1. PICK p \in Parts : p = runs[w].part
  BY DEF Inv, TypeOK, Run
<1>2. PICK c \in Contents : c = runs[w].content
  BY ReleasingRow
<1>3. /\ scope[p] \in Scope /\ scope'[p] \in Scope
      /\ scope[p].published < scope[p].requested
      /\ scope'[p].requested = scope[p].requested
      /\ scope'[p].published = scope[p].requested
      /\ scope'[p].content = c
      /\ scope'[p].sequence = IF scope[p].sequence > 0 /\ scope[p].content = c
                              THEN scope[p].sequence ELSE scope[p].sequence + 1
      /\ \A q \in Parts : q # p => scope'[q] = scope[q]
  BY <1>1, <1>2, ReleasingRow
<1>4. Reads' = Reads /\ revision' = revision
  BY DEF Releasing, worker, sources, Reads
<1>5. scope[p].sequence < 2 * MaxChanges + 1
  <2>1. /\ scope[p].sequence <= scope[p].published /\ scope[p].requested + Spare <= 2 * changes + 1
        /\ changes \in Nat /\ changes <= MaxChanges /\ Spare \in 0..1
    BY BoundTypes DEF Inv, TypeOK, Bounds, Spare
  <2> QED
    BY <1>3, <2>1, BoundTypes DEF Scope
<1>6. Pending(p) /\ ~Pending(p)'
  BY <1>3 DEF Pending, Scope
<1>7. Offering(p)' = Feed!Released(Offering(p), c)
  BY <1>3 DEF Offering, Feed!Released
<1>8. \A q \in Parts : q # p => (Pending(q)' <=> Pending(q)) /\ Offering(q)' = Offering(q)
  BY <1>3 DEF Pending, Offering
<1>9. Feed!Release(p)
  <2>1. [q \in Parts |-> Offering(q)]' =
          [[q \in Parts |-> Offering(q)] EXCEPT ![p] = Feed!Released(@, c)]
    BY <1>7, <1>8
  <2>2. [q \in Parts |-> Pending(q)]' = [[q \in Parts |-> Pending(q)] EXCEPT ![p] = FALSE]
    BY <1>6, <1>8, Zenon DEF Pending
  <2> QED
    BY <1>4, <1>5, <1>6, <2>1, <2>2 DEF Feed!Release, Pending, Offering
<1>10. ~Asked
  <2>1. \A q \in Parts : scope[q].requested \in Nat /\ scope'[q].requested = scope[q].requested
    BY <1>3 DEF Inv, TypeOK, Scope
  <2> QED
    BY <1>4, <2>1 DEF Asked
<1> QED
  BY <1>9, <1>10

\* What the feed sees of a step: of what is asked, or of what is done about it.
LEMMA FeedCases ==
  ASSUME Inv, [Next]_vars
  PROVE  \/ Asked /\ (Feed!ChangeAccess \/ SomeAsked)
         \/ ~Asked /\ ((\E p \in Parts : Feed!Release(p)) \/ UNCHANGED Feed!feed)
<1> DEFINE Goal == \/ Asked /\ (Feed!ChangeAccess \/ SomeAsked)
                   \/ ~Asked /\ ((\E p \in Parts : Feed!Release(p)) \/ UNCHANGED Feed!feed)
<1>1. CASE \/ \E m \in Memories : Edit(m)
           \/ \E m \in Memories \cap Parts, version \in Versions : Approve(m, version)
           \/ \E kind \in {"memory", "message"} : Decide(kind)
           \/ Retire \/ EditMessage \/ MoveBase \/ Grant \/ Revoke \/ Expire \/ Reconcile
  BY <1>1, SourceRequests, RequestIsChange
<1>2. CASE SetAccess \/ EnsureScopes
  BY <1>2, SetAccessIsChange, EnsureScopesStutters
<1>3. ASSUME NEW w \in Workers, Finish(w) PROVE Goal
  <2>1. CASE Releasing(w)
    BY <2>1, ReleasingIsRelease
  <2>2. CASE scope' = Unclaimed(w)
    <3>1. faults' \in 0..MaxFaults /\ UNCHANGED worker
      BY <1>3 DEF Finish, Inv, TypeOK
    <3> QED
      BY <2>2, <3>1, UnclaimQuiet, QuietStutters
  <2> QED
    BY <1>3, <2>1, <2>2, FinishCases
<1>4. ASSUME NEW w \in Workers, Project(w) \/ Fail(w) \/ Break(w) \/ Crash(w) PROVE Goal
  BY <1>4, WorkerQuiet, QuietStutters
<1>5. ASSUME NEW w \in Workers, NEW p \in Parts, Claim(w, p) PROVE Goal
  BY <1>5, ClaimQuiet, QuietStutters
<1>6. ASSUME NEW p \in Parts, BecomeDue(p) \/ ExpireClaim(p) PROVE Goal
  BY <1>6, TimeQuiet, QuietStutters
<1>7. CASE UNCHANGED vars
  <2>1. Quiet
    BY <1>7 DEF vars, worker, Quiet, Inv, TypeOK
  <2> QED
    BY <2>1, QuietStutters
<1> QED
  BY <1>1, <1>2, <1>3, <1>4, <1>5, <1>6, <1>7 DEF Next, RunStep

LEMMA FeedStep == Inv /\ [Next]_vars => [Feed!FeedNext]_(Feed!feed)
  BY FeedCases DEF SomeAsked, Feed!FeedNext

\* For any parts, workers and bounds, the publication is the feed that the
\* clients are promised: a change of access leaves every part pending, only a
\* release ends the waiting, and its sequence rises if it says something else.
\* What the release owes to the sources is ReleasesMatch.
THEOREM FeedImplemented == Spec => ImplementsFeed
<1>1. Init => Feed!FeedInit
  BY FeedInitial
<1>2. Inv /\ [Next]_vars => [Feed!FeedNext]_(Feed!feed)
  BY FeedStep
<1> QED
  BY <1>1, <1>2, Invariant, PTL DEF Spec, ImplementsFeed, Feed!FeedSpec

-----------------------------------------------------------------------------
(* The whole way to a reader *)

\* The bounds of the client, as its proofs assume them.
LEMMA ClientBounds ==
  ASSUME ClientAssumption
  PROVE  /\ NoProcess \notin Processes
         /\ {MaxChanges + 1, 2 * MaxChanges + 1} \subseteq Nat \ {0}
         /\ {OfflineLease, MaxGeneration, MaxTime,
             MaxGeneration + MaxTime + 2 * MaxChanges + MaxClientFaults + 1,
             MaxClientFaults} \subseteq Nat
<1>1. {OfflineLease, MaxGeneration, MaxTime, MaxClientFaults} \subseteq Nat
  BY DEF ClientAssumption
<1>2. MaxGeneration + MaxTime + 2 * MaxChanges + MaxClientFaults + 1 \in Nat
  BY <1>1, BoundTypes
<1>3. MaxChanges + 1 \in Nat \ {0} /\ 2 * MaxChanges + 1 \in Nat \ {0}
  BY BoundTypes
<1> QED
  BY <1>1, <1>2, <1>3 DEF ClientAssumption

\* The feed that the publication implements is the one the client is served.
LEMMA SameFeed ==
  /\ Feed!FeedInit => Client!FeedInit
  /\ Feed!ChangeAccess => Client!ChangeAccess
  /\ \A touched : Feed!Change(touched) => Client!Change(touched)
  /\ \A p : Feed!Release(p) => Client!Release(p)
  /\ UNCHANGED Feed!feed => UNCHANGED Client!feed
  BY DEF Feed!FeedInit, Client!FeedInit, Feed!ChangeAccess, Client!ChangeAccess,
         Feed!Change, Client!Change, Feed!Release, Client!Release,
         Feed!Released, Client!Released, Feed!feed, Client!feed

\* What was on offer is what the parts might say at that time.
Truthful ==
  \A s \in said : \E fact \in facts :
    fact.at = s.at /\ \A p \in Parts : s.content[p] \in fact.may[p]

\* What the system keeps besides the invariants of its halves: the changes that a
\* client sees are in proportion to those of the sources, and the histories have
\* heard of the present.
SystemInv ==
  /\ Inv
  /\ Client!Inv
  /\ events + Spare <= now + 2 * changes
  /\ Client!Saying \subseteq said
  /\ Truthful

\* What is on offer after a step, the sources may say then.
LEMMA SayingIsTrue ==
  ASSUME Inv', NEW s \in Client!Saying'
  PROVE  \E fact \in Facts' : fact.at = s.at /\ \A p \in Parts : s.content[p] \in fact.may[p]
<1>1. /\ Reads'
      /\ \A p \in Parts :
           ~(scope'[p].requested = 0 \/ scope'[p].requested > scope'[p].published)
      /\ s = [at |-> now', content |-> [p \in Parts |-> scope'[p].content]]
  BY DEF Client!Saying
<1>2. ASSUME NEW p \in Parts PROVE scope'[p].content \in MaySay(p)'
  <2>1. scope'[p].requested \in Nat /\ scope'[p].published \in Nat
        /\ scope'[p].published <= scope'[p].requested
    BY DEF Inv, TypeOK, Scope
  <2>2. scope'[p].requested > 0 /\ scope'[p].requested = scope'[p].published
    BY <1>1, <2>1
  <2> QED
    BY <2>2 DEF Inv, ReleaseMatchesSource
<1>3. PICK fact \in Facts' : fact = [at |-> now', may |-> [p \in Parts |-> MaySay(p)']]
  BY <1>1 DEF Facts
<1>4. fact.at = s.at /\ \A p \in Parts : s.content[p] \in fact.may[p]
  BY <1>1, <1>2, <1>3
<1> QED
  BY <1>4

LEMMA SystemInitial == SystemInit => Client!DeliveryInit
  BY FeedInitial, SameFeed DEF SystemInit, Client!DeliveryInit, Client!Init

LEMMA SystemInitInv == ASSUME ClientAssumption, SystemInit PROVE SystemInv
<1>1. Inv /\ Spare = 0 /\ changes = 0
  <2>1. Inv /\ changes = 0
    BY InitInv DEF SystemInit, Init
  <2>2. exception # "expired"
    BY DEF SystemInit, Init
  <2> QED
    BY <2>1, <2>2 DEF Spare
<1>2. Client!Inv
  <2>1. Client!Init
    BY SystemInitial DEF Client!DeliveryInit
  <2> QED
    BY <2>1, ClientBounds, Client!InitInv
<1>3. now = 0 /\ events = 0
  BY DEF SystemInit, Client!CacheInit
<1>4. Client!Saying = {} /\ Truthful
  <2>1. PICK p \in Parts : TRUE
    BY PartsAssumption
  <2>2. Init => Feed!FeedInit
    BY FeedInitial
  <2>3. [q \in Parts |-> scope[q].requested = 0 \/ scope[q].requested > scope[q].published]
          = [q \in Parts |-> TRUE]
    BY <2>2 DEF SystemInit, Feed!FeedInit
  <2>4. [q \in Parts |-> scope[q].requested = 0 \/ scope[q].requested > scope[q].published][p]
    BY <2>3
  <2>5. Client!Saying = {}
    BY <2>4 DEF Client!Saying
  <2> QED
    BY <2>5 DEF SystemInit, Truthful
<1> QED
  BY <1>1, <1>2, <1>3, <1>4 DEF SystemInit, SystemInv

\* A step that asks is paid for by a change, or by an exception that had run out.
LEMMA AskingIsPaid ==
  ASSUME Inv, Next
  PROVE  /\ 2 * changes + Spare' <= 2 * changes' + Spare
         /\ Asked => 2 * changes + Spare' + 1 <= 2 * changes' + Spare
<1>1. changes \in Nat /\ Spare \in 0..1
  BY DEF Inv, TypeOK, Spare
<1>2. CASE Changing
  <2>1. changes' \in Nat /\ Spare' \in 0..1
    BY <1>1, <1>2, ChangingCounts DEF Spare
  <2>2. PICK d \in Nat, t \in 0..1 : d = changes' /\ t = Spare'
    BY <2>1
  <2>3. 2 * changes + t + 1 <= 2 * d + Spare
    BY <1>2, <2>2, ChangingCounts
  <2>4. 2 * changes + t <= 2 * d + Spare
    BY <1>1, <2>3
  <2> QED
    BY <2>2, <2>3, <2>4
<1>3. CASE Reconcile
  BY <1>1, <1>3 DEF Reconcile, Spare
<1>4. CASE Quiet
  <2>1. changes' = changes /\ Spare' = Spare
    BY <1>4, SameSources DEF Quiet
  <2> QED
    BY <1>1, <1>4, <2>1, QuietStutters
<1>5. CASE EnsureScopes
  <2>1. changes' = changes /\ Spare' = Spare
    BY <1>5, SameSources DEF EnsureScopes, worker
  <2> QED
    BY <1>1, <1>5, <2>1, EnsureScopesStutters
<1>6. ASSUME NEW w \in Workers, Releasing(w)
      PROVE  ~Asked /\ changes' = changes /\ Spare' = Spare
  BY <1>6, SameSources, ReleasingIsRelease DEF Releasing
<1>7. Changing \/ Reconcile \/ Quiet \/ EnsureScopes \/ \E w \in Workers : Releasing(w)
  <2>1. ASSUME NEW w \in Workers, Finish(w) PROVE Quiet \/ Releasing(w)
    <3>1. faults' \in 0..MaxFaults /\ UNCHANGED worker
      BY <2>1 DEF Finish, Inv, TypeOK
    <3> QED
      BY <2>1, <3>1, FinishCases, UnclaimQuiet
  <2>2. ASSUME NEW w \in Workers, NEW p \in Parts, Claim(w, p) PROVE Quiet
    BY <2>2, ClaimQuiet
  <2>3. ASSUME NEW p \in Parts, BecomeDue(p) \/ ExpireClaim(p) PROVE Quiet
    BY <2>3, TimeQuiet
  <2>4. ASSUME NEW w \in Workers, Project(w) \/ Fail(w) \/ Break(w) \/ Crash(w) PROVE Quiet
    BY <2>4, WorkerQuiet
  <2>5. ASSUME NEW m \in Memories, Edit(m) PROVE Changing
    BY <2>5 DEF Edit
  <2>6. ASSUME NEW m \in Memories \cap Parts, NEW version \in Versions, Approve(m, version)
        PROVE  Changing
    BY <2>6 DEF Approve
  <2>7. ASSUME \/ \E kind \in {"memory", "message"} : Decide(kind)
               \/ Retire \/ EditMessage \/ MoveBase \/ Grant \/ Revoke \/ Expire \/ SetAccess
        PROVE  Changing
    BY <2>7 DEF Decide, Retire, EditMessage, MoveBase, Grant, Revoke, Expire, SetAccess
  <2> QED
    BY <2>1, <2>2, <2>3, <2>4, <2>5, <2>6, <2>7 DEF Next, RunStep
<1> QED
  BY <1>1, <1>2, <1>3, <1>4, <1>5, <1>6, <1>7

\* A step of the server is one that the client knows.
LEMMA ServerIsKnown ==
  ASSUME ClientAssumption, SystemInv, ServerStep
  PROVE  Client!Server \/ UNCHANGED Client!vars
<1>1. Next /\ UNCHANGED client /\ events' = IF Asked THEN events + 1 ELSE events
  BY DEF ServerStep
<1>2. Client!Affordable
  <2>1. /\ index.generation \in 0..MaxGeneration /\ clientFaults \in 0..MaxClientFaults
        /\ now \in 0..MaxTime /\ events \in Nat
    BY DEF SystemInv, Client!Inv, Client!TypeOK, Client!Index, Client!Generations
  <2>2. changes \in Nat /\ changes <= MaxChanges /\ Spare \in 0..1
        /\ events + Spare <= now + 2 * changes
    BY BoundTypes DEF SystemInv, Inv, TypeOK, Spare
  <2>3. {MaxGeneration, MaxTime, MaxClientFaults, MaxChanges} \subseteq Nat
    BY BoundTypes DEF ClientAssumption
  <2>4. index.generation + events + clientFaults
          < MaxGeneration + MaxTime + 2 * MaxChanges + MaxClientFaults + 1
    BY <2>1, <2>2, <2>3
  <2> QED
    BY <2>4 DEF Client!Affordable
<1>3. \/ Asked /\ (Feed!ChangeAccess \/ SomeAsked)
      \/ ~Asked /\ ((\E p \in Parts : Feed!Release(p)) \/ UNCHANGED Feed!feed)
  BY <1>1, FeedCases DEF SystemInv
<1>4. CASE Asked /\ (Feed!ChangeAccess \/ SomeAsked)
  <2>1. Client!Event
    BY <1>1, <1>2, <1>4 DEF Client!Event
  <2>2. Client!ChangeAccess \/ \E touched \in (SUBSET Parts) \ {{}} : Client!Change(touched)
    BY <1>4, SameFeed DEF SomeAsked
  <2> QED
    BY <1>1, <2>1, <2>2 DEF Client!Server, client
<1>5. CASE ~Asked /\ \E p \in Parts : Feed!Release(p)
  BY <1>1, <1>5, SameFeed DEF Client!Server, client
<1>6. CASE ~Asked /\ UNCHANGED Feed!feed
  BY <1>1, <1>6, SameFeed DEF Client!vars, Client!cache, client
<1> QED
  BY <1>3, <1>4, <1>5, <1>6

\* Each step of the system is one that the client knows.
LEMMA SystemIsClient ==
  ASSUME ClientAssumption, SystemInv, [SystemNext]_systemVars
  PROVE  [Client!Next]_(Client!vars)
<1>1. CASE ServerStep
  BY <1>1, ServerIsKnown DEF Client!Next
<1>2. CASE Client!CacheNext
  BY <1>2 DEF Client!Next
<1>3. CASE UNCHANGED systemVars
  BY <1>3 DEF systemVars, vars, sources, client, Client!vars, Client!feed, Client!cache, Reads
<1> QED
  BY <1>1, <1>2, <1>3 DEF SystemNext

LEMMA SystemNextInv ==
  ASSUME ClientAssumption, SystemInv, [SystemNext]_systemVars
  PROVE  SystemInv'
<1>1. [Next]_vars
  BY DEF SystemNext, ServerStep, systemVars
<1>2. Inv'
  BY <1>1, NextInv DEF SystemInv
<1>3. Client!Inv'
  <2>1. [Client!Next]_(Client!vars)
    BY SystemIsClient
  <2> QED
    BY <2>1, ClientBounds, Client!NextInv DEF SystemInv
<1>4. events' + Spare' <= now' + 2 * changes'
  <2>1. /\ changes \in Nat /\ Spare \in 0..1 /\ now \in Nat /\ events \in Nat
        /\ events + Spare <= now + 2 * changes
    BY DEF SystemInv, Inv, TypeOK, Spare, Client!Inv, Client!TypeOK
  <2>2. changes' \in Nat /\ Spare' \in 0..1
    BY <1>2 DEF Inv, TypeOK, Spare
  <2>3. CASE ServerStep
    <3>1. now' = now /\ events' = IF Asked THEN events + 1 ELSE events
      BY <2>3 DEF ServerStep, client
    <3>2. /\ 2 * changes + Spare' <= 2 * changes' + Spare
          /\ Asked => 2 * changes + Spare' + 1 <= 2 * changes' + Spare
      BY <2>3, AskingIsPaid DEF ServerStep, SystemInv
    <3>3. PICK d \in Nat, t \in 0..1 : d = changes' /\ t = Spare'
      BY <2>2
    <3>4. 2 * changes + t <= 2 * d + Spare /\ (Asked => 2 * changes + t + 1 <= 2 * d + Spare)
      BY <3>2, <3>3
    <3>5. Asked => events + 1 + t <= now + 2 * d
      BY <2>1, <3>4
    <3>6. ~Asked => events + t <= now + 2 * d
      BY <2>1, <3>4
    <3> QED
      BY <3>1, <3>3, <3>5, <3>6
  <2>4. CASE UNCHANGED vars /\ Client!CacheNext
    <3>1. UNCHANGED <<now, events>> \/ (now' = now + 1 /\ events' = events + 1)
      BY <2>4, ClientBounds, Client!OneTick
    <3>2. changes' = changes /\ Spare' = Spare
      BY <2>4 DEF vars, sources, Spare
    <3> QED
      BY <2>1, <3>1, <3>2
  <2>5. CASE UNCHANGED systemVars
    BY <2>1, <2>5 DEF systemVars, vars, sources, client, Spare
  <2> QED
    BY <2>3, <2>4, <2>5 DEF SystemNext
<1>5. Client!Saying' \subseteq said' /\ Truthful'
  <2>1. CASE SystemNext
    <3>1. said' = said \cup Client!Saying' /\ facts' = facts \cup Facts'
      BY <2>1 DEF SystemNext
    <3>2. ASSUME NEW s \in Client!Saying'
          PROVE  \E fact \in Facts' :
                   fact.at = s.at /\ \A p \in Parts : s.content[p] \in fact.may[p]
      BY <1>2, SayingIsTrue
    <3> QED
      BY <3>1, <3>2 DEF SystemInv, Truthful
  <2>2. CASE UNCHANGED systemVars
    <3>1. said' = said /\ facts' = facts
      BY <2>2 DEF systemVars
    <3>2. Client!Saying' = Client!Saying
      BY <2>2 DEF systemVars, vars, sources, client, Client!Saying, Reads
    <3> QED
      BY <3>1, <3>2 DEF SystemInv, Truthful
  <2> QED
    BY <2>1, <2>2
<1> QED
  BY <1>2, <1>3, <1>4, <1>5 DEF SystemInv

\* Each step of the system is one of the delivery, or is not seen by it.
LEMMA SystemStep ==
  ASSUME ClientAssumption, SystemInv, [SystemNext]_systemVars
  PROVE  [Client!DeliveryNext]_(Client!deliveryVars)
<1>1. [Client!Next]_(Client!vars)
  BY SystemIsClient
<1>2. CASE UNCHANGED Client!vars
  <2>1. Client!Saying' = Client!Saying
    BY <1>2 DEF Client!vars, Client!feed, Client!cache, Client!Saying
  <2>2. said' = said
    BY <2>1 DEF SystemInv, SystemNext, systemVars
  <2> QED
    BY <1>2, <2>2 DEF Client!deliveryVars
<1>3. CASE Client!Next /\ SystemNext
  BY <1>3 DEF SystemNext, Client!DeliveryNext
<1>4. CASE UNCHANGED systemVars
  BY <1>2, <1>4 DEF systemVars, vars, sources, client, Client!vars, Client!feed, Client!cache, Reads
<1> QED
  BY <1>1, <1>2, <1>3, <1>4

LEMMA SystemInvariant == ASSUME ClientAssumption PROVE SystemSpec => []SystemInv
<1>1. SystemInit => SystemInv
  BY SystemInitInv
<1>2. SystemInv /\ [SystemNext]_systemVars => SystemInv'
  BY SystemNextInv
<1> QED
  BY <1>1, <1>2, PTL DEF SystemSpec

\* For any parts, workers, processes and bounds, the publication under the cache
\* is the delivery that the cache was verified for: what the cache relies on is
\* what the publication of this model does.
THEOREM DeliveryImplemented == ASSUME ClientAssumption PROVE SystemSpec => ImplementsDelivery
<1>1. SystemInit => Client!DeliveryInit
  BY SystemInitial
<1>2. SystemInv /\ [SystemNext]_systemVars => [Client!DeliveryNext]_(Client!deliveryVars)
  BY SystemStep
<1> QED
  BY <1>1, <1>2, SystemInvariant, PTL DEF SystemSpec, ImplementsDelivery, Client!DeliverySpec

\* What a process of the client may read, its sources allowed the parts to say
\* together, to a user who could read them, less than the period or the lease ago;
\* only the moved base and the ended exception may be told as before.
THEOREM ReadersSeeWhatMightBeSaid ==
  ASSUME ClientAssumption PROVE SystemSpec => []ReadsMatchSources
<1>1. Client!DeliverySpec => []Client!ReadsWereOffered
  BY ClientBounds, Client!WhatIsReadWasOffered
<1>2. SystemInv /\ Client!ReadsWereOffered => ReadsMatchSources
  <2> SUFFICES ASSUME SystemInv, Client!ReadsWereOffered,
                      NEW process \in Processes, NEW mode \in {"online", "offline"},
                      Client!Readable(process, mode)
               PROVE  \E fact \in facts :
                        /\ now < fact.at + Client!Until(mode)
                        /\ \A part \in Parts :
                             index.active.refs[part].content \in fact.may[part]
    BY DEF ReadsMatchSources
  <2>1. PICK s \in said :
          /\ now < s.at + Client!Until(mode)
          /\ \A part \in Parts : index.active.refs[part].content = s.content[part]
    BY DEF Client!ReadsWereOffered
  <2>2. PICK fact \in facts :
          fact.at = s.at /\ \A p \in Parts : s.content[p] \in fact.may[p]
    BY DEF SystemInv, Truthful
  <2> QED
    BY <2>1, <2>2
<1> QED
  BY <1>1, <1>2, DeliveryImplemented, SystemInvariant, PTL DEF ImplementsDelivery

=============================================================================

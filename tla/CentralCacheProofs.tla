------------------------- MODULE CentralCacheProofs -------------------------
(***************************************************************************)
(* For any processes, parts and bounds, the shared cache keeps its         *)
(* promises: the active snapshot is complete, never older than one before, *)
(* and of the connection that is there, and a connection is only revoked   *)
(* by a denial of its own.  Inv, the inductive invariant, says which       *)
(* bundles somebody may still need and who may delete them.  DeliveryInv   *)
(* adds where every manifest comes from, which makes what is read true.    *)
(***************************************************************************)
EXTENDS KnowledgeDelivery, TLAPS

\* A bundle that the active snapshot refers to, or a synchronization that may
\* still activate it.
InUse(b) ==
  \/ index.active # None /\ \E part \in Parts : b = index.active.refs[part]
  \/ \E p \in Processes :
       /\ Mine(p) /\ procs[p].pc \in {"fetching", "staging"}
       /\ \E part \in DOMAIN procs[p].refs : b = procs[p].refs[part]

\* Nobody is about to delete it.
UseIsSafe ==
  \A b \in Bundle : InUse(b) =>
    /\ b \in records
    /\ \A q \in Processes : procs[q].pc = "purging" => b \notin procs[q].inventory

\* How far a synchronization is in fetching the bundles of its manifest.
Shape(r) ==
  /\ r.pc \in {"idle", "claimed", "manifest"} => DOMAIN r.refs = {}
  /\ r.pc \in {"manifest", "fetching", "staging"} => r.manifest \in Manifest
  /\ r.pc = "fetching" => DOMAIN r.refs = Parts \ r.todo
  /\ r.pc = "staging" =>
       \E part \in Parts \ r.todo : DOMAIN r.refs = (Parts \ r.todo) \ {part}
  /\ r.pc \in {"fetching", "staging"} =>
       \A part \in DOMAIN r.refs :
         /\ r.refs[part].part = part
         /\ r.refs[part].content = r.manifest.parts[part].content

\* Nothing is of a later synchronization than the index, what is to be deleted
\* is older than the synchronization under way, and a synchronization that may
\* still write belongs to the connection that is there.
Fits(r) ==
  /\ r.generation <= index.generation
  /\ \A b \in r.inventory :
       /\ b.generation <= index.generation
       /\ r.pc = "purging" /\ index.claim # None => b.generation < index.generation
  /\ r.pc \notin {"idle", "purging"} /\ r.generation = index.generation => r.epoch = epoch

ProcInv == \A p \in Processes : Shape(procs[p]) /\ Fits(procs[p])

CallInv ==
  call # None =>
    /\ call.generation <= index.generation
    /\ call.generation = index.generation => index.status = "enabled" /\ call.epoch = epoch

IndexInv ==
  /\ index.status # "enabled" => index.active = None
  /\ index.active # None =>
       /\ index.active.epoch = epoch
       /\ \A part \in Parts :
            /\ index.active.refs[part].part = part
            /\ index.active.refs[part].content = index.active.manifest.parts[part].content
  /\ \A b \in records : b.generation <= index.generation

FloorsInv ==
  /\ epoch \in Nat
  /\ newest \in Floors
  /\ \A part \in Parts : newest.sequences[part] <= index.floors.sequences[part]

Inv == TypeOK /\ ProcInv /\ CallInv /\ IndexInv /\ FloorsInv /\ UseIsSafe /\ NoRollback

-----------------------------------------------------------------------------
(* What a step may do to the index without activating a snapshot *)

Moves ==
  /\ \/ /\ index'.generation = index.generation /\ epoch' = epoch
        /\ index'.claim \in {index.claim, None} /\ index'.status = index.status
     \/ index'.generation = index.generation + 1
  /\ index'.status # "enabled" => index'.active = None
  /\ index'.active \in {index.active, None}
  /\ index'.active # None => epoch' = epoch
  /\ epoch' \in {epoch, epoch + 1}
  /\ \A part \in Parts : index.floors.sequences[part] <= index'.floors.sequences[part]

\* What a step may do to a process without giving it a bundle.
Settles(q) ==
  /\ Shape(procs[q])'
  /\ Fits(procs[q])'
  /\ procs'[q].pc = "purging" => index'.claim = None /\ index'.active = None
  /\ procs'[q].pc \in {"fetching", "staging"} =>
       \/ DOMAIN procs'[q].refs = {}
       \/ /\ procs[q].pc \in {"fetching", "staging"}
          /\ procs'[q].refs = procs[q].refs
          /\ procs'[q].generation = procs[q].generation

LEMMA FloorsNumbers ==
  ASSUME NEW i \in Index, NEW part \in Parts
  PROVE  i.floors.sequences[part] \in Nat
<1>1. i.floors \in Floors
  BY DEF Index
<1>2. i.floors.sequences \in [Parts -> 0..MaxSequence]
  BY <1>1 DEF Floors
<1> QED
  BY <1>2

\* Generations are numbers.
LEMMA Numbers ==
  ASSUME TypeOK
  PROVE  /\ index.generation \in Nat
         /\ \A p \in Processes : procs[p] \in Proc /\ procs[p].generation \in Nat
         /\ \A p \in Processes : \A b \in procs[p].inventory : b \in Bundle /\ b.generation \in Nat
         /\ \A b \in records : b \in Bundle /\ b.generation \in Nat
         /\ \A b \in Bundle : b.generation \in Nat
         /\ \A part \in Parts : index.floors.sequences[part] \in Nat
         /\ call # None => call.generation \in Nat
         /\ MaxGeneration \in Nat /\ MaxSequence \in Nat /\ MaxAuthorization \in Nat
<1>1. MaxGeneration \in Nat /\ MaxSequence \in Nat /\ MaxAuthorization \in Nat
  BY CacheBoundAssumption, FeedBoundAssumption
<1>2. Generations \subseteq Nat
  BY <1>1 DEF Generations
<1>3. index.generation \in Generations /\ index.floors \in Floors
  BY DEF TypeOK, Index
<1>4. \A p \in Processes : procs[p] \in Proc
  BY DEF TypeOK
<1>5. \A p \in Processes : procs[p].generation \in Generations /\ procs[p].inventory \subseteq Bundle
  BY <1>4 DEF Proc
<1>6. \A b \in Bundle : b.generation \in Generations
  BY DEF Bundle
<1>7. \A part \in Parts : index.floors.sequences[part] \in Nat
  BY FloorsNumbers DEF TypeOK
<1>8. call # None => call.generation \in Generations
  BY DEF TypeOK
<1>9. records \subseteq Bundle
  BY DEF TypeOK
<1>10. \A p \in Processes : \A b \in procs[p].inventory : b \in Bundle /\ b.generation \in Nat
  BY <1>2, <1>5, <1>6
<1>11. \A b \in records : b \in Bundle /\ b.generation \in Nat
  BY <1>2, <1>6, <1>9
<1> QED
  BY <1>1, <1>2, <1>3, <1>4, <1>5, <1>6, <1>7, <1>8, <1>10, <1>11

\* A process that a step leaves alone still fits.
LEMMA OthersFit ==
  ASSUME Inv, TypeOK', Moves, NEW q \in Processes, procs'[q] = procs[q]
  PROVE  Shape(procs[q])' /\ Fits(procs[q])'
<1>1. Shape(procs[q]) /\ Fits(procs[q])
  BY DEF Inv, ProcInv
<1>2. Shape(procs[q])'
  BY <1>1 DEF Shape
<1>3. /\ index.generation \in Nat /\ procs[q].generation \in Nat
      /\ \A b \in procs[q].inventory : b.generation \in Nat
  BY Numbers DEF Inv
<1>4. Fits(procs[q])'
  BY <1>1, <1>3 DEF Fits, Moves
<1> QED
  BY <1>2, <1>4

LEMMA CallKept ==
  ASSUME Inv, Moves, call' \in {call, None}
  PROVE  CallInv'
<1>1. CallInv /\ index.generation \in Nat /\ (call # None => call.generation \in Nat)
  BY Numbers DEF Inv
<1> QED
  BY <1>1 DEF CallInv, Moves

LEMMA IndexKept ==
  ASSUME Inv, TypeOK', Moves, records' = records, newest' = newest
  PROVE  IndexInv' /\ FloorsInv' /\ NoRollback'
<1>1. IndexInv /\ FloorsInv /\ NoRollback /\ TypeOK
  BY DEF Inv
<1>2. index.generation \in Nat /\ \A b \in records : b.generation \in Nat
  BY <1>1, Numbers
<1>3. IndexInv'
  <2>1. index'.status # "enabled" => index'.active = None
    BY DEF Moves
  <2>2. \A b \in records' : b.generation <= index'.generation
    BY <1>1, <1>2 DEF IndexInv, Moves
  <2>3. index'.active # None => index'.active = index.active /\ index.active # None /\ epoch' = epoch
    BY DEF Moves
  <2> QED
    BY <1>1, <2>1, <2>2, <2>3 DEF IndexInv
<1>4. FloorsInv'
  <2>1. epoch' \in Nat /\ newest' \in Floors
    BY <1>1 DEF FloorsInv, Moves
  <2>2. ASSUME NEW part \in Parts
        PROVE  newest'.sequences[part] <= index'.floors.sequences[part]
    <3>1. newest.sequences[part] \in Nat
      BY <1>1 DEF FloorsInv, Floors
    <3>2. index.floors.sequences[part] \in Nat /\ index'.floors.sequences[part] \in Nat
      BY <1>1, FloorsNumbers DEF TypeOK
    <3> QED
      BY <1>1, <3>1, <3>2 DEF FloorsInv, Moves
  <2> QED
    BY <2>1, <2>2 DEF FloorsInv
<1>5. NoRollback'
  BY <1>1 DEF NoRollback, Moves
<1> QED
  BY <1>3, <1>4, <1>5

\* Nothing becomes needed by a step that gives nobody a bundle.
LEMMA UseKept ==
  ASSUME Inv, TypeOK', Moves, records' = records,
         \A q \in Processes : procs'[q] = procs[q] \/ Settles(q)
  PROVE  UseIsSafe'
<1> SUFFICES ASSUME NEW b \in Bundle, InUse(b)'
             PROVE  /\ b \in records
                    /\ \A q \in Processes : procs'[q].pc = "purging" => b \notin procs'[q].inventory
  BY DEF UseIsSafe
<1>1. UseIsSafe /\ ProcInv /\ TypeOK
  BY DEF Inv
<1>2. InUse(b)
  <2>1. CASE index'.active # None /\ \E part \in Parts : b = index'.active.refs[part]
    BY <2>1 DEF Moves, InUse
  <2>2. ASSUME NEW p \in Processes, Mine(p)', procs'[p].pc \in {"fetching", "staging"},
               NEW part \in DOMAIN procs'[p].refs, b = procs'[p].refs[part]
        PROVE  InUse(b)
    <3>1. /\ procs[p].pc \in {"fetching", "staging"}
          /\ procs'[p].refs = procs[p].refs
          /\ procs'[p].generation = procs[p].generation
      BY <2>2 DEF Settles
    <3>2. procs[p].generation <= index.generation
      BY <1>1 DEF ProcInv, Fits
    <3>3. index.generation \in Nat /\ procs[p].generation \in Nat /\ p # None
      BY <1>1, Numbers, NoneAssumption
    <3>4. Mine(p)
      BY <2>2, <3>1, <3>2, <3>3 DEF Mine, Moves
    <3> QED
      BY <2>2, <3>1, <3>4 DEF InUse
  <2> QED
    BY <2>1, <2>2 DEF InUse
<1>3. b \in records
  BY <1>1, <1>2 DEF UseIsSafe
<1>4. ASSUME NEW q \in Processes, procs'[q].pc = "purging" PROVE b \notin procs'[q].inventory
  <2>1. CASE procs'[q] = procs[q]
    BY <1>1, <1>2, <1>4, <2>1 DEF UseIsSafe
  <2>2. CASE Settles(q)
    <3>1. index'.claim = None /\ index'.active = None
      BY <1>4, <2>2 DEF Settles
    <3>2. \A p \in Processes : ~Mine(p)'
      BY <3>1, NoneAssumption DEF Mine
    <3> QED
      BY <3>1, <3>2 DEF InUse
  <2> QED
    BY <2>1, <2>2
<1> QED
  BY <1>3, <1>4

\* A step that activates nothing and gives nobody a bundle keeps the invariant.
LEMMA QuietKeepsInv ==
  ASSUME Inv, TypeOK', Moves, CallInv', records' = records, newest' = newest,
         \A q \in Processes : procs'[q] = procs[q] \/ Settles(q)
  PROVE  Inv'
<1>1. ProcInv'
  <2> SUFFICES ASSUME NEW q \in Processes PROVE Shape(procs[q])' /\ Fits(procs[q])'
    BY DEF ProcInv
  <2>1. CASE procs'[q] = procs[q]
    BY <2>1, OthersFit
  <2>2. CASE Settles(q)
    BY <2>2 DEF Settles
  <2> QED
    BY <2>1, <2>2
<1>2. UseIsSafe'
  BY UseKept
<1>3. IndexInv' /\ FloorsInv' /\ NoRollback'
  BY IndexKept
<1> QED
  BY <1>1, <1>2, <1>3 DEF Inv

-----------------------------------------------------------------------------
(* Processes at rest, failing and cleaning up *)

LEMMA NothingFetched ==
  /\ DOMAIN << >> = {}
  /\ << >> \in UNION {[fetched -> Bundle] : fetched \in SUBSET Parts}
<1>1. << >> = [x \in {} |-> x]
  OBVIOUS
<1>2. << >> \in [{} -> Bundle]
  BY <1>1
<1> QED
  BY <1>1, <1>2

LEMMA IdleType ==
  ASSUME NEW d \in BOOLEAN
  PROVE  Idle(d) \in Proc
<1>1. 0 \in Generations /\ 0 \in Nat
  BY CacheBoundAssumption DEF Generations
<1> QED
  BY <1>1, NothingFetched DEF Idle, Proc, Pcs, Codes

LEMMA CleaningType ==
  ASSUME NEW p \in Processes, NEW inventory \in SUBSET Bundle, NEW d \in BOOLEAN
  PROVE  Cleaning(p, inventory, d) \in Proc
<1>1. Idle(d) \in Proc
  BY IdleType
<1>2. Cleaning(p, inventory, d) = [Idle(d) EXCEPT !.pc = "purging", !.inventory = inventory]
  BY DEF Cleaning
<1> QED
  BY <1>1, <1>2 DEF Proc, Pcs

LEMMA FailingType ==
  ASSUME TypeOK, NEW p \in Processes, NEW code \in Codes
  PROVE  /\ Failing(p, code) \in Proc
         /\ Failing(p, code).pc = "failing"
         /\ Failing(p, code).generation = procs[p].generation
         /\ Failing(p, code).inventory = procs[p].inventory
         /\ Failing(p, code).epoch = procs[p].epoch
<1>1. procs[p] \in Proc
  BY DEF TypeOK
<1> QED
  BY <1>1 DEF Failing, Proc, Pcs

LEMMA UncertainType ==
  ASSUME TypeOK, NEW p \in Processes, NEW r, r = [Failing(p, "other") EXCEPT !.uncertain = TRUE]
  PROVE  /\ r \in Proc
         /\ r.pc = "failing"
         /\ r.generation = procs[p].generation
         /\ r.inventory = procs[p].inventory
         /\ r.epoch = procs[p].epoch
<1>1. "other" \in Codes
  BY DEF Codes
<1>2. /\ Failing(p, "other") \in Proc
      /\ Failing(p, "other").pc = "failing"
      /\ Failing(p, "other").generation = procs[p].generation
      /\ Failing(p, "other").inventory = procs[p].inventory
      /\ Failing(p, "other").epoch = procs[p].epoch
  BY <1>1, FailingType
<1> QED
  BY <1>2 DEF Proc

LEMMA IdleSettles ==
  ASSUME TypeOK', NEW p \in Processes, NEW d \in BOOLEAN, procs'[p] = Idle(d)
  PROVE  Settles(p)
<1>1. /\ procs'[p].pc = "idle" /\ procs'[p].generation = 0
      /\ procs'[p].inventory = {} /\ DOMAIN procs'[p].refs = {}
  BY NothingFetched DEF Idle
<1>2. index'.generation \in Nat
  BY CacheBoundAssumption DEF TypeOK, Index, Generations
<1> QED
  BY <1>1, <1>2 DEF Settles, Shape, Fits

LEMMA FailingSettles ==
  ASSUME Inv, Moves, NEW p \in Processes, procs[p].pc \notin {"idle", "purging"},
         procs'[p].pc = "failing",
         procs'[p].generation = procs[p].generation,
         procs'[p].inventory = procs[p].inventory,
         procs'[p].epoch = procs[p].epoch
  PROVE  Settles(p)
<1>1. Shape(procs[p])'
  BY DEF Shape
<1>2. /\ index.generation \in Nat /\ procs[p].generation \in Nat
      /\ \A b \in procs[p].inventory : b.generation \in Nat
  BY Numbers DEF Inv
<1>3. Fits(procs[p])
  BY DEF Inv, ProcInv
<1>4. Fits(procs[p])'
  BY <1>2, <1>3 DEF Fits, Moves
<1> QED
  BY <1>1, <1>4 DEF Settles

LEMMA CleaningSettles ==
  ASSUME Inv, Moves, TypeOK', NEW p \in Processes, NEW d \in BOOLEAN,
         procs'[p] = Cleaning(p, records, d), index'.claim = None, index'.active = None
  PROVE  Settles(p)
<1>1. /\ procs'[p].pc = "purging" /\ procs'[p].generation = 0
      /\ procs'[p].inventory = records /\ DOMAIN procs'[p].refs = {}
  BY NothingFetched DEF Idle, Cleaning
<1>2. /\ index.generation \in Nat
      /\ \A b \in records : b.generation \in Nat /\ b.generation <= index.generation
  BY Numbers DEF Inv, IndexInv
<1>3. index'.generation \in Nat
  BY CacheBoundAssumption DEF TypeOK, Index, Generations
<1> QED
  BY <1>1, <1>2, <1>3 DEF Settles, Shape, Fits, Moves

-----------------------------------------------------------------------------
(* Writes of the index *)

LEMMA UpdateProc ==
  ASSUME TypeOK, NEW p \in Processes, NEW r \in Proc, procs' = [procs EXCEPT ![p] = r]
  PROVE  /\ procs' \in [Processes -> Proc]
         /\ procs'[p] = r
         /\ \A q \in Processes : q # p => procs'[q] = procs[q]
  BY DEF TypeOK

LEMMA PutType ==
  ASSUME TypeOK, NEW p \in Processes, NEW next \in Index, NEW done \in Proc, NEW broken \in Proc,
         Put(p, next, done, broken), next.claim # None => next.status = "enabled",
         UNCHANGED <<feed, records, now, events>>, call' \in {call, None}
  PROVE  TypeOK'
<1>1. index' \in {index, next} /\ index' \in Index /\ (index'.claim # None => index'.status = "enabled")
  BY DEF TypeOK, Put
<1>2. procs' \in [Processes -> Proc]
  BY UpdateProc DEF Put
<1>3. faults' \in 0..MaxFaults
  BY CacheBoundAssumption DEF TypeOK, Put, Fault
<1>4. call' \in [generation : Generations, epoch : Nat, reason : Reasons] \cup {None}
  BY DEF TypeOK
<1>5. FeedTypeOK'
  BY DEF TypeOK, FeedTypeOK, feed
<1> QED
  BY <1>1, <1>2, <1>3, <1>4, <1>5 DEF TypeOK

\* A write that activates nothing keeps the invariant whether or not it takes effect.
LEMMA PutKeepsInv ==
  ASSUME Inv, TypeOK', NEW p \in Processes, NEW next, NEW done \in Proc, NEW broken \in Proc,
         Put(p, next, done, broken),
         Moves, CallInv', records' = records, newest' = newest,
         index' = next /\ procs'[p] = done => Settles(p),
         procs'[p] = broken => procs'[p] = procs[p] \/ Settles(p)
  PROVE  Inv'
<1>1. TypeOK
  BY DEF Inv
<1>2. CASE index' = next /\ procs' = [procs EXCEPT ![p] = done]
  <2>1. procs'[p] = done /\ \A q \in Processes : q # p => procs'[q] = procs[q]
    BY <1>1, <1>2, UpdateProc
  <2> QED
    BY <1>2, <2>1, QuietKeepsInv
<1>3. CASE procs' = [procs EXCEPT ![p] = broken]
  <2>1. procs'[p] = broken /\ \A q \in Processes : q # p => procs'[q] = procs[q]
    BY <1>1, <1>3, UpdateProc
  <2> QED
    BY <2>1, QuietKeepsInv
<1> QED
  BY <1>2, <1>3 DEF Put

\* So does a step of a process that leaves the index as it is.
LEMMA StandStill ==
  ASSUME Inv, index' = index, epoch' = epoch
  PROVE  Moves
<1>1. /\ index.status # "enabled" => index.active = None
      /\ \A part \in Parts : index.floors.sequences[part] \in Nat
  BY Numbers DEF Inv, IndexInv
<1> QED
  BY <1>1 DEF Moves

LEMMA LocalKeepsInv ==
  ASSUME Inv, NEW p \in Processes, NEW r \in Proc, procs' = [procs EXCEPT ![p] = r],
         procs'[p] = r => Settles(p),
         UNCHANGED <<feed, index, records, call, now, events, epoch, newest>>,
         faults' \in 0..MaxFaults
  PROVE  Inv'
<1>1. /\ procs' \in [Processes -> Proc] /\ procs'[p] = r
      /\ \A q \in Processes : q # p => procs'[q] = procs[q]
  BY UpdateProc DEF Inv
<1>2. TypeOK'
  BY <1>1 DEF Inv, TypeOK, FeedTypeOK, feed
<1>3. Moves
  BY StandStill
<1>4. CallInv'
  BY <1>3, CallKept
<1> QED
  BY <1>1, <1>2, <1>3, <1>4, QuietKeepsInv

-----------------------------------------------------------------------------
(* Steps of a process that leave the index alone *)

LEMMA AbortKeepsInv ==
  ASSUME Inv, NEW p \in Processes, NEW code \in Codes, Abort(p, code),
         procs[p].pc \notin {"idle", "purging"}
  PROVE  Inv'
<1>1. Failing(p, code) \in Proc
  BY FailingType DEF Inv
<1>2. procs' = [procs EXCEPT ![p] = Failing(p, code)]
      /\ UNCHANGED <<feed, index, records, call, now, events, faults, epoch, newest>>
  BY DEF Abort
<1>3. procs'[p] = Failing(p, code) => Settles(p)
  <2>1. Moves
    BY <1>2, StandStill
  <2>2. TypeOK
    BY DEF Inv
  <2> QED
    BY <2>1, <2>2, FailingType, FailingSettles
<1>4. faults' \in 0..MaxFaults
  BY <1>2 DEF Inv, TypeOK
<1> QED
  BY <1>1, <1>2, <1>3, <1>4, LocalKeepsInv

LEMMA AnswerKeepsInv ==
  ASSUME Inv, NEW p \in Processes, Answer(p)
  PROVE  Inv'
<1> DEFINE pc == IF index.active # None /\ index.active.manifest = Current
                 THEN "unchanged" ELSE "manifest"
           r == [procs[p] EXCEPT !.pc = pc, !.manifest = Current, !.inventory = records]
<1>1. TypeOK /\ procs[p] \in Proc /\ procs[p].pc = "claimed"
  BY DEF Answer, Inv, TypeOK
<1>2. Current \in Manifest
  <2>1. /\ authorization \in 1..MaxAuthorization /\ now \in 0..MaxTime
        /\ release \in [Parts -> [sequence : 0..MaxSequence, content : Contents]]
    BY <1>1 DEF TypeOK, FeedTypeOK
  <2> QED
    BY <2>1 DEF Current, Manifest
<1>3. records \subseteq Bundle /\ pc \in {"unchanged", "manifest"}
  BY <1>1 DEF TypeOK
<1>4. procs' = [procs EXCEPT ![p] = r]
  BY DEF Answer
<1> HIDE DEF pc
<1>5. /\ r \in Proc /\ r.pc = pc /\ r.manifest = Current /\ r.inventory = records
      /\ r.generation = procs[p].generation /\ r.epoch = procs[p].epoch
      /\ r.refs = procs[p].refs
  BY <1>1, <1>2, <1>3 DEF Proc, Pcs
<1> HIDE DEF r
<1>6. UNCHANGED <<feed, index, records, call, now, events, faults, epoch, newest>>
  BY DEF Answer
<1>7. ASSUME procs'[p] = r PROVE Settles(p)
  <2>1. Shape(procs[p]) /\ Fits(procs[p])
    BY DEF Inv, ProcInv
  <2>2. Shape(procs[p])'
    BY <1>1, <1>2, <1>3, <1>5, <1>7, <2>1 DEF Shape
  <2>3. \A b \in records : b.generation <= index.generation
    BY DEF Inv, IndexInv
  <2>4. Fits(procs[p])'
    BY <1>1, <1>3, <1>5, <1>6, <1>7, <2>1, <2>3 DEF Fits
  <2> QED
    BY <1>3, <1>5, <1>7, <2>2, <2>4 DEF Settles
<1>8. faults' \in 0..MaxFaults
  BY <1>1, <1>6 DEF TypeOK
<1> QED
  BY <1>4, <1>5, <1>6, <1>7, <1>8, LocalKeepsInv

LEMMA InterruptKeepsInv ==
  ASSUME Inv, NEW p \in Processes, Interrupt(p)
  PROVE  Inv'
<1>1. PICK code \in {"identity-unavailable", "unavailable", "other"} :
        procs' = [procs EXCEPT ![p] = Failing(p, code)]
  BY DEF Interrupt
<1>2. TypeOK /\ code \in Codes
  BY DEF Inv, Codes
<1>3. /\ UNCHANGED <<feed, index, records, call, now, events, epoch, newest>>
      /\ procs[p].pc \notin {"idle", "purging"}
  BY DEF Interrupt
<1>4. Failing(p, code) \in Proc
  BY <1>2, FailingType
<1>5. Moves
  BY <1>3, StandStill
<1>6. procs'[p] = Failing(p, code) => Settles(p)
  BY <1>2, <1>3, <1>5, FailingType, FailingSettles
<1>7. faults' \in 0..MaxFaults
  BY <1>2, CacheBoundAssumption DEF TypeOK, Interrupt, Fault
<1> QED
  BY <1>1, <1>3, <1>4, <1>6, <1>7, LocalKeepsInv

\* A process that comes to rest.
LEMMA RestKeepsInv ==
  ASSUME Inv, NEW p \in Processes, NEW d \in BOOLEAN, procs' = [procs EXCEPT ![p] = Idle(d)],
         UNCHANGED <<feed, index, records, call, now, events, epoch, newest>>,
         faults' \in 0..MaxFaults
  PROVE  Inv'
<1>1. Idle(d) \in Proc
  BY IdleType
<1>2. TypeOK'
  <2>1. procs' \in [Processes -> Proc]
    BY <1>1, UpdateProc DEF Inv
  <2> QED
    BY <2>1 DEF Inv, TypeOK, FeedTypeOK, feed
<1>3. procs'[p] = Idle(d) => Settles(p)
  BY <1>2, IdleSettles
<1> QED
  BY <1>1, <1>3, LocalKeepsInv

LEMMA DeniedType ==
  ASSUME TypeOK, NEW p \in Processes
  PROVE  procs[p].denied \in BOOLEAN
  BY DEF TypeOK, Proc

LEMMA LeaveKeepsInv ==
  ASSUME Inv, NEW p \in Processes, Leave(p)
  PROVE  Inv'
<1>1. procs[p].denied \in BOOLEAN
  BY DeniedType DEF Inv
<1>2. procs' = [procs EXCEPT ![p] = Idle(procs[p].denied)]
  BY DEF Leave
<1>3. /\ UNCHANGED <<feed, index, records, call, now, events, epoch, newest>>
      /\ faults' \in 0..MaxFaults
  BY DEF Leave, Inv, TypeOK
<1> QED
  BY <1>1, <1>2, <1>3, RestKeepsInv

LEMMA CrashKeepsInv ==
  ASSUME Inv, NEW p \in Processes, Crash(p)
  PROVE  Inv'
<1>1. /\ procs' = [procs EXCEPT ![p] = Idle(FALSE)]
      /\ UNCHANGED <<feed, index, records, call, now, events, epoch, newest>>
  BY DEF Crash
<1>2. faults' \in 0..MaxFaults
  BY CacheBoundAssumption DEF Crash, Fault, Inv, TypeOK
<1> QED
  BY <1>1, <1>2, RestKeepsInv

\* A bundle that was answered is on its way to the store.
LEMMA StagingKeepsInv ==
  ASSUME Inv, NEW p \in Processes, NEW part \in Parts, NEW r,
         procs[p].pc = "fetching", part \in procs[p].todo,
         r = [procs[p] EXCEPT !.pc = "staging", !.todo = procs[p].todo \ {part}],
         procs' = [procs EXCEPT ![p] = r],
         UNCHANGED <<feed, index, records, call, now, events, faults, epoch, newest>>
  PROVE  Inv'
<1>1. TypeOK /\ procs[p] \in Proc
  BY DEF Inv, TypeOK
<1>2. /\ r \in Proc /\ r.pc = "staging" /\ r.todo = procs[p].todo \ {part}
      /\ r.refs = procs[p].refs /\ r.manifest = procs[p].manifest
      /\ r.generation = procs[p].generation /\ r.inventory = procs[p].inventory
      /\ r.epoch = procs[p].epoch
  BY <1>1 DEF Proc, Pcs
<1>3. ASSUME procs'[p] = r PROVE Settles(p)
  <2>1. Shape(procs[p]) /\ Fits(procs[p])
    BY DEF Inv, ProcInv
  <2>2. Fits(procs[p])'
    BY <1>2, <1>3, <2>1 DEF Fits
  <2>3. DOMAIN r.refs = Parts \ procs[p].todo /\ r.manifest \in Manifest
    BY <1>2, <2>1 DEF Shape
  <2>4. part \in Parts \ r.todo /\ DOMAIN r.refs = (Parts \ r.todo) \ {part}
    BY <1>2, <2>3
  <2>5. \A q \in DOMAIN r.refs :
          r.refs[q].part = q /\ r.refs[q].content = r.manifest.parts[q].content
    BY <1>2, <2>1 DEF Shape
  <2>6. Shape(procs[p])'
    BY <1>2, <1>3, <2>3, <2>4, <2>5 DEF Shape
  <2> QED
    BY <1>2, <1>3, <2>2, <2>6 DEF Settles
<1>4. faults' \in 0..MaxFaults
  BY <1>1 DEF TypeOK
<1> QED
  BY <1>2, <1>3, <1>4, LocalKeepsInv

LEMMA DownloadKeepsInv ==
  ASSUME Inv, NEW p \in Processes, NEW part \in Parts, Download(p, part)
  PROVE  Inv'
<1>1. /\ procs[p].pc = "fetching" /\ part \in procs[p].todo
      /\ UNCHANGED <<feed, index, records, call, now, events, faults, epoch, newest>>
  BY DEF Download, Following
<1>2. ASSUME NEW code \in Codes, procs' = [procs EXCEPT ![p] = Failing(p, code)] PROVE Inv'
  <2>1. Abort(p, code)
    BY <1>1, <1>2 DEF Abort
  <2> QED
    BY <1>1, <2>1, AbortKeepsInv
<1>3. CASE procs' = [procs EXCEPT ![p] = [procs[p] EXCEPT !.pc = "staging", !.todo = @ \ {part}]]
  BY <1>1, <1>3, StagingKeepsInv
<1>4. {"other", "unavailable", "revoked"} \subseteq Codes
  BY DEF Codes
<1> QED
  BY <1>2, <1>3, <1>4 DEF Download

LEMMA PurgeKeepsInv ==
  ASSUME Inv, NEW p \in Processes, Purge(p)
  PROVE  Inv'
<1>1. /\ procs[p].pc = "purging" /\ records' = records \ procs[p].inventory
      /\ procs' = [procs EXCEPT ![p] = Idle(procs[p].denied)]
      /\ UNCHANGED <<feed, index, call, now, events, faults, epoch, newest>>
  BY DEF Purge
<1>2. TypeOK /\ procs[p].denied \in BOOLEAN
  BY DeniedType DEF Inv
<1>3. Idle(procs[p].denied) \in Proc
  BY <1>2, IdleType
<1>4. /\ procs' \in [Processes -> Proc] /\ procs'[p] = Idle(procs[p].denied)
      /\ \A q \in Processes : q # p => procs'[q] = procs[q]
  BY <1>1, <1>2, <1>3, UpdateProc
<1>5. TypeOK'
  BY <1>1, <1>2, <1>4 DEF TypeOK, FeedTypeOK, feed
<1>6. Moves
  BY <1>1, StandStill
<1>7. Settles(p) /\ procs'[p].pc = "idle"
  BY <1>2, <1>4, <1>5, IdleSettles DEF Idle
<1>8. ProcInv'
  <2> SUFFICES ASSUME NEW q \in Processes PROVE Shape(procs[q])' /\ Fits(procs[q])'
    BY DEF ProcInv
  <2>1. CASE q = p
    BY <1>7, <2>1 DEF Settles
  <2>2. CASE q # p
    BY <1>4, <1>5, <1>6, <2>2, OthersFit
  <2> QED
    BY <2>1, <2>2
<1>9. CallInv'
  BY <1>1, <1>6, CallKept
<1>10. IndexInv' /\ FloorsInv' /\ NoRollback'
  BY <1>1 DEF Inv, IndexInv, FloorsInv, NoRollback
<1>11. UseIsSafe'
  <2> SUFFICES ASSUME NEW b \in Bundle, InUse(b)'
               PROVE  /\ b \in records'
                      /\ \A q \in Processes : procs'[q].pc = "purging" => b \notin procs'[q].inventory
    BY DEF UseIsSafe
  <2>1. InUse(b)
    <3>1. CASE index'.active # None /\ \E part \in Parts : b = index'.active.refs[part]
      BY <1>1, <3>1 DEF InUse
    <3>2. ASSUME NEW q \in Processes, Mine(q)', procs'[q].pc \in {"fetching", "staging"},
                 NEW part \in DOMAIN procs'[q].refs, b = procs'[q].refs[part]
          PROVE  InUse(b)
      <4>1. q # p /\ procs'[q] = procs[q]
        BY <1>4, <1>7, <3>2
      <4>2. Mine(q)
        BY <1>1, <3>2, <4>1 DEF Mine
      <4> QED
        BY <3>2, <4>1, <4>2 DEF InUse
    <3> QED
      BY <3>1, <3>2 DEF InUse
  <2>2. b \in records /\ \A q \in Processes : procs[q].pc = "purging" => b \notin procs[q].inventory
    BY <2>1 DEF Inv, UseIsSafe
  <2>3. \A q \in Processes : procs'[q].pc = "purging" => procs'[q] = procs[q]
    BY <1>4, <1>7
  <2> QED
    BY <1>1, <2>2, <2>3
<1> QED
  BY <1>5, <1>8, <1>9, <1>10, <1>11 DEF Inv

-----------------------------------------------------------------------------
(* Writes of the index that activate nothing *)

LEMMA BeginKeepsInv ==
  ASSUME Inv, NEW p \in Processes, Begin(p)
  PROVE  Inv'
<1> DEFINE next == [index EXCEPT !.generation = index.generation + 1, !.claim = p, !.live = TRUE]
           done == [procs[p] EXCEPT !.pc = "claimed", !.generation = index.generation + 1,
                                    !.epoch = epoch]
<1>1. TypeOK /\ index \in Index /\ procs[p] \in Proc /\ epoch \in Nat
  BY DEF Inv, TypeOK, FloorsInv
<1>2. /\ procs[p].pc = "idle" /\ index.status = "enabled"
      /\ index.generation < MaxGeneration
      /\ UNCHANGED <<feed, records, call, now, events, epoch, newest>>
  BY DEF Begin
<1>3. Put(p, next, done, procs[p])
  BY Zenon DEF Begin
<1>4. index.generation + 1 \in Generations /\ index.generation \in Nat
  BY <1>1, <1>2, CacheBoundAssumption DEF Index, Generations
<1>5. /\ next \in Index /\ next.claim = p /\ next.status = "enabled"
      /\ next.generation = index.generation + 1
      /\ next.active = index.active /\ next.floors = index.floors
  BY <1>1, <1>2, <1>4 DEF Index
<1>6. /\ done \in Proc /\ done.pc = "claimed" /\ done.generation = index.generation + 1
      /\ done.epoch = epoch /\ done.refs = procs[p].refs /\ done.inventory = procs[p].inventory
  BY <1>1, <1>4 DEF Proc, Pcs
<1> HIDE DEF next, done
<1>7. TypeOK'
  BY <1>1, <1>2, <1>3, <1>5, <1>6, PutType
<1>8. index' \in {index, next}
  BY <1>3 DEF Put
<1>9. Moves
  <2>1. \A part \in Parts : index.floors.sequences[part] \in Nat
    BY <1>1, Numbers
  <2>2. CASE index' = index
    BY <1>2, <2>2, StandStill
  <2>3. CASE index' = next
    BY <1>2, <1>5, <2>1, <2>3 DEF Moves
  <2> QED
    BY <1>8, <2>2, <2>3
<1>10. CallInv'
  BY <1>2, <1>9, CallKept
<1>11. ASSUME index' = next, procs'[p] = done PROVE Settles(p)
  <2>1. Shape(procs[p]) /\ Fits(procs[p])
    BY DEF Inv, ProcInv
  <2>2. Shape(procs[p])'
    BY <1>2, <1>6, <1>11, <2>1 DEF Shape
  <2>3. \A b \in procs[p].inventory : b.generation \in Nat /\ b.generation <= index.generation
    BY <1>1, <2>1, Numbers DEF Fits
  <2>4. Fits(procs[p])'
    BY <1>2, <1>4, <1>5, <1>6, <1>11, <2>3 DEF Fits
  <2> QED
    BY <1>6, <1>11, <2>2, <2>4 DEF Settles
<1> QED
  BY <1>1, <1>2, <1>3, <1>6, <1>7, <1>9, <1>10, <1>11, PutKeepsInv

\* A synchronization that gives its claim up, having succeeded or not.
LEMMA GivingUp ==
  ASSUME Inv, NEW next, index' \in {index, next}, epoch' = epoch,
         next.generation = index.generation, next.claim = None,
         next.status = index.status, next.active = index.active,
         next.floors = index.floors
  PROVE  Moves
<1>1. \A part \in Parts : index.floors.sequences[part] \in Nat
  BY Numbers DEF Inv
<1>2. CASE index' = index
  BY <1>2, StandStill
<1>3. CASE index' = next
  BY <1>1, <1>3 DEF Moves, Inv, IndexInv
<1> QED
  BY <1>2, <1>3

LEMMA SynchronizedType ==
  ASSUME TypeOK
  PROVE  /\ Synchronized \in Index /\ Synchronized.claim = None
         /\ Synchronized.generation = index.generation
         /\ Synchronized.status = index.status /\ Synchronized.active = index.active
         /\ Synchronized.floors = index.floors
<1>1. index \in Index
  BY DEF TypeOK
<1> QED
  BY <1>1 DEF Synchronized, Index

LEMMA ConfirmKeepsInv ==
  ASSUME Inv, NEW p \in Processes, Confirm(p)
  PROVE  Inv'
<1>1. TypeOK /\ "other" \in Codes
  BY DEF Inv, Codes
<1>2. /\ procs[p].pc = "unchanged"
      /\ Put(p, Synchronized, Idle(FALSE), Failing(p, "other"))
      /\ UNCHANGED <<feed, records, call, now, events, epoch, newest>>
  BY DEF Confirm
<1>3. /\ Synchronized \in Index /\ Synchronized.claim = None
      /\ Synchronized.generation = index.generation
      /\ Synchronized.status = index.status /\ Synchronized.active = index.active
      /\ Synchronized.floors = index.floors
  BY <1>1, SynchronizedType
<1>4. Idle(FALSE) \in Proc /\ Failing(p, "other") \in Proc
  BY <1>1, IdleType, FailingType
<1>5. TypeOK'
  BY <1>1, <1>2, <1>3, <1>4, PutType
<1>6. index' \in {index, Synchronized}
  BY <1>2 DEF Put
<1>7. Moves
  BY <1>2, <1>3, <1>6, GivingUp
<1>8. CallInv'
  BY <1>2, <1>7, CallKept
<1>9. procs'[p] = Idle(FALSE) => Settles(p)
  BY <1>5, IdleSettles
<1>10. procs'[p] = Failing(p, "other") => Settles(p)
  BY <1>1, <1>2, <1>7, FailingType, FailingSettles
<1> QED
  BY <1>2, <1>4, <1>5, <1>7, <1>8, <1>9, <1>10, PutKeepsInv

\* Ends of a synchronization that failed.
LEMMA GivenUpKeepsInv ==
  ASSUME Inv, NEW p \in Processes, NEW next \in Index,
         Put(p, next, Idle(procs[p].denied), Idle(procs[p].denied)),
         next.generation = index.generation, next.claim = None,
         next.status = index.status, next.active = index.active,
         next.floors = index.floors,
         UNCHANGED <<feed, records, call, now, events, epoch, newest>>
  PROVE  Inv'
<1>1. TypeOK /\ procs[p].denied \in BOOLEAN
  BY DeniedType DEF Inv
<1>2. Idle(procs[p].denied) \in Proc
  BY <1>1, IdleType
<1>3. TypeOK'
  BY <1>1, <1>2, PutType
<1>4. Moves
  BY GivingUp DEF Put
<1>5. CallInv'
  BY <1>4, CallKept
<1>6. procs'[p] = Idle(procs[p].denied) => Settles(p)
  BY <1>1, <1>3, IdleSettles
<1> QED
  BY <1>2, <1>3, <1>4, <1>5, <1>6, PutKeepsInv

LEMMA UnidentifiedType ==
  ASSUME index \in Index
  PROVE  /\ Unidentified \in Index /\ Unidentified.generation = index.generation
         /\ Unidentified.claim = None /\ Unidentified.status = index.status
         /\ Unidentified.active = index.active /\ Unidentified.floors = index.floors
<1>1. Unidentified = [index EXCEPT !.identityUnavailable = TRUE, !.claim = None, !.live = FALSE]
  BY Zenon DEF Unidentified
<1> QED
  BY <1>1 DEF Index

LEMMA SettleIdentityKeepsInv ==
  ASSUME Inv, NEW p \in Processes, SettleIdentity(p)
  PROVE  Inv'
<1>1. index \in Index
  BY DEF Inv, TypeOK
<1>2. /\ Put(p, Unidentified, Idle(procs[p].denied), Idle(procs[p].denied))
      /\ UNCHANGED <<feed, records, call, now, events, epoch, newest>>
  BY DEF SettleIdentity
<1> QED
  BY <1>1, <1>2, UnidentifiedType, GivenUpKeepsInv

LEMMA SettleFailureKeepsInv ==
  ASSUME Inv, NEW p \in Processes, SettleFailure(p)
  PROVE  Inv'
<1> DEFINE next == [index EXCEPT !.claim = None, !.live = FALSE,
                                 !.syncFailed = index.syncFailed \/ procs[p].code = "unavailable"]
<1>1. index \in Index
  BY DEF Inv, TypeOK
<1>2. /\ Put(p, next, Idle(procs[p].denied), Idle(procs[p].denied))
      /\ UNCHANGED <<feed, records, call, now, events, epoch, newest>>
  BY Zenon DEF SettleFailure
<1>3. (index.syncFailed \/ procs[p].code = "unavailable") \in BOOLEAN
  OBVIOUS
<1>4. /\ next \in Index /\ next.generation = index.generation /\ next.claim = None
      /\ next.status = index.status /\ next.active = index.active /\ next.floors = index.floors
  BY <1>1, <1>3 DEF Index
<1> HIDE DEF next
<1> QED
  BY <1>2, <1>4, GivenUpKeepsInv

\* The connection is closed: its snapshot goes, and with it every claim.
LEMMA ClosedType ==
  ASSUME TypeOK, NEW status \in {"disconnected", "revoked"}, index.generation < MaxGeneration
  PROVE  /\ Closed(status) \in Index /\ Closed(status).generation = index.generation + 1
         /\ Closed(status).claim = None /\ Closed(status).active = None
         /\ Closed(status).status = status /\ Closed(status).floors = index.floors
<1>1. index \in Index
  BY DEF TypeOK
<1>2. index.generation + 1 \in Generations
  BY <1>1, CacheBoundAssumption DEF Index, Generations
<1>3. Closed(status) = [index EXCEPT !.generation = index.generation + 1, !.status = status,
                                     !.claim = None, !.live = FALSE, !.active = None]
  BY Zenon DEF Closed
<1> QED
  BY <1>1, <1>2, <1>3 DEF Index

LEMMA CloseKeepsInv ==
  ASSUME Inv, NEW p \in Processes, NEW status \in {"disconnected", "revoked"},
         index.generation < MaxGeneration,
         Put(p, Closed(status), Cleaning(p, records, TRUE), Idle(TRUE)),
         epoch' = IF index'.generation # index.generation THEN epoch + 1 ELSE epoch,
         call' \in {call, None},
         UNCHANGED <<feed, records, now, events, newest>>
  PROVE  Inv'
<1>1. TypeOK /\ records \subseteq Bundle
  BY DEF Inv, TypeOK
<1>2. /\ Closed(status) \in Index /\ Closed(status).generation = index.generation + 1
      /\ Closed(status).claim = None /\ Closed(status).active = None
      /\ Closed(status).status = status /\ Closed(status).floors = index.floors
  BY <1>1, ClosedType
<1>3. Cleaning(p, records, TRUE) \in Proc /\ Idle(TRUE) \in Proc
  BY <1>1, CleaningType, IdleType
<1>4. TypeOK'
  BY <1>1, <1>2, <1>3, PutType
<1>5. Moves
  <2>1. index.generation \in Nat /\ \A part \in Parts : index.floors.sequences[part] \in Nat
    BY <1>1, Numbers
  <2>2. CASE index' = index
    BY <2>2, StandStill
  <2>3. CASE index' = Closed(status)
    BY <1>2, <2>1, <2>3 DEF Moves
  <2> QED
    BY <2>2, <2>3 DEF Put
<1>6. CallInv'
  BY <1>5, CallKept
<1>7. index' = Closed(status) /\ procs'[p] = Cleaning(p, records, TRUE) => Settles(p)
  BY <1>2, <1>4, <1>5, CleaningSettles
<1>8. procs'[p] = Idle(TRUE) => Settles(p)
  BY <1>4, IdleSettles
<1> QED
  BY <1>3, <1>4, <1>5, <1>6, <1>7, <1>8, PutKeepsInv

\* An enabled connection is revoked, so the status tells which write it was.
LEMMA RevokedEpoch ==
  ASSUME Inv, NEW p \in Processes, index.status = "enabled", index.generation < MaxGeneration,
         Put(p, Closed("revoked"), Cleaning(p, records, TRUE), Idle(TRUE)),
         epoch' = IF index'.status = "revoked" THEN epoch + 1 ELSE epoch
  PROVE  epoch' = IF index'.generation # index.generation THEN epoch + 1 ELSE epoch
<1>1. /\ Closed("revoked").status = "revoked"
      /\ Closed("revoked").generation = index.generation + 1 /\ index.generation \in Nat
  BY ClosedType, Numbers DEF Inv
<1>2. index' \in {index, Closed("revoked")}
  BY DEF Put
<1> QED
  BY <1>1, <1>2

LEMMA SettleDeniedKeepsInv ==
  ASSUME Inv, NEW p \in Processes, SettleDenied(p)
  PROVE  Inv'
<1>1. /\ Mine(p) /\ index.generation < MaxGeneration
      /\ Put(p, Closed("revoked"), Cleaning(p, records, TRUE), Idle(TRUE))
      /\ epoch' = IF index'.status = "revoked" THEN epoch + 1 ELSE epoch
      /\ UNCHANGED <<feed, records, call, now, events, newest>>
  BY DEF SettleDenied
<1>2. index.status = "enabled"
  BY <1>1, NoneAssumption DEF Mine, Inv, TypeOK
<1>3. epoch' = IF index'.generation # index.generation THEN epoch + 1 ELSE epoch
  BY <1>1, <1>2, RevokedEpoch
<1> QED
  BY <1>1, <1>3, CloseKeepsInv

LEMMA DisableKeepsInv ==
  ASSUME Inv, NEW p \in Processes, Disable(p)
  PROVE  Inv'
  BY CloseKeepsInv DEF Disable

\* Which claim it was does not matter to a refusal for want of an identity.
LEMMA UnidentifiedKeepsInv ==
  ASSUME Inv, NEW p \in Processes, procs[p].pc = "idle",
         Put(p, Unidentified, procs[p], procs[p]), call' = None,
         UNCHANGED <<feed, records, now, events, epoch, newest>>
  PROVE  Inv'
<1>1. TypeOK /\ index \in Index /\ procs[p] \in Proc
  BY DEF Inv, TypeOK
<1>2. TypeOK'
  BY <1>1, UnidentifiedType, PutType
<1>3. Moves
  BY <1>1, UnidentifiedType, GivingUp DEF Put
<1>4. CallInv'
  BY <1>3, CallKept
<1>5. procs' = procs
  BY <1>1 DEF Put, TypeOK
<1>6. UNCHANGED <<records, newest>>
  OBVIOUS
<1> QED
  BY <1>2, <1>3, <1>4, <1>5, <1>6, QuietKeepsInv

LEMMA RejectAuthorityKeepsInv ==
  ASSUME Inv, NEW p \in Processes, RejectAuthority(p)
  PROVE  Inv'
<1>1. /\ call # None /\ call' = None /\ procs[p].pc = "idle"
      /\ UNCHANGED <<feed, records, now, events, newest>>
  BY DEF RejectAuthority
<1>2. CASE ~CalledNow /\ UNCHANGED <<index, procs, faults, epoch>>
  <2>1. TypeOK'
    BY <1>1, <1>2 DEF Inv, TypeOK, FeedTypeOK, feed
  <2>2. Moves
    BY <1>2, StandStill
  <2>3. CallInv'
    BY <1>1, <2>2, CallKept
  <2> QED
    BY <1>1, <1>2, <2>1, <2>2, <2>3, QuietKeepsInv
<1>3. CASE Put(p, Unidentified, procs[p], procs[p]) /\ UNCHANGED epoch
  BY <1>1, <1>3, UnidentifiedKeepsInv
<1>4. CASE /\ CalledNow
           /\ index.generation < MaxGeneration
           /\ Put(p, Closed("revoked"), Cleaning(p, records, TRUE), Idle(TRUE))
           /\ epoch' = IF index'.status = "revoked" THEN epoch + 1 ELSE epoch
  <2>1. index.status = "enabled"
    BY <1>1, <1>4 DEF CalledNow, Inv, CallInv
  <2>2. epoch' = IF index'.generation # index.generation THEN epoch + 1 ELSE epoch
    BY <1>4, <2>1, RevokedEpoch
  <2> QED
    BY <1>1, <1>4, <2>2, CloseKeepsInv
<1> QED
  BY <1>2, <1>3, <1>4 DEF RejectAuthority

LEMMA ResumeKeepsInv ==
  ASSUME Inv, NEW p \in Processes, Resume(p)
  PROVE  Inv'
<1> DEFINE next == [index EXCEPT !.generation = index.generation + 1, !.status = "enabled",
                                 !.active = None]
<1>1. TypeOK /\ index \in Index /\ procs[p] \in Proc
  BY DEF Inv, TypeOK
<1>2. /\ index.status # "enabled" /\ index.generation < MaxGeneration
      /\ epoch' = IF index'.status = "enabled" THEN epoch + 1 ELSE epoch
      /\ UNCHANGED <<feed, records, call, now, events, newest>>
  BY DEF Resume
<1>3. Put(p, next, Idle(FALSE), procs[p])
  BY Zenon DEF Resume
<1>4. index.generation + 1 \in Generations
  BY <1>1, <1>2, CacheBoundAssumption DEF Index, Generations
<1>5. /\ next \in Index /\ next.status = "enabled" /\ next.active = None
      /\ next.generation = index.generation + 1 /\ next.floors = index.floors
  BY <1>1, <1>4 DEF Index
<1>6. Idle(FALSE) \in Proc
  BY IdleType
<1> HIDE DEF next
<1>7. TypeOK'
  BY <1>1, <1>2, <1>3, <1>5, <1>6, PutType
<1>8. Moves
  <2>1. \A part \in Parts : index.floors.sequences[part] \in Nat
    BY <1>1, Numbers
  <2>2. CASE index' = index
    BY <1>2, <2>2, StandStill
  <2>3. CASE index' = next
    BY <1>2, <1>5, <2>1, <2>3 DEF Moves
  <2> QED
    BY <1>3, <2>2, <2>3 DEF Put
<1>9. CallInv'
  BY <1>2, <1>8, CallKept
<1>10. procs'[p] = Idle(FALSE) => Settles(p)
  BY <1>7, IdleSettles
<1> QED
  BY <1>1, <1>2, <1>3, <1>6, <1>7, <1>8, <1>9, <1>10, PutKeepsInv

-----------------------------------------------------------------------------
(* Fetching and activating *)

LEMMA RaisedType ==
  ASSUME NEW floors \in Floors, NEW manifest \in Manifest,
         \A part \in Parts : manifest.parts[part].sequence >= floors.sequences[part]
  PROVE  /\ Raised(floors, manifest) \in Floors
         /\ \A part \in Parts :
              /\ Raised(floors, manifest).sequences[part] = manifest.parts[part].sequence
              /\ Raised(floors, manifest).sequences[part] \in Nat
              /\ floors.sequences[part] <= Raised(floors, manifest).sequences[part]
<1>1. MaxSequence \in Nat /\ MaxAuthorization \in Nat
  BY FeedBoundAssumption
<1>2. /\ manifest.authorization \in 1..MaxAuthorization
      /\ \A part \in Parts : manifest.parts[part].sequence \in 0..MaxSequence
  BY DEF Manifest
<1>3. \A part \in Parts : floors.sequences[part] \in 0..MaxSequence
  BY DEF Floors
<1>4. ASSUME NEW part \in Parts
      PROVE  Larger(floors.sequences[part], manifest.parts[part].sequence)
               = manifest.parts[part].sequence
  <2>1. /\ floors.sequences[part] \in Nat /\ manifest.parts[part].sequence \in Nat
        /\ manifest.parts[part].sequence >= floors.sequences[part]
    BY <1>1, <1>2, <1>3
  <2> QED
    BY <2>1 DEF Larger
<1>5. /\ Raised(floors, manifest).authorization = manifest.authorization
      /\ Raised(floors, manifest).sequences =
           [part \in Parts |-> Larger(floors.sequences[part], manifest.parts[part].sequence)]
  BY DEF Raised
<1>6. \A part \in Parts : Raised(floors, manifest).sequences[part] = manifest.parts[part].sequence
  BY <1>4, <1>5
<1>7. Raised(floors, manifest).sequences \in [Parts -> 0..MaxSequence]
  BY <1>2, <1>4, <1>5
<1>8. Raised(floors, manifest) \in Floors
  BY <1>1, <1>2, <1>5, <1>7 DEF Raised, Floors
<1> QED
  BY <1>1, <1>2, <1>3, <1>6, <1>8

LEMMA RaiseFloorsKeepsInv ==
  ASSUME Inv, NEW p \in Processes, RaiseFloors(p)
  PROVE  Inv'
<1> DEFINE raised == Raised(index.floors, procs[p].manifest)
           next == [index EXCEPT !.floors = raised]
           done == [procs[p] EXCEPT !.pc = "fetching", !.todo = Parts]
           broken == [Failing(p, "other") EXCEPT !.uncertain = TRUE]
<1>1. /\ TypeOK /\ index \in Index /\ procs[p] \in Proc
      /\ Shape(procs[p]) /\ Fits(procs[p])
  BY DEF Inv, TypeOK, ProcInv
<1>2. /\ procs[p].pc = "manifest" /\ CanAccept(p)
      /\ UNCHANGED <<feed, records, call, now, events, epoch, newest>>
  BY DEF RaiseFloors
<1>3. Put(p, next, done, broken)
  BY Zenon DEF RaiseFloors
<1>4. DOMAIN procs[p].refs = {} /\ procs[p].manifest \in Manifest
  BY <1>1, <1>2 DEF Shape
<1>5. \A part \in Parts : procs[p].manifest.parts[part].sequence >= index.floors.sequences[part]
  BY <1>2 DEF CanAccept, Verified
<1>6. raised \in Floors /\ \A part \in Parts : index.floors.sequences[part] <= raised.sequences[part]
  <2>1. index.floors \in Floors
    BY <1>1 DEF Index
  <2> QED
    BY <1>4, <1>5, <2>1, RaisedType
<1> HIDE DEF raised
<1>7. /\ next \in Index /\ next.generation = index.generation /\ next.claim = index.claim
      /\ next.status = index.status /\ next.active = index.active /\ next.floors = raised
  BY <1>1, <1>6 DEF Index
<1>8. /\ done \in Proc /\ done.pc = "fetching" /\ done.todo = Parts
      /\ done.refs = procs[p].refs /\ done.generation = procs[p].generation
      /\ done.manifest = procs[p].manifest
      /\ done.inventory = procs[p].inventory /\ done.epoch = procs[p].epoch
  BY <1>1 DEF Proc, Pcs
<1>9. /\ broken \in Proc /\ broken.pc = "failing"
      /\ broken.generation = procs[p].generation
      /\ broken.inventory = procs[p].inventory /\ broken.epoch = procs[p].epoch
  BY <1>1, UncertainType
<1> HIDE DEF next, done, broken
<1>10. TypeOK'
  <2>1. next.claim # None => next.status = "enabled"
    BY <1>1, <1>7 DEF TypeOK
  <2> QED
    BY <1>1, <1>2, <1>3, <1>7, <1>8, <1>9, <2>1, PutType
<1>11. Moves
  <2>1. CASE index' = index
    BY <1>2, <2>1, StandStill
  <2>2. CASE index' = next
    BY <1>2, <1>6, <1>7, <2>2 DEF Moves, Inv, IndexInv
  <2> QED
    BY <1>3, <2>1, <2>2 DEF Put
<1>12. CallInv'
  BY <1>2, <1>11, CallKept
<1>13. ASSUME index' = next, procs'[p] = done PROVE Settles(p)
  <2>1. Shape(procs[p])'
    BY <1>4, <1>8, <1>13 DEF Shape
  <2>2. Fits(procs[p])'
    BY <1>1, <1>2, <1>7, <1>8, <1>13 DEF Fits
  <2> QED
    BY <1>4, <1>8, <1>13, <2>1, <2>2 DEF Settles
<1>14. procs'[p] = broken => Settles(p)
  BY <1>2, <1>9, <1>11, FailingSettles
<1> QED
  BY <1>2, <1>3, <1>8, <1>9, <1>10, <1>11, <1>12, <1>13, <1>14, PutKeepsInv

\* A bundle of the manifest that is in the store, and that nobody deletes while
\* the claim is held, is what the synchronization needs.
LEMMA FetchKeepsInv ==
  ASSUME Inv, NEW p \in Processes, NEW part \in Parts, NEW bundle \in Bundle,
         procs[p].pc \in {"fetching", "staging"},
         part \notin DOMAIN procs[p].refs,
         DOMAIN procs[p].refs \cup {part} = Parts \ (procs[p].todo \ {part}),
         bundle.part = part, bundle.content = procs[p].manifest.parts[part].content,
         bundle.generation <= index.generation,
         Mine(p) => \A q \in Processes : procs[q].pc = "purging" => bundle \notin procs[q].inventory,
         procs' = [procs EXCEPT ![p] = Fetched(p, part, bundle)],
         bundle \in records', records' \in {records, records \cup {bundle}},
         UNCHANGED <<feed, index, call, now, events, faults, epoch, newest>>
  PROVE  Inv'
<1> DEFINE r == Fetched(p, part, bundle)
           refs == [q \in DOMAIN procs[p].refs \cup {part} |->
                      IF q = part THEN bundle ELSE procs[p].refs[q]]
<1>1. TypeOK /\ procs[p] \in Proc /\ Shape(procs[p]) /\ Fits(procs[p])
  BY DEF Inv, TypeOK, ProcInv
<1>2. PICK fetched \in SUBSET Parts : procs[p].refs \in [fetched -> Bundle]
  BY <1>1 DEF Proc
<1>3. /\ DOMAIN procs[p].refs = fetched
      /\ refs \in [fetched \cup {part} -> Bundle]
      /\ refs[part] = bundle
      /\ \A q \in fetched : refs[q] = procs[p].refs[q]
  BY <1>2
<1>4. fetched \cup {part} \in SUBSET Parts
  OBVIOUS
<1>5. refs \in UNION {[f -> Bundle] : f \in SUBSET Parts} /\ DOMAIN refs = fetched \cup {part}
  BY <1>3, <1>4
<1>6. r = [procs[p] EXCEPT !.todo = procs[p].todo \ {part}, !.pc = "fetching", !.refs = refs]
  BY Zenon DEF Fetched
<1> HIDE DEF refs, r
<1>7. /\ r \in Proc /\ r.pc = "fetching" /\ r.todo = procs[p].todo \ {part} /\ r.refs = refs
      /\ r.manifest = procs[p].manifest /\ r.generation = procs[p].generation
      /\ r.inventory = procs[p].inventory /\ r.epoch = procs[p].epoch
  BY <1>1, <1>5, <1>6 DEF Proc, Pcs
<1>8. /\ procs' \in [Processes -> Proc] /\ procs'[p] = r
      /\ \A q \in Processes : q # p => procs'[q] = procs[q]
  BY <1>1, <1>7, UpdateProc DEF r
<1>9. TypeOK'
  <2>1. records' \subseteq Bundle
    BY <1>1 DEF TypeOK
  <2> QED
    BY <1>1, <1>8, <2>1 DEF TypeOK, FeedTypeOK, feed
<1>10. Moves
  BY StandStill
<1>11. Shape(procs[p])' /\ Fits(procs[p])'
  <2>1. procs[p].manifest \in Manifest
    BY <1>1 DEF Shape
  <2>2. \A q \in fetched : procs[p].refs[q].part = q
                           /\ procs[p].refs[q].content = procs[p].manifest.parts[q].content
    BY <1>1, <1>3 DEF Shape
  <2>3. DOMAIN refs = Parts \ r.todo
    BY <1>3, <1>5, <1>7
  <2>4. \A q \in DOMAIN refs : refs[q].part = q
                               /\ refs[q].content = procs[p].manifest.parts[q].content
    BY <1>3, <1>5, <2>2
  <2>5. Shape(procs[p])'
    BY <1>7, <1>8, <2>1, <2>3, <2>4 DEF Shape
  <2>6. Fits(procs[p])'
    BY <1>1, <1>7, <1>8 DEF Fits
  <2> QED
    BY <2>5, <2>6
<1>12. ProcInv'
  <2> SUFFICES ASSUME NEW q \in Processes PROVE Shape(procs[q])' /\ Fits(procs[q])'
    BY DEF ProcInv
  <2>1. CASE q = p
    BY <1>11, <2>1
  <2>2. CASE q # p
    BY <1>8, <1>9, <1>10, <2>2, OthersFit
  <2> QED
    BY <2>1, <2>2
<1>13. CallInv'
  BY <1>10, CallKept
<1>14. IndexInv' /\ FloorsInv' /\ NoRollback'
  BY DEF Inv, IndexInv, FloorsInv, NoRollback
<1>15. UseIsSafe'
  <2> SUFFICES ASSUME NEW b \in Bundle, InUse(b)'
               PROVE  /\ b \in records'
                      /\ \A q \in Processes : procs'[q].pc = "purging" => b \notin procs'[q].inventory
    BY DEF UseIsSafe
  <2>1. InUse(b) \/ (b = bundle /\ Mine(p))
    <3>1. CASE index'.active # None /\ \E q \in Parts : b = index'.active.refs[q]
      BY <3>1 DEF InUse
    <3>2. ASSUME NEW q \in Processes, Mine(q)', procs'[q].pc \in {"fetching", "staging"},
                 NEW s \in DOMAIN procs'[q].refs, b = procs'[q].refs[s]
          PROVE  InUse(b) \/ (b = bundle /\ Mine(p))
      <4>1. Mine(q)
        <5>1. procs'[q].generation = procs[q].generation
          BY <1>7, <1>8
        <5> QED
          BY <3>2, <5>1 DEF Mine
      <4>2. CASE q # p
        BY <1>8, <3>2, <4>1, <4>2 DEF InUse
      <4>3. CASE q = p
        <5>1. s \in fetched \cup {part} /\ b = refs[s]
          BY <1>5, <1>7, <1>8, <3>2, <4>3
        <5>2. CASE s = part
          BY <1>3, <4>1, <4>3, <5>1, <5>2
        <5>3. CASE s \in fetched
          BY <1>3, <4>1, <4>3, <5>1, <5>3 DEF InUse
        <5> QED
          BY <5>1, <5>2, <5>3
      <4> QED
        BY <4>2, <4>3
    <3> QED
      BY <3>1, <3>2 DEF InUse
  <2>2. \A q \in Processes : procs'[q].pc = "purging" => procs'[q] = procs[q]
    BY <1>7, <1>8
  <2>3. CASE InUse(b)
    <3>1. b \in records /\ \A q \in Processes : procs[q].pc = "purging" => b \notin procs[q].inventory
      BY <2>3 DEF Inv, UseIsSafe
    <3> QED
      BY <2>2, <3>1
  <2>4. CASE b = bundle /\ Mine(p)
    BY <2>2, <2>4
  <2> QED
    BY <2>1, <2>3, <2>4
<1> QED
  BY <1>9, <1>12, <1>13, <1>14, <1>15 DEF Inv

LEMMA ReuseKeepsInv ==
  ASSUME Inv, NEW p \in Processes, NEW part \in Parts, Reuse(p, part)
  PROVE  Inv'
<1> DEFINE bundle == index.active.refs[part]
<1>1. /\ procs[p].pc = "fetching" /\ part \in procs[p].todo
      /\ Reusable(p, part)
      /\ UNCHANGED <<feed, index, records, call, now, events, faults, epoch, newest>>
  BY DEF Reuse, Following
<1>2. CASE bundle \in records /\ procs' = [procs EXCEPT ![p] = Fetched(p, part, bundle)]
  <2>1. /\ TypeOK /\ Shape(procs[p])
        /\ bundle \in Bundle /\ bundle.generation <= index.generation
    BY <1>2 DEF Inv, TypeOK, ProcInv, IndexInv
  <2>2. /\ index.active # None /\ bundle.part = part
        /\ bundle.content = procs[p].manifest.parts[part].content
    BY <1>1 DEF Reusable, Inv, IndexInv
  <2>3. DOMAIN procs[p].refs = Parts \ procs[p].todo
    BY <1>1, <2>1 DEF Shape
  <2>4. InUse(bundle)
    BY <2>2 DEF InUse
  <2>5. \A q \in Processes : procs[q].pc = "purging" => bundle \notin procs[q].inventory
    BY <2>1, <2>4 DEF Inv, UseIsSafe
  <2>6. /\ part \notin DOMAIN procs[p].refs
        /\ DOMAIN procs[p].refs \cup {part} = Parts \ (procs[p].todo \ {part})
    BY <1>1, <2>3
  <2> HIDE DEF bundle
  <2> QED
    BY <1>1, <1>2, <2>1, <2>2, <2>5, <2>6, FetchKeepsInv
<1>3. CASE procs' = [procs EXCEPT ![p] = Failing(p, "other")]
  <2>1. Abort(p, "other") /\ "other" \in Codes
    BY <1>1, <1>3 DEF Abort, Codes
  <2> QED
    BY <1>1, <2>1, AbortKeepsInv
<1> QED
  BY <1>2, <1>3 DEF Reuse

LEMMA StageKeepsInv ==
  ASSUME Inv, NEW p \in Processes, Stage(p)
  PROVE  Inv'
<1> DEFINE part == CHOOSE q \in Parts : q \notin procs[p].todo \cup DOMAIN procs[p].refs
<1>1. /\ procs[p].pc = "staging"
      /\ records' = records \cup {Staged(p, part)}
      /\ procs' = [procs EXCEPT ![p] = Fetched(p, part, Staged(p, part))]
      /\ UNCHANGED <<feed, index, call, now, events, faults, epoch, newest>>
  BY Zenon DEF Stage
<1>2. /\ TypeOK /\ procs[p] \in Proc /\ Shape(procs[p]) /\ Fits(procs[p])
  BY DEF Inv, TypeOK, ProcInv
<1>3. PICK s \in Parts \ procs[p].todo : DOMAIN procs[p].refs = (Parts \ procs[p].todo) \ {s}
  BY <1>1, <1>2 DEF Shape
<1>4. \A q \in Parts : q \notin procs[p].todo \cup DOMAIN procs[p].refs <=> q = s
  BY <1>3
<1>5. part \in Parts /\ part \notin procs[p].todo \cup DOMAIN procs[p].refs
  <2>1. \E q \in Parts : q \notin procs[p].todo \cup DOMAIN procs[p].refs
    BY <1>3, <1>4
  <2> QED
    BY <2>1, Zenon
<1>6. part = s
  BY <1>4, <1>5
<1> HIDE DEF part
<1>7. /\ part \in Parts /\ part \notin DOMAIN procs[p].refs
      /\ DOMAIN procs[p].refs \cup {part} = Parts \ (procs[p].todo \ {part})
  BY <1>3, <1>5, <1>6
<1>8. /\ procs[p].manifest \in Manifest /\ procs[p].generation \in Generations
  BY <1>1, <1>2 DEF Shape, Proc
<1>9. procs[p].manifest.parts[part].content \in Contents
  BY <1>7, <1>8 DEF Manifest
<1>10. /\ Staged(p, part) \in Bundle /\ Staged(p, part).part = part
       /\ Staged(p, part).content = procs[p].manifest.parts[part].content
       /\ Staged(p, part).generation = procs[p].generation
  BY <1>7, <1>8, <1>9 DEF Staged, Bundle
<1>11. Staged(p, part).generation <= index.generation
  BY <1>2, <1>10 DEF Fits
<1>12. ASSUME Mine(p), NEW q \in Processes, procs[q].pc = "purging"
       PROVE  Staged(p, part) \notin procs[q].inventory
  <2>1. index.claim # None /\ procs[p].generation = index.generation
    BY <1>12, NoneAssumption DEF Mine
  <2>2. Fits(procs[q]) /\ index.generation \in Nat
    BY <1>2, Numbers DEF Inv, ProcInv
  <2>3. \A b \in procs[q].inventory : b.generation < index.generation
    BY <1>12, <2>1, <2>2 DEF Fits
  <2> QED
    BY <1>10, <2>1, <2>2, <2>3
<1> QED
  BY <1>1, <1>7, <1>10, <1>11, <1>12, FetchKeepsInv

LEMMA ActivatedType ==
  ASSUME TypeOK, NEW p \in Processes, procs[p].manifest \in Manifest,
         procs[p].refs \in [Parts -> Bundle],
         \A part \in Parts : procs[p].manifest.parts[part].sequence >= index.floors.sequences[part]
  PROVE  /\ Activated(p) \in Index /\ Activated(p).claim = None
         /\ Activated(p).generation = index.generation
         /\ Activated(p).status = index.status
         /\ Activated(p).active = [manifest |-> procs[p].manifest, refs |-> procs[p].refs,
                                   epoch |-> procs[p].epoch]
         /\ Activated(p).floors.sequences = Raised(index.floors, procs[p].manifest).sequences
<1> DEFINE raised == Raised(index.floors, procs[p].manifest)
           floors == [index.floors EXCEPT !.sequences = raised.sequences]
           active == [manifest |-> procs[p].manifest, refs |-> procs[p].refs,
                      epoch |-> procs[p].epoch]
<1>1. index \in Index /\ index.floors \in Floors /\ procs[p].epoch \in Nat
  BY DEF TypeOK, Index, Proc
<1>2. /\ Synchronized \in Index /\ Synchronized.claim = None
      /\ Synchronized.generation = index.generation
      /\ Synchronized.status = index.status /\ Synchronized.floors = index.floors
  BY SynchronizedType
<1>3. raised \in Floors
  BY <1>1, RaisedType
<1> HIDE DEF raised
<1>4. floors \in Floors /\ floors.sequences = raised.sequences
  BY <1>1, <1>3 DEF Floors
<1>5. active \in Active
  BY <1>1 DEF Active
<1>6. Activated(p) = [Synchronized EXCEPT
                        !.floors = [Synchronized.floors EXCEPT !.sequences = raised.sequences],
                        !.active = active]
  BY Zenon DEF Activated, raised
<1>7. Activated(p) = [Synchronized EXCEPT !.floors = floors, !.active = active]
  BY <1>2, <1>6, Zenon
<1> HIDE DEF floors, active
<1>8. /\ Activated(p) \in Index /\ Activated(p).claim = None
      /\ Activated(p).generation = index.generation
      /\ Activated(p).status = index.status
      /\ Activated(p).active = active /\ Activated(p).floors = floors
  BY <1>2, <1>4, <1>5, <1>7 DEF Index
<1> QED
  BY <1>4, <1>8 DEF active, raised

\* The new snapshot consists of bundles that were needed before, at least as
\* new as any that was active; what the process goes on to delete is not among them.
LEMMA ActivatedKeepsInv ==
  ASSUME Inv, TypeOK', NEW p \in Processes,
         procs[p].pc = "fetching", procs[p].todo = {}, CanAccept(p),
         index' = Activated(p),
         procs'[p] \in {Cleaning(p, Garbage(p), procs[p].denied), Failing(p, "other")},
         \A q \in Processes : q # p => procs'[q] = procs[q],
         newest' = IF index'.active # index.active THEN Raised(newest, procs[p].manifest) ELSE newest,
         UNCHANGED <<records, call, epoch>>
  PROVE  Inv'
<1> DEFINE manifest == procs[p].manifest
<1>1. /\ TypeOK /\ procs[p] \in Proc /\ Shape(procs[p]) /\ Fits(procs[p]) /\ Mine(p)
      /\ IndexInv /\ FloorsInv /\ NoRollback
  BY DEF Inv, TypeOK, ProcInv, CanAccept, Owned, Mine
<1>2. /\ manifest \in Manifest /\ DOMAIN procs[p].refs = Parts
      /\ \A part \in Parts : /\ procs[p].refs[part].part = part
                             /\ procs[p].refs[part].content = manifest.parts[part].content
  BY <1>1 DEF Shape
<1>3. procs[p].refs \in [Parts -> Bundle]
  BY <1>1, <1>2 DEF Proc
<1>4. \A part \in Parts : manifest.parts[part].sequence >= index.floors.sequences[part]
  BY DEF CanAccept, Verified
<1>5. /\ index'.claim = None /\ index'.generation = index.generation
      /\ index'.status = index.status /\ index.status = "enabled"
      /\ index'.active = [manifest |-> manifest, refs |-> procs[p].refs, epoch |-> procs[p].epoch]
      /\ index'.floors.sequences = Raised(index.floors, manifest).sequences
  BY <1>1, <1>2, <1>3, <1>4, ActivatedType DEF CanAccept, Owned
<1>6. /\ index'.active.manifest = manifest /\ index'.active.refs = procs[p].refs
      /\ index'.active.epoch = epoch
  <2>1. procs[p].epoch = epoch
    BY <1>1 DEF Fits, Mine
  <2> QED
    BY <1>5, <2>1
<1>7. \/ /\ procs'[p].pc = "purging" /\ procs'[p].generation = 0
         /\ procs'[p].inventory = Garbage(p) /\ DOMAIN procs'[p].refs = {}
      \/ /\ procs'[p].pc = "failing" /\ procs'[p].generation = procs[p].generation
         /\ procs'[p].inventory = procs[p].inventory /\ procs'[p].epoch = procs[p].epoch
  <2>1. CASE procs'[p] = Cleaning(p, Garbage(p), procs[p].denied)
    BY <2>1, NothingFetched DEF Cleaning, Idle
  <2>2. CASE procs'[p] = Failing(p, "other")
    <3>1. "other" \in Codes
      BY DEF Codes
    <3> QED
      BY <1>1, <2>2, <3>1, FailingType
  <2> QED
    BY <2>1, <2>2
<1>8. ProcInv'
  <2> SUFFICES ASSUME NEW q \in Processes PROVE Shape(procs[q])' /\ Fits(procs[q])'
    BY DEF ProcInv
  <2>1. CASE q = p
    <3>1. Shape(procs[q])'
      BY <1>7, <2>1 DEF Shape
    <3>2. \A b \in procs'[p].inventory : b \in procs[p].inventory
      BY <1>7 DEF Garbage
    <3>3. \A b \in procs'[p].inventory : b.generation <= index'.generation
      BY <1>1, <1>5, <3>2 DEF Fits
    <3>4. index.generation \in Nat
      BY <1>1, Numbers
    <3>5. Fits(procs[q])'
      BY <1>1, <1>5, <1>7, <2>1, <3>3, <3>4 DEF Fits
    <3> QED
      BY <3>1, <3>5
  <2>2. CASE q # p
    <3>1. Shape(procs[q]) /\ Fits(procs[q]) /\ procs'[q] = procs[q]
      BY <2>2 DEF Inv, ProcInv
    <3>2. Shape(procs[q])'
      BY <3>1 DEF Shape
    <3>3. Fits(procs[q])'
      BY <1>5, <3>1 DEF Fits
    <3> QED
      BY <3>2, <3>3
  <2> QED
    BY <2>1, <2>2
<1>9. CallInv'
  BY <1>5 DEF Inv, CallInv
<1>10. IndexInv'
  BY <1>1, <1>2, <1>5, <1>6 DEF IndexInv
<1>11. index.floors \in Floors /\ newest \in Floors
  BY <1>1 DEF TypeOK, Index, FloorsInv
<1>12. ASSUME NEW part \in Parts
       PROVE  /\ newest.sequences[part] \in Nat /\ index.floors.sequences[part] \in Nat
              /\ manifest.parts[part].sequence \in Nat
              /\ manifest.parts[part].sequence >= newest.sequences[part]
  <2>1. newest.sequences[part] \in Nat /\ index.floors.sequences[part] \in Nat
    BY <1>11, FeedBoundAssumption DEF Floors
  <2>2. manifest.parts[part].sequence \in Nat
    BY <1>2, FeedBoundAssumption DEF Manifest
  <2> QED
    BY <1>1, <1>4, <2>1, <2>2 DEF FloorsInv
<1>13. /\ Raised(newest, manifest) \in Floors
       /\ \A part \in Parts :
            /\ Raised(newest, manifest).sequences[part] = manifest.parts[part].sequence
            /\ Raised(index.floors, manifest).sequences[part] = manifest.parts[part].sequence
  BY <1>2, <1>4, <1>11, <1>12, RaisedType
<1>14. FloorsInv'
  <2>1. newest' \in Floors
    BY <1>11, <1>13
  <2>2. ASSUME NEW part \in Parts
        PROVE  newest'.sequences[part] <= index'.floors.sequences[part]
    <3>1. index'.floors.sequences[part] = manifest.parts[part].sequence
      BY <1>5, <1>13
    <3>2. newest'.sequences[part] \in {newest.sequences[part], manifest.parts[part].sequence}
      BY <1>13
    <3> QED
      BY <1>12, <3>1, <3>2
  <2> QED
    BY <1>1, <2>1, <2>2 DEF FloorsInv
<1>15. NoRollback'
  <2>1. CASE index'.active = index.active
    BY <1>1, <2>1 DEF NoRollback
  <2>2. CASE newest' = Raised(newest, manifest)
    <3>1. newest'.authorization = manifest.authorization
      BY <2>2 DEF Raised
    <3>2. manifest.authorization \in Nat
      BY <1>2, FeedBoundAssumption DEF Manifest
    <3>3. \A part \in Parts : manifest.parts[part].sequence >= newest'.sequences[part]
      BY <1>12, <1>13, <2>2
    <3> QED
      BY <1>6, <3>1, <3>2, <3>3 DEF NoRollback
  <2> QED
    BY <2>1, <2>2
<1>16. UseIsSafe'
  <2> SUFFICES ASSUME NEW b \in Bundle, InUse(b)'
               PROVE  /\ b \in records
                      /\ \A q \in Processes : procs'[q].pc = "purging" => b \notin procs'[q].inventory
    BY DEF UseIsSafe
  <2>1. \A q \in Processes : ~Mine(q)'
    BY <1>5, NoneAssumption DEF Mine
  <2>2. PICK part \in Parts : b = procs[p].refs[part]
    BY <1>6, <2>1 DEF InUse
  <2>3. InUse(b)
    BY <1>1, <1>2, <2>2 DEF InUse
  <2>4. b \in records /\ \A q \in Processes : procs[q].pc = "purging" => b \notin procs[q].inventory
    BY <2>3 DEF Inv, UseIsSafe
  <2>5. procs'[p].pc = "purging" => b \notin procs'[p].inventory
    BY <1>7, <2>2 DEF Garbage
  <2> QED
    BY <2>4, <2>5
<1> QED
  BY <1>8, <1>9, <1>10, <1>14, <1>15, <1>16 DEF Inv

LEMMA ActivateKeepsInv ==
  ASSUME Inv, NEW p \in Processes, Activate(p)
  PROVE  Inv'
<1> DEFINE done == Cleaning(p, Garbage(p), procs[p].denied)
           broken == Failing(p, "other")
<1>1. /\ TypeOK /\ procs[p] \in Proc /\ Shape(procs[p])
      /\ procs[p].denied \in BOOLEAN /\ "other" \in Codes
  BY DeniedType DEF Inv, TypeOK, ProcInv, Codes
<1>2. /\ procs[p].pc = "fetching" /\ procs[p].todo = {} /\ CanAccept(p)
      /\ Put(p, Activated(p), done, broken)
      /\ newest' = IF index'.active # index.active THEN Raised(newest, procs[p].manifest) ELSE newest
      /\ UNCHANGED <<feed, records, call, now, events, epoch>>
  BY DEF Activate
<1>3. Garbage(p) \subseteq Bundle
  BY <1>1 DEF Garbage, Proc
<1>4. done \in Proc /\ broken \in Proc
  BY <1>1, <1>3, CleaningType, FailingType
<1>5. Activated(p) \in Index /\ Activated(p).claim = None
  <2>1. procs[p].manifest \in Manifest /\ DOMAIN procs[p].refs = Parts
    BY <1>1, <1>2 DEF Shape
  <2>2. procs[p].refs \in [Parts -> Bundle]
    BY <1>1, <2>1 DEF Proc
  <2>3. \A part \in Parts : procs[p].manifest.parts[part].sequence >= index.floors.sequences[part]
    BY <1>2 DEF CanAccept, Verified
  <2> QED
    BY <1>1, <2>1, <2>2, <2>3, ActivatedType
<1>6. TypeOK'
  BY <1>1, <1>2, <1>4, <1>5, PutType
<1>7. CASE index' = index /\ procs' = [procs EXCEPT ![p] = broken]
  <2>1. newest' = newest /\ faults' \in 0..MaxFaults
    BY <1>2, <1>6, <1>7 DEF TypeOK
  <2>2. Moves
    BY <1>2, <1>7, StandStill
  <2>3. procs'[p] = broken => Settles(p)
    BY <1>1, <1>2, <2>2, FailingType, FailingSettles
  <2> QED
    BY <1>2, <1>4, <1>7, <2>1, <2>3, LocalKeepsInv
<1>8. CASE index' = Activated(p)
  <2>1. procs'[p] \in {done, broken} /\ \A q \in Processes : q # p => procs'[q] = procs[q]
    BY <1>1, <1>2, <1>4, UpdateProc DEF Put
  <2> QED
    BY <1>2, <1>6, <1>8, <2>1, ActivatedKeepsInv
<1> QED
  BY <1>2, <1>7, <1>8 DEF Put

-----------------------------------------------------------------------------
(* The server and the clock *)

LEMMA FeedKeepsType ==
  ASSUME FeedTypeOK,
         ChangeAccess \/ (\E changed \in SUBSET Parts : Change(changed)) \/ (\E part \in Parts : Release(part))
  PROVE  FeedTypeOK'
<1>1. CASE ChangeAccess
  <2>1. authorization + 1 \in 1..MaxAuthorization
    BY <1>1, FeedBoundAssumption DEF FeedTypeOK, ChangeAccess
  <2> QED
    BY <1>1, <2>1 DEF FeedTypeOK, ChangeAccess
<1>2. ASSUME NEW changed \in SUBSET Parts, Change(changed) PROVE FeedTypeOK'
  BY <1>2 DEF FeedTypeOK, Change
<1>3. ASSUME NEW part \in Parts, Release(part) PROVE FeedTypeOK'
  <2>1. /\ release[part] \in [sequence : 0..MaxSequence, content : Contents]
        /\ release[part].sequence < MaxSequence
    BY <1>3 DEF FeedTypeOK, Release
  <2>2. PICK c \in Contents : release' = [release EXCEPT ![part] = Released(release[part], c)]
    BY <1>3 DEF Release
  <2>3. Released(release[part], c) \in [sequence : 0..MaxSequence, content : Contents]
    BY <2>1, FeedBoundAssumption DEF Released
  <2> QED
    BY <1>3, <2>2, <2>3 DEF FeedTypeOK, Release
<1> QED
  BY <1>1, <1>2, <1>3

LEMMA OutsideKeepsInv ==
  ASSUME Inv, FeedTypeOK', now' \in 0..MaxTime, events' \in 0..MaxEvents,
         UNCHANGED <<index, records, procs, call, faults, epoch, newest>>
  PROVE  Inv'
<1>1. TypeOK'
  BY DEF Inv, TypeOK
<1>2. Moves
  BY StandStill
<1>3. CallInv'
  BY <1>2, CallKept
<1> QED
  BY <1>1, <1>2, <1>3, QuietKeepsInv

LEMMA EventCounts ==
  ASSUME TypeOK, Event
  PROVE  events' \in 0..MaxEvents
<1>1. index.generation \in Nat /\ events \in Nat /\ faults \in Nat /\ MaxEvents \in Nat
  BY Numbers, CacheBoundAssumption DEF TypeOK
<1> QED
  BY <1>1 DEF Event, Affordable

LEMMA ServerKeepsInv ==
  ASSUME Inv, Server
  PROVE  Inv'
<1>1. TypeOK /\ FeedTypeOK /\ events \in 0..MaxEvents /\ now \in 0..MaxTime
  BY DEF Inv, TypeOK
<1>2. FeedTypeOK'
  BY <1>1, FeedKeepsType DEF Server
<1>3. events' \in 0..MaxEvents
  BY <1>1, EventCounts DEF Server
<1> QED
  BY <1>1, <1>2, <1>3, OutsideKeepsInv DEF Server

LEMMA TickKeepsInv ==
  ASSUME Inv, Tick
  PROVE  Inv'
<1>1. FeedTypeOK' /\ now' \in 0..MaxTime
  BY CacheBoundAssumption DEF Inv, TypeOK, FeedTypeOK, feed, Tick
<1>2. events' \in 0..MaxEvents
  BY EventCounts DEF Inv, Tick
<1> QED
  BY <1>1, <1>2, OutsideKeepsInv DEF Tick

LEMMA ExpireClaimKeepsInv ==
  ASSUME Inv, ExpireClaim
  PROVE  Inv'
<1>1. index \in Index /\ UNCHANGED <<feed, records, procs, call, now, events, faults, epoch, newest>>
  BY DEF Inv, TypeOK, ExpireClaim
<1>2. /\ index' \in Index /\ index'.generation = index.generation /\ index'.claim = index.claim
      /\ index'.status = index.status /\ index'.active = index.active
      /\ index'.floors = index.floors
  BY <1>1 DEF ExpireClaim, Index
<1>3. TypeOK'
  BY <1>1, <1>2 DEF Inv, TypeOK, FeedTypeOK, feed
<1>4. Moves
  <2>1. \A part \in Parts : index.floors.sequences[part] \in Nat
    BY Numbers DEF Inv
  <2> QED
    BY <1>1, <1>2, <2>1 DEF Moves, Inv, IndexInv
<1>5. CallInv'
  BY <1>1, <1>4, CallKept
<1> QED
  BY <1>1, <1>3, <1>4, <1>5, QuietKeepsInv

LEMMA CallRefusedKeepsInv ==
  ASSUME Inv, NEW reason \in Reasons, CallRefused(reason)
  PROVE  Inv'
<1>1. /\ call' = [generation |-> index.generation, epoch |-> epoch, reason |-> reason]
      /\ index.status = "enabled"
      /\ UNCHANGED <<feed, index, records, procs, now, events, epoch, newest>>
  BY DEF CallRefused
<1>2. index.generation \in Generations /\ epoch \in Nat
  BY DEF Inv, TypeOK, Index, FloorsInv
<1>3. faults' \in 0..MaxFaults
  BY CacheBoundAssumption DEF CallRefused, Fault, Inv, TypeOK
<1>4. TypeOK'
  BY <1>1, <1>2, <1>3 DEF Inv, TypeOK, FeedTypeOK, feed
<1>5. Moves
  BY <1>1, StandStill
<1>6. index.generation \in Nat
  BY Numbers DEF Inv
<1>7. CallInv'
  BY <1>1, <1>6 DEF CallInv
<1> QED
  BY <1>1, <1>4, <1>5, <1>7, QuietKeepsInv

-----------------------------------------------------------------------------
(* The invariant *)

LEMMA InitInv == Init => Inv
<1> SUFFICES ASSUME Init PROVE Inv
  OBVIOUS
<1>1. /\ MaxAuthorization \in Nat \ {0} /\ MaxSequence \in Nat \ {0} /\ MaxGeneration \in Nat
      /\ MaxTime \in Nat /\ MaxEvents \in Nat /\ MaxFaults \in Nat
  BY CacheBoundAssumption, FeedBoundAssumption
<1>2. FeedTypeOK
  BY <1>1 DEF Init, FeedInit, FeedTypeOK
<1>3. newest \in Floors /\ index.floors = newest
  BY <1>1 DEF Init, CacheInit, Floors
<1>4. index \in Index /\ index.active = None /\ index.claim = None /\ index.generation = 0
  BY <1>1, <1>3 DEF Init, CacheInit, Index, Generations
<1>5. \A p \in Processes : procs[p] = Idle(FALSE) /\ Idle(FALSE) \in Proc
  BY IdleType DEF Init, CacheInit
<1>6. TypeOK
  <2>1. procs \in [Processes -> Proc]
    BY <1>5 DEF Init, CacheInit
  <2>2. records \subseteq Bundle /\ call = None
    BY DEF Init, CacheInit
  <2>3. now \in 0..MaxTime /\ events \in 0..MaxEvents /\ faults \in 0..MaxFaults
    BY <1>1 DEF Init, CacheInit
  <2> QED
    BY <1>2, <1>4, <2>1, <2>2, <2>3 DEF TypeOK
<1>7. ASSUME NEW p \in Processes
      PROVE  /\ procs[p].pc = "idle" /\ procs[p].generation = 0
             /\ procs[p].inventory = {} /\ DOMAIN procs[p].refs = {}
  BY <1>5, NothingFetched DEF Idle
<1>8. ProcInv
  BY <1>4, <1>7 DEF ProcInv, Shape, Fits
<1>9. UseIsSafe
  BY <1>4, <1>7 DEF UseIsSafe, InUse
<1>10. CallInv /\ IndexInv /\ NoRollback
  BY <1>4 DEF Init, CacheInit, CallInv, IndexInv, NoRollback
<1>11. FloorsInv
  <2>1. \A part \in Parts : newest.sequences[part] \in Nat
    BY <1>1, <1>3 DEF Floors
  <2> QED
    BY <1>3, <2>1 DEF Init, CacheInit, FloorsInv
<1> QED
  BY <1>6, <1>8, <1>9, <1>10, <1>11 DEF Inv

LEMMA NextInv ==
  ASSUME Inv, [Next]_vars
  PROVE  Inv'
<1>1. CASE UNCHANGED vars
  <2>1. FeedTypeOK' /\ now' \in 0..MaxTime /\ events' \in 0..MaxEvents
    BY <1>1 DEF vars, cache, feed, Inv, TypeOK, FeedTypeOK
  <2> QED
    BY <1>1, <2>1, OutsideKeepsInv DEF vars, cache
<1>2. CASE Server \/ Tick \/ ExpireClaim \/ \E reason \in Reasons : CallRefused(reason)
  BY <1>2, ServerKeepsInv, TickKeepsInv, ExpireClaimKeepsInv, CallRefusedKeepsInv
<1>3. ASSUME NEW p \in Processes,
             \/ Begin(p) \/ Answer(p) \/ Deny(p) \/ NotReady(p) \/ Interrupt(p)
             \/ Confirm(p) \/ RaiseFloors(p) \/ Reject(p) \/ Stage(p)
             \/ \E part \in Parts : Reuse(p, part) \/ Download(p, part)
             \/ Activate(p) \/ Purge(p)
             \/ Leave(p) \/ SettleDenied(p) \/ SettleIdentity(p) \/ SettleFailure(p)
             \/ RejectAuthority(p) \/ Disable(p) \/ Resume(p) \/ Crash(p)
      PROVE  Inv'
  <2>1. CASE Begin(p)
    BY <2>1, BeginKeepsInv
  <2>2. CASE Answer(p)
    BY <2>2, AnswerKeepsInv
  <2>3. CASE Deny(p) \/ NotReady(p) \/ Reject(p)
    <3>1. {"revoked", "unavailable", "other"} \subseteq Codes
      BY DEF Codes
    <3> QED
      BY <2>3, <3>1, AbortKeepsInv DEF Deny, NotReady, Reject
  <2>4. CASE Interrupt(p)
    BY <2>4, InterruptKeepsInv
  <2>5. CASE Confirm(p)
    BY <2>5, ConfirmKeepsInv
  <2>6. CASE RaiseFloors(p)
    BY <2>6, RaiseFloorsKeepsInv
  <2>7. CASE Stage(p)
    BY <2>7, StageKeepsInv
  <2>8. CASE \E part \in Parts : Reuse(p, part) \/ Download(p, part)
    BY <2>8, ReuseKeepsInv, DownloadKeepsInv
  <2>9. CASE Activate(p)
    BY <2>9, ActivateKeepsInv
  <2>10. CASE Purge(p) \/ Leave(p) \/ Crash(p)
    BY <2>10, PurgeKeepsInv, LeaveKeepsInv, CrashKeepsInv
  <2>11. CASE SettleDenied(p) \/ SettleIdentity(p) \/ SettleFailure(p)
    BY <2>11, SettleDeniedKeepsInv, SettleIdentityKeepsInv, SettleFailureKeepsInv
  <2>12. CASE RejectAuthority(p) \/ Disable(p) \/ Resume(p)
    BY <2>12, RejectAuthorityKeepsInv, DisableKeepsInv, ResumeKeepsInv
  <2> QED
    BY <1>3, <2>1, <2>2, <2>3, <2>4, <2>5, <2>6, <2>7, <2>8, <2>9, <2>10, <2>11, <2>12
<1> QED
  BY <1>1, <1>2, <1>3 DEF Next, CacheNext

\* Whatever the server, the clock, the faults and the processes do, the
\* relations between the index, the store and the synchronizations hold.
THEOREM Invariant == Spec => []Inv
<1>1. Init => Inv
  BY InitInv
<1>2. Inv /\ [Next]_vars => Inv'
  BY NextInv
<1> QED
  BY <1>1, <1>2, PTL DEF Spec

-----------------------------------------------------------------------------
(* What the cache promises *)

\* Every record the cache holds has its type, and only an enabled connection is
\* claimed.
THEOREM TypeCorrect == Spec => []TypeOK
<1>1. Inv => TypeOK
  BY DEF Inv
<1> QED
  BY <1>1, Invariant, PTL

\* No process deletes a bundle of the active snapshot, however late its cleanup
\* runs and whoever else stores or reuses bundles meanwhile.
THEOREM SnapshotStaysComplete == Spec => []ActiveIsComplete
<1>1. ASSUME Inv, index.active # None, NEW part \in Parts
      PROVE  /\ index.active.refs[part] \in records
             /\ index.active.refs[part].part = part
             /\ index.active.refs[part].content = index.active.manifest.parts[part].content
  <2>1. index.active.refs[part] \in Bundle
    <3>1. index.active \in Active
      BY <1>1 DEF Inv, TypeOK, Index
    <3> QED
      BY <3>1 DEF Active
  <2>2. InUse(index.active.refs[part])
    BY <1>1 DEF InUse
  <2> QED
    BY <1>1, <2>1, <2>2 DEF Inv, UseIsSafe, IndexInv
<1>2. Inv => ActiveIsComplete
  BY <1>1 DEF ActiveIsComplete, Complete
<1> QED
  BY <1>2, Invariant, PTL

\* No snapshot is replaced by an older one, in any part or in the authorization.
THEOREM SnapshotsOnlyAdvance == Spec => []NoRollback
<1>1. Inv => NoRollback
  BY DEF Inv
<1> QED
  BY <1>1, Invariant, PTL

\* What is active was fetched under the connection that is there.
THEOREM SnapshotBelongsToConnection == Spec => []ActiveOfConnection
<1>1. Inv => ActiveOfConnection
  BY DEF Inv, IndexInv, ActiveOfConnection
<1> QED
  BY <1>1, Invariant, PTL

\* Only these writes revoke a connection.
LEMMA OnlyDenialsRevoke ==
  ASSUME Inv, Next, index.status = "enabled", index'.status = "revoked"
  PROVE  \E p \in Processes :
           SettleDenied(p) \/ (RejectAuthority(p) /\ call.reason = "revoked")
<1>1. index'.status # index.status /\ index' # index
  OBVIOUS
<1>2. TypeOK /\ index \in Index
  BY DEF Inv, TypeOK
<1>3. CASE Server \/ Tick \/ \E reason \in Reasons : CallRefused(reason)
  BY <1>1, <1>3 DEF Server, Tick, CallRefused
<1>4. CASE ExpireClaim
  BY <1>1, <1>2, <1>4 DEF ExpireClaim, Index
<1>5. ASSUME NEW p \in Processes,
             \/ Answer(p) \/ Deny(p) \/ NotReady(p) \/ Interrupt(p) \/ Reject(p) \/ Stage(p)
             \/ (\E part \in Parts : Reuse(p, part) \/ Download(p, part))
             \/ Purge(p) \/ Leave(p) \/ Crash(p)
      PROVE  FALSE
  BY <1>1, <1>5 DEF Answer, Deny, NotReady, Interrupt, Reject, Abort, Stage, Reuse, Download, Purge,
                    Leave, Crash
<1>6. ASSUME NEW p \in Processes, NEW next, NEW done, NEW broken, Put(p, next, done, broken),
             next.status # "revoked"
      PROVE  FALSE
  BY <1>1, <1>6 DEF Put
<1>7. ASSUME NEW p \in Processes, Begin(p) PROVE FALSE
  <2>1. [index EXCEPT !.generation = @ + 1, !.claim = p, !.live = TRUE].status = index.status
    BY <1>2 DEF Index
  <2> QED
    BY <1>6, <1>7, <2>1, Zenon DEF Begin
<1>8. ASSUME NEW p \in Processes, Confirm(p) PROVE FALSE
  BY <1>2, <1>6, <1>8, SynchronizedType DEF Confirm
<1>9. ASSUME NEW p \in Processes, RaiseFloors(p) PROVE FALSE
  <2>1. [index EXCEPT !.floors = Raised(@, procs[p].manifest)].status = index.status
    BY <1>2 DEF Index
  <2> QED
    BY <1>6, <1>9, <2>1, Zenon DEF RaiseFloors
<1>10. ASSUME NEW p \in Processes, Activate(p) PROVE FALSE
  <2>1. Synchronized.status = index.status /\ Synchronized \in Index
    BY <1>2, SynchronizedType
  <2>2. Activated(p).status = index.status
    BY <2>1 DEF Activated, Index
  <2> QED
    BY <1>6, <1>10, <2>2 DEF Activate
<1>11. ASSUME NEW p \in Processes, SettleIdentity(p) PROVE FALSE
  <2>1. Unidentified.status = index.status
    BY <1>2, UnidentifiedType
  <2> QED
    BY <1>6, <1>11, <2>1 DEF SettleIdentity
<1>12. ASSUME NEW p \in Processes, SettleFailure(p) PROVE FALSE
  <2>1. [index EXCEPT !.claim = None, !.live = FALSE,
                      !.syncFailed = @ \/ procs[p].code = "unavailable"].status = index.status
    BY <1>2 DEF Index
  <2> QED
    BY <1>6, <1>12, <2>1, Zenon DEF SettleFailure
<1>13. ASSUME NEW p \in Processes, Disable(p) PROVE FALSE
  <2>1. Closed("disconnected").status = "disconnected"
    BY <1>2, <1>13, ClosedType DEF Disable
  <2> QED
    BY <1>6, <1>13, <2>1 DEF Disable
<1>14. ASSUME NEW p \in Processes, Resume(p) PROVE FALSE
  BY <1>14 DEF Resume
<1>15. ASSUME NEW p \in Processes, RejectAuthority(p) PROVE call.reason = "revoked"
  <2>1. CASE ~CalledNow /\ UNCHANGED <<index, procs, faults, epoch>>
    BY <1>1, <2>1
  <2>2. CASE Put(p, Unidentified, procs[p], procs[p])
    BY <1>2, <1>6, <2>2, UnidentifiedType
  <2> QED
    BY <1>15, <2>1, <2>2 DEF RejectAuthority
<1> QED
  BY <1>3, <1>4, <1>5, <1>7, <1>8, <1>9, <1>10, <1>11, <1>12, <1>13, <1>14, <1>15
     DEF Next, CacheNext

\* A denial that was on its way from before a new connection does not close it.
THEOREM ConnectionsEndByOwnDenial == Spec => OnlyOwnDenial
<1>1. ASSUME Inv, Next, index.status = "enabled", index'.status = "revoked"
      PROVE  \E p \in Processes :
               \/ procs[p].pc = "failing" /\ procs[p].code = "revoked" /\ procs[p].epoch = epoch
               \/ call # None /\ call' = None /\ call.epoch = epoch /\ call.reason = "revoked"
  <2>1. PICK p \in Processes : SettleDenied(p) \/ (RejectAuthority(p) /\ call.reason = "revoked")
    BY <1>1, OnlyDenialsRevoke
  <2>2. CASE SettleDenied(p)
    <3>1. Fits(procs[p])
      BY <1>1 DEF Inv, ProcInv
    <3> QED
      BY <2>2, <3>1 DEF SettleDenied, Mine, Fits
  <2>3. CASE RejectAuthority(p) /\ call.reason = "revoked"
    <3>1. call # None /\ call' = None
      BY <2>3 DEF RejectAuthority
    <3>2. CalledNow
      BY <1>1, <2>3 DEF RejectAuthority
    <3>3. call.epoch = epoch
      BY <1>1, <3>1, <3>2 DEF CalledNow, Inv, CallInv
    <3> QED
      BY <2>3, <3>1, <3>3
  <2> QED
    BY <2>1, <2>2, <2>3
<1> DEFINE Own == \E p \in Processes :
                    \/ procs[p].pc = "failing" /\ procs[p].code = "revoked" /\ procs[p].epoch = epoch
                    \/ call # None /\ call' = None /\ call.epoch = epoch /\ call.reason = "revoked"
<1>2. Inv /\ [Next]_vars => [index.status = "enabled" /\ index'.status = "revoked" => Own]_vars
  BY <1>1
<1> QED
  BY <1>2, Invariant, PTL DEF Spec, OnlyOwnDenial

-----------------------------------------------------------------------------
(* What is read was once on offer: where a manifest can come from *)

Holding == {"manifest", "fetching", "staging"}

\* A manifest that says what was on offer at the moment it was issued.
Genuine(manifest) ==
  \E s \in said :
    /\ s.at = manifest.issued
    /\ \A part \in Parts : manifest.parts[part].content = s.content[part]

DeliveryInv ==
  /\ Saying \subseteq said
  /\ \A p \in Processes : procs[p].pc \in Holding => Genuine(procs[p].manifest)
  /\ index.active # None => Genuine(index.active.manifest)

\* A process keeps the manifest it holds or takes the one that is offered.
TakesOver(p, r) ==
  \/ r.pc \notin Holding
  \/ procs[p].pc \in Holding /\ r.manifest = procs[p].manifest
  \/ Offered /\ r.manifest = Current

ManifestsMove == \A p \in Processes : TakesOver(p, procs'[p])

SnapshotMoves ==
  \/ index'.active \in {index.active, None}
  \/ \E p \in Processes :
       procs[p].pc = "fetching" /\ index'.active.manifest = procs[p].manifest

LEMMA ManifestMoves ==
  ASSUME TypeOK, NEW p \in Processes, NEW r, procs' = [procs EXCEPT ![p] = r], TakesOver(p, r)
  PROVE  ManifestsMove
<1>1. \A q \in Processes : procs'[q] = IF q = p THEN r ELSE procs[q]
  BY DEF TypeOK
<1>2. \A q \in Processes : TakesOver(q, procs[q])
  BY DEF TakesOver
<1> QED
  BY <1>1, <1>2 DEF ManifestsMove

LEMMA PutMoves ==
  ASSUME TypeOK, NEW p \in Processes, NEW next, NEW done, NEW broken, Put(p, next, done, broken),
         TakesOver(p, done), broken.pc \notin Holding,
         next.active \in {index.active, None}
  PROVE  ManifestsMove /\ SnapshotMoves
<1>1. TakesOver(p, broken)
  BY DEF TakesOver
<1>2. ManifestsMove
  BY <1>1, ManifestMoves DEF Put
<1>3. index' \in {index, next}
  BY DEF Put
<1> QED
  BY <1>2, <1>3 DEF SnapshotMoves

LEMMA StillMoves ==
  ASSUME index' = index
  PROVE  SnapshotMoves
  BY DEF SnapshotMoves

\* The states of a process that holds no manifest.
LEMMA Handless ==
  /\ \A d : Idle(d).pc = "idle"
  /\ \A p, inventory, d : Cleaning(p, inventory, d).pc = "purging"
<1>1. \A d : Idle(d).pc = "idle"
  BY DEF Idle
<1>2. \A p, inventory, d : Cleaning(p, inventory, d).pc = "purging"
  BY DEF Idle, Cleaning
<1> QED
  BY <1>1, <1>2

LEMMA LocalMoves ==
  ASSUME TypeOK, NEW p \in Processes,
         \/ Answer(p) \/ Deny(p) \/ NotReady(p) \/ Interrupt(p) \/ Reject(p) \/ Stage(p)
         \/ \E part \in Parts : Reuse(p, part) \/ Download(p, part)
         \/ Purge(p) \/ Leave(p) \/ Crash(p)
  PROVE  ManifestsMove /\ SnapshotMoves
<1>1. procs[p] \in Proc
  BY DEF TypeOK
<1>2. \A code : Failing(p, code).pc = "failing"
  BY <1>1 DEF Failing, Proc
<1>3. ASSUME NEW r, procs' = [procs EXCEPT ![p] = r], r.pc \notin Holding PROVE ManifestsMove
  BY <1>3, ManifestMoves DEF TakesOver
<1>4. SnapshotMoves
  <2>1. index' = index
    BY DEF Answer, Deny, NotReady, Interrupt, Reject, Abort, Stage, Reuse, Download, Purge, Leave, Crash
  <2> QED
    BY <2>1, StillMoves
<1>5. ASSUME NEW code, procs' = [procs EXCEPT ![p] = Failing(p, code)] PROVE ManifestsMove
  <2>1. Failing(p, code).pc \notin Holding
    BY <1>2 DEF Holding
  <2> QED
    BY <1>3, <1>5, <2>1
<1>6. CASE Deny(p) \/ NotReady(p) \/ Interrupt(p) \/ Reject(p)
  BY <1>4, <1>5, <1>6 DEF Deny, NotReady, Interrupt, Reject, Abort
<1>7. CASE Answer(p)
  <2> DEFINE pc == IF index.active # None /\ index.active.manifest = Current
                   THEN "unchanged" ELSE "manifest"
             r == [procs[p] EXCEPT !.pc = pc, !.manifest = Current, !.inventory = records]
  <2>1. procs' = [procs EXCEPT ![p] = r] /\ Offered
    BY <1>7 DEF Answer
  <2> HIDE DEF pc
  <2>2. r.manifest = Current
    BY <1>1 DEF Proc
  <2> HIDE DEF r
  <2>3. TakesOver(p, r)
    BY <2>1, <2>2 DEF TakesOver
  <2> QED
    BY <1>4, <2>1, <2>3, ManifestMoves
<1>8. ASSUME NEW part, NEW bundle, procs[p].pc \in Holding,
             procs' = [procs EXCEPT ![p] = Fetched(p, part, bundle)]
      PROVE  ManifestsMove
  <2>1. Fetched(p, part, bundle).manifest = procs[p].manifest
    BY <1>1 DEF Fetched, Proc
  <2>2. TakesOver(p, Fetched(p, part, bundle))
    BY <1>8, <2>1 DEF TakesOver
  <2> QED
    BY <1>8, <2>2, ManifestMoves
<1>9. CASE Stage(p)
  BY <1>4, <1>8, <1>9 DEF Stage, Holding
<1>10. ASSUME NEW part \in Parts, Reuse(p, part) PROVE ManifestsMove
  BY <1>5, <1>8, <1>10 DEF Reuse, Holding
<1>11. ASSUME NEW part \in Parts, Download(p, part) PROVE ManifestsMove
  <2> DEFINE r == [procs[p] EXCEPT !.pc = "staging", !.todo = @ \ {part}]
  <2>1. procs' = [procs EXCEPT ![p] = r] \/ \E code : procs' = [procs EXCEPT ![p] = Failing(p, code)]
    BY <1>11 DEF Download
  <2>2. r.manifest = procs[p].manifest
    BY <1>1 DEF Proc
  <2> HIDE DEF r
  <2>3. TakesOver(p, r)
    BY <1>11, <2>2 DEF TakesOver, Download, Holding
  <2> QED
    BY <1>5, <2>1, <2>3, ManifestMoves
<1>12. CASE Purge(p) \/ Leave(p) \/ Crash(p)
  <2>1. PICK d : procs' = [procs EXCEPT ![p] = Idle(d)]
    BY <1>12 DEF Purge, Leave, Crash
  <2>2. Idle(d).pc \notin Holding
    BY Handless DEF Holding
  <2> QED
    BY <1>3, <1>4, <2>1, <2>2
<1> QED
  BY <1>4, <1>6, <1>7, <1>9, <1>10, <1>11, <1>12

LEMMA WriteMoves ==
  ASSUME Inv, NEW p \in Processes,
         \/ Begin(p) \/ Confirm(p) \/ RaiseFloors(p)
         \/ SettleDenied(p) \/ SettleIdentity(p) \/ SettleFailure(p)
         \/ RejectAuthority(p) \/ Disable(p) \/ Resume(p)
  PROVE  ManifestsMove /\ SnapshotMoves
<1>1. TypeOK /\ procs[p] \in Proc /\ index \in Index
  BY DEF Inv, TypeOK
<1>2. ASSUME NEW next, NEW done, NEW broken, Put(p, next, done, broken),
             done.pc \notin Holding, broken.pc \notin Holding, next.active \in {index.active, None}
      PROVE  ManifestsMove /\ SnapshotMoves
  <2>1. TakesOver(p, done)
    BY <1>2 DEF TakesOver
  <2> QED
    BY <1>1, <1>2, <2>1, PutMoves
<1>3. /\ \A d : Idle(d).pc \notin Holding
      /\ \A inventory, d : Cleaning(p, inventory, d).pc \notin Holding
      /\ Failing(p, "other").pc \notin Holding
  <2>1. Failing(p, "other").pc = "failing"
    BY <1>1 DEF Failing, Proc
  <2> QED
    BY <2>1, Handless DEF Holding
<1>4. CASE Begin(p)
  <2> DEFINE next == [index EXCEPT !.generation = @ + 1, !.claim = p, !.live = TRUE]
             done == [procs[p] EXCEPT !.pc = "claimed", !.generation = index.generation + 1,
                                      !.epoch = epoch]
  <2>1. Put(p, next, done, procs[p]) /\ procs[p].pc = "idle"
    BY <1>4, Zenon DEF Begin
  <2>2. next.active = index.active /\ done.pc = "claimed"
    BY <1>1 DEF Index, Proc
  <2> HIDE DEF next, done
  <2> QED
    BY <1>2, <2>1, <2>2 DEF Holding
<1>5. CASE Confirm(p)
  <2>1. Synchronized.active = index.active
    BY <1>1, SynchronizedType
  <2> QED
    BY <1>2, <1>3, <1>5, <2>1 DEF Confirm
<1>6. CASE RaiseFloors(p)
  <2> DEFINE next == [index EXCEPT !.floors = Raised(@, procs[p].manifest)]
             done == [procs[p] EXCEPT !.pc = "fetching", !.todo = Parts]
             broken == [Failing(p, "other") EXCEPT !.uncertain = TRUE]
  <2>1. Put(p, next, done, broken) /\ procs[p].pc = "manifest"
    BY <1>6, Zenon DEF RaiseFloors
  <2>2. next.active = index.active /\ done.manifest = procs[p].manifest
    BY <1>1 DEF Index, Proc
  <2>3. broken.pc = "failing"
    BY <1>1, UncertainType
  <2> HIDE DEF next, done, broken
  <2>4. TakesOver(p, done)
    BY <2>1, <2>2 DEF TakesOver, Holding
  <2> QED
    BY <1>1, <2>1, <2>2, <2>3, <2>4, PutMoves DEF Holding
<1>7. CASE SettleDenied(p) \/ RejectAuthority(p) \/ Disable(p)
  <2>1. CASE UNCHANGED <<index, procs>>
    <3>1. ManifestsMove
      BY <2>1 DEF ManifestsMove, TakesOver
    <3> QED
      BY <2>1, <3>1, StillMoves
  <2>2. ASSUME NEW status \in {"disconnected", "revoked"}, index.generation < MaxGeneration,
               Put(p, Closed(status), Cleaning(p, records, TRUE), Idle(TRUE))
        PROVE  ManifestsMove /\ SnapshotMoves
    <3>1. Closed(status).active = None
      BY <1>1, <2>2, ClosedType
    <3> QED
      BY <1>2, <1>3, <2>2, <3>1
  <2>3. CASE procs[p].pc = "idle" /\ Put(p, Unidentified, procs[p], procs[p])
    BY <1>1, <1>2, <2>3, UnidentifiedType DEF Holding
  <2> QED
    BY <1>7, <2>1, <2>2, <2>3 DEF SettleDenied, RejectAuthority, Disable
<1>8. CASE SettleIdentity(p)
  BY <1>1, <1>2, <1>3, <1>8, UnidentifiedType DEF SettleIdentity
<1>9. CASE SettleFailure(p)
  <2>1. [index EXCEPT !.claim = None, !.live = FALSE,
                      !.syncFailed = @ \/ procs[p].code = "unavailable"].active = index.active
    BY <1>1 DEF Index
  <2> QED
    BY <1>2, <1>3, <1>9, <2>1, Zenon DEF SettleFailure
<1>10. CASE Resume(p)
  <2> DEFINE next == [index EXCEPT !.generation = @ + 1, !.status = "enabled", !.active = None]
  <2>1. Put(p, next, Idle(FALSE), procs[p]) /\ procs[p].pc = "idle"
    BY <1>10, Zenon DEF Resume
  <2>2. next.active = None
    BY <1>1 DEF Index
  <2> HIDE DEF next
  <2> QED
    BY <1>2, <1>3, <2>1, <2>2 DEF Holding
<1> QED
  BY <1>4, <1>5, <1>6, <1>7, <1>8, <1>9, <1>10

LEMMA ActivateMoves ==
  ASSUME Inv, NEW p \in Processes, Activate(p)
  PROVE  ManifestsMove /\ SnapshotMoves
<1>1. /\ TypeOK /\ procs[p] \in Proc /\ index \in Index /\ procs[p].pc = "fetching"
      /\ Put(p, Activated(p), Cleaning(p, Garbage(p), procs[p].denied), Failing(p, "other"))
  BY DEF Inv, TypeOK, Activate
<1>2. Activated(p).active.manifest = procs[p].manifest
  <2>1. Synchronized \in Index
    BY <1>1, SynchronizedType
  <2> QED
    BY <2>1 DEF Activated, Index
<1>3. SnapshotMoves
  BY <1>1, <1>2 DEF SnapshotMoves, Put
<1>4. ASSUME NEW r, procs' = [procs EXCEPT ![p] = r], r.pc \notin Holding PROVE ManifestsMove
  BY <1>1, <1>4, ManifestMoves DEF TakesOver
<1>5. /\ Cleaning(p, Garbage(p), procs[p].denied).pc \notin Holding
      /\ Failing(p, "other").pc \notin Holding
  <2>1. Failing(p, "other").pc = "failing"
    BY <1>1 DEF Failing, Proc
  <2> QED
    BY <2>1, Handless DEF Holding
<1>6. ManifestsMove
  BY <1>1, <1>4, <1>5 DEF Put
<1> QED
  BY <1>3, <1>6

LEMMA StepMoves ==
  ASSUME Inv, [Next]_vars
  PROVE  ManifestsMove /\ SnapshotMoves
<1>1. CASE UNCHANGED <<procs, index>>
  <2>1. ManifestsMove
    BY <1>1 DEF ManifestsMove, TakesOver
  <2> QED
    BY <1>1, <2>1, StillMoves
<1>2. CASE Server \/ Tick \/ (\E reason \in Reasons : CallRefused(reason)) \/ UNCHANGED vars
  BY <1>1, <1>2 DEF Server, Tick, CallRefused, vars, cache
<1>3. CASE ExpireClaim
  <2>1. index'.active = index.active /\ procs' = procs
    BY <1>3 DEF ExpireClaim, Inv, TypeOK, Index
  <2> QED
    BY <2>1 DEF ManifestsMove, TakesOver, SnapshotMoves
<1>4. ASSUME NEW p \in Processes,
             \/ Begin(p) \/ Answer(p) \/ Deny(p) \/ NotReady(p) \/ Interrupt(p)
             \/ Confirm(p) \/ RaiseFloors(p) \/ Reject(p) \/ Stage(p)
             \/ \E part \in Parts : Reuse(p, part) \/ Download(p, part)
             \/ Activate(p) \/ Purge(p)
             \/ Leave(p) \/ SettleDenied(p) \/ SettleIdentity(p) \/ SettleFailure(p)
             \/ RejectAuthority(p) \/ Disable(p) \/ Resume(p) \/ Crash(p)
      PROVE  ManifestsMove /\ SnapshotMoves
  <2>1. TypeOK
    BY DEF Inv
  <2> QED
    BY <1>4, <2>1, LocalMoves, WriteMoves, ActivateMoves
<1> QED
  BY <1>2, <1>3, <1>4 DEF Next, CacheNext

\* Time passes in single periods, and only while the bound allows it.
LEMMA OneTick ==
  ASSUME CacheNext
  PROVE  \/ UNCHANGED <<now, events>>
         \/ now < MaxTime /\ now' = now + 1 /\ events' = events + 1
<1>1. CASE ExpireClaim \/ \E reason \in Reasons : CallRefused(reason)
  BY <1>1 DEF ExpireClaim, CallRefused
<1>2. CASE Tick
  BY <1>2 DEF Tick, Event
<1>3. ASSUME NEW p \in Processes,
             \/ Begin(p) \/ Answer(p) \/ Deny(p) \/ NotReady(p) \/ Interrupt(p)
             \/ Confirm(p) \/ RaiseFloors(p) \/ Reject(p) \/ Stage(p)
             \/ \E part \in Parts : Reuse(p, part) \/ Download(p, part)
             \/ Activate(p) \/ Purge(p)
             \/ Leave(p) \/ SettleDenied(p) \/ SettleIdentity(p) \/ SettleFailure(p)
             \/ RejectAuthority(p) \/ Disable(p) \/ Resume(p) \/ Crash(p)
      PROVE  UNCHANGED <<now, events>>
  <2>1. CASE Begin(p) \/ Answer(p) \/ Interrupt(p) \/ Confirm(p) \/ RaiseFloors(p) \/ Stage(p)
    BY <2>1 DEF Begin, Answer, Interrupt, Confirm, RaiseFloors, Stage
  <2>2. CASE Deny(p) \/ NotReady(p) \/ Reject(p)
    BY <2>2 DEF Deny, NotReady, Reject, Abort
  <2>3. CASE \E part \in Parts : Reuse(p, part) \/ Download(p, part)
    BY <2>3 DEF Reuse, Download
  <2>4. CASE Activate(p) \/ Purge(p) \/ Leave(p) \/ SettleDenied(p) \/ SettleIdentity(p)
    BY <2>4 DEF Activate, Purge, Leave, SettleDenied, SettleIdentity
  <2>5. CASE SettleFailure(p) \/ RejectAuthority(p) \/ Disable(p) \/ Resume(p) \/ Crash(p)
    BY <2>5 DEF SettleFailure, RejectAuthority, Disable, Resume, Crash
  <2> QED
    BY <1>3, <2>1, <2>2, <2>3, <2>4, <2>5
<1> QED
  BY <1>1, <1>2, <1>3 DEF CacheNext

LEMMA TimePasses == ASSUME [Next]_vars PROVE now' = now \/ (now < MaxTime /\ now' = now + 1)
  BY OneTick DEF Next, Server, vars, cache

LEMMA OfferIsGenuine ==
  ASSUME Saying \subseteq said, Offered
  PROVE  Genuine(Current)
<1> DEFINE offer == [at |-> now, content |-> [part \in Parts |-> release[part].content]]
<1>1. offer \in said
  BY DEF Offered, Saying
<1>2. offer.at = now /\ \A part \in Parts : offer.content[part] = release[part].content
  OBVIOUS
<1> HIDE DEF offer
<1> QED
  BY <1>1, <1>2 DEF Genuine, Current

-----------------------------------------------------------------------------
(* The invariant of the delivery *)

LEMMA DeliveryInitInv == DeliveryInit => DeliveryInv
<1> SUFFICES ASSUME DeliveryInit PROVE DeliveryInv
  OBVIOUS
<1>1. Init /\ said = Saying
  BY DEF DeliveryInit
<1>2. \A p \in Processes : procs[p].pc = "idle"
  BY <1>1, Handless DEF Init, CacheInit
<1>3. index.active = None
  BY <1>1 DEF Init, CacheInit
<1> QED
  BY <1>1, <1>2, <1>3 DEF DeliveryInv, Holding

LEMMA DeliveryNextInv ==
  ASSUME Inv, DeliveryInv, [DeliveryNext]_deliveryVars
  PROVE  DeliveryInv'
<1>1. [Next]_vars
  BY DEF DeliveryNext, deliveryVars
<1>2. said \subseteq said' /\ Saying' \subseteq said'
  <2>1. CASE DeliveryNext
    BY <2>1 DEF DeliveryNext
  <2>2. CASE UNCHANGED deliveryVars
    BY <2>2 DEF deliveryVars, vars, feed, cache, Saying, DeliveryInv
  <2> QED
    BY <2>1, <2>2
<1>3. ManifestsMove /\ SnapshotMoves
  BY <1>1, StepMoves
<1>4. ASSUME NEW p \in Processes, procs'[p].pc \in Holding PROVE Genuine(procs[p].manifest)'
  <2>1. TakesOver(p, procs'[p])
    BY <1>3 DEF ManifestsMove
  <2>2. Genuine(procs'[p].manifest)
    <3>1. CASE procs[p].pc \in Holding /\ procs'[p].manifest = procs[p].manifest
      BY <3>1 DEF DeliveryInv
    <3>2. CASE Offered /\ procs'[p].manifest = Current
      BY <3>2, OfferIsGenuine DEF DeliveryInv
    <3> QED
      BY <1>4, <2>1, <3>1, <3>2 DEF TakesOver
  <2> QED
    BY <1>2, <2>2 DEF Genuine
<1>5. ASSUME index'.active # None PROVE Genuine(index.active.manifest)'
  <2>1. Genuine(index'.active.manifest)
    <3>1. CASE index'.active \in {index.active, None}
      BY <1>5, <3>1 DEF DeliveryInv
    <3>2. ASSUME NEW p \in Processes, procs[p].pc = "fetching",
                 index'.active.manifest = procs[p].manifest
          PROVE  Genuine(index'.active.manifest)
      BY <3>2 DEF DeliveryInv, Holding
    <3> QED
      BY <1>3, <3>1, <3>2 DEF SnapshotMoves
  <2> QED
    BY <1>2, <2>1 DEF Genuine
<1> QED
  BY <1>2, <1>4, <1>5 DEF DeliveryInv

\* The history only watches: what the cache keeps, it keeps with it.
LEMMA DeliveryIsSpec == DeliverySpec => Spec
<1>1. DeliveryInit => Init
  BY DEF DeliveryInit
<1>2. [DeliveryNext]_deliveryVars => [Next]_vars
  BY DEF DeliveryNext, deliveryVars
<1> QED
  BY <1>1, <1>2, PTL DEF DeliverySpec, Spec

\* Every manifest that a synchronization holds or the index has activated says
\* what was on offer as a whole when it was issued, to a user who was allowed to
\* know it.
THEOREM ManifestsAreGenuine == DeliverySpec => []DeliveryInv
<1>1. DeliveryInit => DeliveryInv
  BY DeliveryInitInv
<1>2. Inv /\ DeliveryInv /\ [DeliveryNext]_deliveryVars => DeliveryInv'
  BY DeliveryNextInv
<1>3. DeliverySpec => []Inv
  BY DeliveryIsSpec, Invariant, PTL
<1> QED
  BY <1>1, <1>2, <1>3, PTL DEF DeliverySpec

\* What a process may read was on offer as a whole, and its user allowed to know
\* it, less than the period or the lease ago.
THEOREM WhatIsReadWasOffered == DeliverySpec => []ReadsWereOffered
<1>1. Inv /\ DeliveryInv => ReadsWereOffered
  <2> SUFFICES ASSUME Inv, DeliveryInv, NEW p \in Processes, NEW mode \in {"online", "offline"},
                      Readable(p, mode)
               PROVE  \E s \in said :
                        /\ now < s.at + Until(mode)
                        /\ \A part \in Parts : index.active.refs[part].content = s.content[part]
    BY DEF ReadsWereOffered
  <2>1. /\ index.active # None /\ now < index.active.manifest.issued + Until(mode)
        /\ \A part \in Parts :
             index.active.refs[part].content = index.active.manifest.parts[part].content
    BY DEF Readable, Verified, Complete
  <2>2. PICK s \in said :
          /\ s.at = index.active.manifest.issued
          /\ \A part \in Parts : index.active.manifest.parts[part].content = s.content[part]
    BY <2>1 DEF DeliveryInv, Genuine
  <2> QED
    BY <2>1, <2>2
<1>2. DeliverySpec => []Inv
  BY DeliveryIsSpec, Invariant, PTL
<1> QED
  BY <1>1, <1>2, ManifestsAreGenuine, PTL

=============================================================================

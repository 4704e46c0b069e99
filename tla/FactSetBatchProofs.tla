------------------------- MODULE FactSetBatchProofs -------------------------
(***************************************************************************)
(* Theorems about FactSetBatch, for any number of processes, batches,      *)
(* runs, attempts and polls, and about RateLimiter, for any number of      *)
(* threads, any rate and any length of the run.                            *)
(***************************************************************************)
EXTENDS FactSetBatch, RateLimiter, FiniteSetTheorems, TLAPS

InHand == {run[p].id : p \in {q \in Callers : At(q, "answered")}}

Types == /\ batchLog \in Seq(Entry)
         /\ captured \in Seq(Batches)
         /\ vendor \in [Batches -> {"absent", "running", "done", "failed"}]
         /\ run \in [Callers -> Run]
         /\ lost \in SUBSET Batches

\* Past its submission, a run has a batch.
HasBatch ==
  \A p \in Callers : run[p].pc \in {"answered", "poll", "fetch", "store", "close"} =>
                       run[p].id \in Batches

\* A batch about to be recorded is in one pair of hands, and nowhere else.
InOneHand ==
  /\ \A p, q \in Callers : At(p, "answered") /\ At(q, "answered") /\ run[p].id = run[q].id
                             => p = q
  /\ InHand \cap Submitted = {} /\ InHand \cap lost = {}

\* The vendor's batches are the recorded, the held and the lost ones.
AllKnown == Created = Submitted \cup InHand \cup lost /\ Submitted \cap lost = {}

\* A run closes its batch once the result is captured, and so has every one before.
ClosedCaptured == /\ \A p \in Callers : At(p, "close") => run[p].id \in ToSet(captured)
                  /\ Terminal("done") \subseteq ToSet(captured)

BatchInv == Types /\ HasBatch /\ InOneHand /\ AllKnown /\ ClosedCaptured

-----------------------------------------------------------------------------
(* The lines of the log, and the captures. *)

LEMMA EntryFacts ==
  ASSUME NEW entry \in Entry
  PROVE  /\ entry.id \in Batches
         /\ entry.event \in {"batch_submitted", "batch_terminal"}
  BY DEF Entry

LEMMA LogFacts ==
  ASSUME Types
  PROVE  /\ \A i \in DOMAIN batchLog : batchLog[i] \in Entry
         /\ Submitted \in SUBSET Batches
<1>1. \A i \in DOMAIN batchLog : batchLog[i] \in Entry
  BY DEF Types
<1>2. QED
  BY <1>1, EntryFacts DEF Submitted

\* What a line adds to the batches submitted, and to those closed as done.
Submits(entry) == IF entry.event = "batch_submitted" THEN {entry.id} ELSE {}
Closes(entry) ==
  IF entry.event = "batch_terminal" /\ entry.status = "done" THEN {entry.id} ELSE {}

LEMMA AppendLine ==
  ASSUME Types, NEW entry \in Entry, batchLog' = Append(batchLog, entry)
  PROVE  /\ batchLog' \in Seq(Entry)
         /\ Submitted' = Submitted \cup Submits(entry)
         /\ Terminal("done")' = Terminal("done") \cup Closes(entry)
<1>1. batchLog \in Seq(Entry)
  BY DEF Types
<1>2. /\ batchLog' \in Seq(Entry)
      /\ DOMAIN batchLog' = DOMAIN batchLog \cup {Len(batchLog) + 1}
      /\ Len(batchLog) + 1 \notin DOMAIN batchLog
      /\ batchLog'[Len(batchLog) + 1] = entry
      /\ \A i \in DOMAIN batchLog : batchLog'[i] = batchLog[i]
  BY <1>1
<1>3. PICK last : last = Len(batchLog) + 1
  OBVIOUS
<1>4. Submitted' = Submitted \cup Submits(entry)
  BY <1>2, <1>3 DEF Submitted, Submits
<1>5. Terminal("done")' = Terminal("done") \cup Closes(entry)
  BY <1>2, <1>3 DEF Terminal, Closes
<1>6. QED
  BY <1>2, <1>4, <1>5

LEMMA SameLines ==
  ASSUME UNCHANGED batchLog
  PROVE  Submitted' = Submitted /\ Terminal("done")' = Terminal("done")
  BY DEF Submitted, Terminal

LEMMA CaptureFacts ==
  ASSUME Types, NEW id \in Batches,
         captured' = IF Contains(captured, id) THEN captured ELSE Append(captured, id)
  PROVE  /\ captured' \in Seq(Batches)
         /\ ToSet(captured)' = ToSet(captured) \cup {id}
<1>1. captured \in Seq(Batches)
  BY DEF Types
<1>2. CASE Contains(captured, id)
  BY <1>1, <1>2 DEF Contains, ToSet
<1>3. CASE ~ Contains(captured, id)
  <2>1. /\ captured' \in Seq(Batches)
        /\ DOMAIN captured' = DOMAIN captured \cup {Len(captured) + 1}
        /\ captured'[Len(captured) + 1] = id
        /\ \A i \in DOMAIN captured : captured'[i] = captured[i]
    BY <1>1, <1>3
  <2>2. PICK last : last = Len(captured) + 1
    OBVIOUS
  <2>3. QED
    BY <2>1, <2>2 DEF ToSet
<1>4. QED
  BY <1>2, <1>3

-----------------------------------------------------------------------------
(* Steps of one process. *)

\* The other processes do not move.
OnlyMoves(p) == \A q \in Callers \ {p} : run'[q] = run[q]

(* How a step changes who holds a batch. *)
LEMMA Hands ==
  ASSUME NEW p \in Callers, OnlyMoves(p)
  PROVE  /\ ~ At(p, "answered") /\ ~ At(p, "answered")' => InHand' = InHand
         /\ ~ At(p, "answered") /\ At(p, "answered")' => InHand' = InHand \cup {run'[p].id}
         /\ /\ At(p, "answered") /\ ~ At(p, "answered")'
            /\ \A q \in Callers : At(q, "answered") /\ run[p].id = run[q].id => p = q
            => InHand = InHand' \cup {run[p].id} /\ run[p].id \notin InHand'
  BY DEF InHand, At, OnlyMoves

(* Steps that neither make, record nor lose a batch. *)
LEMMA QuietInv ==
  ASSUME BatchInv, NEW p \in Callers, OnlyMoves(p),
         UNCHANGED <<vendor, lost>>,
         run' \in [Callers -> Run], batchLog' \in Seq(Entry), captured' \in Seq(Batches),
         Submitted' = Submitted,
         ToSet(captured) \subseteq ToSet(captured)',
         Terminal("done")' \subseteq ToSet(captured)',
         ~ At(p, "answered"), ~ At(p, "answered")',
         run'[p].pc \in {"poll", "fetch", "store", "close"} => run'[p].id \in Batches,
         At(p, "close")' => run'[p].id \in ToSet(captured)'
  PROVE  BatchInv'
<1>1. Types'
  BY DEF BatchInv, Types
<1>2. HasBatch'
  BY DEF BatchInv, HasBatch, OnlyMoves, At
<1>3. InHand' = InHand
  BY Hands
<1>4. InOneHand'
  BY <1>3 DEF BatchInv, InOneHand, OnlyMoves, At
<1>5. AllKnown'
  BY <1>3 DEF BatchInv, AllKnown, Created
<1>6. ClosedCaptured'
  BY DEF BatchInv, ClosedCaptured, OnlyMoves, At
<1>7. QED
  BY <1>1, <1>2, <1>4, <1>5, <1>6 DEF BatchInv

(* The vendor makes a batch nobody has heard of. *)
LEMMA MakesFacts ==
  ASSUME BatchInv, NEW id \in Batches, Makes(id)
  PROVE  /\ vendor' \in [Batches -> {"absent", "running", "done", "failed"}]
         /\ Created' = Created \cup {id}
         /\ id \notin Submitted /\ id \notin InHand /\ id \notin lost
<1>1. vendor \in [Batches -> {"absent", "running", "done", "failed"}]
  BY DEF BatchInv, Types
<1>2. vendor[id] = "absent" /\ vendor' = [vendor EXCEPT ![id] = "running"]
  BY DEF Makes
<1>3. Created' = Created \cup {id} /\ id \notin Created
  BY <1>1, <1>2 DEF Created
<1>4. QED
  BY <1>1, <1>2, <1>3 DEF BatchInv, AllKnown

(* It is handed to the process that asked. *)
LEMMA HandedInv ==
  ASSUME BatchInv, NEW p \in Callers, NEW id \in Batches, Makes(id), OnlyMoves(p),
         run' \in [Callers -> Run], ~ At(p, "answered"), At(p, "answered")',
         run'[p].id = id, UNCHANGED <<batchLog, captured, lost>>
  PROVE  BatchInv'
<1>1. /\ vendor' \in [Batches -> {"absent", "running", "done", "failed"}]
      /\ Created' = Created \cup {id}
      /\ id \notin Submitted /\ id \notin InHand /\ id \notin lost
  BY MakesFacts
<1>2. Types'
  BY <1>1 DEF BatchInv, Types
<1>3. HasBatch'
  BY DEF BatchInv, HasBatch, OnlyMoves, At
<1>4. InHand' = InHand \cup {id} /\ Submitted' = Submitted /\ Terminal("done")' = Terminal("done")
  BY Hands, SameLines
<1>5. \A q \in Callers \ {p} : At(q, "answered")' => run'[q].id # id
  BY <1>1 DEF InHand, OnlyMoves, At
<1>6. \A q, r \in Callers : At(q, "answered")' /\ At(r, "answered")' /\ run'[q].id = run'[r].id
                              => q = r
  BY <1>5 DEF BatchInv, InOneHand, OnlyMoves, At
<1>7. InOneHand'
  BY <1>1, <1>4, <1>6 DEF BatchInv, InOneHand, At
<1>8. AllKnown'
  BY <1>1, <1>4 DEF BatchInv, AllKnown
<1>9. ClosedCaptured'
  BY <1>4 DEF BatchInv, ClosedCaptured, OnlyMoves, At
<1>10. QED
  BY <1>2, <1>3, <1>7, <1>8, <1>9 DEF BatchInv

(* Or its id reaches nobody: the attempt timed out. *)
LEMMA UnheardInv ==
  ASSUME BatchInv, NEW p \in Callers, NEW id \in Batches, Makes(id), OnlyMoves(p),
         run' \in [Callers -> Run], run[p].pc = "submit", run'[p].pc \in {"submit", "idle"},
         lost' = lost \cup {id}, UNCHANGED <<batchLog, captured>>
  PROVE  BatchInv'
<1>1. /\ vendor' \in [Batches -> {"absent", "running", "done", "failed"}]
      /\ Created' = Created \cup {id}
      /\ id \notin Submitted /\ id \notin InHand /\ id \notin lost
  BY MakesFacts
<1>2. Types'
  BY <1>1 DEF BatchInv, Types
<1>3. HasBatch'
  BY DEF BatchInv, HasBatch, OnlyMoves, At
<1>4. InHand' = InHand /\ Submitted' = Submitted /\ Terminal("done")' = Terminal("done")
  BY Hands, SameLines DEF At
<1>5. InOneHand'
  BY <1>1, <1>4 DEF BatchInv, InOneHand, OnlyMoves, At
<1>6. AllKnown'
  BY <1>1, <1>4 DEF BatchInv, AllKnown
<1>7. ClosedCaptured'
  BY <1>4 DEF BatchInv, ClosedCaptured, OnlyMoves, At
<1>8. QED
  BY <1>2, <1>3, <1>5, <1>6, <1>7 DEF BatchInv

(* A held batch is recorded. *)
LEMMA RecordInv ==
  ASSUME BatchInv, NEW p \in Callers, RecordSubmitted(p)
  PROVE  BatchInv'
<1> DEFINE entry == [event |-> "batch_submitted", id |-> run[p].id]
<1>1. /\ At(p, "answered") /\ run[p].id \in Batches /\ run \in [Callers -> Run]
      /\ run[p] \in Run
  BY DEF RecordSubmitted, BatchInv, HasBatch, Types, At
<1>2. UNCHANGED <<captured, vendor, lost>> /\ batchLog' = Append(batchLog, entry)
  BY DEF RecordSubmitted
<1>3. /\ run' \in [Callers -> Run] /\ OnlyMoves(p)
      /\ run'[p].pc = "poll" /\ run'[p].id = run[p].id
  BY <1>1 DEF RecordSubmitted, Goto, OnlyMoves, Run, Steps
<1>4. entry \in Entry
  BY <1>1 DEF Entry
<1>5. /\ batchLog' \in Seq(Entry)
      /\ Submitted' = Submitted \cup {run[p].id} /\ Terminal("done")' = Terminal("done")
  <2>1. Submits(entry) = {run[p].id} /\ Closes(entry) = {}
    BY DEF Submits, Closes
  <2> HIDE DEF entry
  <2>2. QED
    BY <1>2, <1>4, <2>1, AppendLine DEF BatchInv
<1>6. InHand = InHand' \cup {run[p].id} /\ run[p].id \notin InHand'
  BY <1>1, <1>3, Hands DEF BatchInv, InOneHand, At
<1>7. Types' /\ HasBatch'
  BY <1>1, <1>2, <1>3, <1>5 DEF BatchInv, Types, HasBatch, OnlyMoves
<1>8. InOneHand'
  BY <1>2, <1>3, <1>5, <1>6 DEF BatchInv, InOneHand, OnlyMoves, At
<1>9. AllKnown'
  BY <1>2, <1>5, <1>6 DEF BatchInv, InOneHand, AllKnown, Created
<1>10. ClosedCaptured'
  BY <1>2, <1>3, <1>5 DEF BatchInv, ClosedCaptured, OnlyMoves, At
<1>11. QED
  BY <1>7, <1>8, <1>9, <1>10 DEF BatchInv

(* A held batch is dropped, by a crash or an answer that cannot be kept. *)
LEMMA DroppedInv ==
  ASSUME BatchInv, NEW p \in Callers, At(p, "answered"), End(p),
         lost' = lost \cup {run[p].id}, UNCHANGED <<batchLog, captured, vendor>>
  PROVE  BatchInv'
<1>1. run[p].id \in Batches /\ run \in [Callers -> Run]
  BY DEF BatchInv, HasBatch, Types, At
<1>2. /\ run' \in [Callers -> Run] /\ OnlyMoves(p) /\ run'[p].pc = "idle"
  BY <1>1, BatchAssumption DEF End, Idle, OnlyMoves, Run, Steps
<1>3. Submitted' = Submitted /\ Terminal("done")' = Terminal("done")
  BY SameLines
<1>4. InHand = InHand' \cup {run[p].id} /\ run[p].id \notin InHand'
  BY <1>2, Hands DEF BatchInv, InOneHand, At
<1>5. Types' /\ HasBatch'
  BY <1>1, <1>2 DEF BatchInv, Types, HasBatch, OnlyMoves
<1>6. InOneHand'
  BY <1>2, <1>3, <1>4 DEF BatchInv, InOneHand, OnlyMoves, At
<1>7. AllKnown'
  BY <1>3, <1>4 DEF BatchInv, InOneHand, AllKnown, Created
<1>8. ClosedCaptured'
  BY <1>2, <1>3 DEF BatchInv, ClosedCaptured, OnlyMoves, At
<1>9. QED
  BY <1>5, <1>6, <1>7, <1>8 DEF BatchInv

(* What the helpers make of a run. *)
LEMMA RunFacts ==
  ASSUME BatchInv, NEW p \in Callers
  PROVE  /\ run \in [Callers -> Run] /\ run[p] \in Run
         /\ End(p) => run' \in [Callers -> Run] /\ OnlyMoves(p) /\ run'[p].pc = "idle"
         /\ \A step \in Steps : Goto(p, step) =>
              /\ run' \in [Callers -> Run] /\ OnlyMoves(p)
              /\ run'[p].pc = step /\ run'[p].id = run[p].id
         /\ run[p].pc \in {"poll", "fetch", "store", "close"} => run[p].id \in Batches
<1>1. run \in [Callers -> Run] /\ run[p] \in Run
  BY DEF BatchInv, Types
<1>2. End(p) => run' \in [Callers -> Run] /\ OnlyMoves(p) /\ run'[p].pc = "idle"
  BY <1>1, BatchAssumption DEF End, Idle, OnlyMoves, Run, Steps
<1>3. \A step \in Steps : Goto(p, step) =>
        /\ run' \in [Callers -> Run] /\ OnlyMoves(p)
        /\ run'[p].pc = step /\ run'[p].id = run[p].id
  BY <1>1 DEF Goto, OnlyMoves, Run
<1>4. run[p].pc \in {"poll", "fetch", "store", "close"} => run[p].id \in Batches
  BY DEF BatchInv, HasBatch
<1>5. QED
  BY <1>1, <1>2, <1>3, <1>4

(* Steps that leave the log, the captures and the vendor alone. *)
LEMMA SilentInv ==
  ASSUME BatchInv, NEW p \in Callers, OnlyMoves(p),
         UNCHANGED <<batchLog, captured, vendor, lost>>,
         run' \in [Callers -> Run], ~ At(p, "answered"), ~ At(p, "answered")',
         run'[p].pc \in {"poll", "fetch", "store"} => run'[p].id \in Batches,
         ~ At(p, "close")'
  PROVE  BatchInv'
<1>1. Submitted' = Submitted /\ Terminal("done")' = Terminal("done")
  BY SameLines
<1>2. /\ batchLog' \in Seq(Entry) /\ captured' \in Seq(Batches)
      /\ ToSet(captured) \subseteq ToSet(captured)'
      /\ Terminal("done")' \subseteq ToSet(captured)'
  BY <1>1 DEF BatchInv, Types, ClosedCaptured
<1>3. run'[p].pc \in {"poll", "fetch", "store", "close"} => run'[p].id \in Batches
  BY DEF At
<1>4. QED
  BY <1>1, <1>2, <1>3, QuietInv

(* A run that ends early. *)
LEMMA EndInv ==
  ASSUME BatchInv, NEW p \in Callers, End(p), ~ At(p, "answered"),
         UNCHANGED <<batchLog, captured, vendor, lost>>
  PROVE  BatchInv'
  BY RunFacts, SilentInv DEF At

LEMMA BeginInv ==
  ASSUME BatchInv, NEW p \in Callers, NEW live \in BOOLEAN, Begin(p, live)
  PROVE  BatchInv'
<1>1. UNCHANGED <<batchLog, captured, vendor, lost>> /\ ~ At(p, "answered")
  BY DEF Begin, At
<1>2. CASE End(p)
  BY <1>1, <1>2, EndInv
<1>3. CASE run' = [run EXCEPT ![p] = [Idle EXCEPT !.pc = "lookup"]]
  <2>1. PICK state : state = [Idle EXCEPT !.pc = "lookup"]
    OBVIOUS
  <2>2. state \in Run /\ state.pc = "lookup"
    BY <2>1, BatchAssumption DEF Idle, Run, Steps
  <2>3. run' \in [Callers -> Run] /\ OnlyMoves(p) /\ run'[p].pc = "lookup"
    BY <1>3, <2>1, <2>2, RunFacts DEF OnlyMoves
  <2>4. QED
    BY <1>1, <2>3, SilentInv DEF At
<1>4. QED
  BY <1>2, <1>3 DEF Begin

LEMMA LookUpInv ==
  ASSUME BatchInv, NEW p \in Callers, LookUp(p)
  PROVE  BatchInv'
<1>1. /\ UNCHANGED <<batchLog, captured, vendor, lost>> /\ ~ At(p, "answered")
      /\ run[p] \in Run /\ run \in [Callers -> Run]
  BY RunFacts DEF LookUp, At
<1>2. CASE Goto(p, "submit")
  BY <1>1, <1>2, RunFacts, SilentInv DEF At, Steps
<1>3. ASSUME NEW i \in DOMAIN batchLog,
             run' = [run EXCEPT ![p] = [run[p] EXCEPT !.pc = "poll", !.id = batchLog[i].id]]
      PROVE  BatchInv'
  <2>1. batchLog[i].id \in Batches
    BY LogFacts, EntryFacts DEF BatchInv
  <2>2. PICK state : state = [run[p] EXCEPT !.pc = "poll", !.id = batchLog[i].id]
    OBVIOUS
  <2>3. state \in Run /\ state.pc = "poll" /\ state.id \in Batches
    BY <1>1, <2>1, <2>2 DEF Run, Steps
  <2>4. run' \in [Callers -> Run] /\ OnlyMoves(p) /\ run'[p] = state
    BY <1>1, <1>3, <2>2, <2>3 DEF OnlyMoves
  <2>5. QED
    BY <1>1, <2>3, <2>4, SilentInv DEF At
<1>4. QED
  BY <1>2, <1>3 DEF LookUp

LEMMA SubmitInv ==
  ASSUME BatchInv, NEW p \in Callers, SubmitAnswered(p) \/ SubmitRetried(p)
  PROVE  BatchInv'
<1>1. /\ UNCHANGED <<batchLog, captured>> /\ run[p].pc = "submit"
      /\ run[p] \in Run /\ run \in [Callers -> Run]
  BY RunFacts DEF SubmitAnswered, SubmitRetried, At
<1>2. CASE SubmitAnswered(p)
  <2>1. UNCHANGED lost
    BY <1>2 DEF SubmitAnswered
  <2>2. CASE End(p) /\ UNCHANGED vendor
    BY <1>1, <2>1, <2>2, EndInv DEF At
  <2>3. ASSUME NEW id \in Batches, Makes(id),
               run' = [run EXCEPT ![p].pc = "answered", ![p].id = id]
        PROVE  BatchInv'
    <3>1. /\ run' \in [Callers -> Run] /\ OnlyMoves(p)
          /\ run'[p].pc = "answered" /\ run'[p].id = id
      BY <1>1, <2>3 DEF OnlyMoves, Run, Steps
    <3>2. QED
      BY <1>1, <2>1, <2>3, <3>1, HandedInv DEF At
  <2>4. QED
    BY <1>2, <2>2, <2>3 DEF SubmitAnswered
<1>3. CASE SubmitRetried(p)
  <2>1. run' \in [Callers -> Run] /\ OnlyMoves(p) /\ run'[p].pc \in {"submit", "idle"}
    <3>1. CASE run[p].attempt + 1 < MaxAttempts
      <4>1. PICK next \in 0 .. MaxAttempts - 1 : next = run[p].attempt + 1
        BY <1>1, <3>1, BatchAssumption DEF Run
      <4>2. run' = [run EXCEPT ![p].attempt = next]
        BY <1>3, <3>1, <4>1 DEF SubmitRetried
      <4>3. QED
        BY <1>1, <4>2 DEF OnlyMoves, Run
    <3>2. CASE ~ (run[p].attempt + 1 < MaxAttempts)
      BY <1>3, <3>2, RunFacts DEF SubmitRetried
    <3>3. QED
      BY <3>1, <3>2
  <2>2. ASSUME NEW id \in Batches, Makes(id), lost' = lost \cup {id} PROVE BatchInv'
    BY <1>1, <2>1, <2>2, UnheardInv
  <2>3. CASE UNCHANGED <<vendor, lost>>
    BY <1>1, <2>1, <2>3, SilentInv DEF At
  <2>4. QED
    BY <1>3, <2>2, <2>3 DEF SubmitRetried
<1>4. QED
  BY <1>2, <1>3

LEMMA PollInv ==
  ASSUME BatchInv, NEW p \in Callers, Poll(p)
  PROVE  BatchInv'
<1>1. /\ UNCHANGED <<captured, vendor, lost>> /\ run[p].pc = "poll"
      /\ run[p] \in Run /\ run \in [Callers -> Run] /\ run[p].id \in Batches
  BY RunFacts DEF Poll, At
<1>2. PICK next \in 0 .. MaxPolls : next = run[p].polls + 1
  BY <1>1, BatchAssumption DEF Poll, Run
<1>3. CASE UNCHANGED batchLog /\ run' = [run EXCEPT ![p].pc = "fetch", ![p].polls = @ + 1]
  <2>1. run' = [run EXCEPT ![p].pc = "fetch", ![p].polls = next]
    BY <1>1, <1>2, <1>3 DEF Run
  <2>2. /\ run' \in [Callers -> Run] /\ OnlyMoves(p)
        /\ run'[p].pc = "fetch" /\ run'[p].id = run[p].id
    BY <1>1, <2>1 DEF OnlyMoves, Run, Steps
  <2>3. QED
    BY <1>1, <1>3, <2>2, SilentInv DEF At
<1>4. CASE UNCHANGED batchLog /\ run' = [run EXCEPT ![p].polls = @ + 1]
  <2>1. run' = [run EXCEPT ![p].polls = next]
    BY <1>1, <1>2, <1>4
  <2>2. /\ run' \in [Callers -> Run] /\ OnlyMoves(p)
        /\ run'[p].pc = "poll" /\ run'[p].id = run[p].id
    BY <1>1, <2>1 DEF OnlyMoves, Run
  <2>3. QED
    BY <1>1, <1>4, <2>2, SilentInv DEF At
<1>5. CASE /\ batchLog' = Append(batchLog, [event |-> "batch_terminal", id |-> run[p].id,
                                            status |-> "failed"])
           /\ End(p)
  <2>1. PICK entry : entry = [event |-> "batch_terminal", id |-> run[p].id, status |-> "failed"]
    OBVIOUS
  <2>2. entry \in Entry /\ Submits(entry) = {} /\ Closes(entry) = {}
    BY <1>1, <2>1 DEF Entry, Submits, Closes
  <2>3. batchLog' \in Seq(Entry) /\ Submitted' = Submitted /\ Terminal("done")' = Terminal("done")
    BY <1>5, <2>1, <2>2, AppendLine DEF BatchInv
  <2>4. /\ captured' \in Seq(Batches) /\ ToSet(captured) \subseteq ToSet(captured)'
        /\ Terminal("done")' \subseteq ToSet(captured)'
    BY <1>1, <2>3 DEF BatchInv, Types, ClosedCaptured
  <2>5. run' \in [Callers -> Run] /\ OnlyMoves(p) /\ run'[p].pc = "idle"
    BY <1>5, RunFacts
  <2>6. QED
    BY <1>1, <2>3, <2>4, <2>5, QuietInv DEF At
<1>6. QED
  BY <1>3, <1>4, <1>5 DEF Poll

LEMMA PollAgainInv ==
  ASSUME BatchInv, NEW p \in Callers, PollAgain(p)
  PROVE  BatchInv'
<1>1. /\ UNCHANGED <<batchLog, captured, vendor, lost>> /\ run[p].pc \in {"poll", "fetch"}
      /\ run[p] \in Run /\ run \in [Callers -> Run] /\ run[p].id \in Batches
  BY RunFacts DEF PollAgain, At
<1>2. CASE Goto(p, "poll")
  BY <1>1, <1>2, RunFacts, SilentInv DEF At, Steps
<1>3. CASE /\ At(p, "poll") /\ run[p].polls < MaxPolls
           /\ run' = [run EXCEPT ![p].polls = @ + 1]
  <2>1. PICK next \in 0 .. MaxPolls : next = run[p].polls + 1
    BY <1>1, <1>3, BatchAssumption DEF Run
  <2>2. run' = [run EXCEPT ![p].polls = next]
    BY <1>1, <1>3, <2>1
  <2>3. /\ run' \in [Callers -> Run] /\ OnlyMoves(p)
        /\ run'[p].pc = "poll" /\ run'[p].id = run[p].id
    BY <1>1, <1>3, <2>2 DEF OnlyMoves, Run, At
  <2>4. QED
    BY <1>1, <2>3, SilentInv DEF At
<1>4. QED
  BY <1>2, <1>3 DEF PollAgain

LEMMA FetchInv ==
  ASSUME BatchInv, NEW p \in Callers, Fetch(p)
  PROVE  BatchInv'
<1>1. /\ UNCHANGED <<batchLog, captured, vendor, lost>> /\ run[p].pc = "fetch"
      /\ Goto(p, "store") /\ run[p].id \in Batches
  BY RunFacts DEF Fetch, At
<1>2. QED
  BY <1>1, RunFacts, SilentInv DEF At, Steps

(* The result is captured before the batch is closed. *)
LEMMA StoreResultInv ==
  ASSUME BatchInv, NEW p \in Callers, StoreResult(p)
  PROVE  BatchInv'
<1>1. UNCHANGED <<batchLog, vendor, lost>> /\ run[p].pc = "store" /\ run[p].id \in Batches
  BY RunFacts DEF StoreResult, At
<1>2. /\ run' \in [Callers -> Run] /\ OnlyMoves(p)
      /\ run'[p].pc = "close" /\ run'[p].id = run[p].id
  BY RunFacts DEF StoreResult, Steps
<1>3. captured' \in Seq(Batches) /\ ToSet(captured)' = ToSet(captured) \cup {run[p].id}
  BY <1>1, CaptureFacts DEF StoreResult, BatchInv
<1>4. Submitted' = Submitted /\ Terminal("done")' = Terminal("done")
  BY <1>1, SameLines
<1>5. batchLog' \in Seq(Entry) /\ Terminal("done")' \subseteq ToSet(captured)'
  BY <1>1, <1>3, <1>4 DEF BatchInv, Types, ClosedCaptured
<1>6. QED
  BY <1>1, <1>2, <1>3, <1>4, <1>5, QuietInv DEF At

LEMMA RecordDoneInv ==
  ASSUME BatchInv, NEW p \in Callers, RecordDone(p)
  PROVE  BatchInv'
<1>1. /\ UNCHANGED <<captured, vendor, lost>> /\ run[p].pc = "close" /\ run[p].id \in Batches
      /\ run[p].id \in ToSet(captured)
  BY RunFacts DEF RecordDone, At, BatchInv, ClosedCaptured
<1>2. run' \in [Callers -> Run] /\ OnlyMoves(p) /\ run'[p].pc = "idle"
  BY RunFacts DEF RecordDone
<1>3. PICK entry : entry = [event |-> "batch_terminal", id |-> run[p].id, status |-> "done"]
  OBVIOUS
<1>4. entry \in Entry /\ Submits(entry) = {} /\ Closes(entry) = {run[p].id}
  BY <1>1, <1>3 DEF Entry, Submits, Closes
<1>5. /\ batchLog' \in Seq(Entry) /\ Submitted' = Submitted
      /\ Terminal("done")' = Terminal("done") \cup {run[p].id}
  BY <1>3, <1>4, AppendLine DEF RecordDone, BatchInv
<1>6. /\ captured' \in Seq(Batches) /\ ToSet(captured) \subseteq ToSet(captured)'
      /\ Terminal("done")' \subseteq ToSet(captured)'
  BY <1>1, <1>5 DEF BatchInv, Types, ClosedCaptured
<1>7. QED
  BY <1>1, <1>2, <1>5, <1>6, QuietInv DEF At

(* The vendor settles a batch it has made. *)
LEMMA SettlesInv ==
  ASSUME BatchInv, NEW id \in Batches, VendorSettles(id)
  PROVE  BatchInv'
<1>1. /\ UNCHANGED <<batchLog, captured, run, lost>> /\ vendor[id] = "running"
      /\ \E outcome \in {"done", "failed"} : vendor' = [vendor EXCEPT ![id] = outcome]
      /\ vendor \in [Batches -> {"absent", "running", "done", "failed"}]
  BY DEF VendorSettles, BatchInv, Types
<1>2. /\ vendor' \in [Batches -> {"absent", "running", "done", "failed"}]
      /\ Created' = Created
  BY <1>1 DEF Created
<1>3. Submitted' = Submitted /\ Terminal("done")' = Terminal("done") /\ InHand' = InHand
  BY <1>1, SameLines DEF InHand, At
<1>4. QED
  BY <1>1, <1>2, <1>3
  DEF BatchInv, Types, HasBatch, InOneHand, AllKnown, ClosedCaptured, At

LEMMA BatchInit == Init => BatchInv
<1> SUFFICES ASSUME Init PROVE BatchInv
  OBVIOUS
<1>1. run \in [Callers -> Run] /\ \A p \in Callers : run[p].pc = "idle"
  BY BatchAssumption DEF Init, Idle, Run, Steps
<1>2. /\ InHand = {} /\ Submitted = {} /\ Terminal("done") = {} /\ Created = {}
  BY <1>1 DEF Init, InHand, At, Submitted, Terminal, Created
<1>3. Types
  BY <1>1 DEF Init, Types
<1>4. QED
  BY <1>1, <1>2, <1>3 DEF Init, BatchInv, HasBatch, InOneHand, AllKnown, ClosedCaptured, At

LEMMA BatchStep == BatchInv /\ [Next]_vars => BatchInv'
<1> SUFFICES ASSUME BatchInv, [Next]_vars PROVE BatchInv'
  OBVIOUS
<1>1. ASSUME NEW p \in Callers, AnswerUnusable(p) PROVE BatchInv'
  BY <1>1, DroppedInv DEF AnswerUnusable
<1>2. ASSUME NEW p \in Callers, Crash(p) PROVE BatchInv'
  <2>1. CASE At(p, "answered")
    BY <1>2, <2>1, DroppedInv DEF Crash
  <2>2. CASE ~ At(p, "answered")
    BY <1>2, <2>2, EndInv DEF Crash
  <2>3. QED
    BY <2>1, <2>2
<1>3. ASSUME NEW p \in Callers,
             BudgetStop(p) \/ Deadline(p) \/ ProbeRaises(p) \/ StorageStop(p)
      PROVE  BatchInv'
  BY <1>3, EndInv DEF BudgetStop, Deadline, ProbeRaises, StorageStop, At
<1>4. CASE UNCHANGED vars
  <2>1. Submitted' = Submitted /\ Terminal("done")' = Terminal("done") /\ InHand' = InHand
    BY <1>4, SameLines DEF vars, InHand, At
  <2>2. QED
    BY <1>4, <2>1 DEF vars, BatchInv, Types, HasBatch, InOneHand, AllKnown, ClosedCaptured,
                      Created, At
<1>5. QED
  BY <1>1, <1>2, <1>3, <1>4, BeginInv, LookUpInv, SubmitInv, RecordInv, PollInv, PollAgainInv,
     FetchInv, StoreResultInv, RecordDoneInv, SettlesInv DEF Next, Advance

(* Every batch the vendor made is recorded, in the hands of the one process about to *)
(* record it, or was lost to a timeout, a crash in between or an unusable answer;     *)
(* and no batch is closed as done before its result is captured.                      *)
THEOREM BatchesAccounted == Spec => []EveryBatchAccounted
<1>1. BatchInv => EveryBatchAccounted
  BY DEF BatchInv, AllKnown, ClosedCaptured, EveryBatchAccounted, InHand
<1>2. QED
  BY <1>1, BatchInit, BatchStep, PTL DEF Spec

-----------------------------------------------------------------------------
(* The limiter of a family.                                                *)

LimiterTypes == /\ now \in Nat /\ lastRefill \in Nat /\ lastRefill <= now
                /\ tokens \in 0 .. Capacity
                /\ granted \in Seq(Nat)

\* What the tokens granted since one of them leave for the bucket, brought up to
\* date when the last was refilled.
BucketCovers ==
  \A i \in DOMAIN granted :
    /\ granted[i] <= lastRefill
    /\ tokens + (Len(granted) - i + 1) * UnitsPerToken
         <= Capacity + Refill * (lastRefill - granted[i])

LimiterInv == LimiterTypes /\ BucketCovers /\ RateKept

(* Products with the rate add up over adjacent stretches of time. *)
LEMMA Adjacent ==
  ASSUME NEW u \in Nat, NEW a \in Int, NEW b \in Int, NEW c \in Int
  PROVE  /\ u * (a - b) \in Int
         /\ u * (c - a) + u * (b - c) = u * (b - a)
         /\ (a + 1) * u \in Int /\ a * u \in Int
         /\ (a + 1) * u = a * u + u
  OBVIOUS

LEMMA CapacityFacts ==
  /\ UnitsPerToken \in Nat \ {0} /\ Refill \in Nat \ {0}
  /\ Capacity \in Nat /\ UnitsPerToken <= Capacity
<1> DEFINE rps == (Refill * TicksPerSecond) \div UnitsPerToken
<1>1. UnitsPerToken \in Nat \ {0} /\ Refill \in Nat \ {0} /\ TicksPerSecond \in Nat \ {0}
  BY LimiterAssumption
<1>2. Refill * TicksPerSecond \in Nat
  BY <1>1
<1>3. rps \in Int
  BY <1>1, <1>2
<1> HIDE DEF rps
<1>4. PICK whole \in Nat \ {0} : whole = IF rps > 1 THEN rps ELSE 1
  BY <1>3
<1>5. Capacity = UnitsPerToken * whole
  BY <1>4 DEF Capacity, rps
<1>6. UnitsPerToken * whole \in Nat /\ UnitsPerToken <= UnitsPerToken * whole
  BY <1>1
<1>7. QED
  BY <1>1, <1>5, <1>6

(* Bringing the bucket up to date adds what the rate refills, up to its capacity. *)
LEMMA RefillFacts ==
  ASSUME LimiterInv
  PROVE  /\ Refilled \in 0 .. Capacity
         /\ \A i \in DOMAIN granted :
              /\ granted[i] \in Nat /\ granted[i] <= now
              /\ Refilled + (Len(granted) - i + 1) * UnitsPerToken
                   <= Capacity + Refill * (now - granted[i])
<1>1. /\ now \in Nat /\ lastRefill \in Nat /\ lastRefill <= now
      /\ tokens \in Nat /\ tokens <= Capacity /\ granted \in Seq(Nat)
  BY CapacityFacts DEF LimiterInv, LimiterTypes
<1>2. PICK full \in Nat : full = tokens + Refill * (now - lastRefill)
  <2>1. now - lastRefill \in Nat
    BY <1>1
  <2>2. Refill * (now - lastRefill) \in Nat
    BY <2>1, CapacityFacts
  <2>3. QED
    BY <1>1, <2>2
<1>3. Refilled = IF full < Capacity THEN full ELSE Capacity
  BY <1>2 DEF Refilled
<1>4. Refilled \in 0 .. Capacity /\ Refilled <= full
  BY <1>2, <1>3, CapacityFacts
<1>5. ASSUME NEW i \in DOMAIN granted
      PROVE  /\ granted[i] \in Nat /\ granted[i] <= now
             /\ Refilled + (Len(granted) - i + 1) * UnitsPerToken
                  <= Capacity + Refill * (now - granted[i])
  <2>1. granted[i] \in Nat /\ granted[i] <= lastRefill /\ i \in Nat /\ Len(granted) \in Nat
    BY <1>1 DEF LimiterInv, BucketCovers
  <2>2. PICK spent \in Int : spent = (Len(granted) - i + 1) * UnitsPerToken
    BY <2>1, CapacityFacts
  <2>3. tokens + spent <= Capacity + Refill * (lastRefill - granted[i])
    BY <2>2 DEF LimiterInv, BucketCovers
  <2>4. PICK before \in Int, since \in Int, all \in Int :
          /\ before = Refill * (lastRefill - granted[i])
          /\ since = Refill * (now - lastRefill)
          /\ all = Refill * (now - granted[i])
    <3>1. Refill \in Nat /\ lastRefill \in Int /\ now \in Int /\ granted[i] \in Int
      BY <1>1, <2>1, CapacityFacts
    <3>2. /\ Refill * (lastRefill - granted[i]) \in Int
          /\ Refill * (now - lastRefill) \in Int
          /\ Refill * (now - granted[i]) \in Int
      BY <3>1, Adjacent
    <3>3. QED
      BY <3>2
  <2>5. before + since = all
    <3>1. Refill \in Nat /\ lastRefill \in Int /\ now \in Int /\ granted[i] \in Int
      BY <1>1, <2>1, CapacityFacts
    <3>2. Refill * (lastRefill - granted[i]) + Refill * (now - lastRefill)
            = Refill * (now - granted[i])
      BY <3>1, Adjacent
    <3>3. QED
      BY <2>4, <3>2
  <2>6. tokens + spent <= Capacity + before /\ full = tokens + since
    BY <1>2, <2>3, <2>4
  <2>7. Refilled + spent <= Capacity + all
    BY <1>1, <1>4, <2>5, <2>6, CapacityFacts
  <2>8. granted[i] <= now
    BY <1>1, <2>1
  <2>9. QED
    BY <2>1, <2>2, <2>4, <2>7, <2>8
<1>6. QED
  BY <1>4, <1>5

LEMMA LimiterInit == Full => LimiterInv
  BY CapacityFacts DEF Full, LimiterInv, LimiterTypes, BucketCovers, RateKept

(* A turn that finds no token only brings the bucket up to date. *)
LEMMA WaitInv ==
  ASSUME LimiterInv, NEW t \in Threads, Wait(t)
  PROVE  LimiterInv'
<1>1. tokens' = Refilled /\ lastRefill' = now /\ UNCHANGED <<now, granted>>
  BY DEF Wait
<1>2. LimiterTypes'
  BY <1>1, RefillFacts DEF LimiterInv, LimiterTypes, Capacity
<1>3. Capacity' = Capacity
  BY DEF Capacity
<1>4. BucketCovers'
  BY <1>1, <1>3, RefillFacts DEF BucketCovers
<1>5. RateKept'
  BY <1>1, <1>3 DEF LimiterInv, RateKept
<1>6. QED
  BY <1>2, <1>4, <1>5 DEF LimiterInv

(* A turn that finds one takes it: the bucket pays for every stretch that ends now. *)
LEMMA TakeTokenInv ==
  ASSUME LimiterInv, NEW t \in Threads, TakeToken(t)
  PROVE  LimiterInv'
<1> DEFINE n == Len(granted)
<1>1. /\ tokens' = Refilled - UnitsPerToken /\ UnitsPerToken <= Refilled
      /\ lastRefill' = now /\ now' = now /\ granted' = Append(granted, now)
  BY RefillFacts, CapacityFacts DEF TakeToken
<1>2. granted \in Seq(Nat) /\ n \in Nat /\ now \in Nat
  BY DEF LimiterInv, LimiterTypes
<1>3. /\ granted' \in Seq(Nat) /\ Len(granted') = n + 1 /\ DOMAIN granted' = 1 .. n + 1
      /\ DOMAIN granted = 1 .. n
      /\ granted'[n + 1] = now /\ \A i \in 1 .. n : granted'[i] = granted[i]
  BY <1>1, <1>2
<1>4. Capacity' = Capacity
  BY DEF Capacity
<1>5. Refilled \in Nat /\ Refilled <= Capacity
  BY RefillFacts, CapacityFacts
<1>6. LimiterTypes'
  BY <1>1, <1>2, <1>3, <1>4, <1>5, CapacityFacts DEF LimiterTypes
<1>7. ASSUME NEW i \in 1 .. n
      PROVE  /\ granted[i] \in Nat /\ granted[i] <= now
             /\ Refilled - UnitsPerToken + (n + 1 - i + 1) * UnitsPerToken
                  <= Capacity + Refill * (now - granted[i])
             /\ (n + 1 - i + 1) * UnitsPerToken <= Capacity + Refill * (now - granted[i])
  <2>1. /\ granted[i] \in Nat /\ granted[i] <= now
        /\ Refilled + (n - i + 1) * UnitsPerToken <= Capacity + Refill * (now - granted[i])
    BY <1>3, RefillFacts
  <2>2. PICK k \in Nat : k = n - i + 1 /\ n + 1 - i + 1 = k + 1
    <3>1. i \in Nat /\ i <= n
      BY <1>2
    <3> HIDE DEF n
    <3>2. n - i + 1 \in Nat /\ n + 1 - i + 1 = (n - i + 1) + 1
      BY <1>2, <3>1
    <3>3. QED
      BY <3>2
  <2>3. /\ (k + 1) * UnitsPerToken = k * UnitsPerToken + UnitsPerToken
        /\ k * UnitsPerToken \in Int /\ Refill * (now - granted[i]) \in Int
    <3>1. /\ UnitsPerToken \in Nat /\ Refill \in Nat /\ k \in Int
          /\ now \in Int /\ granted[i] \in Int
      BY <1>2, <2>1, CapacityFacts
    <3>2. QED
      BY <3>1, Adjacent
  <2>4. PICK spent \in Int, refilled \in Int : /\ spent = k * UnitsPerToken
                                              /\ refilled = Refill * (now - granted[i])
    BY <2>3
  <2>5. /\ Refilled + spent <= Capacity + refilled
        /\ (n + 1 - i + 1) * UnitsPerToken = spent + UnitsPerToken
    BY <2>1, <2>2, <2>3, <2>4
  <2>6. PICK next \in Int : next = (n + 1 - i + 1) * UnitsPerToken /\ next = spent + UnitsPerToken
    BY <2>4, <2>5, CapacityFacts
  <2>7. Refilled - UnitsPerToken + next <= Capacity + refilled /\ next <= Capacity + refilled
    <3>1. /\ UnitsPerToken \in Nat /\ UnitsPerToken <= Refilled /\ Capacity \in Nat
          /\ Refilled \in Nat
      BY <1>1, <1>5, CapacityFacts
    <3>2. Refilled + spent <= Capacity + refilled /\ next = spent + UnitsPerToken
      BY <2>5, <2>6
    <3>3. QED
      BY <3>1, <3>2
  <2>8. QED
    BY <2>1, <2>4, <2>6, <2>7
<1>8. BucketCovers'
  <2>1. ASSUME NEW i \in 1 .. n + 1
        PROVE  /\ granted'[i] <= now
               /\ Refilled - UnitsPerToken + (n + 1 - i + 1) * UnitsPerToken
                    <= Capacity + Refill * (now - granted'[i])
    <3>1. CASE i \in 1 .. n
      BY <1>3, <1>7, <3>1
    <3>2. CASE i = n + 1
      <4>1. granted'[i] = now /\ now - now = 0 /\ Refill * 0 = 0
        BY <1>2, <1>3, <3>2, CapacityFacts
      <4>2. (n + 1 - i + 1) * UnitsPerToken = UnitsPerToken
        BY <1>2, <3>2, CapacityFacts
      <4>3. QED
        BY <1>2, <1>5, <4>1, <4>2, CapacityFacts
    <3>3. QED
      BY <1>2, <3>1, <3>2
  <2>2. QED
    BY <1>1, <1>3, <1>4, <2>1 DEF BucketCovers
<1>9. RateKept'
  <2>1. ASSUME NEW i \in 1 .. n + 1, NEW j \in 1 .. n + 1, i <= j
        PROVE  (j - i + 1) * UnitsPerToken <= Capacity + Refill * (granted'[j] - granted'[i])
    <3>1. CASE j \in 1 .. n
      <4>1. i \in 1 .. n
        BY <1>2, <2>1, <3>1
      <4>2. QED
        BY <1>3, <2>1, <3>1, <4>1 DEF LimiterInv, RateKept
    <3>2. CASE j = n + 1 /\ i \in 1 .. n
      BY <1>3, <1>7, <3>2
    <3>3. CASE j = n + 1 /\ i = n + 1
      <4>1. (j - i + 1) * UnitsPerToken = UnitsPerToken
        BY <1>2, <3>3, CapacityFacts
      <4>2. granted'[j] - granted'[i] = 0 /\ Refill * 0 = 0
        BY <1>2, <1>3, <3>3, CapacityFacts
      <4>3. QED
        BY <4>1, <4>2, CapacityFacts
    <3>4. QED
      BY <1>2, <3>1, <3>2, <3>3
  <2>2. QED
    BY <1>3, <1>4, <2>1 DEF RateKept
<1>10. QED
  BY <1>6, <1>8, <1>9 DEF LimiterInv

LEMMA LimiterStep == LimiterInv /\ [Race]_limiter => LimiterInv'
<1> SUFFICES ASSUME LimiterInv, [Race]_limiter PROVE LimiterInv'
  OBVIOUS
<1>1. Capacity' = Capacity
  BY DEF Capacity
<1>2. CASE UNCHANGED <<tokens, lastRefill, granted>> /\ now' \in {now, now + 1}
  BY <1>1, <1>2 DEF LimiterInv, LimiterTypes, BucketCovers, RateKept
<1>3. CASE Tick \/ UNCHANGED limiter
  BY <1>2, <1>3 DEF Tick, limiter
<1>4. ASSUME NEW t \in Threads, Ask(t) \/ EnterSlot(t) \/ LeaveSlot(t) PROVE LimiterInv'
  BY <1>2, <1>4 DEF Ask, EnterSlot, LeaveSlot
<1>5. QED
  BY <1>3, <1>4, WaitInv, TakeTokenInv DEF Race, Turn

(* Over any stretch of time, however the threads race for tokens, no more requests *)
(* start than the bucket's capacity and what the rate refills meanwhile.           *)
THEOREM LimiterKeepsRate == LimiterSpec => []RateKept
<1>1. Full => LimiterInv
  BY LimiterInit
<1>2. LimiterInv /\ [Race]_limiter => LimiterInv'
  BY LimiterStep
<1>3. LimiterInv => RateKept
  BY DEF LimiterInv
<1>4. QED
  BY <1>1, <1>2, <1>3, PTL DEF LimiterSpec

-----------------------------------------------------------------------------
(* The concurrency gate. *)

InFlight == {t \in Threads : thread[t].at \in {"slot", "sending"}}

ThreadState == [at : {"idle", "queued", "slot", "sending"}, wake : Int]

\* A thread in flight, asleep or sending, holds one count of the semaphore.
GateInv == /\ thread \in [Threads -> ThreadState]
           /\ now \in Int /\ lastRefill \in Int /\ tokens \in Int
           /\ free \in Nat
           /\ IsFiniteSet(InFlight)
           /\ Cardinality(InFlight) + free = Concurrent

LEMMA GateStep == GateInv /\ [Race]_limiter => GateInv'
<1> SUFFICES ASSUME GateInv, [Race]_limiter PROVE GateInv'
  OBVIOUS
<1>1. /\ UnitsPerToken \in Nat \ {0} /\ Refill \in Nat \ {0} /\ Capacity \in Nat
      /\ Concurrent \in Nat
  BY CapacityFacts, LimiterAssumption
<1>2. thread \in [Threads -> ThreadState] /\ Cardinality(InFlight) \in Nat
  BY FS_CardinalityType DEF GateInv
<1>3. Refilled \in Int
  <2>1. PICK full \in Int : full = tokens + Refill * (now - lastRefill)
    <3>1. Refill * (now - lastRefill) \in Int
      BY <1>1 DEF GateInv
    <3>2. QED
      BY <3>1 DEF GateInv
  <2>2. QED
    BY <1>1, <2>1 DEF Refilled
<1>4. Deficit \in Int
  <2>1. UnitsPerToken - Refilled + Refill - 1 \in Int
    BY <1>1, <1>3
  <2>2. QED
    BY <1>1, <2>1 DEF Deficit
<1>5. ASSUME NEW t \in Threads, EnterSlot(t) PROVE GateInv'
  <2>1. InFlight' = InFlight \cup {t} /\ t \notin InFlight
    BY <1>2, <1>5 DEF EnterSlot, Put, Stands, InFlight
  <2>2. thread' \in [Threads -> ThreadState]
    BY <1>2, <1>5 DEF EnterSlot, Put, ThreadState
  <2>3. IsFiniteSet(InFlight') /\ Cardinality(InFlight') = Cardinality(InFlight) + 1
    BY <2>1, FS_AddElement DEF GateInv
  <2>4. free' = free - 1 /\ free > 0 /\ UNCHANGED <<now, lastRefill, tokens>>
    BY <1>5 DEF EnterSlot
  <2>5. QED
    BY <1>1, <1>2, <2>2, <2>3, <2>4 DEF GateInv
<1>6. ASSUME NEW t \in Threads, LeaveSlot(t) PROVE GateInv'
  <2>1. InFlight' = InFlight \ {t} /\ t \in InFlight
    BY <1>2, <1>6 DEF LeaveSlot, Put, Stands, InFlight
  <2>2. thread' \in [Threads -> ThreadState]
    BY <1>2, <1>6 DEF LeaveSlot, Put, ThreadState
  <2>3. IsFiniteSet(InFlight') /\ Cardinality(InFlight') = Cardinality(InFlight) - 1
    BY <2>1, FS_RemoveElement DEF GateInv
  <2>4. free' = free + 1 /\ UNCHANGED <<now, lastRefill, tokens>>
    BY <1>6 DEF LeaveSlot
  <2>5. QED
    BY <1>1, <1>2, <2>2, <2>3, <2>4 DEF GateInv
<1>7. ASSUME thread' \in [Threads -> ThreadState], InFlight' = InFlight, free' = free,
             now' \in Int, lastRefill' \in Int, tokens' \in Int
      PROVE  GateInv'
  BY <1>7 DEF GateInv
<1>8. ASSUME NEW t \in Threads, Ask(t) \/ TakeToken(t) PROVE GateInv'
  <2>1. thread' \in [Threads -> ThreadState] /\ InFlight' = InFlight
    <3>1. CASE Ask(t)
      <4>1. thread' \in [Threads -> ThreadState]
        BY <1>2, <3>1 DEF Ask, Put, ThreadState
      <4>2. InFlight' = InFlight
        BY <1>2, <3>1 DEF Ask, Put, Stands, InFlight
      <4>3. QED
        BY <4>1, <4>2
    <3>2. CASE TakeToken(t)
      <4>1. thread' \in [Threads -> ThreadState]
        BY <1>2, <3>2 DEF TakeToken, Put, ThreadState
      <4>2. InFlight' = InFlight
        BY <1>2, <3>2 DEF TakeToken, Put, Stands, InFlight
      <4>3. QED
        BY <4>1, <4>2
    <3>3. QED
      BY <1>8, <3>1, <3>2
  <2>2. free' = free /\ now' \in Int /\ lastRefill' \in Int /\ tokens' \in Int
    BY <1>1, <1>3, <1>8 DEF Ask, TakeToken, GateInv
  <2>3. QED
    BY <1>7, <2>1, <2>2
<1>9. ASSUME NEW t \in Threads, Wait(t) PROVE GateInv'
  <2>1. PICK wake \in Int : wake = now + Deficit
    BY <1>4 DEF GateInv
  <2>2. thread' = [thread EXCEPT ![t].wake = wake]
    BY <1>9, <2>1 DEF Wait
  <2>3. thread' \in [Threads -> ThreadState] /\ InFlight' = InFlight
    BY <1>2, <2>2 DEF InFlight, ThreadState
  <2>4. free' = free /\ now' \in Int /\ lastRefill' \in Int /\ tokens' \in Int
    BY <1>3, <1>9 DEF Wait, GateInv
  <2>5. QED
    BY <1>7, <2>3, <2>4
<1>10. CASE Tick \/ UNCHANGED limiter
  <2>1. thread' \in [Threads -> ThreadState] /\ InFlight' = InFlight
    BY <1>2, <1>10 DEF Tick, limiter, InFlight
  <2>2. free' = free /\ now' \in Int /\ lastRefill' \in Int /\ tokens' \in Int
    BY <1>10 DEF Tick, limiter, GateInv
  <2>3. QED
    BY <1>7, <2>1, <2>2
<1>11. QED
  BY <1>5, <1>6, <1>8, <1>9, <1>10 DEF Race, Turn

(* No more requests of a family are ever in flight than its concurrency limit. *)
THEOREM LimiterKeepsGate ==
  LimiterSpec => [](Cardinality(InFlight) <= Concurrent)
<1>1. Full => GateInv
  <2> SUFFICES ASSUME Full PROVE GateInv
    OBVIOUS
  <2>1. thread \in [Threads -> ThreadState] /\ InFlight = {}
    BY DEF Full, AtRest, InFlight, ThreadState
  <2>2. IsFiniteSet(InFlight) /\ Cardinality(InFlight) = 0
    BY <2>1, FS_EmptySet
  <2>3. QED
    BY <2>1, <2>2, CapacityFacts, LimiterAssumption DEF Full, GateInv
<1>2. GateInv /\ [Race]_limiter => GateInv'
  BY GateStep
<1>3. GateInv => Cardinality(InFlight) <= Concurrent
  BY FS_CardinalityType DEF GateInv
<1>4. QED
  BY <1>1, <1>2, <1>3, PTL DEF LimiterSpec
=============================================================================

---------------------------- MODULE FactSetBatch ----------------------------
(***************************************************************************)
(* FactSetTransport.run_batch (factset/transport.py): submit, poll and     *)
(* retrieve one asynchronous vendor batch, by several agent processes that *)
(* share the ledger and the response cache, with crashes and resume.       *)
(*                                                                         *)
(* One submission (one request hash) is modelled.  Its live calls count on *)
(* one shared counter; the ledger's own bookkeeping is LiveCallLedger's.   *)
(* Midnight does not pass here, so the counter is the day's.               *)
(***************************************************************************)
EXTENDS Naturals, FiniteSets, Sequences, SequencesExt

CONSTANTS Callers,      \* agent processes
          MaxDaily,     \* transport.max_live_calls_per_day
          MaxAttempts,  \* retries.max_attempts
          MaxPolls,     \* polls that fit before the poll deadline
          MaxRuns,      \* bound: run_batch calls
          MaxBatches    \* bound: batches the vendor makes

ASSUME BatchAssumption == /\ MaxDaily \in Nat
                          /\ MaxAttempts \in Nat \ {0}
                          /\ MaxPolls \in Nat \ {0}
                          /\ MaxRuns \in Nat
                          /\ MaxBatches \in Nat

VARIABLES batchLog,  \* batch_submitted and batch_terminal lines of the ledger
          captured,  \* batch ids of the captures under the result key, in order
          vendor,    \* the vendor's state of each batch
          units,     \* budget units consumed today, counted up to the budget
          run,       \* per process: where its run_batch stands
          runs,      \* run_batch calls so far
          lost       \* history: batches the vendor made whose id nobody kept

vars == <<batchLog, captured, vendor, units, run, runs, lost>>

\* Vendor batch ids, in the order the vendor makes them; 0 is none.
Batches == 1 .. MaxBatches

NoBatch == 0

Entry == [event : {"batch_submitted"}, id : Batches]
         \cup [event : {"batch_terminal"}, id : Batches, status : {"done", "failed"}]

Steps == {"idle", "lookup", "submit", "answered", "poll", "fetch", "store", "close"}

Run == [pc : Steps, id : Batches \cup {NoBatch}, attempt : 0 .. MaxAttempts - 1,
        polls : 0 .. MaxPolls]

Idle == [pc |-> "idle", id |-> NoBatch, attempt |-> 0, polls |-> 0]

-----------------------------------------------------------------------------
Submitted == {batchLog[i].id : i \in {j \in DOMAIN batchLog :
                                        batchLog[j].event = "batch_submitted"}}

Terminal(status) == {batchLog[i].id : i \in {j \in DOMAIN batchLog :
                       /\ batchLog[j].event = "batch_terminal"
                       /\ batchLog[j].status = status}}

Unresolved == Submitted \ (Terminal("done") \cup Terminal("failed"))

\* unresolved_batch: the one submitted last among the open ones.
OpenLine(i) == batchLog[i].event = "batch_submitted" /\ batchLog[i].id \in Unresolved

LastOpenLine(i) == OpenLine(i) /\ \A j \in DOMAIN batchLog : i < j => ~ OpenLine(j)

\* The vendor makes a batch under the next id.
Makes(id) == /\ vendor[id] = "absent"
             /\ \A other \in 1 .. id - 1 : vendor[other] # "absent"
             /\ vendor' = [vendor EXCEPT ![id] = "running"]

At(p, step) == run[p].pc = step

Goto(p, step) == run' = [run EXCEPT ![p].pc = step]

\* The call returns or raises: which of the two, and what, is not told apart.
End(p) == run' = [run EXCEPT ![p] = Idle]

\* A status or result probe: counted in the ledger, but no unit is reserved, so
\* probes pass the budget.  What is past it is not counted further here.
Probe == units' = IF units < MaxDaily THEN units + 1 ELSE units

-----------------------------------------------------------------------------
\* Entry: a captured result is served; a transport that is not live stops there.
Begin(p, live) ==
  /\ At(p, "idle")
  /\ runs < MaxRuns
  /\ runs' = runs + 1
  /\ \/ captured # <<>> /\ End(p)
     \/ captured = <<>> /\ ~ live /\ End(p)
     \/ /\ captured = <<>>
        /\ live
        /\ run' = [run EXCEPT ![p] = [Idle EXCEPT !.pc = "lookup"]]
  /\ UNCHANGED <<batchLog, captured, vendor, units, lost>>

\* Resume the unresolved batch of this submission, or submit.
LookUp(p) ==
  /\ At(p, "lookup")
  /\ \/ \E i \in DOMAIN batchLog :
          /\ LastOpenLine(i)
          /\ run' = [run EXCEPT ![p] = [@ EXCEPT !.pc = "poll", !.id = batchLog[i].id]]
     \/ Unresolved = {} /\ Goto(p, "submit")
  /\ UNCHANGED <<batchLog, captured, vendor, units, runs, lost>>

BudgetStop(p) ==
  /\ At(p, "submit")
  /\ units >= MaxDaily
  /\ End(p)
  /\ UNCHANGED <<batchLog, captured, vendor, units, runs, lost>>

\* One attempt of execute(submission, force_refresh=True) reserves a unit.
\* The vendor accepts it, or refuses it for good.
SubmitAnswered(p) ==
  /\ At(p, "submit")
  /\ units < MaxDaily
  /\ units' = units + 1
  /\ \/ \E id \in Batches : /\ Makes(id)
                            /\ run' = [run EXCEPT ![p].pc = "answered", ![p].id = id]
     \/ End(p) /\ UNCHANGED vendor
  /\ UNCHANGED <<batchLog, captured, runs, lost>>

\* The attempt times out (before or after the vendor made a batch) or gets a
\* retryable answer; execute retries it, up to its attempts.
SubmitRetried(p) ==
  /\ At(p, "submit")
  /\ units < MaxDaily
  /\ units' = units + 1
  /\ \/ \E id \in Batches : /\ Makes(id)
                            /\ lost' = lost \cup {id}
     \/ UNCHANGED <<vendor, lost>>
  /\ IF run[p].attempt + 1 < MaxAttempts
     THEN run' = [run EXCEPT ![p].attempt = @ + 1]
     ELSE End(p)
  /\ UNCHANGED <<batchLog, captured, runs>>

\* The accepted answer is persisted, its batch id extracted and recorded.
RecordSubmitted(p) ==
  /\ At(p, "answered")
  /\ batchLog' = Append(batchLog, [event |-> "batch_submitted", id |-> run[p].id])
  /\ Goto(p, "poll")
  /\ UNCHANGED <<captured, vendor, units, runs, lost>>

\* The storage guard refuses the answer, or it carries no batch id.
AnswerUnusable(p) ==
  /\ At(p, "answered")
  /\ lost' = lost \cup {run[p].id}
  /\ End(p)
  /\ UNCHANGED <<batchLog, captured, vendor, units, runs>>

\* Mutant of Deadline: polling has no end.
NoDeadline(p) == FALSE

Deadline(p) ==
  /\ At(p, "poll")
  /\ run[p].polls > 0
  /\ End(p)
  /\ UNCHANGED <<batchLog, captured, vendor, units, runs, lost>>

\* One status poll that reaches the vendor and is answered with a 2xx.
Poll(p) ==
  /\ At(p, "poll")
  /\ run[p].polls < MaxPolls
  /\ Probe
  /\ \/ /\ vendor[run[p].id] = "failed"
        /\ batchLog' = Append(batchLog, [event |-> "batch_terminal", id |-> run[p].id,
                                         status |-> "failed"])
        /\ End(p)
     \/ /\ vendor[run[p].id] = "done"
        /\ run' = [run EXCEPT ![p].pc = "fetch", ![p].polls = @ + 1]
        /\ UNCHANGED batchLog
     \/ /\ vendor[run[p].id] = "running"
        /\ run' = [run EXCEPT ![p].polls = @ + 1]
        /\ UNCHANGED batchLog
  /\ UNCHANGED <<captured, vendor, runs, lost>>

\* A poll or a result probe answered with some other status: poll again.
PollAgain(p) ==
  /\ \/ At(p, "poll") /\ run[p].polls < MaxPolls /\ run' = [run EXCEPT ![p].polls = @ + 1]
     \/ At(p, "fetch") /\ Goto(p, "poll")
  /\ Probe
  /\ UNCHANGED <<batchLog, captured, vendor, runs, lost>>

\* A probe answered 401 or 403 (counted), or timed out (not counted): raise.
ProbeRaises(p) ==
  /\ (At(p, "poll") /\ run[p].polls < MaxPolls) \/ At(p, "fetch")
  /\ Probe \/ UNCHANGED units
  /\ End(p)
  /\ UNCHANGED <<batchLog, captured, vendor, runs, lost>>

\* Mutant of Fetch: the batch is closed before its result is captured.
FetchAndClose(p) ==
  /\ At(p, "fetch")
  /\ Probe
  /\ Goto(p, "close")
  /\ UNCHANGED <<batchLog, captured, vendor, runs, lost>>

Fetch(p) ==
  /\ At(p, "fetch")
  /\ Probe
  /\ Goto(p, "store")
  /\ UNCHANGED <<batchLog, captured, vendor, runs, lost>>

\* The same result bytes are captured once.
StoreResult(p) ==
  /\ At(p, "store")
  /\ captured' = IF Contains(captured, run[p].id) THEN captured
                                                   ELSE Append(captured, run[p].id)
  /\ Goto(p, "close")
  /\ UNCHANGED <<batchLog, vendor, units, runs, lost>>

StorageStop(p) ==
  /\ At(p, "store")
  /\ End(p)
  /\ UNCHANGED <<batchLog, captured, vendor, units, runs, lost>>

RecordDone(p) ==
  /\ At(p, "close")
  /\ batchLog' = Append(batchLog, [event |-> "batch_terminal", id |-> run[p].id,
                                   status |-> "done"])
  /\ End(p)
  /\ UNCHANGED <<captured, vendor, units, runs, lost>>

Crash(p) ==
  /\ ~ At(p, "idle")
  /\ lost' = IF At(p, "answered") THEN lost \cup {run[p].id} ELSE lost
  /\ End(p)
  /\ UNCHANGED <<batchLog, captured, vendor, units, runs>>

\* External: the vendor finishes or fails a batch.
VendorSettles(id) ==
  /\ vendor[id] = "running"
  /\ \E outcome \in {"done", "failed"} : vendor' = [vendor EXCEPT ![id] = outcome]
  /\ UNCHANGED <<batchLog, captured, units, run, runs, lost>>

Init == /\ batchLog = <<>>
        /\ captured = <<>>
        /\ vendor = [id \in Batches |-> "absent"]
        /\ units = 0
        /\ run = [p \in Callers |-> Idle]
        /\ runs = 0
        /\ lost = {}

Advance(p) == \/ LookUp(p)
              \/ BudgetStop(p)
              \/ SubmitAnswered(p)
              \/ SubmitRetried(p)
              \/ RecordSubmitted(p)
              \/ AnswerUnusable(p)
              \/ Deadline(p)
              \/ Poll(p)
              \/ PollAgain(p)
              \/ ProbeRaises(p)
              \/ Fetch(p)
              \/ StoreResult(p)
              \/ StorageStop(p)
              \/ RecordDone(p)

Next == \/ \E p \in Callers : \/ \E live \in BOOLEAN : Begin(p, live)
                              \/ Advance(p)
                              \/ Crash(p)
        \/ \E id \in Batches : VendorSettles(id)

Spec == Init /\ [][Next]_vars

\* A scheduled process takes its next step; the request timeout and the poll
\* deadline end its waits.
FairSpec == Spec /\ \A p \in Callers : WF_vars(Advance(p))

-----------------------------------------------------------------------------
(* Properties.                                                             *)

Created == {id \in Batches : vendor[id] # "absent"}

\* Every batch the vendor made is known to the ledger, is in the hands of the
\* process about to record it, or was lost to a timeout, a crash in between or
\* an unusable answer: no other path forgets one, and none is both.  And no
\* batch is closed as done before its result is captured.
EveryBatchAccounted ==
  LET inHand == {run[p].id : p \in {q \in Callers : At(q, "answered")}}
  IN  /\ Created = Submitted \cup inHand \cup lost
      /\ Submitted \cap lost = {}
      /\ Terminal("done") \subseteq ToSet(captured)

\* Every run_batch ends: with the result, a typed error or the poll deadline.
RunEnds == \A p \in Callers : ~ At(p, "idle") ~> At(p, "idle")
=============================================================================

----------------------------- MODULE Discovery -----------------------------
(***************************************************************************)
(* The entitlement discovery (factset/discovery.py, discovery_catalogs.py):*)
(* a run executes its probes one after the other through the transport,    *)
(* classifies each from what execute returned or raised, and, after an     *)
(* error, from the latest error of the request in the cache; it then       *)
(* builds the catalogs from cached bodies and writes one manifest under    *)
(* its run id.  Several runs share the cache and the data root.            *)
(*                                                                         *)
(* One attempt of an execute is one step, since nothing here looks at the  *)
(* ledger: the budget, the storage guard or the sender may stop it at any  *)
(* time.  Whether the TTL of a cached denial has run out is left open.     *)
(* Runs write their outputs; without a data root they leave no state.      *)
(***************************************************************************)
EXTENDS Naturals, Sequences, FiniteSets, SequencesExt, Replies

CONSTANTS Runners,      \* processes
          RunIds,
          Plan,         \* the probes, in the plan's order (no id comes twice)
          CatalogProbes, \* those whose answer is a dictionary of metrics
          Answers,      \* per probe: the [status, body] pairs the vendor may answer with
          MaxAttempts,  \* retries.max_attempts
          MaxRuns,      \* bound: runs started
          MaxSends,     \* bound: attempts
          None

Probes == Range(Plan)

\* What the vendor may answer with, and so what the cache may hold.
Captures == UNION {Answers[p] : p \in Probes}

\* A row of the matrix: EndpointClassification and the capture it rests on.
Classes == {"working", "partial", "unauthorized", "unavailable", "clarify", "not_captured"}
Row == [probe : Probes, class : Classes, capture : Captures \cup {NoCapture}, sure : BOOLEAN]

DiscoveryAssumption ==
  /\ Plan \in Seq(Probes) /\ IsInjective(Plan)
  /\ CatalogProbes \subseteq Probes
  /\ MaxAttempts \in Nat \ {0}
  /\ \A capture \in Captures : capture.status \in Nat /\ capture # NoCapture
  /\ None \notin Seq(Row)

VARIABLES cache,     \* per probe: the captures indexed for its request
          dirs,      \* per run id: None, the empty directory, or its manifest
          catalogs,  \* per catalog probe: None, or what was persisted, and (history) whether
                     \* the run was alone and the answer new
          run,       \* per process: where its run stands
          written,   \* history: the manifests written, with their ids
          started,   \* runs started so far
          sends      \* attempts so far

vars == <<cache, dirs, catalogs, run, written, started, sends>>

Empty == <<>>

Idle == [pc |-> "idle", id |-> None, live |-> FALSE, refresh |-> {}, todo |-> {}, attempt |-> 0,
         outcome |-> "none", got |-> NoCapture, sure |-> TRUE, rows |-> <<>>, alone |-> TRUE]

-----------------------------------------------------------------------------
(* Classification.                                                         *)

\* A body of a 2xx answer: its rows, or None when it has no readable envelope, and
\* whether it carries inline errors.
ClassifySuccessBody(body) == CASE body.rows = None -> "clarify"
                               [] body.rows # None /\ (body.errors \/ body.rows = <<>>) -> "partial"
                               [] OTHER -> "working"

ClassifyErrorStatus(status) == IF status = 403 THEN "unauthorized"
                               ELSE IF status = 404 \/ status >= 500 THEN "unavailable"
                               ELSE "clarify"

\* What a probe is said to be, from how its execute ended and the evidence read then.
Classification(outcome, got, evidence) ==
  CASE outcome = "success"                            -> ClassifySuccessBody(got.body)
    [] outcome \in {"miss", "client"}                 -> IF evidence # NoCapture
                                                         THEN ClassifyErrorStatus(evidence.status)
                                                         ELSE IF outcome = "miss" THEN "not_captured"
                                                         ELSE "clarify"
    [] outcome = "entitlement"                        -> "unauthorized"
    [] outcome = "split"                              -> "clarify"
    [] outcome \in {"server", "exhausted"}            -> "unavailable"

Usable(row) == row.class \in {"working", "partial"}

-----------------------------------------------------------------------------
(* Steps of one run.                                                       *)

At(c, step) == run[c].pc = step

\* What is left to do is kept by place: in the plan, and for the catalogs in the rows.
First(places) == CHOOSE i \in places : \A j \in places : i <= j
Probe(c) == Plan[First(run[c].todo)]

Set(c, state) == run' = [run EXCEPT ![c] = state]

\* The run ends, and leaves what it has written.
Stop(c) == Set(c, Idle)

\* run_discovery: an unused id; of the plan, the selected probes; a refresh of named
\* probes needs a live run.
Selected(S) == {i \in DOMAIN Plan : Plan[i] \in S}
RunDiscovery(c, id, live, S, refresh) ==
  /\ At(c, "idle")
  /\ started < MaxRuns
  /\ dirs[id] = None
  /\ refresh \subseteq S
  /\ refresh # {} => live
  /\ run' = [d \in Runners |->
               IF d = c THEN [Idle EXCEPT !.pc = "probe", !.id = id, !.live = live, !.todo = Selected(S),
                                          !.refresh = refresh,
                                          !.alone = \A e \in Runners : At(e, "idle")]
               ELSE [run[d] EXCEPT !.alone = At(d, "idle")]]
  /\ started' = started + 1
  /\ UNCHANGED <<cache, dirs, catalogs, written, sends>>

Ended(c, outcome, got, sure) ==
  Set(c, [run[c] EXCEPT !.pc = "judge", !.outcome = outcome, !.got = got, !.sure = sure])

\* The entry of execute: a cached success, a replay miss, a fresh denial, or a send.
Execute(c) ==
  LET hit == LastSuccess(cache[Probe(c)])
      forced == Probe(c) \in run[c].refresh
      denial == LastError(cache[Probe(c)])
      denied(status) == denial # NoCapture /\ denial.status = status
      lookUp == hit = NoCapture /\ ~ forced
  IN  /\ At(c, "probe")
      /\ \/ hit # NoCapture /\ ~ forced /\ Ended(c, "success", hit, TRUE)
         \/ lookUp /\ ~ run[c].live /\ Ended(c, "miss", NoCapture, TRUE)
         \/ lookUp /\ run[c].live /\ denied(403) /\ Ended(c, "entitlement", denial, TRUE)
         \/ lookUp /\ run[c].live /\ denied(401) /\ Stop(c)
         \/ (hit = NoCapture \/ forced) /\ run[c].live /\ Set(c, [run[c] EXCEPT !.pc = "attempt"])
      /\ UNCHANGED <<cache, dirs, catalogs, written, started, sends>>

Sends(c) == /\ At(c, "attempt")
            /\ sends < MaxSends
            /\ sends' = sends + 1
            /\ UNCHANGED <<dirs, catalogs, written, started>>

NextAttempt(c, giveUp, got, sure) ==
  IF run[c].attempt + 1 < MaxAttempts THEN Set(c, [run[c] EXCEPT !.attempt = @ + 1])
  ELSE Ended(c, giveUp, got, sure)

\* An answer is stored before it is returned, retried or raised; a 401 ends the run.
Answer(c, reply) ==
  LET class == Classify(reply)
      new == ~ Indexed(cache[Probe(c)], reply.body)
  IN  /\ Sends(c)
      /\ cache' = [cache EXCEPT ![Probe(c)] = WithCapture(@, reply)]
      /\ \/ class = "auth" /\ Stop(c)
         \/ class = "retryable" /\ NextAttempt(c, "exhausted", reply, new)
         \/ class \notin {"auth", "retryable"} /\ Ended(c, class, reply, new)

\* A timeout stores nothing.
Timeout(c) == /\ Sends(c)
              /\ NextAttempt(c, "server", NoCapture, FALSE)
              /\ UNCHANGED cache

\* A budget, a storage cap or another failure of the sender ends the run.
Refused(c) == /\ At(c, "attempt")
              /\ Stop(c)
              /\ UNCHANGED <<cache, dirs, catalogs, written, started, sends>>

BuildableCatalogs(rows) ==
  {i \in DOMAIN rows : rows[i].probe \in CatalogProbes /\ Usable(rows[i])}

\* After the last probe come the catalogs of those that worked.
Judged(c, evidence) ==
  LET r == run[c]
      row == [probe |-> Probe(c), class |-> Classification(r.outcome, r.got, evidence),
              capture |-> IF r.outcome = "success" THEN r.got ELSE evidence,
              sure |-> r.sure /\ r.alone]
      rows == Append(r.rows, row)
      left == r.todo \ {First(r.todo)}
  IN  [r EXCEPT !.pc = IF left = {} THEN "catalogs" ELSE "probe",
                !.todo = IF left = {} THEN BuildableCatalogs(rows) ELSE left, !.rows = rows,
                !.attempt = 0, !.outcome = "none", !.got = NoCapture, !.sure = TRUE]

\* _execute_probe, from the return of execute on: the evidence of an error is read
\* from the cache again; a cached 401 behind a replay miss ends the run.
ExecuteProbe(c) ==
  LET evidence == LastError(cache[Probe(c)])
  IN  /\ At(c, "judge")
      /\ IF run[c].outcome = "miss" /\ evidence # NoCapture /\ evidence.status = 401
         THEN Stop(c)
         ELSE Set(c, Judged(c, evidence))
      /\ UNCHANGED <<cache, dirs, catalogs, written, started, sends>>

\* The rows of a catalog: no envelope, a repeated or a nameless metric is refused.
ParseMetrics(body) == IF body.rows = None THEN None
                      ELSE IF IsInjective(body.rows) /\ "" \notin Range(body.rows) THEN body.rows ELSE None

\* _build_catalogs, one catalog: the request is executed again, and what the cache
\* serves is persisted with the capture the probe had cited.
BuildCatalog(c) ==
  LET row == run[c].rows[First(run[c].todo)]
      rows == ParseMetrics(LastSuccess(cache[row.probe]).body)
  IN  /\ At(c, "catalogs")
      /\ run[c].todo # {}
      /\ \/ rows = None /\ Stop(c) /\ UNCHANGED catalogs
         \/ /\ rows # None
            /\ catalogs' = [catalogs EXCEPT ![row.probe] =
                            [rows |-> rows, capture |-> row.capture, sure |-> row.sure /\ run[c].alone]]
            /\ Set(c, [run[c] EXCEPT !.todo = @ \ {First(@)}])
      /\ UNCHANGED <<cache, dirs, written, started, sends>>

\* Mutant of MakeDirectory: an existing directory is taken over.
MakeDirectoryAnyway(c) ==
  /\ At(c, "catalogs") /\ run[c].todo = {}
  /\ dirs' = [dirs EXCEPT ![run[c].id] = Empty]
  /\ Set(c, [run[c] EXCEPT !.pc = "write"])
  /\ UNCHANGED <<cache, catalogs, written, started, sends>>

\* _write_discovery_manifest_immutable: the directory is made exclusively ...
MakeDirectory(c) ==
  /\ At(c, "catalogs") /\ run[c].todo = {}
  /\ \/ /\ dirs[run[c].id] = None
        /\ dirs' = [dirs EXCEPT ![run[c].id] = Empty]
        /\ Set(c, [run[c] EXCEPT !.pc = "write"])
     \/ /\ dirs[run[c].id] # None
        /\ Stop(c)
        /\ UNCHANGED dirs
  /\ UNCHANGED <<cache, catalogs, written, started, sends>>

\* ... and the manifest written into it.
WriteManifest(c) ==
  /\ At(c, "write")
  /\ dirs' = [dirs EXCEPT ![run[c].id] = run[c].rows]
  /\ written' = written \cup {[id |-> run[c].id, rows |-> run[c].rows]}
  /\ Stop(c)
  /\ UNCHANGED <<cache, catalogs, started, sends>>

Crash(c) == /\ ~ At(c, "idle")
            /\ Stop(c)
            /\ UNCHANGED <<cache, dirs, catalogs, written, started, sends>>

Init == /\ cache = [p \in Probes |-> <<>>]
        /\ dirs = [id \in RunIds |-> None]
        /\ catalogs = [p \in CatalogProbes |-> None]
        /\ run = [c \in Runners |-> Idle]
        /\ written = {}
        /\ started = 0
        /\ sends = 0

Next == \E c \in Runners :
          \/ \E id \in RunIds, live \in BOOLEAN, S \in (SUBSET Probes) \ {{}} :
               \E refresh \in SUBSET S : RunDiscovery(c, id, live, S, refresh)
          \/ Execute(c)
          \/ \E reply \in UNION {Answers[p] : p \in Probes} :
               At(c, "attempt") /\ reply \in Answers[Probe(c)] /\ Answer(c, reply)
          \/ Timeout(c)
          \/ Refused(c)
          \/ ExecuteProbe(c)
          \/ BuildCatalog(c)
          \/ MakeDirectory(c)
          \/ WriteManifest(c)
          \/ Crash(c)

Spec == Init /\ [][Next]_vars

-----------------------------------------------------------------------------
(* Properties.                                                             *)

\* A manifest, once written, stays what it was, and its id is never used again.
ManifestsStay == \A m \in written : dirs[m.id] = m.rows

\* A run that was alone never loses, to an id already taken, what it has spent.
AloneIsNotRefused ==
  \A c \in Runners : run[c].alone /\ run[c].pc \in {"probe", "attempt", "judge", "catalogs"} =>
                       dirs[run[c].id] = None

Cited(row) == row.capture # NoCapture

\* A probe said to work cites a capture the cache can serve; an error row that rests
\* on an answer of its own (new, and no other run about) cites an error that warrants
\* its class, and never an authentication failure, which says nothing of the endpoint.
Warranted(row) ==
  /\ Cited(row) => Indexed(cache[row.probe], row.capture.body)
  /\ Usable(row) => IsSuccess(row.capture) /\ ClassifySuccessBody(row.capture.body) = row.class
  /\ row.sure /\ Cited(row) /\ ~ IsSuccess(row.capture) =>
       /\ row.capture.status # 401
       /\ \/ row.class = ClassifyErrorStatus(row.capture.status)
          \/ row.class = "unavailable" /\ Classify(row.capture) = "retryable"

\* What a replay would now say of a probe.
Replayed(captures) == IF LastSuccess(captures) # NoCapture
                      THEN ClassifySuccessBody(LastSuccess(captures).body)
                      ELSE Classification("miss", NoCapture, LastError(captures))

\* A replay right after says the same, but of a probe that gave up on a status below
\* 500, or that failed where an older answer had been good.
ReplaysTheSame(row) ==
  \/ Replayed(cache[row.probe]) = row.class
  \/ Cited(row) /\ row.capture.status < 500 /\ Classify(row.capture) = "retryable"
  \/ Cited(row) /\ ~ IsSuccess(row.capture) /\ LastSuccess(cache[row.probe]) # NoCapture

\* The rows of a persisted catalog are those of the capture it names, unless that was
\* indexed before the probe was answered again, or another run was about.
CatalogIsOfCapture ==
  \A p \in CatalogProbes : catalogs[p] # None /\ catalogs[p].sure =>
                             catalogs[p].rows = ParseMetrics(catalogs[p].capture.body)

\* The matrix tells the truth: of what was answered, for good, and to whoever replays it.
MatrixTruthful ==
  /\ ManifestsStay
  /\ AloneIsNotRefused
  /\ CatalogIsOfCapture
  /\ \A m \in written : \A row \in Range(m.rows) : Warranted(row)
  /\ \A c \in Runners : \A row \in Range(run[c].rows) :
       /\ Warranted(row)
       /\ At(c, "catalogs") /\ run[c].alone /\ row.sure => ReplaysTheSame(row)
=============================================================================

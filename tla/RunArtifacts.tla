----------------------------- MODULE RunArtifacts -----------------------------
(* Experiments that share one artifacts root (pipeline/experiment.py and      *)
(* data_stage.py): a run ingests the payloads of its world into the raw store *)
(* (ingestion/snapshots.py), builds the canonical datasets, audits them,      *)
(* opens a point-in-time store, and writes its files and last its manifest.   *)
(* One run works at a time.  It may die between any two steps, and a stored   *)
(* file may be damaged while no run works.  A file being written is torn, and *)
(* a torn payload is as good as none.                                         *)
EXTENDS Quality

CONSTANTS Worlds,       \* world -> [cap, payload], payload: raw table -> rows
          Experiments,  \* experiment -> [world, end], end the last day of its window
          Settings,     \* of stamping and of the battery
          MaxRuns,      \* bound: calls of run_experiment
          MaxFaults     \* bound: deaths of a run and damaged files

VARIABLES raw,     \* raw store: snapshot -> [rows, manifest, retrieval]
          canon,   \* canonical datasets, each written in one step
          files,   \* per experiment: the files of its run directory
          proc,    \* the run at work: its step, its experiment, how many done
          last,    \* history: how the last call ended
          runs, faults,
          damaged  \* history: what was damaged
artifacts == <<raw, canon, files, proc, last, runs, faults, damaged>>

RawTables == <<"master", "market", "actions", "membership", "fx", "calendar">>
RawKey(table, r) ==
    CASE table = "master" -> <<r.ticker>>
      [] table = "market" -> <<r.ticker, r.day>>
      [] table = "actions" -> <<r.ticker, r.type, r.effective>>
      [] table = "membership" -> <<r.universe, r.ticker, r.from>>
      [] table = "fx" -> <<r.base, r.quote, r.day>>
      [] table = "calendar" -> <<r.calendar, r.day>>
FamilyOf(table) ==
    CASE table \in {"securities", "listings"} -> "master"
      [] table = "prices" -> "market"
      [] table \in {"actions", "factors"} -> "actions"
      [] OTHER -> table
CanonicalTables == <<"securities", "listings", "prices", "actions", "factors", "membership", "fx", "calendar">>
RunFiles == <<"predictions", "ledger", "report.json", "report.txt", "quality", "features", "cost_ledger", "fold_ledger">>

\* The retrieval is set to the close of the day after the window.
RetrievalOf(e) == 2 * (Experiments[e].end + 1) + 1
WorldOf(e) == Experiments[e].world

-----------------------------------------------------------------------------
\* Snapshots.  The retrieval is not part of the name of one.
Waves(table, rows) ==
    IF table = "calendar" THEN <<rows>> ELSE VintageWaves(rows, [r \in rows |-> RawKey(table, r)])
Pieces ==
    [w \in DOMAIN Worlds |->
        LET of(table) == [n \in DOMAIN Waves(table, Worlds[w].payload[table]) |->
                            [id |-> <<w, table, n>>, rows |-> Waves(table, Worlds[w].payload[table])[n]]]
        IN FoldLeft(LAMBDA all, table : all \o of(table), <<>>, RawTables)]
Sources(e, table) == {p.id : p \in {q \in Range(Pieces[WorldOf(e)]) : q.id[2] = FamilyOf(table)}}
RawRecords(stored, e, table) == UNION {stored[id].rows : id \in Sources(e, table)}

\* Mutant of Anew: a directory without a manifest is taken for a snapshot.
AnewIfAbsent(id) == id \notin DOMAIN raw
\* A snapshot is written where there is none; what has no manifest is removed.
Anew(id) == id \notin DOMAIN raw \/ raw[id].manifest = "none"

-----------------------------------------------------------------------------
\* The rows of a canonical table out of the raw rows of the experiment.
Context(e, table) ==
    [cap |-> Worlds[WorldOf(e)].cap, config |-> Settings.stamping, retrieval |-> RetrievalOf(e),
     sources |-> Sources(e, table)]
FirstObserved(market) ==
    [k \in {NormKey(r.ticker) : r \in market} |-> Min({r.day : r \in {q \in market : NormKey(q.ticker) = k}})]
Minting(stored, e) ==
    MintIds(SetToSeq(RawRecords(stored, e, "master")), FirstObserved(RawRecords(stored, e, "market")), RetrievalOf(e))
MasterFinal(rows) == MergeIntervalVintages(rows, [r \in rows |-> <<r.ticker, r.listed>>], "delisted")
MembershipFinal(rows) == MergeIntervalVintages(rows, [r \in rows |-> <<r.universe, r.ticker, r.from>>], "to")

AndThen(merged, Build(_)) == IF merged.error # "none" THEN merged ELSE Build(merged.rows)

BuildTable(stored, e, table, ids) ==
    LET ctx == Context(e, table)
        rows(t) == RawRecords(stored, e, t)
        prices == BuildPricesDaily(rows("market"), ids, Context(e, "prices"))
        factors(actions) ==
            ComputeAdjustmentFactors(actions, [x \in {<<b.security, b.day>> : b \in prices.rows} |->
                (CHOOSE b \in prices.rows : <<b.security, b.day>> = x).close])
    IN CASE table = "securities" -> AndThen(MasterFinal(rows("master")), LAMBDA m : BuildSecurities(m, ids, ctx))
         [] table = "listings" -> AndThen(MasterFinal(rows("master")), LAMBDA m : BuildListingIntervals(m, ids, ctx))
         [] table = "prices" -> prices
         [] table = "actions" -> BuildCorporateActions(rows("actions"), ids, ctx)
         [] table = "factors" -> AndThen(BuildCorporateActions(rows("actions"), ids, ctx), factors)
         [] table = "membership" ->
              AndThen(MembershipFinal(rows("membership")), LAMBDA m : BuildUniverseMembership(m, ids, ctx))
         [] table = "fx" -> BuildFxRates(rows("fx"), ctx)
         [] table = "calendar" -> BuildTradingCalendars(rows("calendar"))

\* The dataset of a build, under its name.
WriteBuild(e, table, rows) ==
    LET manifest == ManifestOf(table, FamilyOf(table), Context(e, table), rows,
                               GradeDataset(FamilyOf(table), Context(e, table).cap, Settings.stamping), {})
    IN [id |-> DatasetIdentity(manifest, rows), table |-> table, rows |-> rows, manifest |-> manifest]

-----------------------------------------------------------------------------
\* What a run finds and leaves behind.
NoProc == [at |-> "idle", exp |-> None, n |-> 0]
Goto(at, n) == proc' = [proc EXCEPT !.at = at, !.n = n]
EndRun(what) == proc' = NoProc /\ last' = [exp |-> proc.exp, what |-> what]

\* Mutant of VerifyRun: files that are missing are passed over.
VerifyPresent(e) == {f \in Range(RunFiles) : files[e][f] \in {"torn", "damaged"}}
\* The files a manifest lists must be there and hash to what it says.
VerifyRun(e) == {f \in Range(RunFiles) : files[e][f] # "whole"}

\* A run whose manifest is there and verifies is not done again.
StartRun(e) ==
    /\ proc.at = "idle" /\ runs < MaxRuns
    /\ runs' = runs + 1
    /\ IF files[e]["manifest"] = "none"
       THEN proc' = [at |-> "snapshot", exp |-> e, n |-> 1] /\ UNCHANGED last
       ELSE /\ last' = [exp |-> e, what |-> IF files[e]["manifest"] = "whole" /\ VerifyRun(e) = {}
                                            THEN "no-op" ELSE "unverified"]
            /\ UNCHANGED proc
    /\ UNCHANGED <<raw, canon, files, faults, damaged>>

\* write_snapshot.
WriteSnapshot ==
    LET pieces == Pieces[WorldOf(proc.exp)]
        piece == pieces[proc.n]
    IN /\ proc.at = "snapshot"
       /\ IF proc.n > Len(pieces) THEN Goto("dataset", 1) /\ UNCHANGED <<raw, last>>
          ELSE IF RawRefused(piece.rows, Worlds[WorldOf(proc.exp)].cap,
                          [r \in piece.rows |-> RawKey(piece.id[2], r)])
          THEN EndRun("refused") /\ UNCHANGED raw
          ELSE IF Anew(piece.id)
          THEN /\ raw' = (piece.id :> [rows |-> piece.rows, manifest |-> "none", retrieval |-> None]) @@ raw
               /\ Goto("manifest", proc.n) /\ UNCHANGED last
          ELSE IF raw[piece.id].manifest = "torn" THEN EndRun("unreadable") /\ UNCHANGED raw
          ELSE Goto("snapshot", proc.n + 1) /\ UNCHANGED <<raw, last>>
       /\ UNCHANGED <<canon, files, runs, faults, damaged>>
WriteManifest ==
    LET id == Pieces[WorldOf(proc.exp)][proc.n].id
        opened == raw[id].manifest = "torn"
    IN /\ proc.at = "manifest"
       /\ raw' = [raw EXCEPT ![id].manifest = IF opened THEN "whole" ELSE "torn",
                             ![id].retrieval = IF opened THEN RetrievalOf(proc.exp) ELSE None]
       /\ IF opened THEN Goto("snapshot", proc.n + 1) ELSE UNCHANGED proc
       /\ UNCHANGED <<canon, files, last, runs, faults, damaged>>

\* A dataset of the name is left as it is, its retrieval time included.
Stored(d) == \E c \in canon : c.id = d.id
WriteDataset ==
    LET e == proc.exp
        minted == Minting(raw, e)
        built == BuildTable(raw, e, CanonicalTables[proc.n], minted.ids)
        write(d) == canon' = IF Stored(d) THEN canon ELSE canon \cup {d}
    IN /\ proc.at = "dataset"
       /\ IF proc.n > Len(CanonicalTables) THEN Goto("battery", 1) /\ UNCHANGED <<canon, last>>
          ELSE IF minted.error # "none" \/ built.error # "none" THEN EndRun("refused") /\ UNCHANGED canon
          ELSE write(WriteBuild(e, CanonicalTables[proc.n], built.rows)) /\ Goto("dataset", proc.n + 1) /\ UNCHANGED last
       /\ UNCHANGED <<raw, files, runs, faults, damaged>>

\* The snapshots a battery can read.
Snapshots ==
    {[id |-> id, rows |-> raw[id].rows, retrieval |-> raw[id].retrieval, pit |-> Worlds[id[1]].cap.pit,
      written |-> (CHOOSE p \in Range(Pieces[id[1]]) : p.id = id).rows] :
       id \in {i \in DOMAIN raw : raw[i].manifest = "whole"}}
Failing == RunQualityBattery(canon, Snapshots, Settings.battery)
Battery ==
    /\ proc.at = "battery"
    /\ IF Failing # {} THEN EndRun("battery") ELSE Goto("serve", 1) /\ UNCHANGED last
    /\ UNCHANGED <<raw, canon, files, runs, faults, damaged>>

\* The point-in-time store is given no dataset: every table must have just one.
Serve ==
    /\ proc.at = "serve"
    /\ IF \E t \in Range(CanonicalTables) : Cardinality({d \in canon : d.table = t}) # 1
       THEN EndRun("ambiguous") ELSE Goto("file", 1) /\ UNCHANGED last
    /\ UNCHANGED <<raw, canon, files, runs, faults, damaged>>

\* _persist: the files one after another, then the manifest that vouches for them.
WriteFile ==
    LET e == proc.exp
        name == IF proc.n > Len(RunFiles) THEN "manifest" ELSE RunFiles[proc.n]
        opened == proc.at = "filling"
    IN /\ proc.at \in {"file", "filling"}
       /\ files' = [files EXCEPT ![e][name] = IF opened THEN "whole" ELSE "torn"]
       /\ IF ~opened THEN Goto("filling", proc.n) /\ UNCHANGED last
          ELSE IF name = "manifest" THEN EndRun("done") ELSE Goto("file", proc.n + 1) /\ UNCHANGED last
       /\ UNCHANGED <<raw, canon, runs, faults, damaged>>

-----------------------------------------------------------------------------
(* Faults.                                                                    *)
Die ==
    /\ proc.at # "idle" /\ faults < MaxFaults
    /\ faults' = faults + 1
    /\ EndRun("died")
    /\ UNCHANGED <<raw, canon, files, runs, damaged>>

DamageRun(e, f) ==
    /\ files[e][f] = "whole"
    /\ \E how \in {"damaged", "none"} : files' = [files EXCEPT ![e][f] = how]
    /\ damaged' = damaged \cup {e}
    /\ UNCHANGED <<raw, canon>>
DamageSnapshot(id) ==
    /\ raw[id].manifest = "whole"
    /\ \E r \in raw[id].rows : raw' = [raw EXCEPT ![id].rows = @ \ {r}]
    /\ damaged' = damaged \cup {id[1]}
    /\ UNCHANGED <<canon, files>>
DamageDataset(d) ==
    /\ \E r \in d.rows : canon' = (canon \ {d}) \cup {[d EXCEPT !.rows = @ \ {r}]}
    /\ damaged' = damaged \cup {d.table}
    /\ UNCHANGED <<raw, files>>
Damage ==
    /\ proc.at = "idle" /\ faults < MaxFaults
    /\ faults' = faults + 1
    /\ \/ \E e \in DOMAIN Experiments, f \in Range(RunFiles) : DamageRun(e, f)
       \/ \E id \in DOMAIN raw : DamageSnapshot(id)
       \/ \E d \in canon : DamageDataset(d)
    /\ UNCHANGED <<proc, last, runs>>

-----------------------------------------------------------------------------
Fresh ==
    /\ raw = <<>> /\ canon = {}
    /\ files = [e \in DOMAIN Experiments |-> [f \in Range(RunFiles) \cup {"manifest"} |-> "none"]]
    /\ proc = NoProc /\ last = [exp |-> None, what |-> "none"]
    /\ runs = 0 /\ faults = 0 /\ damaged = {}

Step == \/ \E e \in DOMAIN Experiments : StartRun(e)
        \/ WriteSnapshot \/ WriteManifest \/ WriteDataset \/ Battery \/ Serve \/ WriteFile
        \/ Die \/ Damage

RunsSpec == Fresh /\ [][Step]_artifacts

-----------------------------------------------------------------------------
(* Properties.                                                                *)

\* A call that ends well, by running or because it had run, leaves a manifest
\* and every file it vouches for, whatever died or was damaged before; and it
\* never runs over data damaged in the stores.
SuccessIsWhole ==
    [][last' # last /\ last'.what \in {"done", "no-op"}
         => /\ files'[last'.exp]["manifest"] = "whole"
            /\ \A f \in Range(RunFiles) : files'[last'.exp][f] = "whole"
            /\ last'.what = "done" => \A d \in canon' : ~IntegrityProblems(d)]_artifacts

\* A call fails only for a cause the root shows: a manifest some death tore,
\* damage, a second world in the root, or data that were first retrieved before
\* they were known or, after a death, that were built before they were retrieved.
TornManifest(e) == files[e]["manifest"] = "torn" \/ \E id \in DOMAIN raw : id[1] = WorldOf(e) /\ raw[id].manifest = "torn"
KnownLast(w) == MaxKnowledge(UNION {p.rows : p \in Range(Pieces[w])})
FailuresExplained ==
    last.what \in {"unverified", "unreadable", "refused", "battery", "ambiguous"} =>
      \/ TornManifest(last.exp)
      \/ damaged # {}
      \/ \E id \in DOMAIN raw : id[1] # WorldOf(last.exp)
      \/ \E id \in {i \in DOMAIN raw : raw[i].manifest = "whole"} :
           \/ raw[id].retrieval < KnownLast(id[1])
           \/ \E d \in canon : id \in d.manifest.sources /\ raw[id].retrieval > d.manifest.retrieval
=============================================================================

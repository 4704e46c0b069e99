------------------------------- MODULE Stamping -------------------------------
(* When a row counts as known (canonical/stamping.py), the grade of a dataset *)
(* (providers/base.py), and what its manifest may claim (manifests.py and the *)
(* payload checks of canonical/store.py).  Day d is over at instant 2d + 1,   *)
(* which is also when its bar closes.                                         *)
EXTENDS PointInTime

RetroFamilies == {"market", "fx"}

\* A lag is never negative, and a family stamped by a lag has one.
ConfigRefused(config) ==
    \/ \E f \in DOMAIN config.lags : config.lags[f] < 0
    \/ ~ (config.lagRule \subseteq DOMAIN config.lags)

\* The prices of a provider of unknown basis, unless the run says it knows.
BasisFails(family, cap, config) ==
    family = "market" /\ ~cap.pit /\ cap.basis = "unknown" /\ ~config.acknowledged

GradeDataset(family, cap, config) ==
    CASE ~cap.available -> "unavailable"
      [] cap.available /\ cap.pit -> IF config.truth THEN "synthetic_truth" ELSE "full_vintages"
      [] cap.available /\ ~cap.pit -> IF family \in RetroFamilies /\ ~BasisFails(family, cap, config)
                                      THEN "retro_window" ELSE "snapshot_stamped"

BarKnowledgeTime(day) == 2 * day + 1
LagRuleTime(day, lag) == 2 * (day + lag)

Stamp(known, basis) == [error |-> "none", known |-> known, basis |-> basis]
Unstamped(why) == [error |-> why, known |-> None, basis |-> None]

\* One bar of a market table.
StampMarketBar(day, family, cap, config, retrieval, raw) ==
    IF ~cap.available THEN Unstamped("unavailable")
    ELSE IF cap.pit THEN IF raw = None THEN Unstamped("no knowledge time") ELSE Stamp(raw, "published")
    ELSE IF GradeDataset(family, cap, config) = "retro_window" THEN Stamp(BarKnowledgeTime(day), "bar_close")
    ELSE Stamp(retrieval, "retrieval_stamp")

\* One row of any other table; day is None where the row has no event date.
StampObservation(family, cap, config, retrieval, day, raw) ==
    IF ~cap.available THEN Unstamped("unavailable")
    ELSE IF cap.pit THEN IF raw = None THEN Unstamped("no knowledge time") ELSE Stamp(raw, "published")
    ELSE IF family \in config.lagRule
         THEN IF day = None THEN Unstamped("no event date")
              ELSE Stamp(LagRuleTime(day, config.lags[family]), "lag_rule")
    ELSE Stamp(retrieval, "retrieval_stamp")

Downgrades(family, cap, config) ==
    IF BasisFails(family, cap, config)
    THEN {[from |-> "retro_window", to |-> "snapshot_stamped", basis |-> cap.basis]} ELSE {}

-----------------------------------------------------------------------------
Anchored(r) == r.known >= 2 * r.day /\ r.known < 2 * (r.day + 2)

\* The bars of a manifest's grade: all stamped at the retrieval, or each within
\* two days of its own day.
StampProblems(manifest, rows) ==
    IF manifest.cap.pit \/ manifest.family \notin RetroFamilies THEN {}
    ELSE CASE manifest.grade = "snapshot_stamped" -> {r \in rows : r.known # manifest.retrieval}
           [] manifest.grade = "retro_window" -> {r \in rows : ~Anchored(r)}
           [] OTHER -> {}

MaxKnowledge(rows) ==
    LET known == {r.known : r \in {q \in rows : "known" \in DOMAIN q /\ q.known # None}}
    IN IF known = {} THEN None ELSE Max(known)

\* What a manifest records, and why one is refused: prices that were adjusted,
\* a grade or a downgrade the recorded capability does not give.
ManifestOf(table, family, ctx, rows, grade, downgrades) ==
    [table |-> table, family |-> family, cap |-> ctx.cap, config |-> ctx.config, grade |-> grade,
     downgrades |-> downgrades, retrieval |-> ctx.retrieval, maxKnown |-> MaxKnowledge(rows),
     sources |-> ctx.sources, count |-> Cardinality(rows)]
ManifestRefused(manifest, rows) ==
    \/ manifest.table = "prices" /\ manifest.cap.basis = "adjusted"
    \/ manifest.grade # GradeDataset(manifest.family, manifest.cap, manifest.config)
    \/ manifest.downgrades # Downgrades(manifest.family, manifest.cap, manifest.config)
    \/ manifest.maxKnown # MaxKnowledge(rows)
    \/ StampProblems(manifest, rows) # {}

\* A dataset is named by its rows and its manifest without the retrieval time.
DatasetIdentity(manifest, rows) == <<[f \in DOMAIN manifest \ {"retrieval"} |-> manifest[f]], rows>>
=============================================================================

------------------------------- MODULE Quality -------------------------------
(* The data-quality battery (data/quality): what it flags in the rows of a    *)
(* dataset, in its stamps against the manifests, and between datasets, and    *)
(* what a battery over a whole store says.  A check is the set of rows it     *)
(* flags; a dataset is [table, rows, manifest], a snapshot of the raw layer   *)
(* [family, rows, manifest].                                                  *)
EXTENDS Builders

EventDated == {"prices", "fx", "fundamentals"}      \* EVENT_TIME_COLUMNS
KnowledgeExempt == {"calendar"}
PriceColumns == {"close"}
Nullable == {"close", "volume", "to", "delisted", "terminal", "successor", "ex", "ratio", "amount"}

\* Thresholds that make no sense are refused.
CheckConfigRefused(config) ==
    \/ config.run < 2
    \/ config.tolerance <= 0 \/ config.tolerance >= 100
    \/ \E t \in DOMAIN config.coverage : ~(Range(config.coverage[t]) \subseteq 0 .. 100)

PrimaryKey(table, r) ==
    CASE table = "securities" -> <<r.security>>
      [] table = "listings" -> <<r.security, r.country, r.listed>>
      [] table \in {"prices", "factors"} -> <<r.security, r.day>>
      [] table = "membership" -> <<r.id, r.security, r.from>>
      [] table = "actions" -> <<r.action>>
      [] table = "fx" -> <<r.base, r.quote, r.day>>
      [] table = "calendar" -> <<r.calendar, r.day>>

-----------------------------------------------------------------------------
(* The rows of one dataset.                                                   *)
DuplicateRows(table, rows) ==
    {r \in rows : \E q \in rows \ {r} : PrimaryKey(table, q) = PrimaryKey(table, r)}
NegativePrices(rows) ==
    {r \in rows : \E c \in PriceColumns \cap DOMAIN r : r[c] # None /\ r[c] <= 0}
ImpossibleVolumes(rows) == {r \in rows : r.volume # None /\ r.volume < 0}
MissingMandatory(rows) == {r \in rows : \E c \in DOMAIN r \ Nullable : r[c] = None}
InvertedTimestamps(rows) == {r \in rows : r.known # None /\ DayOf(r.known) < r.day}

\* What the model of a row refuses, table by table.  A return is in thousandths.
BelowNothing(terminal) == terminal # None /\ terminal < -1000
BarInvalid(r) == NegativePrices({r}) \cup ImpossibleVolumes({r}) \cup InvertedTimestamps({r}) # {}
RateInvalid(r) == r.base = r.quote \/ r.rate <= 0 \/ InvertedTimestamps({r}) # {}
FactorInvalid(r) == r.split <= 0 \/ r.total <= 0
MembershipInvalid(r) == r.to # None /\ r.to < r.from
ListingInvalid(r) ==
    IF r.delisted = None THEN r.terminal # None ELSE r.delisted < r.listed \/ BelowNothing(r.terminal)
ActionInvalid(r) ==
    \/ r.type \in SplitTypes \cup {"rights_issue"} /\ r.ratio = None
    \/ r.ratio # None /\ (r.ratio[1] <= 0 \/ r.ratio[2] <= 0)
    \/ r.type = "cash_dividend" /\ r.amount = None
    \/ r.amount # None /\ r.amount < 0
    \/ r.terminal # None /\ r.type \notin {"delisting", "merger"}
    \/ BelowNothing(r.terminal)
    \/ r.successor # None /\ r.type \notin {"merger", "spinoff", "symbol_change"}

\* Everything the schema of a table says of stored rows: no key twice, nothing
\* absent that must be there, and each row as its model wants it.
SchemaProblems(table, rows) ==
    LET invalid(r) == CASE table = "prices" -> BarInvalid(r)
                        [] table = "fx" -> RateInvalid(r)
                        [] table = "factors" -> FactorInvalid(r)
                        [] table = "membership" -> MembershipInvalid(r)
                        [] table = "listings" -> ListingInvalid(r)
                        [] table = "actions" -> ActionInvalid(r)
                        [] OTHER -> FALSE
    IN MissingMandatory(rows) \cup DuplicateRows(table, rows)
         \cup {r \in rows \ MissingMandatory(rows) : invalid(r)}

\* Mutant of StalePrices: the run must be longer than the one configured.
StalePricesLonger(rows, run) ==
    {r \in rows : Cardinality({x \in rows : x.security = r.security /\ x.close = r.close}) > run}

\* Closes of a security that stay the same over `run` of its bars, or more.
StalePrices(rows, run) ==
    LET upTo(r, q) == {x \in rows : x.security = r.security /\ x.day >= r.day /\ x.day <= q.day}
        frozen(r, q) == /\ q.security = r.security /\ q.day > r.day
                        /\ Cardinality(upTo(r, q)) >= run
                        /\ \A x \in upTo(r, q) : x.close = r.close
    IN UNION {upTo(x[1], x[2]) : x \in {y \in rows \X rows : frozen(y[1], y[2])}}

\* The columns filled in too few of the rows, or of none; a threshold names a column.
ColumnCoverage(rows, thresholds) ==
    LET filled(c) == Cardinality({r \in rows : r[c] # None})
    IN {c \in DOMAIN thresholds : IF rows = {} THEN thresholds[c] > 0
                                  ELSE filled(c) * 100 < thresholds[c] * Cardinality(rows)}
CoverageRefused(rows, thresholds) == \E c \in DOMAIN thresholds, r \in rows : c \notin DOMAIN r

-----------------------------------------------------------------------------
(* Between datasets.                                                          *)

\* A security is dead after the last of its listings, when all have ended.
BarsAfterDelisting(prices, listings) ==
    LET of(s) == {r \in listings : r.security = s}
    IN {b \in prices : of(b.security) # {} /\ \A r \in of(b.security) : r.delisted # None /\ b.day > r.delisted}

\* A factor cites actions that exist, one of them of its own day.
FactorsWithoutActions(factors, actions) ==
    LET dateOf(id) == ActionDate(CHOOSE a \in actions : a.action = id)
    IN {f \in factors : \/ f.from = {}
                        \/ ~ (f.from \subseteq {a.action : a \in actions})
                        \/ \A id \in f.from : dateOf(id) # f.day}

\* The close must jump by den / num across a split, within the tolerance (in
\* percent of that); without closes on both sides it cannot be told.
SplitUnexplained(prices, actions, tolerance) ==
    LET of(a) == {b \in prices : b.security = a.security /\ b.close # None}
        before(a) == {b \in of(a) : b.day < ActionDate(a)}
        since(a) == of(a) \ before(a)
        last(S) == CHOOSE b \in S : \A c \in S : c.day <= b.day
        first(S) == CHOOSE b \in S : \A c \in S : b.day <= c.day
        jumps(a) == Abs(first(since(a)).close * a.ratio[1] - last(before(a)).close * a.ratio[2]) * 100
                      <= tolerance * last(before(a)).close * a.ratio[2]
    IN {a \in {x \in actions : x.type \in SplitTypes} :
          \/ a.ratio = None \/ a.ratio[1] <= 0 \/ a.ratio[2] <= 0
          \/ before(a) = {} \/ since(a) = {}
          \/ ~jumps(a)}

-----------------------------------------------------------------------------
(* Against the manifests.                                                     *)

\* What is recomputed from the rows disagrees with the manifest or the name.
IntegrityProblems(d) ==
    \/ d.id # DatasetIdentity(d.manifest, d.rows)
    \/ d.manifest.count # Cardinality(d.rows)
    \/ d.manifest.maxKnown # MaxKnowledge(d.rows)
    \/ StampProblems(d.manifest, d.rows) # {}

\* Nothing is known later than it was retrieved, but what a lag rule dates.
KnowledgeWithinRetrieval(d) ==
    {r \in d.rows : r.known # None /\ r.known > d.manifest.retrieval
                      /\ ~("basis" \in DOMAIN r /\ r.basis = "lag_rule")}
\* A dataset cannot come from a snapshot that is gone or was retrieved later.
RawLineage(d, snapshots) ==
    {id \in d.manifest.sources :
       ~ \E s \in snapshots : s.id = id /\ s.retrieval <= d.manifest.retrieval}
RawIntegrity(s) ==
    \/ s.rows # s.written
    \/ s.pit /\ MaxKnowledge(s.rows) # None /\ MaxKnowledge(s.rows) > s.retrieval

-----------------------------------------------------------------------------
\* The battery: the checks that fail, over every dataset of the store and the
\* snapshots they come from.  A dataset that fails its audit is not looked into,
\* and tables that are absent, ambiguous or unsound are not reconciled.
AuditAllDatasets(store) == {d \in store : IntegrityProblems(d)}

ContentChecks(d, snapshots, config) ==
    LET failed(check, flagged) == IF flagged = {} THEN {} ELSE {<<check, d.table>>}
        prices(check, flagged) == IF d.table = "prices" THEN failed(check, flagged) ELSE {}
    IN failed("schema_conformance", SchemaProblems(d.table, d.rows))
       \cup failed("duplicate_rows", DuplicateRows(d.table, d.rows))
       \cup failed("missing_mandatory", MissingMandatory(d.rows))
       \cup (IF d.table \in EventDated THEN failed("inverted_timestamps", InvertedTimestamps(d.rows)) ELSE {})
       \cup prices("negative_prices", IF d.table = "prices" THEN NegativePrices(d.rows) ELSE {})
       \cup prices("stale_prices", IF d.table = "prices" THEN StalePrices(d.rows, config.run) ELSE {})
       \cup prices("impossible_volumes", IF d.table = "prices" THEN ImpossibleVolumes(d.rows) ELSE {})
       \cup failed("coverage", IF d.table \in DOMAIN config.coverage
                               THEN ColumnCoverage(d.rows, config.coverage[d.table]) ELSE {})
       \cup (IF d.table \in KnowledgeExempt THEN {}
             ELSE failed("knowledge_within_retrieval", KnowledgeWithinRetrieval(d)))
       \cup failed("raw_lineage", RawLineage(d, snapshots))

\* The one sound dataset of a table, or nothing.
Resolved(store, table) ==
    LET of == {d \in store : d.table = table}
    IN IF Cardinality(of) = 1 /\ ~ \E d \in of : IntegrityProblems(d) THEN of ELSE {}
Reconciled(store, config) ==
    LET pairs(t, u) == Resolved(store, t) \X Resolved(store, u)
    IN {<<"bars_after_delisting", "prices">> :
          x \in {y \in pairs("prices", "listings") : BarsAfterDelisting(y[1].rows, y[2].rows) # {}}}
       \cup {<<"factors_without_actions", "factors">> :
          x \in {y \in pairs("factors", "actions") : FactorsWithoutActions(y[1].rows, y[2].rows) # {}}}
       \cup {<<"split_basis", "prices">> :
          x \in {y \in pairs("prices", "actions") : SplitUnexplained(y[1].rows, y[2].rows, config.tolerance) # {}}}

RunQualityBattery(store, snapshots, config) ==
    LET sound == store \ AuditAllDatasets(store)
        reached == {s \in snapshots : \E d \in sound : s.id \in d.manifest.sources}
    IN {<<"integrity", d.table>> : d \in AuditAllDatasets(store)}
       \cup UNION {ContentChecks(d, snapshots, config) : d \in sound}
       \cup {<<"raw_integrity", s.id>> : s \in {q \in reached : RawIntegrity(q)}}
       \cup Reconciled(store, config)
=============================================================================

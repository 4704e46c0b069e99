----------------------------- MODULE PointInTime -----------------------------
(* The queries of the point-in-time store (point_in_time/store.py) over the   *)
(* rows of a session, and the as-of join of two frames (asof_join.py).  A     *)
(* row is a record with the instant it was known; there are two instants a    *)
(* day, so that day d is over at instant 2d + 1.  A session keeps, for every  *)
(* table, its rows and the publication lag configured for it, in days.        *)
EXTENDS Figures

DayOf(instant) == instant \div 2

\* Only tables with vintages replace a row by a later one of the same event.
EventKey(table, r) ==
    CASE table = "fundamentals" -> <<r.security, r.metric, r.period>>
      [] table = "estimates" -> <<r.security, r.metric>>
      [] OTHER -> <<>>
Vintaged(table) == table \in {"fundamentals", "estimates"}

\* The configured lag is a floor: a query can only ask for a longer one.
EffectiveLag(pit, table, lag) == Max({pit.lags[table], IF lag = None THEN 0 ELSE lag})
KnowledgeCutoff(pit, table, asOf, lag) == asOf - 2 * EffectiveLag(pit, table, lag)

Knowable(rows, cutoff) == {r \in rows : r.known <= cutoff}

\* The frame of the rows asked for, as of an instant.
AsOfFrame(pit, table, asOf, rows, lag) ==
    LET known == Knowable(rows, KnowledgeCutoff(pit, table, asOf, lag))
    IN IF ~Vintaged(table) THEN known
       ELSE {r \in known : \A q \in known : EventKey(table, q) = EventKey(table, r)
               => q.known < r.known \/ (q.known = r.known /\ q.vintage <= r.vintage)}

-----------------------------------------------------------------------------
\* An interval holds its first and its last day; None ends none.
InInterval(from, to, day) == from <= day /\ (to = None \/ day <= to)

ActivelyListed(pit, asOf) ==
    {r.security : r \in {q \in Knowable(pit.rows["securities"], KnowledgeCutoff(pit, "securities", asOf, None)) :
                           InInterval(q.listed, q.delisted, DayOf(asOf))}}

\* Members by the intervals known, and, when asked for, actively listed.  An id
\* no row carries is refused.
Universe(pit, id, asOf, listed, lag) ==
    LET known == Knowable(pit.rows["membership"], KnowledgeCutoff(pit, "membership", asOf, lag))
        members == {r.security : r \in {q \in known : q.id = id /\ InInterval(q.from, q.to, DayOf(asOf))}}
    IN IF id \notin {r.id : r \in pit.rows["membership"]} THEN None
       ELSE IF listed THEN members \cap ActivelyListed(pit, asOf) ELSE members

\* Every left row with the last row of its group known at its time, or None.
JoinLatestKnown(left, right, lag) ==
    LET matches(l) == {r \in right : r.by = l.by /\ r.known <= l.at - 2 * lag}
        last(l) == CHOOSE r \in matches(l) : \A q \in matches(l) :
                     q.known < r.known \/ (q.known = r.known /\ q.vintage <= r.vintage)
    IN {<<l, IF matches(l) = {} THEN None ELSE last(l)>> : l \in left}
=============================================================================

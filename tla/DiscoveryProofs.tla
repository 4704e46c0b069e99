--------------------------- MODULE DiscoveryProofs ---------------------------
(***************************************************************************)
(* Theorems about Discovery, for any plan, any answers of the vendor and   *)
(* any number of runs that share the cache and the data root; and about    *)
(* ResponseCache, the directory of one request in that cache.              *)
(***************************************************************************)
EXTENDS Discovery, ResponseCache, WellFoundedInduction, TLAPS

-----------------------------------------------------------------------------
(* The inductive invariant: of each run, of the directories, and of what is *)
(* persisted.                                                               *)

Outcomes == {"none", "success", "miss", "client", "entitlement", "split", "server", "exhausted"}

Run == [pc : {"idle", "probe", "attempt", "judge", "catalogs", "write"}, id : RunIds \cup {None},
        live : BOOLEAN, refresh : SUBSET Probes, todo : SUBSET Nat, attempt : Nat,
        outcome : Outcomes, got : Captures \cup {NoCapture}, sure : BOOLEAN,
        rows : Seq(Row), alone : BOOLEAN]

RunsTyped == cache \in [Probes -> Seq(Captures)] /\ run \in [Runners -> Run]

\* A run at work has an id; what it has left are places of the plan of which it
\* has no row yet, or places of rows that a catalog can be built from.
InStep(r) ==
  /\ r.pc # "idle" => r.id \in RunIds
  /\ r.pc \in {"probe", "attempt", "judge"} =>
       /\ r.todo \subseteq DOMAIN Plan /\ r.todo # {}
       /\ \A i \in r.todo : \A row \in Range(r.rows) : row.probe # Plan[i]
  /\ r.pc = "judge" => r.outcome # "none"
  /\ r.pc = "catalogs" => r.todo \subseteq BuildableCatalogs(r.rows)

\* A run that has been alone since it began still is.
AloneStill ==
  \A c \in Runners : run[c].alone /\ ~ At(c, "idle") =>
                       \A d \in Runners \ {c} : At(d, "idle")

\* How an execute ended fits what the cache says of its request, as long as nobody
\* else may have added to it.
Fits(outcome, got, captures) ==
  /\ outcome = "success" => LastSuccess(captures) = got
  /\ outcome = "miss" => LastSuccess(captures) = NoCapture
  /\ outcome \in {"client", "entitlement", "split", "exhausted"} =>
       /\ LastError(captures) = got /\ got # NoCapture
       /\ Classify(got) = IF outcome = "exhausted" THEN "retryable" ELSE outcome
  /\ outcome # "server"

Served(outcome, got, captures) ==
  outcome = "success" => got # NoCapture /\ IsSuccess(got) /\ Indexed(captures, got.body)

EndedRightly(r) ==
  r.pc = "judge" =>
    LET captures == cache[Plan[First(r.todo)]]
    IN  /\ Served(r.outcome, r.got, captures)
        /\ r.sure /\ r.alone => Fits(r.outcome, r.got, captures)

\* A sure row of a run alone is what a replay would say, and the cache serves the
\* capture that a working one cites.
Fresh(row) == /\ ReplaysTheSame(row)
              /\ Usable(row) => LastSuccess(cache[row.probe]) = row.capture

RowsTrue(r) ==
  \A row \in Range(r.rows) :
    /\ Warranted(row)
    /\ r.alone /\ row.sure /\ r.pc # "idle" => Fresh(row)

RunsRight == \A c \in Runners : InStep(run[c]) /\ EndedRightly(run[c]) /\ RowsTrue(run[c])

RunPart == RunsTyped /\ AloneStill /\ RunsRight

DirsTyped == /\ dirs \in [RunIds -> Seq(Row) \cup {None}]
             /\ written \in SUBSET [id : RunIds, rows : Seq(Row)]

\* The directory a run is about to write its manifest into is its own and has none.
DirectoryOwned ==
  \A c \in Runners : At(c, "write") =>
    /\ dirs[run[c].id] # None
    /\ \A m \in written : m.id # run[c].id
    /\ \A d \in Runners \ {c} : At(d, "write") => run[d].id # run[c].id

DirPart == DirsTyped /\ DirectoryOwned /\ ManifestsStay /\ AloneIsNotRefused

ManifestsTrue == \A m \in written : \A row \in Range(m.rows) : Warranted(row)

CatalogPart == catalogs = [p \in CatalogProbes |-> catalogs[p]] /\ CatalogIsOfCapture

MatrixInv == RunPart /\ DirPart /\ ManifestsTrue /\ CatalogPart

LEMMA InvTruthful == MatrixInv => MatrixTruthful
  BY DEF MatrixInv, RunPart, RunsRight, RowsTrue, Fresh, ManifestsTrue, DirPart, CatalogPart,
         MatrixTruthful, At

-----------------------------------------------------------------------------
(* Captures.                                                               *)

\* Every set of natural numbers that is not empty has a least element ...
LEMMA LeastNat ==
  ASSUME NEW T \in SUBSET Nat, T # {}
  PROVE  \E x \in T : \A y \in T : x <= y
<1> DEFINE Below == OpToRel(<, Nat)
<1>1. IsWellFoundedOn(Below, Nat)
  BY NatLessThanWellFounded
<1>2. \A x, y \in Nat : y < x => <<y, x>> \in Below
  BY DEF OpToRel
<1> HIDE DEF Below
<1>3. PICK x \in T : \A y \in T : <<y, x>> \notin Below
  BY <1>1, WFMin
<1>4. ASSUME NEW y \in T PROVE x <= y
  <2>1. ~ (y < x)
    BY <1>2, <1>3
  <2> QED
    BY <2>1
<1> QED
  BY <1>4

LEMMA FirstIs == ASSUME NEW places \in SUBSET Nat, places # {} PROVE First(places) \in places
<1>1. \E i \in places : \A j \in places : i <= j
  BY LeastNat
<1> QED
  BY <1>1 DEF First

\* ... and, below a bound, a greatest.
LEMMA GreatestBelow ==
  ASSUME NEW n \in Nat, NEW T \in SUBSET (1 .. n), T # {}
  PROVE  \E x \in T : \A y \in T : y <= x
<1> DEFINE S == {m \in 0 .. n : n - m \in T}
<1>1. ASSUME NEW y \in T PROVE n - y \in S /\ n - (n - y) = y /\ n - y \in Nat
  OBVIOUS
<1>2. S \in SUBSET Nat /\ S # {}
  <2>1. S \in SUBSET Nat
    OBVIOUS
  <2> HIDE DEF S
  <2> QED
    BY <1>1, <2>1
<1>3. \A m \in S : n - m \in T
  OBVIOUS
<1> HIDE DEF S
<1>4. PICK m \in S : \A k \in S : m <= k
  BY <1>2, LeastNat
<1>5. ASSUME NEW y \in T PROVE y <= n - m
  <2>1. m <= n - y /\ y \in Nat /\ m \in Nat
    BY <1>1, <1>2, <1>4
  <2> QED
    BY <2>1
<1> QED
  BY <1>3, <1>5

LEMMA LastAtIs ==
  ASSUME NEW captures \in Seq(Captures), NEW places \in SUBSET DOMAIN captures, places # {}
  PROVE  \E i \in places : LastAt(captures, places) = captures[i] /\ captures[i] \in Captures
<1>1. places \in SUBSET (1 .. Len(captures)) /\ Len(captures) \in Nat
  OBVIOUS
<1>2. \E i \in places : \A j \in places : j <= i
  BY <1>1, GreatestBelow
<1> DEFINE best == CHOOSE i \in places : \A j \in places : j <= i
<1>3. best \in places
  BY <1>2
<1>4. captures[best] \in Captures
  BY <1>3
<1> HIDE DEF best
<1>5. LastAt(captures, places) = captures[best]
  BY DEF LastAt, best
<1> QED
  BY <1>3, <1>4, <1>5

\* The last success is one of the captures, and so is the last error.
LEMMA LastSuccessIs ==
  ASSUME NEW captures \in Seq(Captures), LastSuccess(captures) # NoCapture
  PROVE  /\ LastSuccess(captures) \in Captures /\ IsSuccess(LastSuccess(captures))
         /\ Indexed(captures, LastSuccess(captures).body)
<1> DEFINE places == {i \in DOMAIN captures : IsSuccess(captures[i])}
<1>1. places # {} /\ places \in SUBSET DOMAIN captures
  BY DEF LastSuccess, LastAt
<1>2. PICK i \in places : LastAt(captures, places) = captures[i] /\ captures[i] \in Captures
  BY <1>1, LastAtIs
<1> QED
  BY <1>2 DEF LastSuccess, Indexed

LEMMA LastErrorIs ==
  ASSUME NEW captures \in Seq(Captures), LastError(captures) # NoCapture
  PROVE  /\ LastError(captures) \in Captures /\ ~ IsSuccess(LastError(captures))
         /\ Indexed(captures, LastError(captures).body)
<1> DEFINE places == {i \in DOMAIN captures : ~ IsSuccess(captures[i])}
<1>1. places # {} /\ places \in SUBSET DOMAIN captures
  BY DEF LastError, LastAt
<1>2. PICK i \in places : LastAt(captures, places) = captures[i] /\ captures[i] \in Captures
  BY <1>1, LastAtIs
<1> QED
  BY <1>2 DEF LastError, Indexed

LEMMA LastsTyped ==
  ASSUME NEW captures \in Seq(Captures)
  PROVE  /\ LastSuccess(captures) \in Captures \cup {NoCapture}
         /\ LastError(captures) \in Captures \cup {NoCapture}
  BY LastSuccessIs, LastErrorIs

\* A capture appended is the last of its kind.
LEMMA AppendedIsLast ==
  ASSUME NEW captures \in Seq(Captures), NEW reply \in Captures, NEW places,
         places \in SUBSET DOMAIN Append(captures, reply), Len(captures) + 1 \in places
  PROVE  LastAt(Append(captures, reply), places) = reply
<1> DEFINE more == Append(captures, reply)
           n == Len(captures) + 1
           best == CHOOSE i \in places : \A j \in places : j <= i
<1>1. places \in SUBSET (1 .. n) /\ n \in Nat /\ more[n] = reply
  OBVIOUS
<1>2. \A i \in places : (\A j \in places : j <= i) => i = n
  BY <1>1
<1>3. \A j \in places : j <= n
  BY <1>1
<1>4. best \in places /\ \A j \in places : j <= best
  BY <1>3
<1>5. best = n
  BY <1>2, <1>4
<1> QED
  BY <1>1, <1>5 DEF LastAt

\* What storing an answer does to the captures of its request.
LEMMA Stored ==
  ASSUME NEW captures \in Seq(Captures), NEW reply \in Captures
  PROVE  /\ WithCapture(captures, reply) \in Seq(Captures)
         /\ Indexed(WithCapture(captures, reply), reply.body)
         /\ \A body : Indexed(captures, body) => Indexed(WithCapture(captures, reply), body)
         /\ ~ Indexed(captures, reply.body) =>
              IF IsSuccess(reply) THEN LastSuccess(WithCapture(captures, reply)) = reply
              ELSE LastError(WithCapture(captures, reply)) = reply
<1>1. CASE Indexed(captures, reply.body)
  BY <1>1 DEF WithCapture
<1>2. CASE ~ Indexed(captures, reply.body)
  <2> DEFINE more == Append(captures, reply)
             n == Len(captures) + 1
  <2>1. WithCapture(captures, reply) = more
    BY <1>2 DEF WithCapture
  <2>2. /\ more \in Seq(Captures) /\ n \in DOMAIN more /\ more[n] = reply
        /\ \A i \in DOMAIN captures : i \in DOMAIN more /\ more[i] = captures[i]
    OBVIOUS
  <2>3. Indexed(more, reply.body) /\ \A body : Indexed(captures, body) => Indexed(more, body)
    BY <2>2 DEF Indexed
  <2>4. CASE IsSuccess(reply)
    <3> DEFINE places == {i \in DOMAIN more : IsSuccess(more[i])}
    <3>1. places \in SUBSET DOMAIN more /\ n \in places
      BY <2>2, <2>4
    <3> HIDE DEF places
    <3>2. LastAt(more, places) = reply
      BY <3>1, AppendedIsLast
    <3>3. LastSuccess(more) = reply
      BY <3>2 DEF LastSuccess, places
    <3> QED
      BY <2>1, <2>2, <2>3, <2>4, <3>3
  <2>5. CASE ~ IsSuccess(reply)
    <3> DEFINE places == {i \in DOMAIN more : ~ IsSuccess(more[i])}
    <3>1. places \in SUBSET DOMAIN more /\ n \in places
      BY <2>2, <2>5
    <3> HIDE DEF places
    <3>2. LastAt(more, places) = reply
      BY <3>1, AppendedIsLast
    <3>3. LastError(more) = reply
      BY <3>2 DEF LastError, places
    <3> QED
      BY <2>1, <2>2, <2>3, <2>5, <3>3
  <2> QED
    BY <2>4, <2>5
<1> QED
  BY <1>1, <1>2

LEMMA RangeAppend ==
  ASSUME NEW S, NEW seq \in Seq(S), NEW e
  PROVE  Range(Append(seq, e)) = Range(seq) \cup {e}
<1>1. /\ DOMAIN Append(seq, e) = DOMAIN seq \cup {Len(seq) + 1}
      /\ Append(seq, e)[Len(seq) + 1] = e
      /\ \A i \in DOMAIN seq : Append(seq, e)[i] = seq[i]
  OBVIOUS
<1> QED
  BY <1>1 DEF Range

-----------------------------------------------------------------------------
(* A step of one run, as the other runs see it.                            *)

\* The captures that requests have only become more.
Grows == \A p \in Probes : \A body : Indexed(cache[p], body) => Indexed(cache'[p], body)

LEMMA WarrantedStays ==
  ASSUME Grows, NEW row, row.probe \in Probes, Warranted(row)
  PROVE  Warranted(row)'
  BY DEF Grows, Warranted

LEMMA FreshStays ==
  ASSUME NEW row, cache'[row.probe] = cache[row.probe], Fresh(row)
  PROVE  Fresh(row)'
  BY DEF Fresh, ReplaysTheSame

LEMMA RowTyped ==
  ASSUME NEW rows \in Seq(Row), NEW row \in Range(rows)
  PROVE  row \in Row
<1>1. PICK i \in DOMAIN rows : row = rows[i]
  BY DEF Range
<1> QED
  BY <1>1

LEMMA RunMoves ==
  ASSUME RunPart, NEW c \in Runners, NEW s \in Run, Set(c, s),
         cache' \in [Probes -> Seq(Captures)], Grows, cache' # cache => ~ At(c, "idle"),
         s.pc # "idle" => ~ At(c, "idle") /\ s.alone = run[c].alone,
         InStep(s), EndedRightly(s)', RowsTrue(s)'
  PROVE  RunPart'
<1>1. /\ run \in [Runners -> Run] /\ run' = [run EXCEPT ![c] = s]
      /\ run'[c] = s /\ \A d \in Runners \ {c} : run'[d] = run[d]
  BY DEF RunPart, RunsTyped, Set
<1>2. RunsTyped'
  BY <1>1 DEF RunsTyped
<1>3. AloneStill'
  <2> SUFFICES ASSUME NEW d \in Runners, run'[d].alone, run'[d].pc # "idle", NEW e \in Runners \ {d}
               PROVE  run'[e].pc = "idle"
    BY DEF AloneStill, At
  <2>1. CASE d = c
    BY <1>1, <2>1 DEF RunPart, AloneStill, At
  <2>2. CASE d # c
    BY <1>1, <2>2 DEF RunPart, AloneStill, At
  <2> QED
    BY <2>1, <2>2
<1>4. ASSUME NEW d \in Runners PROVE (InStep(run[d]) /\ EndedRightly(run[d]) /\ RowsTrue(run[d]))'
  <2>1. CASE d = c
    <3>1. InStep(run[d])'
      BY <1>1, <2>1
    <3>2. EndedRightly(run[d])'
      BY <1>1, <2>1 DEF EndedRightly
    <3>3. RowsTrue(run[d])'
      BY <1>1, <2>1 DEF RowsTrue
    <3> QED
      BY <3>1, <3>2, <3>3
  <2>2. CASE d # c
    <3>1. run'[d] = run[d] /\ run[d] \in Run
      BY <1>1, <2>2
    <3>2. InStep(run[d]) /\ EndedRightly(run[d]) /\ RowsTrue(run[d])
      BY DEF RunPart, RunsRight
    <3>3. run[d].alone /\ run[d].pc # "idle" => cache' = cache
      BY <2>2 DEF RunPart, AloneStill, At
    <3>4. InStep(run[d])'
      BY <3>1, <3>2
    <3>5. EndedRightly(run[d])'
      <4> SUFFICES ASSUME run[d].pc = "judge" PROVE EndedRightly(run[d])'
        BY <3>1 DEF EndedRightly
      <4>1. Plan[First(run[d].todo)] \in Probes
        <5>1. run[d].todo \in SUBSET Nat /\ run[d].todo # {} /\ run[d].todo \subseteq DOMAIN Plan
          BY <3>1, <3>2 DEF InStep, Run
        <5>2. First(run[d].todo) \in DOMAIN Plan
          BY <5>1, FirstIs
        <5> QED
          BY <5>2 DEF Probes, Range
      <4> QED
        BY <3>1, <3>2, <3>3, <4>1 DEF EndedRightly, Served, Grows
    <3>6. RowsTrue(run[d])'
      <4>1. ASSUME NEW row \in Range(run[d].rows)
            PROVE  Warranted(row)' /\ (run[d].alone /\ row.sure /\ run[d].pc # "idle" => Fresh(row)')
        <5>1. row \in Row
          BY <3>1, RowTyped DEF Run
        <5>2. Warranted(row)'
          BY <3>2, <5>1, WarrantedStays DEF RowsTrue, Row
        <5>3. ASSUME run[d].alone, row.sure, run[d].pc # "idle" PROVE Fresh(row)'
          <6>1. cache' = cache /\ Fresh(row)
            BY <3>2, <3>3, <5>3 DEF RowsTrue
          <6> QED
            BY <6>1, FreshStays
        <5> QED
          BY <5>2, <5>3
      <4> QED
        BY <3>1, <4>1 DEF RowsTrue
    <3> QED
      BY <3>4, <3>5, <3>6
  <2> QED
    BY <2>1, <2>2
<1> QED
  BY <1>2, <1>3, <1>4 DEF RunPart, RunsRight

\* What a run does that leaves the directories and manifests alone.
LEMMA DirsFrame ==
  ASSUME RunPart, DirPart, NEW c \in Runners, NEW s \in Run, Set(c, s),
         UNCHANGED <<dirs, written>>, s.pc # "write",
         s.pc # "idle" => /\ run[c].pc \in {"probe", "attempt", "judge", "catalogs"}
                          /\ s.alone = run[c].alone /\ s.id = run[c].id
  PROVE  DirPart'
<1>1. /\ run \in [Runners -> Run] /\ run'[c] = s /\ \A d \in Runners \ {c} : run'[d] = run[d]
  BY DEF RunPart, RunsTyped, Set
<1>2. DirsTyped' /\ ManifestsStay'
  BY DEF DirPart, DirsTyped, ManifestsStay
<1>3. DirectoryOwned'
  BY <1>1 DEF DirPart, DirectoryOwned, At
<1>4. AloneIsNotRefused'
  BY <1>1 DEF DirPart, AloneIsNotRefused
<1> QED
  BY <1>2, <1>3, <1>4 DEF DirPart

LEMMA ManifestsFrame ==
  ASSUME ManifestsTrue, DirsTyped, Grows, UNCHANGED written PROVE ManifestsTrue'
<1> SUFFICES ASSUME NEW m \in written, NEW row \in Range(m.rows) PROVE Warranted(row)'
  BY DEF ManifestsTrue
<1>1. row \in Row /\ Warranted(row)
  BY RowTyped DEF DirsTyped, ManifestsTrue
<1> QED
  BY <1>1, WarrantedStays DEF Row

LEMMA CatalogsFrame == ASSUME CatalogPart, UNCHANGED catalogs PROVE CatalogPart'
  BY DEF CatalogPart, CatalogIsOfCapture

LEMMA Moves ==
  ASSUME MatrixInv, NEW c \in Runners, NEW s \in Run, Set(c, s),
         UNCHANGED <<dirs, catalogs, written>>,
         cache' \in [Probes -> Seq(Captures)], Grows, cache' # cache => ~ At(c, "idle"),
         s.pc # "write",
         s.pc # "idle" => /\ run[c].pc \in {"probe", "attempt", "judge", "catalogs"}
                          /\ s.alone = run[c].alone /\ s.id = run[c].id,
         InStep(s), EndedRightly(s)', RowsTrue(s)'
  PROVE  MatrixInv'
<1>1. RunPart /\ DirPart /\ ManifestsTrue /\ CatalogPart /\ DirsTyped
  BY DEF MatrixInv, DirPart
<1>2. RunPart'
  <2>1. s.pc # "idle" => ~ At(c, "idle") /\ s.alone = run[c].alone
    BY DEF At
  <2> QED
    BY <1>1, <2>1, RunMoves
<1>3. DirPart'
  BY <1>1, DirsFrame
<1>4. ManifestsTrue' /\ CatalogPart'
  BY <1>1, ManifestsFrame, CatalogsFrame
<1> QED
  BY <1>2, <1>3, <1>4 DEF MatrixInv

\* A run that ends leaves nothing to keep.
LEMMA IdleIsRight == Idle \in Run /\ InStep(Idle) /\ EndedRightly(Idle)' /\ RowsTrue(Idle)'
<1>1. Idle \in Run
  BY DEF Idle, Run, Outcomes
<1>2. Idle.pc = "idle" /\ Idle.rows = <<>> /\ Range(<<>>) = {}
  BY DEF Idle, Range
<1> QED
  BY <1>1, <1>2 DEF InStep, EndedRightly, RowsTrue

LEMMA Stops ==
  ASSUME MatrixInv, NEW c \in Runners, Stop(c), UNCHANGED <<dirs, catalogs, written>>,
         cache' \in [Probes -> Seq(Captures)], Grows, cache' # cache => ~ At(c, "idle")
  PROVE  MatrixInv'
<1>1. Set(c, Idle) /\ Idle.pc = "idle"
  BY DEF Stop, Idle
<1> QED
  BY <1>1, IdleIsRight, Moves

LEMMA SameCache ==
  ASSUME RunPart, UNCHANGED cache
  PROVE  cache' \in [Probes -> Seq(Captures)] /\ Grows
  BY DEF RunPart, RunsTyped, Grows

\* The probe a run is at is in the plan, and no row it has is about it.
LEMMA AtAProbe ==
  ASSUME DiscoveryAssumption, RunPart, NEW c \in Runners, run[c].pc \in {"probe", "attempt", "judge"}
  PROVE  /\ First(run[c].todo) \in run[c].todo /\ First(run[c].todo) \in DOMAIN Plan
         /\ Probe(c) \in Probes /\ cache[Probe(c)] \in Seq(Captures)
         /\ \A row \in Range(run[c].rows) : row \in Row /\ row.probe # Probe(c)
<1>1. run[c] \in Run /\ InStep(run[c]) /\ cache \in [Probes -> Seq(Captures)]
  BY DEF RunPart, RunsTyped, RunsRight
<1>2. run[c].todo \in SUBSET Nat /\ run[c].todo # {} /\ run[c].todo \subseteq DOMAIN Plan
  BY <1>1 DEF InStep, Run
<1>3. First(run[c].todo) \in run[c].todo
  BY <1>2, FirstIs
<1>4. Probe(c) \in Probes
  BY <1>2, <1>3 DEF Probe, Probes, Range
<1>5. \A row \in Range(run[c].rows) : row \in Row
  BY <1>1, RowTyped DEF Run
<1> QED
  BY <1>1, <1>2, <1>3, <1>4, <1>5 DEF InStep, Probe

\* The rows of a run stay true whatever is stored for the probe it is at.
LEMMA RowsStay ==
  ASSUME DiscoveryAssumption, RunPart, NEW c \in Runners, run[c].pc \in {"probe", "attempt", "judge"},
         Grows, \A p \in Probes \ {Probe(c)} : cache'[p] = cache[p],
         NEW s \in Run, s.rows = run[c].rows, s.alone = run[c].alone
  PROVE  RowsTrue(s)'
<1> SUFFICES ASSUME NEW row \in Range(run[c].rows)
             PROVE  Warranted(row)' /\ (run[c].alone /\ row.sure => Fresh(row)')
  BY DEF RowsTrue
<1>1. row \in Row /\ row.probe # Probe(c)
  BY AtAProbe
<1>2. Warranted(row) /\ (run[c].alone /\ row.sure => Fresh(row))
  BY DEF RunPart, RunsRight, RowsTrue
<1>3. row.probe \in Probes /\ cache'[row.probe] = cache[row.probe]
  BY <1>1 DEF Row
<1> QED
  BY <1>2, <1>3, WarrantedStays, FreshStays

\* An execute ends with what the cache now says.
LEMMA Ends ==
  ASSUME DiscoveryAssumption, MatrixInv, NEW c \in Runners, run[c].pc \in {"probe", "attempt"},
         NEW outcome \in Outcomes \ {"none"}, NEW got \in Captures \cup {NoCapture}, NEW sure \in BOOLEAN,
         Ended(c, outcome, got, sure), UNCHANGED <<dirs, catalogs, written>>,
         cache' \in [Probes -> Seq(Captures)], Grows,
         \A p \in Probes \ {Probe(c)} : cache'[p] = cache[p],
         Served(outcome, got, cache'[Probe(c)]),
         sure => Fits(outcome, got, cache'[Probe(c)])
  PROVE  MatrixInv'
<1>1. RunPart /\ run[c] \in Run /\ InStep(run[c])
  BY DEF MatrixInv, RunPart, RunsTyped, RunsRight
<1>s. [run[c] EXCEPT !.pc = "judge", !.outcome = outcome, !.got = got, !.sure = sure] \in Run
  BY <1>1 DEF Run
<1> PICK s \in Run : s = [run[c] EXCEPT !.pc = "judge", !.outcome = outcome, !.got = got, !.sure = sure]
  BY <1>s
<1>2. /\ Set(c, s)
      /\ s.pc = "judge" /\ s.outcome = outcome /\ s.got = got /\ s.sure = sure
      /\ s.todo = run[c].todo /\ s.rows = run[c].rows /\ s.alone = run[c].alone /\ s.id = run[c].id
  BY <1>1 DEF Ended, Run
<1>3. InStep(s)
  BY <1>1, <1>2 DEF InStep
<1>4. EndedRightly(s)'
  BY <1>2 DEF EndedRightly, Probe
<1>5. RowsTrue(s)'
  <2>1. run[c].pc \in {"probe", "attempt", "judge"}
    OBVIOUS
  <2> QED
    BY <1>1, <1>2, <2>1, RowsStay
<1>6. ~ At(c, "idle") /\ run[c].pc \in {"probe", "attempt", "judge", "catalogs"}
  BY DEF At
<1> QED
  BY <1>2, <1>3, <1>4, <1>5, <1>6, Moves

-----------------------------------------------------------------------------
(* The steps.                                                              *)

LEMMA AnswerTyped ==
  ASSUME DiscoveryAssumption, NEW reply \in Captures
  PROVE  reply.status \in Nat /\ reply # NoCapture
  BY DEF DiscoveryAssumption

LEMMA ExecuteInv == ASSUME DiscoveryAssumption, MatrixInv, NEW c \in Runners, Execute(c) PROVE MatrixInv'
<1> DEFINE captures == cache[Probe(c)]
           hit == LastSuccess(captures)
           denial == LastError(captures)
<1>1. RunPart /\ run[c] \in Run /\ InStep(run[c]) /\ run[c].pc = "probe" /\ ~ At(c, "idle")
  BY DEF MatrixInv, RunPart, RunsTyped, RunsRight, Execute, At
<1>2. captures \in Seq(Captures) /\ Probe(c) \in Probes
  BY <1>1, AtAProbe
<1>3. UNCHANGED <<cache, dirs, catalogs, written>>
  BY DEF Execute
<1>4. /\ cache' \in [Probes -> Seq(Captures)] /\ Grows /\ cache'[Probe(c)] = captures
      /\ \A p \in Probes \ {Probe(c)} : cache'[p] = cache[p]
  BY <1>1, <1>3, SameCache
<1>5. CASE hit # NoCapture /\ Ended(c, "success", hit, TRUE)
  <2>1. hit \in Captures /\ IsSuccess(hit) /\ Indexed(captures, hit.body)
    BY <1>2, <1>5, LastSuccessIs
  <2>2. Served("success", hit, captures) /\ Fits("success", hit, captures) /\ "success" \in Outcomes \ {"none"}
    BY <1>5, <2>1 DEF Served, Fits, Outcomes
  <2> HIDE DEF captures, hit
  <2> QED
    BY <1>1, <1>3, <1>4, <1>5, <2>1, <2>2, Ends
<1>6. CASE hit = NoCapture /\ Ended(c, "miss", NoCapture, TRUE)
  <2>1. Served("miss", NoCapture, captures) /\ Fits("miss", NoCapture, captures) /\ "miss" \in Outcomes \ {"none"}
    BY <1>6 DEF Served, Fits, Outcomes
  <2> HIDE DEF captures, hit
  <2> QED
    BY <1>1, <1>3, <1>4, <1>6, <2>1, Ends
<1>7. CASE denial # NoCapture /\ denial.status = 403 /\ Ended(c, "entitlement", denial, TRUE)
  <2>1. denial \in Captures
    BY <1>2, <1>7, LastErrorIs
  <2>2. Classify(denial) = "entitlement"
    BY <1>7 DEF Classify, IsSplit
  <2>3. /\ Served("entitlement", denial, captures) /\ Fits("entitlement", denial, captures)
        /\ "entitlement" \in Outcomes \ {"none"}
    BY <1>7, <2>2 DEF Served, Fits, Outcomes
  <2> HIDE DEF captures, denial
  <2> QED
    BY <1>1, <1>3, <1>4, <1>7, <2>1, <2>3, Ends
<1>8. CASE Stop(c)
  BY <1>3, <1>4, <1>8, Stops
<1>9. CASE Set(c, [run[c] EXCEPT !.pc = "attempt"])
  <2>s. [run[c] EXCEPT !.pc = "attempt"] \in Run
    BY <1>1 DEF Run
  <2> PICK s \in Run : s = [run[c] EXCEPT !.pc = "attempt"]
    BY <2>s
  <2>1. /\ Set(c, s) /\ s.pc = "attempt" /\ s.todo = run[c].todo /\ s.rows = run[c].rows
        /\ s.alone = run[c].alone /\ s.id = run[c].id
    BY <1>1, <1>9 DEF Run
  <2>2. InStep(s)
    BY <1>1, <2>1 DEF InStep
  <2>3. EndedRightly(s)'
    BY <2>1 DEF EndedRightly
  <2>5. RowsTrue(s)'
    BY <1>1, <1>4, <2>1, RowsStay
  <2> QED
    BY <1>1, <1>3, <1>4, <2>1, <2>2, <2>3, <2>5, Moves
<1> QED
  BY <1>5, <1>6, <1>7, <1>8, <1>9 DEF Execute

\* Another attempt, or the end of the execute.
LEMMA NextAttemptInv ==
  ASSUME DiscoveryAssumption, MatrixInv, NEW c \in Runners, run[c].pc = "attempt",
         NEW outcome \in Outcomes \ {"none"}, NEW got \in Captures \cup {NoCapture}, NEW sure \in BOOLEAN,
         NextAttempt(c, outcome, got, sure), UNCHANGED <<dirs, catalogs, written>>,
         cache' \in [Probes -> Seq(Captures)], Grows,
         \A p \in Probes \ {Probe(c)} : cache'[p] = cache[p],
         Served(outcome, got, cache'[Probe(c)]),
         sure => Fits(outcome, got, cache'[Probe(c)])
  PROVE  MatrixInv'
<1>1. RunPart /\ run[c] \in Run /\ InStep(run[c]) /\ ~ At(c, "idle")
  BY DEF MatrixInv, RunPart, RunsTyped, RunsRight, At
<1>2. CASE Ended(c, outcome, got, sure)
  BY <1>2, Ends
<1>3. CASE Set(c, [run[c] EXCEPT !.attempt = @ + 1])
  <2>s. [run[c] EXCEPT !.attempt = @ + 1] \in Run
    <3>1. run[c].attempt + 1 \in Nat
      BY <1>1 DEF Run
    <3> QED
      BY <1>1, <3>1 DEF Run
  <2> PICK s \in Run : s = [run[c] EXCEPT !.attempt = @ + 1]
    BY <2>s
  <2>1. /\ Set(c, s) /\ s.pc = "attempt" /\ s.todo = run[c].todo /\ s.rows = run[c].rows
        /\ s.alone = run[c].alone /\ s.id = run[c].id
    BY <1>1, <1>3 DEF Run
  <2>2. InStep(s)
    BY <1>1, <2>1 DEF InStep
  <2>3. EndedRightly(s)'
    BY <2>1 DEF EndedRightly
  <2>5. RowsTrue(s)'
    BY <1>1, <2>1, RowsStay
  <2> QED
    BY <1>1, <2>1, <2>2, <2>3, <2>5, Moves
<1> QED
  BY <1>2, <1>3 DEF NextAttempt

LEMMA AnswerInv ==
  ASSUME DiscoveryAssumption, MatrixInv, NEW c \in Runners, NEW reply \in Answers[Probe(c)], Answer(c, reply)
  PROVE  MatrixInv'
<1> DEFINE captures == cache[Probe(c)]
           new == ~ Indexed(captures, reply.body)
<1>1. RunPart /\ run[c].pc = "attempt" /\ ~ At(c, "idle") /\ cache \in [Probes -> Seq(Captures)]
  BY DEF MatrixInv, RunPart, RunsTyped, Answer, Sends, At
<1>2. captures \in Seq(Captures) /\ Probe(c) \in Probes
  BY <1>1, AtAProbe
<1>3. reply \in Captures /\ reply.status \in Nat /\ reply # NoCapture
  <2>1. reply \in Captures
    BY <1>2 DEF Captures
  <2> QED
    BY <2>1, AnswerTyped
<1>4. /\ UNCHANGED <<dirs, catalogs, written>>
      /\ cache' = [cache EXCEPT ![Probe(c)] = WithCapture(captures, reply)]
  BY DEF Answer, Sends
<1>5. /\ cache'[Probe(c)] = WithCapture(captures, reply)
      /\ \A p \in Probes \ {Probe(c)} : cache'[p] = cache[p]
  BY <1>1, <1>2, <1>4
<1> HIDE DEF captures
<1>6. /\ WithCapture(captures, reply) \in Seq(Captures)
      /\ Indexed(WithCapture(captures, reply), reply.body)
      /\ \A body : Indexed(captures, body) => Indexed(WithCapture(captures, reply), body)
      /\ new => IF IsSuccess(reply) THEN LastSuccess(WithCapture(captures, reply)) = reply
                ELSE LastError(WithCapture(captures, reply)) = reply
  BY <1>2, <1>3, Stored
<1>7. cache' \in [Probes -> Seq(Captures)]
  BY <1>1, <1>2, <1>4, <1>6
<1>8. Grows
  BY <1>5, <1>6 DEF Grows, captures
<1> DEFINE class == Classify(reply)
<1>9. /\ class \in {"success", "split", "auth", "entitlement", "retryable", "client"}
      /\ class = "success" <=> IsSuccess(reply)
  BY <1>3 DEF Classify, IsSuccess, IsSplit
<1>10. class # "auth" =>
         LET outcome == IF class = "retryable" THEN "exhausted" ELSE class
         IN  /\ outcome \in Outcomes \ {"none"}
             /\ Served(outcome, reply, cache'[Probe(c)])
             /\ new => Fits(outcome, reply, cache'[Probe(c)])
  BY <1>3, <1>5, <1>6, <1>9 DEF Served, Fits, Outcomes
<1>11. CASE class = "auth" /\ Stop(c)
  BY <1>1, <1>4, <1>7, <1>8, <1>11, Stops
<1>12. CASE class = "retryable" /\ NextAttempt(c, "exhausted", reply, new)
  <2>1. /\ "exhausted" \in Outcomes \ {"none"} /\ new \in BOOLEAN
        /\ Served("exhausted", reply, cache'[Probe(c)])
        /\ new => Fits("exhausted", reply, cache'[Probe(c)])
    BY <1>10, <1>12
  <2>2. NextAttempt(c, "exhausted", reply, new)
    BY <1>12
  <2>3. run[c].pc = "attempt" /\ reply \in Captures \cup {NoCapture}
    BY <1>1, <1>3
  <2>4. UNCHANGED <<dirs, catalogs, written>> /\ \A p \in Probes \ {Probe(c)} : cache'[p] = cache[p]
    BY <1>4, <1>5
  <2> HIDE DEF new, class
  <2> QED
    BY <1>7, <1>8, <2>1, <2>2, <2>3, <2>4, NextAttemptInv
<1>13. CASE class \notin {"auth", "retryable"} /\ Ended(c, class, reply, new)
  <2>1. /\ class \in Outcomes \ {"none"} /\ new \in BOOLEAN
        /\ Served(class, reply, cache'[Probe(c)])
        /\ new => Fits(class, reply, cache'[Probe(c)])
    BY <1>10, <1>13
  <2> HIDE DEF new, class
  <2> QED
    BY <1>1, <1>3, <1>4, <1>5, <1>7, <1>8, <1>13, <2>1, Ends
<1> QED
  BY <1>11, <1>12, <1>13 DEF Answer, captures

LEMMA TimeoutInv == ASSUME DiscoveryAssumption, MatrixInv, NEW c \in Runners, Timeout(c) PROVE MatrixInv'
<1>1. RunPart /\ run[c].pc = "attempt" /\ UNCHANGED <<cache, dirs, catalogs, written>>
  BY DEF MatrixInv, Timeout, Sends, At
<1>2. cache' \in [Probes -> Seq(Captures)] /\ Grows /\ \A p \in Probes \ {Probe(c)} : cache'[p] = cache[p]
  BY <1>1, SameCache
<1>3. "server" \in Outcomes \ {"none"} /\ Served("server", NoCapture, cache'[Probe(c)])
  BY DEF Outcomes, Served
<1>4. NextAttempt(c, "server", NoCapture, FALSE)
  BY DEF Timeout
<1> QED
  BY <1>1, <1>2, <1>3, <1>4, NextAttemptInv

LEMMA RefusedInv == ASSUME MatrixInv, NEW c \in Runners, Refused(c) \/ Crash(c) PROVE MatrixInv'
<1>1. RunPart /\ Stop(c) /\ UNCHANGED <<cache, dirs, catalogs, written>>
  BY DEF MatrixInv, Refused, Crash
<1>2. cache' \in [Probes -> Seq(Captures)] /\ Grows
  BY <1>1, SameCache
<1> QED
  BY <1>1, <1>2, Stops

RowOf(p, outcome, got, evidence, sure) ==
  [probe |-> p, class |-> Classification(outcome, got, evidence),
   capture |-> IF outcome = "success" THEN got ELSE evidence, sure |-> sure]

\* What a probe is judged to be is warranted, and as a replay would say when
\* nobody else was about.
LEMMA JudgedRow ==
  ASSUME DiscoveryAssumption, RunsTyped, NEW p \in Probes, NEW outcome \in Outcomes \ {"none"},
         NEW got \in Captures \cup {NoCapture}, NEW sure \in BOOLEAN,
         NEW evidence, evidence = LastError(cache[p]),
         ~ (outcome = "miss" /\ evidence # NoCapture /\ evidence.status = 401),
         Served(outcome, got, cache[p]), sure => Fits(outcome, got, cache[p]),
         NEW row, row = RowOf(p, outcome, got, evidence, sure)
  PROVE  row \in Row /\ Warranted(row) /\ (sure => Fresh(row))
<1> DEFINE captures == cache[p]
           class == Classification(outcome, got, evidence)
<1>1. captures \in Seq(Captures)
  BY DEF RunsTyped
<1>2. evidence # NoCapture => /\ evidence \in Captures /\ evidence.status \in Nat
                              /\ ~ IsSuccess(evidence) /\ Indexed(captures, evidence.body)
  BY <1>1, LastErrorIs, AnswerTyped
<1>3. /\ row.probe = p /\ row.class = class /\ row.sure = sure
      /\ row.capture = IF outcome = "success" THEN got ELSE evidence
  BY DEF RowOf
<1>4. /\ outcome = "success" => class = ClassifySuccessBody(got.body)
      /\ outcome \in {"miss", "client"} /\ evidence # NoCapture => class = ClassifyErrorStatus(evidence.status)
      /\ outcome = "miss" /\ evidence = NoCapture => class = "not_captured"
      /\ outcome = "client" /\ evidence = NoCapture => class = "clarify"
      /\ outcome = "entitlement" => class = "unauthorized"
      /\ outcome = "split" => class = "clarify"
      /\ outcome \in {"server", "exhausted"} => class = "unavailable"
  BY DEF Classification
<1>5. /\ \A body : ClassifySuccessBody(body) \in {"clarify", "partial", "working"}
      /\ \A status : ClassifyErrorStatus(status) \in {"unauthorized", "unavailable", "clarify"}
  BY DEF ClassifySuccessBody, ClassifyErrorStatus
<1>6. outcome \in {"success", "miss", "client", "entitlement", "split", "server", "exhausted"}
  BY DEF Outcomes
<1> HIDE DEF class
<1>7. class \in Classes /\ (class \in {"working", "partial"} => outcome = "success")
  BY <1>4, <1>5, <1>6 DEF Classes
<1>8. row \in Row
  BY <1>2, <1>3, <1>7 DEF Row, RowOf
\* The status of the error that an execute ended with.
<1>9. ASSUME sure, outcome \in {"client", "entitlement", "split", "exhausted"}
      PROVE  /\ evidence = got /\ evidence # NoCapture /\ evidence.status \in Nat /\ evidence.status # 401
             /\ outcome = "exhausted" => Classify(evidence) = "retryable"
             /\ outcome # "exhausted" => class = ClassifyErrorStatus(evidence.status)
  <2>1. /\ evidence = got /\ evidence # NoCapture /\ evidence.status \in Nat
        /\ Classify(evidence) = IF outcome = "exhausted" THEN "retryable" ELSE outcome
    BY <1>2, <1>9 DEF Fits
  <2>2. /\ Classify(evidence) \in {"client", "entitlement", "split", "retryable"} => evidence.status # 401
        /\ Classify(evidence) = "entitlement" => evidence.status = 403
        /\ Classify(evidence) = "split" => evidence.status = 400
    BY <2>1 DEF Classify, IsSplit
  <2>3. /\ evidence.status = 403 => ClassifyErrorStatus(evidence.status) = "unauthorized"
        /\ evidence.status = 400 => ClassifyErrorStatus(evidence.status) = "clarify"
    BY DEF ClassifyErrorStatus
  <2> QED
    BY <1>4, <1>9, <2>1, <2>2, <2>3
<1>10. ASSUME sure PROVE outcome # "server"
  BY <1>10 DEF Fits
<1>11. Warranted(row)
  <2>1. Cited(row) => Indexed(cache[row.probe], row.capture.body)
    BY <1>2, <1>3 DEF Cited, Served
  <2>2. Usable(row) => IsSuccess(row.capture) /\ ClassifySuccessBody(row.capture.body) = row.class
    BY <1>3, <1>4, <1>7 DEF Usable, Served
  <2>3. ASSUME row.sure, Cited(row), ~ IsSuccess(row.capture)
        PROVE  /\ row.capture.status # 401
               /\ \/ row.class = ClassifyErrorStatus(row.capture.status)
                  \/ row.class = "unavailable" /\ Classify(row.capture) = "retryable"
    <3>1. outcome # "success" /\ row.capture = evidence /\ evidence # NoCapture /\ sure
      BY <1>3, <2>3 DEF Cited, Served
    <3>2. CASE outcome = "miss"
      BY <1>3, <1>4, <3>1, <3>2
    <3>3. CASE outcome \in {"client", "entitlement", "split", "exhausted"}
      BY <1>3, <1>4, <1>9, <3>1, <3>3
    <3> QED
      BY <1>6, <1>10, <3>1, <3>2, <3>3
  <2> QED
    BY <2>1, <2>2, <2>3 DEF Warranted
<1>12. ASSUME sure PROVE Fresh(row)
  <2>1. Fits(outcome, got, captures)
    BY <1>12
  <2>2. Usable(row) => LastSuccess(cache[row.probe]) = row.capture
    BY <1>3, <1>7, <2>1 DEF Usable, Fits
  <2>3. CASE outcome = "success"
    <3>1. LastSuccess(captures) = got /\ got # NoCapture
      BY <2>1, <2>3 DEF Fits, Served
    <3>2. Replayed(cache[row.probe]) = row.class
      BY <1>3, <1>4, <2>3, <3>1 DEF Replayed
    <3> QED
      BY <2>2, <3>2 DEF Fresh, ReplaysTheSame
  <2>4. CASE outcome = "miss"
    <3>1. LastSuccess(captures) = NoCapture
      BY <2>1, <2>4 DEF Fits
    <3>2. Replayed(captures) = Classification("miss", NoCapture, evidence)
      BY <3>1 DEF Replayed
    <3>3. Classification("miss", NoCapture, evidence) = class
      BY <2>4 DEF class, Classification
    <3>4. Replayed(cache[row.probe]) = row.class
      BY <1>3, <3>2, <3>3
    <3> QED
      BY <2>2, <3>4 DEF Fresh, ReplaysTheSame
  <2>5. CASE outcome \in {"client", "entitlement", "split", "exhausted"}
    <3>1. /\ row.capture = evidence /\ Cited(row) /\ ~ IsSuccess(row.capture)
          /\ evidence.status \in Nat
      BY <1>2, <1>3, <1>9, <1>12, <2>5 DEF Cited
    <3>2. CASE LastSuccess(captures) # NoCapture
      BY <1>3, <2>2, <3>1, <3>2 DEF Fresh, ReplaysTheSame
    <3>3. CASE LastSuccess(captures) = NoCapture
      <4>1. Replayed(captures) = ClassifyErrorStatus(evidence.status)
        BY <1>9, <1>12, <2>5, <3>3 DEF Replayed, Classification
      <4>2. CASE outcome # "exhausted"
        <5>1. Replayed(cache[row.probe]) = row.class
          BY <1>3, <1>9, <1>12, <2>5, <4>1, <4>2
        <5> QED
          BY <2>2, <5>1 DEF Fresh, ReplaysTheSame
      <4>3. CASE outcome = "exhausted" /\ evidence.status < 500
        BY <1>9, <1>12, <2>2, <2>5, <3>1, <4>3 DEF Fresh, ReplaysTheSame
      <4>4. CASE outcome = "exhausted" /\ evidence.status >= 500
        <5>1. ClassifyErrorStatus(evidence.status) = "unavailable"
          BY <3>1, <4>4 DEF ClassifyErrorStatus
        <5>2. Replayed(cache[row.probe]) = row.class
          BY <1>3, <1>4, <4>1, <4>4, <5>1
        <5> QED
          BY <2>2, <5>2 DEF Fresh, ReplaysTheSame
      <4> QED
        BY <3>1, <4>2, <4>3, <4>4
    <3> QED
      BY <3>2, <3>3
  <2> QED
    BY <1>6, <1>10, <1>12, <2>3, <2>4, <2>5
<1> QED
  BY <1>8, <1>11, <1>12

LEMMA ExecuteProbeInv ==
  ASSUME DiscoveryAssumption, MatrixInv, NEW c \in Runners, ExecuteProbe(c) PROVE MatrixInv'
<1> DEFINE evidence == LastError(cache[Probe(c)])
<1>1. /\ RunPart /\ RunsTyped /\ run[c] \in Run /\ run[c].pc = "judge" /\ ~ At(c, "idle")
      /\ InStep(run[c]) /\ EndedRightly(run[c]) /\ RowsTrue(run[c])
  BY DEF MatrixInv, RunPart, RunsTyped, RunsRight, ExecuteProbe, At
<1>2. UNCHANGED <<cache, dirs, catalogs, written>>
  BY DEF ExecuteProbe
<1>3. cache' \in [Probes -> Seq(Captures)] /\ Grows
  BY <1>1, <1>2, SameCache
<1>4. CASE Stop(c)
  BY <1>2, <1>3, <1>4, Stops
<1>5. CASE /\ ~ (run[c].outcome = "miss" /\ evidence # NoCapture /\ evidence.status = 401)
           /\ Set(c, Judged(c, evidence))
  <2> DEFINE r == run[c]
             row == [probe |-> Probe(c), class |-> Classification(r.outcome, r.got, evidence),
                     capture |-> IF r.outcome = "success" THEN r.got ELSE evidence,
                     sure |-> r.sure /\ r.alone]
             rows == Append(r.rows, row)
             left == r.todo \ {First(r.todo)}
  <2>1. /\ First(r.todo) \in r.todo /\ First(r.todo) \in DOMAIN Plan /\ Probe(c) \in Probes
        /\ \A q \in Range(r.rows) : q \in Row
    BY <1>1, AtAProbe
  <2>2. row \in Row /\ Warranted(row) /\ (r.sure /\ r.alone => Fresh(row))
    <3>1. /\ r.outcome \in Outcomes \ {"none"} /\ r.got \in Captures \cup {NoCapture}
          /\ (r.sure /\ r.alone) \in BOOLEAN
      BY <1>1 DEF Run, InStep
    <3>2. /\ Served(r.outcome, r.got, cache[Probe(c)])
          /\ r.sure /\ r.alone => Fits(r.outcome, r.got, cache[Probe(c)])
      BY <1>1 DEF EndedRightly, Probe
    <3> PICK sure \in BOOLEAN : sure = (r.sure /\ r.alone)
      BY <3>1
    <3>3. row = [probe |-> Probe(c), class |-> Classification(r.outcome, r.got, evidence),
                 capture |-> IF r.outcome = "success" THEN r.got ELSE evidence, sure |-> sure]
      OBVIOUS
    <3> HIDE DEF row
    <3>4. sure => Fits(r.outcome, r.got, cache[Probe(c)])
      BY <3>2
    <3>5. row \in Row /\ Warranted(row) /\ (sure => Fresh(row))
      <4>1. /\ evidence = LastError(cache[Probe(c)])
            /\ ~ (r.outcome = "miss" /\ evidence # NoCapture /\ evidence.status = 401)
        BY <1>5
      <4> HIDE DEF evidence
      <4> QED
        <5> PICK outcome \in Outcomes \ {"none"}, got \in Captures \cup {NoCapture} :
                   outcome = r.outcome /\ got = r.got
          BY <3>1
        <5> PICK p \in Probes : p = Probe(c)
          BY <2>1
        <5>1. row = RowOf(p, outcome, got, evidence, sure)
          BY <3>3 DEF RowOf
        <5>2. /\ evidence = LastError(cache[p])
              /\ ~ (outcome = "miss" /\ evidence # NoCapture /\ evidence.status = 401)
          BY <4>1
        <5>3. Served(outcome, got, cache[p]) /\ (sure => Fits(outcome, got, cache[p]))
          BY <3>2, <3>4
        <5>4. row \in Row
          BY <1>1, <5>1, <5>2, <5>3, JudgedRow
        <5>5. Warranted(row)
          BY <1>1, <5>1, <5>2, <5>3, JudgedRow
        <5>6. sure => Fresh(row)
          BY <1>1, <5>1, <5>2, <5>3, JudgedRow
        <5> QED
          BY <5>4, <5>5, <5>6
    <3> QED
      BY <3>5
  <2> HIDE DEF row
  <2>3. r.rows \in Seq(Row) /\ rows \in Seq(Row) /\ Range(rows) = Range(r.rows) \cup {row}
    <3>1. r.rows \in Seq(Row)
      BY <1>1 DEF Run
    <3>2. rows \in Seq(Row)
      BY <2>2, <3>1
    <3> QED
      BY <3>1, <3>2, RangeAppend
  <2>4. r.todo \in SUBSET Nat /\ r.todo \subseteq DOMAIN Plan
    BY <1>1 DEF Run, InStep
  <2>5. BuildableCatalogs(rows) \in SUBSET Nat
    BY <2>3 DEF BuildableCatalogs
  <2>6. row.probe = Probe(c) /\ row.sure = (r.sure /\ r.alone)
    BY DEF row
  <2> HIDE DEF rows
  <2> DEFINE step == IF left = {} THEN "catalogs" ELSE "probe"
             todo == IF left = {} THEN BuildableCatalogs(rows) ELSE left
  <2>s. Judged(c, evidence) = [r EXCEPT !.pc = step, !.todo = todo, !.rows = rows, !.attempt = 0,
                                        !.outcome = "none", !.got = NoCapture, !.sure = TRUE]
    BY DEF Judged, rows, row
  <2>t. step \in {"catalogs", "probe"} /\ todo \in SUBSET Nat
    BY <2>4, <2>5
  <2> HIDE DEF step, todo
  <2>7. Judged(c, evidence) \in Run
    <3> DEFINE on == [r EXCEPT !.pc = step, !.todo = todo, !.rows = rows]
               over == [on EXCEPT !.attempt = 0, !.outcome = "none"]
    <3>1. on \in Run
      BY <1>1, <2>3, <2>t DEF Run
    <3> HIDE DEF on
    <3>2. over \in Run
      BY <3>1 DEF Run, Outcomes
    <3> HIDE DEF over
    <3>3. [over EXCEPT !.got = NoCapture, !.sure = TRUE] \in Run
      BY <3>2 DEF Run
    <3> QED
      BY <2>s, <3>3 DEF over, on
  <2> PICK s \in Run : s = Judged(c, evidence)
    BY <2>7
  <2>u. /\ Set(c, s) /\ s.pc = step /\ s.todo = todo
        /\ s.rows = rows /\ s.alone = r.alone /\ s.id = r.id
    BY <1>1, <1>5, <2>s DEF Run
  <2>8. /\ Set(c, s) /\ s.pc = IF left = {} THEN "catalogs" ELSE "probe"
        /\ s.todo = IF left = {} THEN BuildableCatalogs(rows) ELSE left
        /\ s.rows = rows /\ s.alone = r.alone /\ s.id = r.id
    BY <2>u DEF step, todo
  <2>9. ASSUME NEW i \in left, NEW q \in Range(rows) PROVE q.probe # Plan[i]
    <3>1. CASE q \in Range(r.rows)
      BY <1>1, <3>1 DEF InStep
    <3>2. CASE q = row
      <4>1. i \in DOMAIN Plan /\ i # First(r.todo) /\ q.probe = Plan[First(r.todo)]
        BY <2>4, <2>6, <3>2 DEF Probe
      <4> QED
        BY <2>1, <4>1 DEF DiscoveryAssumption, IsInjective
    <3> QED
      BY <2>3, <3>1, <3>2
  <2>10. InStep(s)
    BY <1>1, <2>4, <2>8, <2>9 DEF InStep
  <2>11. EndedRightly(s)'
    BY <2>8 DEF EndedRightly
  <2>12. RowsTrue(s)'
    <3> SUFFICES ASSUME NEW q \in Range(rows) PROVE Warranted(q)' /\ (r.alone /\ q.sure => Fresh(q)')
      BY <2>8 DEF RowsTrue
    <3>1. q \in Row /\ Warranted(q) /\ (r.alone /\ q.sure => Fresh(q))
      BY <1>1, <2>1, <2>2, <2>3, <2>6 DEF RowsTrue
    <3> QED
      BY <1>2, <1>3, <3>1, WarrantedStays, FreshStays DEF Row
  <2> QED
    BY <1>1, <1>2, <1>3, <2>8, <2>10, <2>11, <2>12, Moves
<1> QED
  BY <1>4, <1>5 DEF ExecuteProbe

LEMMA BuildCatalogInv ==
  ASSUME DiscoveryAssumption, MatrixInv, NEW c \in Runners, BuildCatalog(c) PROVE MatrixInv'
<1> DEFINE r == run[c]
           row == r.rows[First(r.todo)]
           rows == ParseMetrics(LastSuccess(cache[row.probe]).body)
<1>1. /\ RunPart /\ DirPart /\ DirsTyped /\ ManifestsTrue /\ CatalogPart
      /\ r \in Run /\ r.pc = "catalogs" /\ ~ At(c, "idle") /\ InStep(r) /\ RowsTrue(r)
      /\ r.todo # {}
  BY DEF MatrixInv, RunPart, RunsTyped, DirPart, RunsRight, BuildCatalog, At
<1>2. UNCHANGED <<cache, dirs, written>>
  BY DEF BuildCatalog
<1>3. cache' \in [Probes -> Seq(Captures)] /\ Grows
  BY <1>1, <1>2, SameCache
<1>4. CASE Stop(c) /\ UNCHANGED catalogs
  BY <1>2, <1>3, <1>4, Stops
<1>5. CASE /\ catalogs' = [catalogs EXCEPT ![row.probe] =
                            [rows |-> rows, capture |-> row.capture, sure |-> row.sure /\ r.alone]]
           /\ Set(c, [r EXCEPT !.todo = @ \ {First(@)}])
  <2>1. First(r.todo) \in r.todo /\ r.todo \in SUBSET Nat
    BY <1>1, FirstIs DEF Run
  <2>2. row.probe \in CatalogProbes /\ Usable(row) /\ row \in Range(r.rows)
    BY <1>1, <2>1 DEF InStep, BuildableCatalogs, Range
  <2>3. row.sure /\ r.alone => LastSuccess(cache[row.probe]) = row.capture
    BY <1>1, <2>2 DEF RowsTrue, Fresh
  <2>s. [r EXCEPT !.todo = @ \ {First(@)}] \in Run
    BY <1>1, <2>1 DEF Run
  <2> PICK s \in Run : s = [r EXCEPT !.todo = @ \ {First(@)}]
    BY <2>s
  <2>4. /\ Set(c, s) /\ s.pc = "catalogs" /\ s.todo = r.todo \ {First(r.todo)} /\ s.rows = r.rows
        /\ s.alone = r.alone /\ s.id = r.id
    BY <1>1, <1>5 DEF Run
  <2>5. InStep(s)
    BY <1>1, <2>4 DEF InStep
  <2>6. EndedRightly(s)'
    BY <2>4 DEF EndedRightly
  <2>7. RowsTrue(s)'
    <3> SUFFICES ASSUME NEW q \in Range(r.rows) PROVE Warranted(q)' /\ (r.alone /\ q.sure => Fresh(q)')
      BY <2>4 DEF RowsTrue
    <3>1. q \in Row /\ Warranted(q) /\ (r.alone /\ q.sure => Fresh(q))
      BY <1>1, RowTyped DEF RowsTrue, Run
    <3> QED
      BY <1>2, <1>3, <3>1, WarrantedStays, FreshStays DEF Row
  <2>8. RunPart'
    BY <1>1, <1>2, <1>3, <2>4, <2>5, <2>6, <2>7, RunMoves
  <2>9. DirPart'
    BY <1>1, <1>2, <2>4, DirsFrame
  <2>10. ManifestsTrue'
    BY <1>1, <1>2, <1>3, ManifestsFrame
  <2>11. CatalogPart'
    <3>1. CatalogPart
      BY <1>1
    <3>2. /\ catalogs' = [p \in CatalogProbes |-> catalogs'[p]]
          /\ catalogs'[row.probe] = [rows |-> rows, capture |-> row.capture, sure |-> row.sure /\ r.alone]
          /\ \A p \in CatalogProbes \ {row.probe} : catalogs'[p] = catalogs[p]
      <4> HIDE DEF row, rows
      <4> QED
        BY <1>5, <2>2, <3>1 DEF CatalogPart
    <3>3. row.sure /\ r.alone => rows = ParseMetrics(row.capture.body)
      BY <2>3
    <3> HIDE DEF row, rows
    <3>4. ASSUME NEW p \in CatalogProbes, catalogs'[p] # None, catalogs'[p].sure
          PROVE  catalogs'[p].rows = ParseMetrics(catalogs'[p].capture.body)
      <4>1. CASE p = row.probe
        <5>1. /\ catalogs'[p].rows = rows /\ catalogs'[p].capture = row.capture
              /\ catalogs'[p].sure = (row.sure /\ r.alone)
          BY <3>2, <4>1
        <5> QED
          BY <3>3, <3>4, <5>1
      <4>2. CASE p # row.probe
        BY <3>1, <3>2, <3>4, <4>2 DEF CatalogPart, CatalogIsOfCapture
      <4> QED
        BY <4>1, <4>2
    <3> QED
      BY <3>2, <3>4 DEF CatalogPart, CatalogIsOfCapture
  <2> QED
    BY <2>8, <2>9, <2>10, <2>11 DEF MatrixInv
<1> QED
  BY <1>4, <1>5 DEF BuildCatalog

\* A run that begins: the others are no longer alone.
LEMMA RunDiscoveryInv ==
  ASSUME DiscoveryAssumption, MatrixInv, NEW c \in Runners, NEW id \in RunIds, NEW live \in BOOLEAN,
         NEW S \in (SUBSET Probes) \ {{}}, NEW refresh \in SUBSET S, RunDiscovery(c, id, live, S, refresh)
  PROVE  MatrixInv'
<1> DEFINE alone == \A e \in Runners : At(e, "idle")
           begun == [Idle EXCEPT !.pc = "probe", !.id = id, !.live = live, !.todo = Selected(S),
                                 !.refresh = refresh, !.alone = alone]
<1>1. /\ RunPart /\ DirPart /\ DirsTyped /\ ManifestsTrue /\ CatalogPart /\ AloneStill
      /\ run \in [Runners -> Run] /\ run[c].pc = "idle" /\ dirs[id] = None
  BY DEF MatrixInv, RunPart, RunsTyped, DirPart, RunDiscovery, At
<1>2. UNCHANGED <<cache, dirs, catalogs, written>>
  BY DEF RunDiscovery
<1>3. cache' \in [Probes -> Seq(Captures)] /\ Grows
  BY <1>1, <1>2, SameCache
<1>4. Selected(S) \in SUBSET Nat /\ Selected(S) \subseteq DOMAIN Plan /\ Selected(S) # {}
  <2>1. DOMAIN Plan \subseteq Nat
    BY DEF DiscoveryAssumption
  <2>2. PICK p \in S : p \in Range(Plan)
    <3>1. S # {} /\ S \subseteq Range(Plan)
      BY DEF Probes
    <3>2. PICK p \in S : TRUE
      BY <3>1
    <3> QED
      BY <3>1, <3>2
  <2>3. PICK i \in DOMAIN Plan : Plan[i] = p
    BY <2>2 DEF Range
  <2>4. i \in Selected(S)
    BY <2>3 DEF Selected
  <2> QED
    BY <2>1, <2>4 DEF Selected
<1>5. /\ begun \in Run /\ begun.pc = "probe" /\ begun.id = id /\ begun.todo = Selected(S)
      /\ begun.rows = <<>> /\ begun.alone = alone
  <2>1. alone \in BOOLEAN
    OBVIOUS
  <2> HIDE DEF alone
  <2> DEFINE some == [Idle EXCEPT !.pc = "probe", !.id = id, !.live = live]
  <2>2. Idle \in Run /\ Idle.rows = <<>>
    BY IdleIsRight DEF Idle
  <2>3. some \in Run /\ some.pc = "probe" /\ some.id = id /\ some.rows = <<>>
    BY <2>2 DEF Run
  <2>4. begun = [some EXCEPT !.todo = Selected(S), !.refresh = refresh, !.alone = alone]
    OBVIOUS
  <2> HIDE DEF some, begun
  <2> QED
    BY <1>4, <2>1, <2>3, <2>4 DEF Run
<1>6. run' = [d \in Runners |-> IF d = c THEN begun ELSE [run[d] EXCEPT !.alone = At(d, "idle")]]
  BY DEF RunDiscovery
<1> HIDE DEF begun
<1>7. /\ run'[c] = begun
      /\ \A d \in Runners \ {c} : run'[d] = [run[d] EXCEPT !.alone = At(d, "idle")]
  BY <1>6
<1>8. ASSUME NEW d \in Runners \ {c}
      PROVE  /\ run'[d] \in Run /\ run'[d].pc = run[d].pc /\ run'[d].id = run[d].id
             /\ run'[d].todo = run[d].todo /\ run'[d].rows = run[d].rows
             /\ run'[d].outcome = run[d].outcome /\ run'[d].got = run[d].got /\ run'[d].sure = run[d].sure
             /\ run'[d].alone = (run[d].pc = "idle")
  <2>1. run[d] \in Run /\ (run[d].pc = "idle") \in BOOLEAN
    BY <1>1
  <2>2. run'[d] = [run[d] EXCEPT !.alone = (run[d].pc = "idle")]
    BY <1>7 DEF At
  <2> QED
    BY <2>1, <2>2 DEF Run
<1>9. RunPart'
  <2>1. RunsTyped'
    <3>1. \A d \in Runners : run'[d] \in Run
      BY <1>5, <1>7, <1>8
    <3>2. run' = [d \in Runners |-> run'[d]]
      BY <1>6
    <3>3. run' \in [Runners -> Run]
      BY <3>1, <3>2
    <3> QED
      BY <1>3, <3>3 DEF RunsTyped
  <2>2. AloneStill'
    <3> SUFFICES ASSUME NEW d \in Runners, run'[d].alone, run'[d].pc # "idle", NEW e \in Runners \ {d}
                 PROVE  run'[e].pc = "idle"
      BY DEF AloneStill, At
    <3>1. d = c /\ alone
      BY <1>5, <1>7, <1>8
    <3> QED
      BY <1>8, <3>1 DEF At
  <2>3. ASSUME NEW d \in Runners PROVE (InStep(run[d]) /\ EndedRightly(run[d]) /\ RowsTrue(run[d]))'
    <3>1. CASE d = c
      <4>1. Range(begun.rows) = {}
        BY <1>5 DEF Range
      <4>2. InStep(begun)
        BY <1>4, <1>5, <4>1 DEF InStep
      <4>3. InStep(run[d])'
        BY <1>7, <3>1, <4>2
      <4>4. EndedRightly(run[d])'
        BY <1>5, <1>7, <3>1 DEF EndedRightly
      <4>5. RowsTrue(run[d])'
        BY <1>7, <3>1, <4>1 DEF RowsTrue
      <4> QED
        BY <4>3, <4>4, <4>5
    <3>2. CASE d # c
      <4>1. InStep(run[d]) /\ EndedRightly(run[d]) /\ RowsTrue(run[d]) /\ run[d] \in Run
        BY <1>1 DEF RunPart, RunsRight
      <4>2. InStep(run[d])'
        BY <1>8, <3>2, <4>1 DEF InStep
      <4>3. EndedRightly(run[d])'
        BY <1>2, <1>8, <3>2, <4>1 DEF EndedRightly
      <4>4. RowsTrue(run[d])'
        <5> SUFFICES ASSUME NEW row \in Range(run[d].rows) PROVE Warranted(row)'
          BY <1>8, <3>2 DEF RowsTrue
        <5>1. row \in Row /\ Warranted(row)
          BY <4>1, RowTyped DEF RowsTrue, Run
        <5> QED
          BY <1>3, <5>1, WarrantedStays DEF Row
      <4> QED
        BY <4>2, <4>3, <4>4
    <3> QED
      BY <3>1, <3>2
  <2> QED
    BY <2>1, <2>2, <2>3 DEF RunPart, RunsRight
<1>10. DirPart'
  <2>1. DirsTyped' /\ ManifestsStay'
    BY <1>1, <1>2 DEF DirPart, DirsTyped, ManifestsStay
  <2>2. \A d \in Runners : run'[d].pc = "write" => d # c /\ run[d].pc = "write" /\ run'[d].id = run[d].id
    BY <1>5, <1>7, <1>8
  <2>3. DirectoryOwned'
    BY <1>1, <1>2, <2>2 DEF DirPart, DirectoryOwned, At
  <2>4. AloneIsNotRefused'
    <3> SUFFICES ASSUME NEW d \in Runners, run'[d].alone,
                        run'[d].pc \in {"probe", "attempt", "judge", "catalogs"}
                 PROVE  dirs'[run'[d].id] = None
      BY DEF AloneIsNotRefused
    <3>1. d = c
      BY <1>8
    <3> QED
      BY <1>1, <1>2, <1>5, <1>7, <3>1
  <2> QED
    BY <2>1, <2>3, <2>4 DEF DirPart
<1>11. ManifestsTrue' /\ CatalogPart'
  BY <1>1, <1>2, <1>3, ManifestsFrame, CatalogsFrame
<1> QED
  BY <1>9, <1>10, <1>11 DEF MatrixInv

\* The directory is new, so no manifest is in it and nobody else writes to it.
LEMMA MakeDirectoryInv ==
  ASSUME DiscoveryAssumption, MatrixInv, NEW c \in Runners, MakeDirectory(c) PROVE MatrixInv'
<1>1. /\ RunPart /\ DirPart /\ DirsTyped /\ ManifestsTrue /\ CatalogPart /\ AloneStill
      /\ run \in [Runners -> Run] /\ run[c] \in Run /\ run[c].pc = "catalogs" /\ ~ At(c, "idle")
      /\ InStep(run[c]) /\ RowsTrue(run[c]) /\ run[c].id \in RunIds
  BY DEF MatrixInv, RunPart, RunsTyped, RunsRight, DirPart, MakeDirectory, At, InStep
<1>2. UNCHANGED <<cache, catalogs, written>>
  BY DEF MakeDirectory
<1>3. cache' \in [Probes -> Seq(Captures)] /\ Grows
  BY <1>1, <1>2, SameCache
<1>4. CASE Stop(c) /\ UNCHANGED dirs
  BY <1>2, <1>3, <1>4, Stops
<1>5. CASE /\ dirs[run[c].id] = None
           /\ dirs' = [dirs EXCEPT ![run[c].id] = Empty]
           /\ Set(c, [run[c] EXCEPT !.pc = "write"])
  <2>s. [run[c] EXCEPT !.pc = "write"] \in Run
    BY <1>1 DEF Run
  <2> PICK s \in Run : s = [run[c] EXCEPT !.pc = "write"]
    BY <2>s
  <2>1. /\ Set(c, s) /\ s.pc = "write" /\ s.rows = run[c].rows /\ s.alone = run[c].alone /\ s.id = run[c].id
    BY <1>1, <1>5 DEF Run
  <2>2. InStep(s)
    BY <1>1, <2>1 DEF InStep
  <2>3. EndedRightly(s)'
    BY <2>1 DEF EndedRightly
  <2>4. RowsTrue(s)'
    <3> SUFFICES ASSUME NEW q \in Range(run[c].rows)
                 PROVE  Warranted(q)' /\ (run[c].alone /\ q.sure => Fresh(q)')
      BY <2>1 DEF RowsTrue
    <3>1. q \in Row /\ Warranted(q) /\ (run[c].alone /\ q.sure => Fresh(q))
      BY <1>1, RowTyped DEF RowsTrue, Run
    <3> QED
      BY <1>2, <1>3, <3>1, WarrantedStays, FreshStays DEF Row
  <2>5. RunPart'
    BY <1>1, <1>2, <1>3, <2>1, <2>2, <2>3, <2>4, RunMoves
  <2>6. /\ dirs \in [RunIds -> Seq(Row) \cup {None}] /\ Empty \in Seq(Row) /\ Empty # None
        /\ dirs'[run[c].id] = Empty /\ \A id \in RunIds \ {run[c].id} : dirs'[id] = dirs[id]
    <3>1. Empty \in Seq(Row)
      BY DEF Empty
    <3> QED
      BY <1>1, <1>5, <3>1 DEF DirsTyped, DiscoveryAssumption
  <2>7. \A m \in written : m.id \in RunIds /\ m.id # run[c].id
    <3>1. \A m \in written : m.id \in RunIds /\ m.rows \in Seq(Row) /\ dirs[m.id] = m.rows
      BY <1>1 DEF DirsTyped, DirPart, ManifestsStay
    <3> QED
      BY <1>5, <3>1 DEF DiscoveryAssumption
  <2>8. /\ run'[c] = s /\ \A d \in Runners \ {c} : run'[d] = run[d]
        /\ \A d \in Runners : run[d].pc = "write" => run[d].id \in RunIds /\ run[d].id # run[c].id
    <3>1. run'[c] = s /\ \A d \in Runners \ {c} : run'[d] = run[d]
      BY <1>1, <2>1 DEF Set
    <3>2. \A d \in Runners : run[d].pc = "write" => run[d].id \in RunIds
      BY <1>1 DEF RunPart, RunsRight, InStep
    <3>3. \A d \in Runners : run[d].pc = "write" => run[d].id # run[c].id
      BY <1>1, <1>5 DEF DirPart, DirectoryOwned, At
    <3> QED
      BY <3>1, <3>2, <3>3
  <2>9. DirsTyped'
    BY <1>1, <1>2, <1>5, <2>6 DEF DirsTyped
  <2>10. DirectoryOwned'
    <3> SUFFICES ASSUME NEW d \in Runners, run'[d].pc = "write"
                 PROVE  /\ dirs'[run'[d].id] # None
                        /\ \A m \in written : m.id # run'[d].id
                        /\ \A e \in Runners \ {d} : run'[e].pc = "write" => run'[e].id # run'[d].id
      BY <1>2 DEF DirectoryOwned, At
    <3>1. CASE d = c
      BY <2>1, <2>6, <2>7, <2>8, <3>1
    <3>2. CASE d # c
      <4>1. run'[d] = run[d] /\ run[d].pc = "write" /\ run[d].id \in RunIds \ {run[c].id}
        BY <2>8, <3>2
      <4>2. dirs[run[d].id] # None /\ \A m \in written : m.id # run[d].id
        BY <1>1, <4>1 DEF DirPart, DirectoryOwned, At
      <4>3. \A e \in Runners \ {d} : run'[e].pc = "write" => run'[e].id # run[d].id
        <5>1. \A e \in Runners \ {d} : run[e].pc = "write" => run[e].id # run[d].id
          BY <1>1, <4>1 DEF DirPart, DirectoryOwned, At
        <5>2. run'[c].id # run[d].id
          BY <2>1, <2>8, <4>1
        <5> QED
          BY <2>8, <5>1, <5>2
      <4> QED
        BY <2>6, <4>1, <4>2, <4>3
    <3> QED
      BY <3>1, <3>2
  <2>11. ManifestsStay'
    BY <1>1, <1>2, <2>6, <2>7 DEF DirPart, ManifestsStay
  <2>12. AloneIsNotRefused'
    <3> SUFFICES ASSUME NEW d \in Runners, run'[d].alone,
                        run'[d].pc \in {"probe", "attempt", "judge", "catalogs"}
                 PROVE  FALSE
      BY DEF AloneIsNotRefused
    <3>1. d # c /\ run'[d] = run[d]
      BY <2>1, <2>8
    <3> QED
      BY <1>1, <3>1 DEF AloneStill, At
  <2>13. ManifestsTrue' /\ CatalogPart'
    BY <1>1, <1>2, <1>3, ManifestsFrame, CatalogsFrame
  <2> QED
    BY <2>5, <2>9, <2>10, <2>11, <2>12, <2>13 DEF MatrixInv, DirPart
<1> QED
  BY <1>4, <1>5 DEF MakeDirectory

LEMMA WriteManifestInv ==
  ASSUME DiscoveryAssumption, MatrixInv, NEW c \in Runners, WriteManifest(c) PROVE MatrixInv'
<1> DEFINE m0 == [id |-> run[c].id, rows |-> run[c].rows]
<1>1. /\ RunPart /\ DirPart /\ DirsTyped /\ ManifestsTrue /\ CatalogPart /\ AloneStill
      /\ run \in [Runners -> Run] /\ run[c].rows \in Seq(Row) /\ run[c].pc = "write" /\ ~ At(c, "idle")
      /\ RowsTrue(run[c]) /\ run[c].id \in RunIds
  BY DEF MatrixInv, RunPart, RunsTyped, RunsRight, DirPart, WriteManifest, At, InStep, Run
<1>2. /\ UNCHANGED <<cache, catalogs>> /\ Set(c, Idle) /\ Idle.pc = "idle"
      /\ dirs' = [dirs EXCEPT ![run[c].id] = run[c].rows] /\ written' = written \cup {m0}
  BY DEF WriteManifest, Stop, Idle
<1>3. cache' \in [Probes -> Seq(Captures)] /\ Grows
  BY <1>1, <1>2, SameCache
<1>4. RunPart'
  BY <1>1, <1>2, <1>3, IdleIsRight, RunMoves
<1>5. /\ dirs'[run[c].id] = run[c].rows /\ \A id \in RunIds \ {run[c].id} : dirs'[id] = dirs[id]
      /\ m0.id = run[c].id /\ m0.rows = run[c].rows /\ m0 \in [id : RunIds, rows : Seq(Row)]
      /\ \A m \in written : m.id \in RunIds /\ m.id # run[c].id
  <2>1. dirs'[run[c].id] = run[c].rows /\ \A id \in RunIds \ {run[c].id} : dirs'[id] = dirs[id]
    BY <1>1, <1>2 DEF DirsTyped
  <2>2. \A m \in written : m.id \in RunIds /\ m.id # run[c].id
    BY <1>1 DEF DirsTyped, DirPart, DirectoryOwned, At
  <2> QED
    BY <1>1, <2>1, <2>2
<1>6. DirsTyped'
  BY <1>1, <1>2, <1>5 DEF DirsTyped
<1> HIDE DEF m0
<1>7. ManifestsStay'
  BY <1>1, <1>2, <1>5 DEF DirPart, ManifestsStay
<1>8. /\ run'[c].pc = "idle" /\ \A d \in Runners \ {c} : run'[d] = run[d]
  BY <1>1, <1>2 DEF Set
<1>9. DirectoryOwned'
  <2> SUFFICES ASSUME NEW d \in Runners, run'[d].pc = "write"
               PROVE  /\ dirs'[run'[d].id] # None
                      /\ \A m \in written' : m.id # run'[d].id
                      /\ \A e \in Runners \ {d} : run'[e].pc = "write" => run'[e].id # run'[d].id
    BY DEF DirectoryOwned, At
  <2>1. d # c /\ run'[d] = run[d] /\ run[d].pc = "write" /\ run[d].id # run[c].id /\ run[d].id \in RunIds
    <3>1. d # c /\ run'[d] = run[d] /\ run[d].pc = "write"
      BY <1>8
    <3>2. run[d].id # run[c].id
      BY <1>1, <3>1 DEF DirPart, DirectoryOwned, At
    <3>3. run[d].id \in RunIds
      BY <1>1, <3>1 DEF RunPart, RunsRight, InStep
    <3> QED
      BY <3>1, <3>2, <3>3
  <2>2. /\ dirs[run[d].id] # None /\ \A m \in written : m.id # run[d].id
        /\ \A e \in Runners \ {d} : run[e].pc = "write" => run[e].id # run[d].id
    BY <1>1, <2>1 DEF DirPart, DirectoryOwned, At
  <2> QED
    BY <1>2, <1>5, <1>8, <2>1, <2>2
<1>10. AloneIsNotRefused'
  <2> SUFFICES ASSUME NEW d \in Runners, run'[d].alone,
                      run'[d].pc \in {"probe", "attempt", "judge", "catalogs"}
               PROVE  FALSE
    BY DEF AloneIsNotRefused
  <2>1. d # c /\ run'[d] = run[d]
    BY <1>8
  <2> QED
    BY <1>1, <2>1 DEF AloneStill, At
<1>11. ManifestsTrue'
  <2> SUFFICES ASSUME NEW m \in written', NEW row \in Range(m.rows) PROVE Warranted(row)'
    BY DEF ManifestsTrue
  <2>1. row \in Row /\ Warranted(row)
    <3>1. CASE m \in written
      BY <1>1, <3>1, RowTyped DEF DirsTyped, ManifestsTrue
    <3>2. CASE m = m0
      BY <1>1, <1>5, <3>2, RowTyped DEF RowsTrue
    <3> QED
      BY <1>2, <3>1, <3>2
  <2> QED
    BY <1>3, <2>1, WarrantedStays DEF Row
<1>12. CatalogPart'
  BY <1>1, <1>2, CatalogsFrame
<1> QED
  BY <1>4, <1>6, <1>7, <1>9, <1>10, <1>11, <1>12 DEF MatrixInv, DirPart

-----------------------------------------------------------------------------
LEMMA InitInv == ASSUME DiscoveryAssumption, Init PROVE MatrixInv
<1>1. Idle \in Run /\ InStep(Idle) /\ EndedRightly(Idle) /\ RowsTrue(Idle) /\ Idle.pc = "idle"
  <2>1. Idle \in Run /\ Idle.pc = "idle" /\ Idle.rows = <<>> /\ Range(<<>>) = {}
    BY IdleIsRight DEF Idle, Range
  <2> QED
    BY <2>1, IdleIsRight DEF EndedRightly, RowsTrue
<1>2. \A c \in Runners : run[c] = Idle
  BY DEF Init
<1>3. RunPart
  BY <1>1, <1>2 DEF Init, RunPart, RunsTyped, AloneStill, RunsRight, At
<1>4. DirPart
  BY <1>1, <1>2 DEF Init, DirPart, DirsTyped, DirectoryOwned, ManifestsStay, AloneIsNotRefused, At
<1>5. ManifestsTrue /\ CatalogPart
  BY DEF Init, ManifestsTrue, CatalogPart, CatalogIsOfCapture
<1> QED
  BY <1>3, <1>4, <1>5 DEF MatrixInv

LEMMA StutterInv == ASSUME MatrixInv, UNCHANGED vars PROVE MatrixInv'
<1>1. RunPart'
  BY DEF vars, MatrixInv, RunPart, RunsTyped, AloneStill, RunsRight, At, EndedRightly, RowsTrue,
         Warranted, Fresh, ReplaysTheSame
<1>2. DirPart'
  BY DEF vars, MatrixInv, DirPart, DirsTyped, DirectoryOwned, ManifestsStay, AloneIsNotRefused, At
<1>3. ManifestsTrue' /\ CatalogPart'
  BY DEF vars, MatrixInv, ManifestsTrue, Warranted, CatalogPart, CatalogIsOfCapture
<1> QED
  BY <1>1, <1>2, <1>3 DEF MatrixInv

LEMMA StepInv == ASSUME DiscoveryAssumption, MatrixInv, [Next]_vars PROVE MatrixInv'
<1>1. ASSUME NEW c \in Runners, NEW id \in RunIds, NEW live \in BOOLEAN, NEW S \in (SUBSET Probes) \ {{}},
             NEW refresh \in SUBSET S, RunDiscovery(c, id, live, S, refresh)
      PROVE  MatrixInv'
  BY <1>1, RunDiscoveryInv
<1>2. ASSUME NEW c \in Runners, NEW reply, reply \in Answers[Probe(c)], Answer(c, reply) PROVE MatrixInv'
  BY <1>2, AnswerInv
<1>3. ASSUME NEW c \in Runners, Execute(c) PROVE MatrixInv'
  BY <1>3, ExecuteInv
<1>4. ASSUME NEW c \in Runners, Timeout(c) PROVE MatrixInv'
  BY <1>4, TimeoutInv
<1>5. ASSUME NEW c \in Runners, Refused(c) \/ Crash(c) PROVE MatrixInv'
  BY <1>5, RefusedInv
<1>6. ASSUME NEW c \in Runners, ExecuteProbe(c) PROVE MatrixInv'
  BY <1>6, ExecuteProbeInv
<1>7. ASSUME NEW c \in Runners, BuildCatalog(c) PROVE MatrixInv'
  BY <1>7, BuildCatalogInv
<1>8. ASSUME NEW c \in Runners, MakeDirectory(c) PROVE MatrixInv'
  BY <1>8, MakeDirectoryInv
<1>9. ASSUME NEW c \in Runners, WriteManifest(c) PROVE MatrixInv'
  BY <1>9, WriteManifestInv
<1>10. CASE UNCHANGED vars
  BY <1>10, StutterInv
<1> QED
  BY <1>1, <1>2, <1>3, <1>4, <1>5, <1>6, <1>7, <1>8, <1>9, <1>10 DEF Next

\* What the discovery says of the vendor is warranted and repeatable: manifests
\* stay and are nobody else's, every row cites a capture the cache can serve and
\* that bears out its class, a persisted catalog is of the capture it names, and
\* a replay right after a run alone says the same (run_discovery).
THEOREM DiscoveryTruthful == ASSUME DiscoveryAssumption PROVE Spec => []MatrixTruthful
<1>1. Init => MatrixInv
  BY InitInv
<1>2. MatrixInv /\ [Next]_vars => MatrixInv'
  BY StepInv
<1>3. MatrixInv => MatrixTruthful
  BY InvTruthful
<1> QED
  BY <1>1, <1>2, <1>3, PTL DEF Spec

-----------------------------------------------------------------------------
(* The cache that the runs of Discovery share, for any number of writers,   *)
(* readers and digests.  As long as no two writers have been in the         *)
(* directory at once, what is on disk can be read off the step of the one   *)
(* writer there is.                                                         *)

Wholes == {Whole(captures) : captures \in Seq(Record)}

Contents == {Absent, Truncated, Mixed} \cup Wholes

Active == [at      : {"open", "fill", "rename", "index"},
           rec     : Record,
           name    : Names,
           content : Wholes,
           file    : {"none", "tmp"}]

WriterState == {NotWriting} \cup Active

ReaderState == [at : {"idle", "found", "corrupt"}, rec : Record \cup {NoRecord}]

Types == /\ disk \in [Names -> Contents]
         /\ tmp \in [Names -> Contents]
         /\ writer \in [Writers -> WriterState]
         /\ reader \in [Readers -> ReaderState]
         /\ returned \in SUBSET Record
         /\ raced = FALSE

\* At most one writer is in the directory.
TurnsTaken == \A v, w \in Writers : ~ Stands(v, "idle") /\ ~ Stands(w, "idle") => v = w

IsWhole(name) == disk[name].is = "whole"

\* A final file is missing or whole, and every indexed body is there.
FilesWhole == /\ \A name \in Names : disk[name] = Absent \/ IsWhole(name)
              /\ \A i \in DOMAIN Index : IsWhole(Index[i].digest)

\* What was returned is indexed.
ReturnedIndexed ==
  \A rec \in returned : \E i \in DOMAIN Index : Index[i].digest = rec.digest

\* The writer in the directory: which file it is writing, and what is in it.
WriterInStep ==
  \A w \in Writers : ~ Stands(w, "idle") =>
    LET me == writer[w]
    IN  /\ Stands(w, "index") \/ me.name = Meta => IsWhole(me.rec.digest)
        /\ me.name = Meta => me.content = Whole(Append(Index, me.rec))
        /\ me.name # Meta => me.name = me.rec.digest
        /\ Stands(w, "index") => me.name # Meta
        /\ Stands(w, "fill") => me.file = "tmp" /\ tmp[me.name] = Truncated
        /\ Stands(w, "rename") => tmp[me.name] = me.content
        /\ ~ Stands(w, "fill") => me.file = "none"

ReadersSafe == \A r \in Readers : /\ reader[r].at # "corrupt"
                                  /\ reader[r].at = "found" => /\ reader[r].rec \in Record
                                                               /\ IsWhole(reader[r].rec.digest)

Orderly == Types /\ TurnsTaken /\ FilesWhole /\ ReturnedIndexed /\ WriterInStep /\ ReadersSafe

FilesInv == raced \/ Orderly

(* A whole file is a sequence of records; files that are not whole are empty. *)
LEMMA ContentFacts ==
  /\ \A captures \in Seq(Record) : Whole(captures) \in Wholes
  /\ \A content \in Wholes : content.is = "whole"
  /\ \A content \in Contents : content.captures \in Seq(Record)
<1>1. \A captures \in Seq(Record) : Whole(captures) \in Wholes
  BY DEF Wholes
<1>2. \A captures \in Seq(Record) :
        Whole(captures).is = "whole" /\ Whole(captures).captures = captures
  BY DEF Whole
<1>3. \A content \in Wholes : \E captures \in Seq(Record) : content = Whole(captures)
  BY DEF Wholes
<1>4. \A content \in Wholes : content.is = "whole" /\ content.captures \in Seq(Record)
  BY <1>2, <1>3
<1>5. <<>> \in Seq(Record)
  OBVIOUS
<1>6. \A content \in {Absent, Truncated, Mixed} : content.captures = <<>>
  BY DEF Absent, Truncated, Mixed
<1>7. \A content \in Contents : content.captures \in Seq(Record)
  BY <1>4, <1>5, <1>6 DEF Contents
<1>8. QED
  BY <1>1, <1>4, <1>7

(* What the invariant says of a writer in the directory: it is alone there. *)
LEMMA WriterFacts ==
  ASSUME Orderly, NEW w \in Writers, ~ Stands(w, "idle")
  PROVE  /\ writer[w] \in Active
         /\ writer[w].at \in {"open", "fill", "rename", "index"}
         /\ writer[w].rec \in Record
         /\ writer[w].rec.digest \in Digests
         /\ writer[w].name \in Names
         /\ writer[w].content.is = "whole" /\ writer[w].content \in Contents
         /\ writer[w].file \in {"none", "tmp"}
         /\ \A v \in Writers \ {w} : writer[v] = NotWriting
<1>1. \A v \in Writers : writer[v] \in WriterState
  BY DEF Orderly, Types
<1>2. NotWriting.at = "idle"
  BY DEF NotWriting
<1>3. \A v \in Writers : Stands(v, "idle") => writer[v] = NotWriting
  BY <1>1 DEF WriterState, Active, Stands
<1>4. writer[w] \in Active
  BY <1>1, <1>2 DEF WriterState, Stands
<1>5. /\ writer[w].at \in {"open", "fill", "rename", "index"}
      /\ writer[w].rec \in Record
      /\ writer[w].name \in Names
      /\ writer[w].content \in Wholes
      /\ writer[w].file \in {"none", "tmp"}
  BY <1>4 DEF Active
<1>6. writer[w].rec.digest \in Digests
  BY <1>5 DEF Record
<1>7. writer[w].content.is = "whole" /\ writer[w].content \in Contents
  BY <1>5, ContentFacts DEF Contents
<1>8. \A v \in Writers \ {w} : writer[v] = NotWriting
  BY <1>3 DEF Orderly, TurnsTaken
<1>9. QED
  BY <1>4, <1>5, <1>6, <1>7, <1>8

(* The index is a sequence of records whose bodies have files of their own. *)
LEMMA IndexFacts ==
  ASSUME Orderly
  PROVE  /\ Index \in Seq(Record)
         /\ \A i \in DOMAIN Index : Index[i] \in Record /\ Index[i].digest \in Names \ {Meta}
         /\ IndexReadable
<1>1. disk[Meta] \in Contents
  BY DEF Orderly, Types, Names
<1>2. Index \in Seq(Record)
  BY <1>1, ContentFacts DEF Index
<1>3. \A i \in DOMAIN Index : Index[i] \in Record
  BY <1>2
<1>4. \A rec \in Record : rec.digest \in Names \ {Meta}
  BY CacheAssumption DEF Record, Names
<1>5. IndexReadable
  BY DEF Orderly, FilesWhole, IndexReadable, IsWhole, Names, Absent
<1>6. QED
  BY <1>2, <1>3, <1>4, <1>5

(* A step that leaves the final files and the readers alone only has to account *)
(* for the one writer that moves.                                               *)
LEMMA OneWriterMoves ==
  ASSUME Orderly, NEW w \in Writers, UNCHANGED <<disk, reader, raced>>,
         \A v \in Writers \ {w} : writer[v] = NotWriting,
         \A v \in Writers \ {w} : writer'[v] = NotWriting,
         writer' \in [Writers -> WriterState],
         tmp' \in [Names -> Contents],
         returned' \in SUBSET Record, ReturnedIndexed',
         ~ Stands(w, "idle")' =>
           LET me == writer'[w]
           IN  /\ me.at = "index" \/ me.name = Meta => IsWhole(me.rec.digest)
               /\ me.name = Meta => me.content = Whole(Append(Index, me.rec))
               /\ me.name # Meta => me.name = me.rec.digest
               /\ me.at = "index" => me.name # Meta
               /\ me.at = "fill" => me.file = "tmp" /\ tmp'[me.name] = Truncated
               /\ me.at = "rename" => tmp'[me.name] = me.content
               /\ me.at # "fill" => me.file = "none"
  PROVE  Orderly'
<1>1. \A v \in Writers \ {w} : Stands(v, "idle")'
  BY DEF Stands, NotWriting
<1>2. Types'
  BY DEF Orderly, Types
<1>3. TurnsTaken'
  BY <1>1 DEF TurnsTaken
<1>4. FilesWhole' /\ ReadersSafe'
  BY DEF Orderly, FilesWhole, ReadersSafe, IsWhole, Index
<1>5. WriterInStep'
  BY <1>1 DEF WriterInStep, Stands, IsWhole, Index
<1>6. QED
  BY <1>2, <1>3, <1>4, <1>5 DEF Orderly

LEMMA FilesInit == NoFiles => FilesInv
<1> SUFFICES ASSUME NoFiles PROVE Orderly
  BY DEF FilesInv
<1>1. Absent \in Contents /\ NotWriting \in WriterState /\ NotReading \in ReaderState
  BY DEF Contents, WriterState, ReaderState, NotReading
<1>2. Types
  BY <1>1 DEF NoFiles, Types
<1>3. \A w \in Writers : Stands(w, "idle")
  BY DEF NoFiles, Stands, NotWriting
<1>4. TurnsTaken /\ WriterInStep
  BY <1>3 DEF TurnsTaken, WriterInStep
<1>5. disk = [name \in Names |-> Absent] /\ Index = <<>>
  BY DEF NoFiles, Index, Names, Absent
<1>6. FilesWhole /\ ReturnedIndexed
  BY <1>5 DEF NoFiles, FilesWhole, ReturnedIndexed
<1>7. ReadersSafe
  BY DEF NoFiles, ReadersSafe, NotReading
<1>8. QED
  BY <1>2, <1>4, <1>6, <1>7 DEF Orderly

(* A writer that finds the directory empty of others: the body is missing, or *)
(* whole.                                                                     *)
LEMMA BeginOrderly ==
  ASSUME Orderly, NEW w \in Writers, NEW rec \in Record, Begin(w, rec), ~ raced'
  PROVE  Orderly'
<1>1. UNCHANGED <<disk, tmp, reader, returned>> /\ raced' = FALSE /\ raced = FALSE
  BY DEF Begin, Enters, Orderly, Types
<1>2. \A v \in Writers : writer[v] = NotWriting
  <2>1. \A v \in Writers : Stands(v, "idle")
    BY <1>1 DEF Begin, Enters
  <2>2. \A v \in Writers : writer[v] \in WriterState
    BY DEF Orderly, Types
  <2>3. QED
    BY <2>1, <2>2 DEF Stands, WriterState, Active
<1>3. PICK me : me = [at      |-> IF disk[rec.digest] = Absent THEN "open" ELSE "index",
                      rec     |-> rec,
                      name    |-> rec.digest,
                      content |-> Whole(<<>>),
                      file    |-> "none"]
  OBVIOUS
<1>4. rec.digest \in Names /\ rec.digest # Meta
  BY CacheAssumption DEF Record, Names
<1>5. me \in WriterState
  <2>1. <<>> \in Seq(Record)
    OBVIOUS
  <2>2. Whole(<<>>) \in Wholes
    BY <2>1, ContentFacts
  <2>3. QED
    BY <1>3, <1>4, <2>2 DEF WriterState, Active
<1>6. writer' = [writer EXCEPT ![w] = me] /\ writer \in [Writers -> WriterState]
  BY <1>3 DEF Begin, Orderly, Types
<1>7. me.at = "index" => IsWhole(me.rec.digest)
  BY <1>3, <1>4 DEF Orderly, FilesWhole
<1>8. ReturnedIndexed'
  BY <1>1 DEF Orderly, ReturnedIndexed, Index
<1>9. /\ writer' \in [Writers -> WriterState]
      /\ writer'[w] = me /\ \A v \in Writers \ {w} : writer'[v] = NotWriting
  BY <1>2, <1>5, <1>6
<1>10. /\ me.name = me.rec.digest /\ me.name # Meta
       /\ me.at \in {"open", "index"} /\ me.file = "none"
  BY <1>3, <1>4
<1>11. tmp' \in [Names -> Contents] /\ returned' \in SUBSET Record
  BY <1>1 DEF Orderly, Types
<1>12. QED
  BY <1>1, <1>2, <1>7, <1>8, <1>9, <1>10, <1>11, OneWriterMoves

LEMMA OpenOrderly ==
  ASSUME Orderly, NEW w \in Writers, Open(w)
  PROVE  Orderly'
<1>1. ~ Stands(w, "idle") /\ UNCHANGED <<disk, reader, returned, raced>> /\ writer[w].at = "open"
  BY DEF Open, Stands
<1>2. writer \in [Writers -> WriterState] /\ tmp \in [Names -> Contents]
  BY DEF Orderly, Types
<1>3. PICK me : me = [writer[w] EXCEPT !.at = "fill", !.file = "tmp"]
  OBVIOUS
<1>4. /\ me \in Active
      /\ me.at = "fill" /\ me.file = "tmp"
      /\ me.rec = writer[w].rec /\ me.name = writer[w].name
      /\ me.content = writer[w].content
  BY <1>1, <1>3, WriterFacts DEF Active
<1>5. writer' = [writer EXCEPT ![w] = me]
  BY <1>2, <1>3 DEF Open
<1>6. /\ writer' \in [Writers -> WriterState]
      /\ writer'[w] = me /\ \A v \in Writers \ {w} : writer'[v] = writer[v]
  BY <1>2, <1>4, <1>5 DEF WriterState
<1>7. tmp' = [tmp EXCEPT ![me.name] = Truncated] /\ me.name \in Names
  BY <1>1, <1>4, WriterFacts DEF Open
<1>8. tmp' \in [Names -> Contents] /\ tmp'[me.name] = Truncated
  BY <1>2, <1>7 DEF Contents
<1>9. ReturnedIndexed' /\ returned' \in SUBSET Record
  BY <1>1 DEF Orderly, Types, ReturnedIndexed, Index
<1>10. /\ me.name = Meta => IsWhole(me.rec.digest)
       /\ me.name = Meta => me.content = Whole(Append(Index, me.rec))
       /\ me.name # Meta => me.name = me.rec.digest
  BY <1>1, <1>4 DEF Orderly, WriterInStep
<1>11. QED
  BY <1>1, <1>4, <1>6, <1>8, <1>9, <1>10, WriterFacts, OneWriterMoves

(* The temporary file the writer fills is its own, just truncated. *)
LEMMA FillOrderly ==
  ASSUME Orderly, NEW w \in Writers, Fill(w)
  PROVE  Orderly'
<1>1. ~ Stands(w, "idle") /\ UNCHANGED <<reader, returned, raced>> /\ writer[w].at = "fill"
  BY DEF Fill, Stands
<1>2. writer \in [Writers -> WriterState] /\ tmp \in [Names -> Contents]
  BY DEF Orderly, Types
<1>3. writer[w].file = "tmp" /\ tmp[writer[w].name] = Truncated
  BY <1>1 DEF Orderly, WriterInStep, Stands
<1>4. tmp' = [tmp EXCEPT ![writer[w].name] = writer[w].content] /\ UNCHANGED disk
  BY <1>3 DEF Fill, Overlay
<1>5. PICK me : me = [writer[w] EXCEPT !.at = "rename", !.file = "none"]
  OBVIOUS
<1>6. /\ me \in Active
      /\ me.at = "rename" /\ me.file = "none"
      /\ me.rec = writer[w].rec /\ me.name = writer[w].name
      /\ me.content = writer[w].content
  BY <1>1, <1>5, WriterFacts DEF Active
<1>7. writer' = [writer EXCEPT ![w] = me]
  BY <1>2, <1>5 DEF Fill
<1>8. /\ writer' \in [Writers -> WriterState]
      /\ writer'[w] = me /\ \A v \in Writers \ {w} : writer'[v] = writer[v]
  BY <1>2, <1>6, <1>7 DEF WriterState
<1>9. tmp' \in [Names -> Contents] /\ tmp'[me.name] = me.content
  BY <1>1, <1>2, <1>4, <1>6, WriterFacts
<1>10. ReturnedIndexed' /\ returned' \in SUBSET Record
  BY <1>1, <1>4 DEF Orderly, Types, ReturnedIndexed, Index
<1>11. /\ me.name = Meta => IsWhole(me.rec.digest)
       /\ me.name = Meta => me.content = Whole(Append(Index, me.rec))
       /\ me.name # Meta => me.name = me.rec.digest
  BY <1>1, <1>6 DEF Orderly, WriterInStep
<1>12. QED
  BY <1>1, <1>4, <1>6, <1>8, <1>9, <1>10, <1>11, WriterFacts, OneWriterMoves

(* Renaming moves what was written into place: a whole body that the index does not *)
(* name yet, or an index that names one record more, whose body is in place.        *)
LEMMA RenameOrderly ==
  ASSUME Orderly, NEW w \in Writers, Rename(w)
  PROVE  Orderly'
<1> DEFINE name == writer[w].name
           rec  == writer[w].rec
<1>1. ~ Stands(w, "idle") /\ UNCHANGED <<reader, raced>> /\ writer[w].at = "rename"
  BY DEF Rename, Stands
<1>2. /\ writer[w] \in Active /\ rec \in Record /\ rec.digest \in Digests /\ name \in Names
      /\ \A v \in Writers \ {w} : writer[v] = NotWriting
      /\ writer[w].content.is = "whole" /\ writer[w].content \in Contents
  BY <1>1, WriterFacts
<1>3. tmp[name] = writer[w].content
  BY <1>1 DEF Orderly, WriterInStep, Stands
<1>4. /\ disk \in [Names -> Contents] /\ tmp \in [Names -> Contents]
      /\ writer \in [Writers -> WriterState]
  BY DEF Orderly, Types
<1>5. /\ disk' = [disk EXCEPT ![name] = writer[w].content]
      /\ tmp' = [tmp EXCEPT ![name] = Absent]
  BY <1>3 DEF Rename
<1>6. \A v \in Writers \ {w} : writer'[v] = NotWriting
  <2>1. AfterRename("none") = "none"
    BY DEF AfterRename
  <2>2. [NotWriting EXCEPT !.file = AfterRename("none")] = NotWriting
    BY <2>1 DEF NotWriting
  <2>3. ASSUME NEW v \in Writers \ {w}
        PROVE  writer'[v] \in {[writer[v] EXCEPT !.file = AfterRename(writer[v].file)], writer[v]}
    BY DEF Rename
  <2>4. NotWriting.file = "none"
    BY DEF NotWriting
  <2>5. QED
    BY <1>2, <2>2, <2>3, <2>4
<1>7. \A v \in Writers \ {w} : Stands(v, "idle")'
  BY <1>6 DEF Stands, NotWriting
<1>8. \A n \in Names \ {name} : disk'[n] = disk[n]
  BY <1>4, <1>5
<1>9. disk'[name] = writer[w].content
  BY <1>2, <1>4, <1>5
<1>10. \A n \in Names : IsWhole(n) => IsWhole(n)'
  BY <1>2, <1>8, <1>9 DEF IsWhole
<1>11. \A n \in Names : disk'[n] = Absent \/ IsWhole(n)'
  BY <1>2, <1>8, <1>9 DEF Orderly, FilesWhole, IsWhole
<1>12. disk' \in [Names -> Contents] /\ tmp' \in [Names -> Contents]
  BY <1>2, <1>4, <1>5 DEF Contents
<1>13. ReadersSafe'
  <2>1. \A r \in Record : r.digest \in Names
    BY DEF Record, Names
  <2>2. QED
    BY <1>1, <1>10, <2>1 DEF Orderly, ReadersSafe
<1>14. CASE name = Meta
  <2>1. writer'[w] = NotWriting
    BY <1>14 DEF Rename
  <2>2. \A v \in Writers : writer'[v] = NotWriting
    BY <1>6, <2>1
  <2>3. Index' = Append(Index, rec) /\ IsWhole(rec.digest)
    <3>1. writer[w].content = Whole(Append(Index, rec)) /\ IsWhole(rec.digest)
      BY <1>1, <1>14 DEF Orderly, WriterInStep
    <3>2. QED
      BY <1>9, <1>14, <3>1 DEF Index, Whole
  <2>4. /\ DOMAIN Index' = DOMAIN Index \cup {Len(Index) + 1}
        /\ Index'[Len(Index) + 1] = rec
        /\ \A i \in DOMAIN Index : Index'[i] = Index[i]
    BY <1>2, <2>3, IndexFacts
  <2>5. FilesWhole'
    <3>1. \A i \in DOMAIN Index : IsWhole(Index[i].digest) /\ Index[i].digest \in Names
      BY IndexFacts DEF Orderly, FilesWhole
    <3>2. rec.digest \in Names
      BY <1>2 DEF Names
    <3>3. \A i \in DOMAIN Index' : Index'[i].digest \in Names /\ IsWhole(Index'[i].digest)
      BY <2>3, <2>4, <3>1, <3>2
    <3>4. \A i \in DOMAIN Index' : IsWhole(Index[i].digest)'
      BY <1>10, <3>3 DEF IsWhole
    <3>5. QED
      BY <1>11, <3>4 DEF FilesWhole
  <2>6. returned' = returned \cup {rec}
    BY <1>14 DEF Rename
  <2>7. ReturnedIndexed'
    BY <2>4, <2>6 DEF Orderly, ReturnedIndexed
  <2>8. Types'
    <3>1. writer' \in [Writers -> WriterState]
      BY <2>2 DEF Rename, WriterState
    <3>2. QED
      BY <1>1, <1>2, <1>12, <2>6, <3>1 DEF Orderly, Types
  <2>9. \A v \in Writers : Stands(v, "idle")'
    BY <2>2 DEF Stands, NotWriting
  <2>10. TurnsTaken' /\ WriterInStep'
    BY <2>9 DEF TurnsTaken, WriterInStep
  <2>11. QED
    BY <1>13, <2>5, <2>7, <2>8, <2>10 DEF Orderly
<1>15. CASE name # Meta
  <2>1. name = rec.digest
    BY <1>1, <1>15 DEF Orderly, WriterInStep
  <2>2. PICK me : me = [writer[w] EXCEPT !.at = "index"]
    OBVIOUS
  <2>3. /\ me \in Active
        /\ me.at = "index" /\ me.file = writer[w].file
        /\ me.rec = rec /\ me.name = name
    BY <1>2, <2>2 DEF Active
  <2>4. writer'[w] = me
    BY <1>15, <2>2 DEF Rename
  <2>5. Index' = Index
    BY <1>8, <1>15 DEF Index, Names
  <2>6. FilesWhole'
    BY <1>10, <1>11, <2>5, IndexFacts DEF Orderly, FilesWhole, IsWhole
  <2>7. returned' = returned /\ ReturnedIndexed'
    BY <1>15, <2>5 DEF Rename, Orderly, ReturnedIndexed
  <2>8. Types'
    <3>1. writer' \in [Writers -> WriterState]
      BY <1>6, <2>3, <2>4 DEF Rename, WriterState
    <3>2. QED
      BY <1>1, <1>12, <2>7, <3>1 DEF Orderly, Types
  <2>9. TurnsTaken'
    BY <1>7 DEF TurnsTaken
  <2>10. disk'[name].is = "whole" /\ writer[w].file = "none"
    BY <1>1, <1>2, <1>9 DEF Orderly, WriterInStep, Stands
  <2>11. WriterInStep'
    BY <1>7, <1>15, <2>1, <2>3, <2>4, <2>10 DEF WriterInStep, Stands, IsWhole
  <2>12. QED
    BY <1>13, <2>6, <2>7, <2>8, <2>9, <2>11 DEF Orderly
<1>16. QED
  BY <1>14, <1>15

(* A writer that leaves, whether it is done, fails or dies. *)
LEMMA StopOrderly ==
  ASSUME Orderly, NEW w \in Writers, ~ Stands(w, "idle"), Leaves(w),
         UNCHANGED <<disk, tmp, reader, raced>>,
         returned' \in SUBSET Record, ReturnedIndexed'
  PROVE  Orderly'
<1>1. writer \in [Writers -> WriterState] /\ NotWriting \in WriterState
  BY DEF Orderly, Types, WriterState
<1>2. /\ writer' \in [Writers -> WriterState]
      /\ writer'[w] = NotWriting /\ \A v \in Writers \ {w} : writer'[v] = writer[v]
  BY <1>1 DEF Leaves
<1>3. tmp' \in [Names -> Contents] /\ Stands(w, "idle")'
  BY <1>2 DEF Orderly, Types, Stands, NotWriting
<1>4. QED
  BY <1>2, <1>3, WriterFacts, OneWriterMoves

LEMMA ReadIndexOrderly ==
  ASSUME Orderly, NEW w \in Writers, ReadIndex(w)
  PROVE  Orderly'
<1> DEFINE rec == writer[w].rec
<1>1. ~ Stands(w, "idle") /\ UNCHANGED <<disk, tmp, reader, raced>> /\ writer[w].at = "index"
  BY DEF ReadIndex, Stands
<1>2. writer[w] \in Active /\ rec \in Record
  BY <1>1, WriterFacts
<1>3. IsWhole(rec.digest) /\ Index' = Index /\ writer[w].file = "none"
  BY <1>1 DEF Orderly, WriterInStep, Stands, Index
<1>4. CASE \E i \in DOMAIN Index : Index[i].digest = rec.digest
  <2>1. Leaves(w) /\ returned' = returned \cup {rec}
    BY <1>4 DEF ReadIndex
  <2>2. ReturnedIndexed' /\ returned' \in SUBSET Record
    BY <1>2, <1>3, <1>4, <2>1 DEF Orderly, Types, ReturnedIndexed
  <2>3. QED
    BY <1>1, <2>1, <2>2, StopOrderly
<1>5. CASE ~ \E i \in DOMAIN Index : Index[i].digest = rec.digest
  <2>1. PICK me : me = [writer[w] EXCEPT !.at = "open", !.name = Meta,
                                         !.content = Whole(Append(Index, rec))]
    OBVIOUS
  <2>2. writer' = [writer EXCEPT ![w] = me] /\ UNCHANGED returned
    BY <1>5, <2>1 DEF ReadIndex, Orderly, Types
  <2>3. Append(Index, rec) \in Seq(Record)
    BY <1>2, IndexFacts
  <2>4. /\ me \in Active
        /\ me.at = "open" /\ me.name = Meta /\ me.file = writer[w].file
        /\ me.rec = rec /\ me.content = Whole(Append(Index, rec))
    <3>1. Whole(Append(Index, rec)) \in Wholes /\ Meta \in Names
      BY <2>3, ContentFacts DEF Names
    <3>2. QED
      BY <1>2, <2>1, <3>1 DEF Active
  <2>5. /\ writer' \in [Writers -> WriterState]
        /\ writer'[w] = me /\ \A v \in Writers \ {w} : writer'[v] = writer[v]
    BY <2>2, <2>4 DEF Orderly, Types, WriterState
  <2>6. ReturnedIndexed' /\ returned' \in SUBSET Record /\ tmp' \in [Names -> Contents]
    BY <1>1, <1>3, <2>2 DEF Orderly, Types, ReturnedIndexed
  <2>7. QED
    BY <1>1, <1>3, <2>4, <2>5, <2>6, WriterFacts, OneWriterMoves
<1>6. QED
  BY <1>4, <1>5

(* A reader finds a whole body, and the index it reads is whole. *)
LEMMA ReadOrderly ==
  ASSUME Orderly, NEW r \in Readers, LookUp(r) \/ ReadBody(r)
  PROVE  Orderly'
<1>1. UNCHANGED <<disk, tmp, writer, returned, raced>>
  BY DEF LookUp, ReadBody
<1>2. reader \in [Readers -> ReaderState]
  BY DEF Orderly, Types
<1>3. PICK state \in ReaderState :
        /\ reader' = [reader EXCEPT ![r] = state]
        /\ state.at # "corrupt"
        /\ state.at = "found" => state.rec \in Record /\ IsWhole(state.rec.digest)
  <2>1. NotReading \in ReaderState /\ NotReading.at = "idle"
    BY DEF NotReading, ReaderState
  <2>2. CASE ReadBody(r)
    BY <2>1, <2>2 DEF ReadBody, Orderly, ReadersSafe, IsWhole
  <2>3. CASE LookUp(r) /\ UNCHANGED reader
    <3>1. reader' = [reader EXCEPT ![r] = reader[r]] /\ reader[r] \in ReaderState
      BY <1>2, <2>3
    <3>2. QED
      BY <3>1 DEF Orderly, ReadersSafe
  <2>4. CASE \E i \in DOMAIN Index :
               reader' = [reader EXCEPT ![r] = [at |-> "found", rec |-> Index[i]]]
    <3>1. PICK i \in DOMAIN Index :
            reader' = [reader EXCEPT ![r] = [at |-> "found", rec |-> Index[i]]]
      BY <2>4
    <3>2. Index[i] \in Record /\ IsWhole(Index[i].digest)
      BY IndexFacts DEF Orderly, FilesWhole
    <3>3. [at |-> "found", rec |-> Index[i]] \in ReaderState
      BY <3>2 DEF ReaderState
    <3>4. QED
      BY <3>1, <3>2, <3>3
  <2>5. QED
    BY <2>2, <2>3, <2>4, IndexFacts DEF LookUp
<1>4. reader' \in [Readers -> ReaderState]
  BY <1>2, <1>3
<1>5. ReadersSafe'
  <2>1. ASSUME NEW q \in Readers
        PROVE  /\ reader'[q].at # "corrupt"
               /\ reader'[q].at = "found" => /\ reader'[q].rec \in Record
                                             /\ IsWhole(reader'[q].rec.digest)
    BY <1>2, <1>3 DEF Orderly, ReadersSafe
  <2>2. QED
    BY <1>1, <2>1 DEF ReadersSafe, IsWhole
<1>6. Types'
  BY <1>1, <1>4 DEF Orderly, Types
<1>7. TurnsTaken' /\ FilesWhole' /\ ReturnedIndexed' /\ WriterInStep'
  BY <1>1 DEF Orderly, TurnsTaken, FilesWhole, ReturnedIndexed, WriterInStep, Stands, IsWhole, Index
<1>8. QED
  BY <1>5, <1>6, <1>7 DEF Orderly

LEMMA FilesStep == FilesInv /\ [Access]_directory => FilesInv'
<1> SUFFICES ASSUME FilesInv, [Access]_directory PROVE FilesInv'
  OBVIOUS
<1>1. ASSUME raced PROVE raced'
  BY <1>1 DEF Access, directory, Begin, Enters, Open, Fill, Rename, RenameFails, ReadIndex,
              IndexCorrupt, WriterCrash, LookUp, ReadBody
<1>2. ASSUME Orderly, ~ raced' PROVE Orderly'
  <2>1. ASSUME NEW w \in Writers, RenameFails(w) \/ IndexCorrupt(w) \/ WriterCrash(w)
        PROVE  Orderly'
    <3>1. /\ ~ Stands(w, "idle") /\ Leaves(w)
          /\ UNCHANGED <<disk, tmp, reader, returned, raced>>
      BY <2>1 DEF RenameFails, IndexCorrupt, WriterCrash, Stands
    <3>2. ReturnedIndexed' /\ returned' \in SUBSET Record
      BY <1>2, <3>1 DEF Orderly, Types, ReturnedIndexed, Index
    <3>3. QED
      BY <1>2, <3>1, <3>2, StopOrderly
  <2>2. CASE UNCHANGED directory
    BY <1>2, <2>2 DEF directory, Orderly, Types, TurnsTaken, FilesWhole, ReturnedIndexed,
                      WriterInStep, ReadersSafe, Stands, IsWhole, Index
  <2>3. QED
    BY <1>2, <2>1, <2>2, BeginOrderly, OpenOrderly, FillOrderly, RenameOrderly,
       ReadIndexOrderly, ReadOrderly DEF Access
<1>3. QED
  BY <1>1, <1>2 DEF FilesInv

(* While the writers of a request take turns, wherever one of them crashes, no      *)
(* reader meets a corrupt index or an indexed body that is missing or torn, and     *)
(* what store has returned stays: indexed, with its bytes whole on disk.            *)
THEOREM CacheFilesHold == DirectorySpec => []FilesHold
<1>1. FilesInv => FilesHold
  <2> SUFFICES ASSUME Orderly
               PROVE  /\ \A r \in Readers : reader[r].at # "corrupt"
                      /\ \A rec \in returned :
                           /\ disk[rec.digest].is = "whole"
                           /\ \E i \in DOMAIN Index : Index[i].digest = rec.digest
    BY DEF FilesInv, FilesHold
  <2>1. QED
    BY DEF Orderly, ReadersSafe, ReturnedIndexed, FilesWhole, IsWhole
<1>2. QED
  BY <1>1, FilesInit, FilesStep, PTL DEF DirectorySpec
=============================================================================

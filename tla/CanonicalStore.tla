--------------------------- MODULE CanonicalStore ---------------------------
(***************************************************************************)
(* One table of the canonical layer (data/canonical/store.py) and the      *)
(* point-in-time queries over it (data/point_in_time/store.py).            *)
(*                                                                         *)
(* A dataset is a directory named by a digest of its content, so a dataset *)
(* is its content here.  A write checks the rows against every dataset of  *)
(* the table, clears a directory that has no manifest, writes the part     *)
(* files and then the manifest, whose presence makes the directory a       *)
(* dataset.  Nothing locks the table.  A part file is written in one step: *)
(* a torn one is as unreadable as a missing one.                           *)
(*                                                                         *)
(* A vintaged table (fundamentals, estimates) has one part file and keeps  *)
(* every vintage of a row; the prices table is not vintaged and has a part *)
(* per year, which the key of a row determines.                            *)
(***************************************************************************)
EXTENDS Integers, FiniteSets

CONSTANTS Writers,  \* processes inside CanonicalStore.write for this table
          Sessions, \* PitStore instances
          Keys,     \* event keys
          Values,
          MaxTime,  \* knowledge times are 1 .. MaxTime
          MaxSeq,   \* vintages are 0 .. MaxSeq
          Lag,      \* publication lag configured for the table
          Offers,   \* contents the callers of write come with
          Unpinned, \* no dataset id given for the table
          MaxWrites \* bound: calls of write

Row == [key : Keys, vintage : 0 .. MaxSeq, kt : 1 .. MaxTime, value : Values]

ASSUME CanonicalAssumption == /\ MaxTime \in Nat \ {0} /\ MaxSeq \in Nat
                              /\ Lag \in Nat /\ MaxWrites \in Nat
                              /\ \A rows \in Offers : IsFiniteSet(rows) /\ rows # {} /\ rows \subseteq Row

VARIABLES vintaged, \* the schema's flag
          dir,      \* the directories of the table
          writer,   \* per writer: its step, its dataset, the parts it has left
          session,  \* per session: its pin, its step, its cache
          returned, \* history: datasets a write has returned
          writes,   \* calls of write so far
          raced,    \* history: two writers were in the table at once
          clashed,  \* history: they wrote the same dataset
          torn      \* history: a crash hit the write of a manifest

vars == <<vintaged, dir, writer, session, returned, writes, raced, clashed, torn>>

\* Primary keys are unique and knowledge times increase with the vintage.
WellFormed(rows) ==
  \A r, q \in rows : r # q /\ r.key = q.key => /\ r.vintage # q.vintage
                                               /\ r.vintage < q.vintage <=> r.kt < q.kt

\* The rows of a table that is not vintaged have no vintage.
Flat(rows) == \A r \in rows : r.vintage = 0

OfKey(rows, k) == {r \in rows : r.key = k}

Parts(ds) == IF vintaged THEN {ds} ELSE {OfKey(ds, r.key) : r \in ds}

NoDirectory == [payload |-> {}, manifest |-> "none"]

Idle == [at |-> "idle", ds |-> {}, left |-> {}]

Waiting(pin) == [pin |-> pin, at |-> "idle", ds |-> {}, cache |-> {}]

-----------------------------------------------------------------------------
Exists(ds) == ds \in DOMAIN dir

Directory(ds) == IF Exists(ds) THEN dir[ds] ELSE NoDirectory

\* A manifest file makes a dataset, readable or not.
DatasetIds == {ds \in DOMAIN dir : dir[ds].manifest # "none"}

\* The payload hashes to the manifest and to the directory's name.
Verified(ds) == /\ Directory(ds).manifest = "whole"
                /\ Directory(ds).payload = ds

\* Mutant of VintageAppend: a vintage may be put below the known ones.
AppendBelow(old, new) == old \subseteq new

\* Every old row is kept as it was, and a row added to an old key comes after
\* all of its vintages.  A row of a new key may carry any knowledge time.
VintageAppend(old, new) ==
  /\ old \subseteq new
  /\ \A r \in new \ old : \A q \in OfKey(old, r.key) : r.vintage > q.vintage /\ r.kt > q.kt

\* The checks a write makes before it touches the disk.
Accepts(rows) ==
  /\ WellFormed(rows)
  /\ vintaged => \A ds \in DatasetIds : Verified(ds) /\ VintageAppend(ds, rows)

-----------------------------------------------------------------------------
(* CanonicalStore.write.                                                   *)

At(w, step) == writer[w].at = step

Move(w, step) == writer' = [writer EXCEPT ![w].at = step]

Stop(w) == writer' = [writer EXCEPT ![w] = Idle]

Put(ds, entry) == dir' = [d \in DOMAIN dir \cup {ds} |-> IF d = ds THEN entry ELSE dir[d]]

Begin(w, rows) ==
  /\ At(w, "idle")
  /\ writes < MaxWrites
  /\ vintaged \/ Flat(rows)
  /\ Accepts(rows)
  /\ writer' = [writer EXCEPT ![w] = [at |-> "look", ds |-> rows, left |-> Parts(rows)]]
  /\ writes' = writes + 1
  /\ raced' = (raced \/ \E v \in Writers : ~ At(v, "idle"))
  /\ clashed' = (clashed \/ \E v \in Writers : writer[v].ds = rows)
  /\ UNCHANGED <<vintaged, dir, session, returned, torn>>

\* Mutant of Look: a directory without a manifest is kept.
LookKeeps(w) ==
  /\ At(w, "look")
  /\ Move(w, "exists")
  /\ UNCHANGED <<vintaged, dir, session, returned, writes, raced, clashed, torn>>

\* Mutant of Look: any directory of the name is cleared.
LookClears(w) ==
  /\ At(w, "look")
  /\ Move(w, IF Exists(writer[w].ds) THEN "remove" ELSE "exists")
  /\ UNCHANGED <<vintaged, dir, session, returned, writes, raced, clashed, torn>>

\* A directory without a manifest is what a crash has left.
Look(w) ==
  LET ds == writer[w].ds
  IN  /\ At(w, "look")
      /\ Move(w, IF Exists(ds) /\ ds \notin DatasetIds THEN "remove" ELSE "exists")
      /\ UNCHANGED <<vintaged, dir, session, returned, writes, raced, clashed, torn>>

\* rmtree: a manifest open in the directory is written to no name any more.
RemoveTree(w) ==
  LET ds == writer[w].ds
  IN  /\ At(w, "remove")
      /\ dir' = [d \in DOMAIN dir \ {ds} |-> dir[d]]
      /\ writer' = [v \in Writers |->
           IF v = w THEN [writer[v] EXCEPT !.at = "exists"]
           ELSE IF writer[v].ds = ds /\ At(v, "fill")
           THEN [writer[v] EXCEPT !.at = "lost"] ELSE writer[v]]
      /\ UNCHANGED <<vintaged, session, returned, writes, raced, clashed, torn>>

\* A dataset that is there is left alone: the manifest is read and vouches
\* for the payload.
NoOp(w) ==
  LET ds == writer[w].ds
  IN  /\ At(w, "exists")
      /\ Exists(ds)
      /\ returned' = IF dir[ds].manifest = "whole" THEN returned \cup {ds} ELSE returned
      /\ Stop(w)
      /\ UNCHANGED <<vintaged, dir, session, writes, raced, clashed, torn>>

Start(w) ==
  /\ At(w, "exists")
  /\ ~ Exists(writer[w].ds)
  /\ Move(w, "parts")
  /\ UNCHANGED <<vintaged, dir, session, returned, writes, raced, clashed, torn>>

\* One part file; the directory is made on the way.
WritePart(w) ==
  LET ds == writer[w].ds
  IN  /\ At(w, "parts")
      /\ \E part \in writer[w].left :
           /\ Put(ds, [Directory(ds) EXCEPT !.payload = @ \cup part])
           /\ writer' = [writer EXCEPT ![w].left = @ \ {part}]
      /\ UNCHANGED <<vintaged, session, returned, writes, raced, clashed, torn>>

OpenManifest(w) ==
  LET ds == writer[w].ds
  IN  /\ At(w, "parts")
      /\ writer[w].left = {}
      /\ \/ /\ Exists(ds)
            /\ Put(ds, [dir[ds] EXCEPT !.manifest = "torn"])
            /\ Move(w, "fill")
         \/ /\ ~ Exists(ds)
            /\ Stop(w)
            /\ UNCHANGED dir
      /\ UNCHANGED <<vintaged, session, returned, writes, raced, clashed, torn>>

FillManifest(w) ==
  LET ds == writer[w].ds
  IN  /\ \/ /\ At(w, "fill")
            /\ Put(ds, [dir[ds] EXCEPT !.manifest = "whole"])
         \/ /\ At(w, "lost")
            /\ UNCHANGED dir
      /\ returned' = returned \cup {ds}
      /\ Stop(w)
      /\ UNCHANGED <<vintaged, session, writes, raced, clashed, torn>>

Crash(w) ==
  /\ ~ At(w, "idle")
  /\ torn' = (torn \/ At(w, "fill"))
  /\ Stop(w)
  /\ UNCHANGED <<vintaged, dir, session, returned, writes, raced, clashed>>

-----------------------------------------------------------------------------
(* PitStore.                                                               *)

\* A session is a new PitStore, its table pinned to a dataset or not.
Open(s) ==
  /\ session[s].at = "closed"
  /\ \E pin \in returned \cup {Unpinned} : session' = [session EXCEPT ![s] = Waiting(pin)]
  /\ UNCHANGED <<vintaged, dir, writer, returned, writes, raced, clashed, torn>>

\* The datasets a query of the session may go to: the pin, or the only one.
Resolve(s) == IF session[s].pin # Unpinned THEN {session[s].pin}
              ELSE IF Cardinality(DatasetIds) = 1 THEN DatasetIds ELSE {}

Cached(s) == {e.ds : e \in session[s].cache}

\* The first query that needs a dataset verifies it ...
Query(s) ==
  /\ session[s].at = "idle"
  /\ \E ds \in Resolve(s) \ Cached(s) :
       /\ Verified(ds)
       /\ session' = [session EXCEPT ![s].at = "read", ![s].ds = ds]
  /\ UNCHANGED <<vintaged, dir, writer, returned, writes, raced, clashed, torn>>

\* ... and then reads the payload once more, to keep it for good.
ReadRecords(s) ==
  LET ds == session[s].ds
  IN  /\ session[s].at = "read"
      /\ session' = [session EXCEPT ![s].at = "idle",
           ![s].cache = IF Directory(ds).payload = {} THEN @
                        ELSE @ \cup {[ds |-> ds, rows |-> dir[ds].payload]}]
      /\ UNCHANGED <<vintaged, dir, writer, returned, writes, raced, clashed, torn>>

\* Mutant of Cutoff: the lag of the call replaces the configured one.
CutoffOfCall(asOf, lag) == asOf - lag

\* The configured lag is a floor.
Cutoff(asOf, lag) == asOf - (IF lag > Lag THEN lag ELSE Lag)

Known(rows, cutoff) == {r \in rows : r.kt <= cutoff}

\* Per key, the row known at the cutoff with the greatest knowledge time,
\* then vintage.
AsOf(rows, cutoff) ==
  {r \in Known(rows, cutoff) :
     \A q \in Known(OfKey(rows, r.key), cutoff) :
        q.kt < r.kt \/ (q.kt = r.kt /\ q.vintage <= r.vintage)}

-----------------------------------------------------------------------------
Init == /\ vintaged \in BOOLEAN
        /\ dir = << >>
        /\ writer = [w \in Writers |-> Idle]
        /\ session = [s \in Sessions |-> [Waiting(Unpinned) EXCEPT !.at = "closed"]]
        /\ returned = {}
        /\ writes = 0
        /\ raced = FALSE
        /\ clashed = FALSE
        /\ torn = FALSE

Next == \/ \E w \in Writers : \/ \E rows \in Offers : Begin(w, rows)
                              \/ Look(w)
                              \/ RemoveTree(w)
                              \/ NoOp(w)
                              \/ Start(w)
                              \/ WritePart(w)
                              \/ OpenManifest(w)
                              \/ FillManifest(w)
                              \/ Crash(w)
        \/ \E s \in Sessions : Open(s) \/ Query(s) \/ ReadRecords(s)

Spec == Init /\ [][Next]_vars

-----------------------------------------------------------------------------
(* Properties.                                                             *)

\* Unless two writers write the same dataset at once, a dataset whose write
\* has returned stays verifiable, whatever other writes and crashes do:
\* nothing removes or reopens a directory that has its manifest.
ReturnedStays == clashed \/ \A ds \in returned : Verified(ds)

\* Up to the last vintage the older dataset knows of a key, the newer one
\* answers every cutoff with the same row.
Continues(new, old) ==
  /\ old \subseteq new
  /\ \A r \in old : \A cutoff \in 0 .. r.kt :
       AsOf(OfKey(new, r.key), cutoff) = AsOf(OfKey(old, r.key), cutoff)

\* As long as the writers take turns, the datasets of a vintaged table form a
\* chain: of two, one continues the other, so that a later restatement never
\* changes an earlier answer about a key (CI-002).
DatasetsFormChain ==
  raced \/ ~ vintaged \/
  \A d, e \in DatasetIds : Continues(d, e) \/ Continues(e, d)

\* A crash leaves a table a later write can go on with, unless it hit the
\* writing of a manifest: every manifest vouches for a whole payload and a
\* retry never stops at a directory it finds (no two writers of one dataset);
\* the newest dataset is one the next write may continue (writers taking
\* turns).
CrashLeavesUsable ==
  clashed \/ torn \/
  /\ \A w \in Writers : At(w, "exists") /\ Exists(writer[w].ds) => Verified(writer[w].ds)
  /\ \A ds \in DatasetIds :
       Verified(ds) \/ \E w \in Writers : At(w, "fill") /\ writer[w].ds = ds
  /\ \/ raced
     \/ \E w \in Writers : At(w, "fill")
     \/ DatasetIds = {}
     \/ \E ds \in DatasetIds : Accepts(ds)

\* What a session answers, whatever is written or crashes while it loads, is
\* for each key the highest vintage known one configured lag before the date
\* asked about, and never a row known later: vintage order and knowledge
\* order agree, and the cache holds all of the dataset (no two writers of one
\* dataset).
AnswersExact ==
  clashed \/
  \A s \in Sessions : \A e \in session[s].cache :
    \A asOf \in 1 .. MaxTime + Lag + 1, lag \in 0 .. Lag + 1 :
      AsOf(e.rows, Cutoff(asOf, lag)) =
        LET knowable == {r \in e.ds : r.kt + Lag <= asOf /\ r.kt + lag <= asOf}
        IN  {r \in knowable : \A q \in OfKey(knowable, r.key) : q.vintage <= r.vintage}

=============================================================================

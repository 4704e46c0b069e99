---------------------------- MODULE StoresProofs ----------------------------
(* Proofs about the stores under an artifacts root.  Of the canonical store:  *)
(* what a write has returned stays, datasets continue one another, a crash    *)
(* leaves a usable table, and sessions answer exactly.  Of the runs: a call   *)
(* that ends well leaves all its files, and one that finds its files unlike   *)
(* its manifest has a cause.                                                  *)
EXTENDS MCStores, NaturalsInduction, WellFoundedInduction, TLAPS

-----------------------------------------------------------------------------
(* Types.                                                                  *)

\* The contents a write accepts.
Sound == {rows \in Offers : WellFormed(rows)}

Steps == {"idle", "look", "remove", "exists", "parts", "fill", "lost"}

Machines == [at : Steps, ds : SUBSET Row, left : SUBSET (SUBSET Row)]

Entries == [payload : SUBSET Row, manifest : {"none", "torn", "whole"}]

Loads == [ds : SUBSET Row, rows : SUBSET Row]

SessionStates == [pin : (SUBSET Row) \cup {Unpinned}, at : {"closed", "idle", "read"},
                  ds : SUBSET Row, cache : SUBSET Loads]

Working(w) == writer[w].at # "idle"

WriterTyped == /\ writer \in [Writers -> Machines]
               /\ \A w \in Writers : Working(w) => writer[w].ds \in Sound
               /\ \A w \in Writers : ~ Working(w) => writer[w].ds = {}

DirTyped == /\ DOMAIN dir \subseteq Sound
            /\ \A ds \in DOMAIN dir : dir[ds] \in Entries

SessionTyped == /\ session \in [Sessions -> SessionStates]
                /\ returned \subseteq SUBSET Row

\* A manifest is only open in a directory that is there.
OpenIsThere == \A w \in Writers : At(w, "fill") => Exists(writer[w].ds)

Typed == /\ WriterTyped /\ DirTyped /\ SessionTyped /\ OpenIsThere
         /\ vintaged \in BOOLEAN

LEMMA SoundRows == \A rows \in Sound : rows \in SUBSET Row /\ rows # {} /\ WellFormed(rows)
  BY CanonicalAssumption DEF Sound

\* The parts of a dataset hold its rows and no other.
LEMMA PartsWhole ==
  ASSUME NEW rows \in SUBSET Row
  PROVE  UNION Parts(rows) = rows /\ Parts(rows) \in SUBSET (SUBSET Row)
<1>1. CASE vintaged
  BY <1>1 DEF Parts
<1>2. CASE ~ vintaged
  <2>1. \A r \in rows : r \in OfKey(rows, r.key) /\ OfKey(rows, r.key) \subseteq rows
    BY DEF OfKey
  <2> QED
    BY <1>2, <2>1 DEF Parts
<1> QED
  BY <1>1, <1>2

-----------------------------------------------------------------------------
(* The effects of the helpers of a step.                                   *)

LEMMA Moved ==
  ASSUME Typed, NEW w \in Writers, NEW step \in Steps, Move(w, step)
  PROVE  /\ writer' \in [Writers -> Machines]
         /\ writer'[w].at = step /\ writer'[w].ds = writer[w].ds
         /\ writer'[w].left = writer[w].left
         /\ \A v \in Writers : v # w => writer'[v] = writer[v]
<1>1. writer \in [Writers -> Machines]
  BY DEF Typed, WriterTyped
<1>2. PICK me : me = [writer[w] EXCEPT !.at = step]
  OBVIOUS
<1>3. /\ me \in Machines
      /\ me.at = step /\ me.ds = writer[w].ds /\ me.left = writer[w].left
  BY <1>1, <1>2 DEF Machines
<1>4. writer' = [writer EXCEPT ![w] = me]
  BY <1>2 DEF Move
<1> QED
  BY <1>1, <1>3, <1>4

LEMMA Stopped ==
  ASSUME Typed, NEW w \in Writers, Stop(w)
  PROVE  /\ writer' \in [Writers -> Machines]
         /\ writer'[w].at = "idle" /\ writer'[w].ds = {}
         /\ \A v \in Writers : v # w => writer'[v] = writer[v]
<1>1. writer \in [Writers -> Machines]
  BY DEF Typed, WriterTyped
<1>2. Idle \in Machines /\ Idle.at = "idle" /\ Idle.ds = {}
  BY DEF Idle, Machines, Steps
<1> QED
  BY <1>1, <1>2 DEF Stop

\* A directory is as it was.
Same(ds) == /\ ds \in DOMAIN dir' <=> ds \in DOMAIN dir
            /\ ds \in DOMAIN dir => dir'[ds] = dir[ds]

LEMMA PutFacts ==
  ASSUME NEW ds, NEW entry, Put(ds, entry)
  PROVE  /\ DOMAIN dir' = DOMAIN dir \cup {ds} /\ dir'[ds] = entry
         /\ \A d : d # ds => Same(d)
  BY DEF Put, Same

LEMMA DirectoryTyped ==
  ASSUME Typed, NEW ds
  PROVE  Directory(ds) \in Entries
<1>1. NoDirectory \in Entries
  BY DEF NoDirectory, Entries
<1> QED
  BY <1>1 DEF Typed, DirTyped, Directory, Exists

-----------------------------------------------------------------------------
(* No two writers of one dataset.                                          *)

\* What a writer has found out about the directory of its dataset, at each
\* step of the write.
StepSound(w) ==
  LET ds == writer[w].ds
      m  == Directory(ds).manifest
  IN  /\ ~ At(w, "lost")
      /\ At(w, "look") \/ At(w, "remove") \/ At(w, "exists") => UNION writer[w].left = ds
      /\ At(w, "remove") => m = "none"
      /\ At(w, "exists") /\ Exists(ds) => m # "none"
      /\ At(w, "parts") => m = "none" /\ Directory(ds).payload \cup UNION writer[w].left = ds
      /\ At(w, "fill") => m = "torn"

\* Every working writer has a dataset of its own, ...
OwnDatasets == \A v, w \in Writers : v # w /\ Working(v) /\ Working(w) => writer[v].ds # writer[w].ds

\* ... a manifest is never there before the payload, ...
ManifestLast == \A ds \in DOMAIN dir : dir[ds].manifest # "none" => dir[ds].payload = ds

\* ... what was returned or is being loaded stays verifiable, ...
ReturnedWhole == \A ds \in returned : Verified(ds)

LoadsWhole == \A s \in Sessions : /\ session[s].at = "read" => Verified(session[s].ds)
                                  /\ \A e \in session[s].cache : e.rows = e.ds /\ e.ds \in Sound

\* ... and a torn manifest is being filled, unless a crash tore it.
TornBeingFilled ==
  torn \/ \A ds \in DOMAIN dir : dir[ds].manifest = "torn" =>
                                   \E w \in Writers : At(w, "fill") /\ writer[w].ds = ds

Unclashed == /\ OwnDatasets
             /\ \A w \in Writers : StepSound(w)
             /\ ManifestLast
             /\ ReturnedWhole
             /\ LoadsWhole
             /\ TornBeingFilled

-----------------------------------------------------------------------------
(* Writers taking turns.                                                   *)

OneWorks == \A v, w \in Writers : v # w => ~ Working(v) \/ ~ Working(w)

\* Of two datasets one appends to the other, the dataset being written to all
\* of them, and one of them is the newest.
Appending ==
  /\ \A d, e \in DatasetIds : VintageAppend(d, e) \/ VintageAppend(e, d)
  /\ \A w \in Writers : Working(w) => \A d \in DatasetIds : VintageAppend(d, writer[w].ds)
  /\ DatasetIds # {} => \E e \in DatasetIds : \A d \in DatasetIds : VintageAppend(d, e)

InTurn == /\ ~ clashed
          /\ OneWorks
          /\ vintaged => Appending

StoreInv == /\ Typed
            /\ ~ clashed => Unclashed
            /\ ~ raced => InTurn

-----------------------------------------------------------------------------
(* What a step of one writer keeps.  It touches one directory, that of its  *)
(* dataset, and leaves the other writers where they are.                    *)

LEMMA TypedFrame ==
  ASSUME Typed, NEW w \in Writers, NEW ds \in Sound,
         writer' \in [Writers -> Machines],
         \A v \in Writers : v # w => /\ writer'[v].ds = writer[v].ds
                                     /\ writer'[v].at = "idle" <=> writer[v].at = "idle",
         writer'[w].at # "idle" => writer'[w].ds = ds,
         writer'[w].at = "idle" => writer'[w].ds = {},
         \A d : d # ds => Same(d),
         ds \in DOMAIN dir' => dir'[ds] \in Entries,
         \A v \in Writers : writer'[v].at = "fill" => writer'[v].ds \in DOMAIN dir',
         returned' \subseteq returned \cup {ds},
         UNCHANGED <<session, vintaged>>
  PROVE  Typed'
<1>1. WriterTyped'
  BY DEF Typed, WriterTyped, Working
<1>2. DirTyped'
  BY DEF Typed, DirTyped, Same
<1>3. SessionTyped'
  BY SoundRows DEF Typed, SessionTyped
<1>4. OpenIsThere'
  BY DEF OpenIsThere, At, Exists
<1> QED
  BY <1>1, <1>2, <1>3, <1>4 DEF Typed

\* What a step leaves to a writer that has another dataset.
LEMMA OtherSound ==
  ASSUME NEW v \in Writers, StepSound(v), writer'[v] = writer[v],
         Working(v) => Same(writer[v].ds)
  PROVE  StepSound(v)'
<1>1. CASE ~ Working(v)
  BY <1>1 DEF StepSound, Working, At
<1>2. CASE Working(v)
  <2>1. PICK ds : ds = writer[v].ds
    OBVIOUS
  <2>2. writer'[v].ds = ds /\ Same(ds)
    BY <1>2, <2>1
  <2>3. Directory(ds)' = Directory(ds) /\ (Exists(ds)' <=> Exists(ds))
    BY <2>2 DEF Same, Directory, Exists
  <2> QED
    BY <2>1, <2>2, <2>3 DEF StepSound, At
<1> QED
  BY <1>1, <1>2

LEMMA VerifiedFrame ==
  ASSUME NEW ds, Same(ds)
  PROVE  Verified(ds)' <=> Verified(ds)
  BY DEF Same, Verified, Directory, Exists

LEMMA UnclashedFrame ==
  ASSUME Typed, Unclashed, NEW w \in Writers, NEW ds,
         \A d : d # ds => Same(d),
         \A v \in Writers : v # w => writer'[v] = writer[v],
         \A v \in Writers : v # w /\ Working(v) => writer[v].ds # ds,
         Working(w) => writer[w].ds = ds,
         writer'[w].at # "idle" => writer'[w].ds = ds,
         StepSound(w)',
         ds \in DOMAIN dir' /\ dir'[ds].manifest # "none" => dir'[ds].payload = ds,
         Verified(ds) => Verified(ds)',
         \A d \in returned' : d \in returned \/ (d = ds /\ Verified(ds)'),
         torn => torn',
         \/ torn'
         \/ ds \in DOMAIN dir' /\ dir'[ds].manifest = "torn"
              => writer'[w].at = "fill" /\ writer'[w].ds = ds,
         session' = session
  PROVE  Unclashed'
<1>1. OwnDatasets'
  BY DEF Unclashed, OwnDatasets, Working
<1>2. \A v \in Writers : StepSound(v)'
  BY OtherSound DEF Unclashed
<1>3. ManifestLast'
  BY DEF Unclashed, ManifestLast, Same
<1>4. \A d : Verified(d) => Verified(d)'
  BY VerifiedFrame
<1>5. ReturnedWhole'
  BY <1>4 DEF Unclashed, ReturnedWhole
<1>6. LoadsWhole'
  BY <1>4 DEF Unclashed, LoadsWhole
<1>7. TornBeingFilled'
  <2> SUFFICES ASSUME ~ torn', NEW d \in DOMAIN dir', dir'[d].manifest = "torn"
               PROVE  \E v \in Writers : writer'[v].at = "fill" /\ writer'[v].ds = d
    BY DEF TornBeingFilled, At
  <2>1. CASE d = ds
    BY <2>1
  <2>2. CASE d # ds
    <3>1. d \in DOMAIN dir /\ dir[d].manifest = "torn" /\ ~ torn
      BY <2>2 DEF Same
    <3>2. PICK v \in Writers : writer[v].at = "fill" /\ writer[v].ds = d
      BY <3>1 DEF Unclashed, TornBeingFilled, At
    <3>3. v # w
      BY <2>2, <3>2 DEF Working
    <3> QED
      BY <3>2, <3>3
  <2> QED
    BY <2>1, <2>2
<1> QED
  BY <1>1, <1>2, <1>3, <1>5, <1>6, <1>7 DEF Unclashed

LEMMA InTurnFrame ==
  ASSUME InTurn, NEW w \in Writers, NEW ds, Working(w), writer[w].ds = ds,
         \A v \in Writers : v # w => writer'[v] = writer[v],
         writer'[w].at # "idle" => writer'[w].ds = ds,
         DatasetIds \subseteq DatasetIds', DatasetIds' \subseteq DatasetIds \cup {ds},
         UNCHANGED <<vintaged, clashed>>
  PROVE  InTurn'
<1>1. OneWorks'
  BY DEF InTurn, OneWorks, Working
<1>2. ASSUME vintaged PROVE Appending'
  <2>1. \A d \in DatasetIds' : VintageAppend(d, ds)
    <3>1. VintageAppend(ds, ds)
      BY DEF VintageAppend
    <3> QED
      BY <1>2, <3>1 DEF InTurn, Appending
  <2>2. \A d, e \in DatasetIds' : VintageAppend(d, e) \/ VintageAppend(e, d)
    BY <1>2, <2>1 DEF InTurn, Appending
  <2>3. \A v \in Writers : writer'[v].at # "idle" => \A d \in DatasetIds' : VintageAppend(d, writer'[v].ds)
    BY <2>1 DEF InTurn, OneWorks, Working
  <2>4. DatasetIds' # {} => \E e \in DatasetIds' : \A d \in DatasetIds' : VintageAppend(d, e)
    <3>1. CASE ds \in DatasetIds'
      BY <2>1, <3>1
    <3>2. CASE ds \notin DatasetIds'
      BY <1>2, <3>2 DEF InTurn, Appending
    <3> QED
      BY <3>1, <3>2
  <2> QED
    BY <2>2, <2>3, <2>4 DEF Appending, Working
<1> QED
  BY <1>1, <1>2 DEF InTurn

\* The three together, for a writer at work.
LEMMA WriterFrame ==
  ASSUME StoreInv, NEW w \in Writers, NEW ds, Working(w), writer[w].ds = ds,
         writer' \in [Writers -> Machines],
         \A v \in Writers : v # w => /\ writer'[v].ds = writer[v].ds
                                     /\ writer'[v].at = "idle" <=> writer[v].at = "idle",
         writer'[w].at # "idle" => writer'[w].ds = ds,
         writer'[w].at = "idle" => writer'[w].ds = {},
         \A d : d # ds => Same(d),
         ds \in DOMAIN dir' => dir'[ds] \in Entries,
         \A v \in Writers : writer'[v].at = "fill" => writer'[v].ds \in DOMAIN dir',
         returned' \subseteq returned \cup {ds},
         UNCHANGED <<session, vintaged, raced, clashed>>,
         torn => torn',
         ~ clashed =>
           /\ \A v \in Writers : v # w => writer'[v] = writer[v]
           /\ StepSound(w)'
           /\ ds \in DOMAIN dir' /\ dir'[ds].manifest # "none" => dir'[ds].payload = ds
           /\ ds \in DatasetIds => ds \in DatasetIds'
           /\ Verified(ds) => Verified(ds)'
           /\ ds \in returned' => ds \in returned \/ Verified(ds)'
           /\ \/ torn'
              \/ ds \in DOMAIN dir' /\ dir'[ds].manifest = "torn"
                   => writer'[w].at = "fill" /\ writer'[w].ds = ds
  PROVE  StoreInv'
<1>1. Typed'
  <2>1. ds \in Sound /\ Typed
    BY DEF StoreInv, Typed, WriterTyped
  <2> QED
    BY <2>1, TypedFrame
<1>2. ASSUME ~ clashed PROVE Unclashed'
  <2>1. \A v \in Writers : v # w /\ Working(v) => writer[v].ds # ds
    BY <1>2 DEF StoreInv, Unclashed, OwnDatasets
  <2>2. \A d \in returned' : d \in returned \/ (d = ds /\ Verified(ds)')
    BY <1>2
  <2> QED
    BY <1>2, <2>1, <2>2, UnclashedFrame DEF StoreInv
<1>3. ASSUME ~ raced PROVE InTurn'
  <2>1. InTurn /\ ~ clashed
    BY <1>3 DEF StoreInv, InTurn
  <2>2. DatasetIds \subseteq DatasetIds' /\ DatasetIds' \subseteq DatasetIds \cup {ds}
    BY <2>1 DEF DatasetIds, Same
  <2> QED
    BY <2>1, <2>2, InTurnFrame
<1> QED
  BY <1>1, <1>2, <1>3 DEF StoreInv

\* The same for a step that leaves the directories alone.
LEMMA QuietFrame ==
  ASSUME StoreInv, NEW w \in Writers, Working(w),
         writer' \in [Writers -> Machines],
         \A v \in Writers : v # w => writer'[v] = writer[v],
         writer'[w].at # "idle" => writer'[w].ds = writer[w].ds,
         writer'[w].at = "idle" => writer'[w].ds = {}, writer'[w].at # "fill",
         UNCHANGED dir,
         returned' \subseteq returned \cup {writer[w].ds},
         UNCHANGED <<session, vintaged, raced, clashed>>,
         torn => torn',
         ~ clashed => /\ StepSound(w)'
                      /\ writer[w].ds \in returned' => writer[w].ds \in returned \/ Verified(writer[w].ds)
                      /\ At(w, "fill") => torn'
  PROVE  StoreInv'
<1>1. PICK ds : ds = writer[w].ds
  OBVIOUS
<1>2. \A d : Same(d)
  BY DEF Same
<1>3. DatasetIds' = DatasetIds /\ (Verified(ds)' <=> Verified(ds))
  BY DEF DatasetIds, Verified, Directory, Exists
<1>4. /\ \A v \in Writers : v # w => /\ writer'[v].ds = writer[v].ds
                                     /\ writer'[v].at = "idle" <=> writer[v].at = "idle"
      /\ ds \in DOMAIN dir' => dir'[ds] \in Entries
      /\ \A v \in Writers : writer'[v].at = "fill" => writer'[v].ds \in DOMAIN dir'
  BY DEF StoreInv, Typed, DirTyped, OpenIsThere, At, Exists
<1>5. ASSUME ~ clashed
      PROVE  /\ ds \in DOMAIN dir' /\ dir'[ds].manifest # "none" => dir'[ds].payload = ds
             /\ \/ torn'
                \/ ds \in DOMAIN dir' /\ dir'[ds].manifest = "torn"
                     => writer'[w].at = "fill" /\ writer'[w].ds = ds
  <2>1. Unclashed
    BY <1>5 DEF StoreInv
  <2>2. ds \in DOMAIN dir' /\ dir'[ds].manifest # "none" => dir'[ds].payload = ds
    BY <2>1 DEF Unclashed, ManifestLast
  <2>3. ASSUME ~ torn', ds \in DOMAIN dir', dir'[ds].manifest = "torn" PROVE FALSE
    <3>1. PICK v \in Writers : At(v, "fill") /\ writer[v].ds = ds
      BY <2>1, <2>3 DEF Unclashed, TornBeingFilled
    <3>2. v = w
      BY <1>1, <2>1, <3>1 DEF Unclashed, OwnDatasets, Working, At
    <3> QED
      BY <1>5, <2>3, <3>1, <3>2
  <2> QED
    BY <2>2, <2>3
<1> QED
  BY <1>1, <1>2, <1>3, <1>4, <1>5, WriterFrame

-----------------------------------------------------------------------------
(* The steps of a write.                                                   *)

LEMMA LookKeepsInv == ASSUME StoreInv, NEW w \in Writers, Look(w) PROVE StoreInv'
<1>1. PICK ds : ds = writer[w].ds
  OBVIOUS
<1>2. PICK step \in Steps : /\ step = IF Exists(ds) /\ ds \notin DatasetIds THEN "remove" ELSE "exists"
  BY DEF Steps
<1>3. /\ At(w, "look") /\ Move(w, step)
      /\ UNCHANGED <<vintaged, dir, session, returned, writes, raced, clashed, torn>>
  BY <1>1, <1>2 DEF Look
<1>4. /\ writer' \in [Writers -> Machines]
      /\ writer'[w].at = step /\ writer'[w].ds = ds
      /\ writer'[w].left = writer[w].left
      /\ \A v \in Writers : v # w => writer'[v] = writer[v]
  BY <1>1, <1>3, Moved DEF StoreInv
<1>5. ASSUME ~ clashed PROVE StepSound(w)'
  <2>1. UNION writer[w].left = ds
    BY <1>1, <1>3, <1>5 DEF StoreInv, Unclashed, StepSound
  <2>2. Directory(ds)' = Directory(ds) /\ (Exists(ds)' <=> Exists(ds))
    BY <1>3 DEF Directory, Exists
  <2>3. step = "remove" => Directory(ds).manifest = "none"
    BY <1>2 DEF Directory, Exists, DatasetIds
  <2>4. step = "exists" /\ Exists(ds) => Directory(ds).manifest # "none"
    BY <1>2 DEF Directory, Exists, DatasetIds
  <2> QED
    BY <1>2, <1>4, <2>1, <2>2, <2>3, <2>4 DEF StepSound, At
<1>6. Working(w) /\ ~ At(w, "fill") /\ step # "idle" /\ step # "fill"
  BY <1>2, <1>3 DEF Working, At
<1> QED
  BY <1>1, <1>3, <1>4, <1>5, <1>6, QuietFrame

LEMMA NoOpKeepsInv == ASSUME StoreInv, NEW w \in Writers, NoOp(w) PROVE StoreInv'
<1>1. PICK ds : ds = writer[w].ds
  OBVIOUS
<1>2. /\ At(w, "exists") /\ Exists(ds) /\ Stop(w)
      /\ returned' = IF dir[ds].manifest = "whole" THEN returned \cup {ds} ELSE returned
      /\ UNCHANGED <<vintaged, dir, session, writes, raced, clashed, torn>>
  BY <1>1 DEF NoOp
<1>3. /\ writer' \in [Writers -> Machines]
      /\ writer'[w].at = "idle" /\ writer'[w].ds = {}
      /\ \A v \in Writers : v # w => writer'[v] = writer[v]
  BY <1>2, Stopped DEF StoreInv
<1>4. ASSUME ~ clashed PROVE ds \in returned' => ds \in returned \/ Verified(ds)
  BY <1>2, <1>4 DEF StoreInv, Unclashed, ManifestLast, Verified, Directory, Exists
<1>5. StepSound(w)'
  BY <1>3 DEF StepSound, At
<1>6. Working(w) /\ ~ At(w, "fill")
  BY <1>2 DEF Working, At
<1> QED
  BY <1>1, <1>2, <1>3, <1>4, <1>5, <1>6, QuietFrame

LEMMA StartKeepsInv == ASSUME StoreInv, NEW w \in Writers, Start(w) PROVE StoreInv'
<1>1. PICK ds : ds = writer[w].ds
  OBVIOUS
<1>2. /\ At(w, "exists") /\ ~ Exists(ds) /\ Move(w, "parts")
      /\ UNCHANGED <<vintaged, dir, session, returned, writes, raced, clashed, torn>>
  BY <1>1 DEF Start
<1>3. /\ writer' \in [Writers -> Machines]
      /\ writer'[w].at = "parts" /\ writer'[w].ds = ds
      /\ writer'[w].left = writer[w].left
      /\ \A v \in Writers : v # w => writer'[v] = writer[v]
  BY <1>1, <1>2, Moved DEF StoreInv, Steps
<1>4. ASSUME ~ clashed PROVE StepSound(w)'
  <2>1. UNION writer[w].left = ds
    BY <1>1, <1>2, <1>4 DEF StoreInv, Unclashed, StepSound
  <2>2. Directory(ds)' = [payload |-> {}, manifest |-> "none"]
    BY <1>2 DEF Directory, Exists, NoDirectory
  <2> QED
    BY <1>3, <2>1, <2>2 DEF StepSound, At
<1>5. Working(w) /\ ~ At(w, "fill")
  BY <1>2 DEF Working, At
<1> QED
  BY <1>1, <1>2, <1>3, <1>4, <1>5, QuietFrame

LEMMA CrashKeepsInv == ASSUME StoreInv, NEW w \in Writers, Crash(w) PROVE StoreInv'
<1>1. /\ ~ At(w, "idle") /\ Stop(w)
      /\ torn' = (torn \/ At(w, "fill"))
      /\ UNCHANGED <<vintaged, dir, session, returned, writes, raced, clashed>>
  BY DEF Crash
<1>2. /\ writer' \in [Writers -> Machines]
      /\ writer'[w].at = "idle" /\ writer'[w].ds = {}
      /\ \A v \in Writers : v # w => writer'[v] = writer[v]
  BY <1>1, Stopped DEF StoreInv
<1>3. StepSound(w)'
  BY <1>2 DEF StepSound, At
<1>4. Working(w) /\ (torn => torn') /\ (At(w, "fill") => torn')
  BY <1>1 DEF Working, At
<1> QED
  BY <1>1, <1>2, <1>3, <1>4, QuietFrame

LEMMA RemoveTreeKeepsInv == ASSUME StoreInv, NEW w \in Writers, RemoveTree(w) PROVE StoreInv'
<1>1. PICK ds : ds = writer[w].ds
  OBVIOUS
<1>2. /\ At(w, "remove")
      /\ dir' = [d \in DOMAIN dir \ {ds} |-> dir[d]]
      /\ writer' = [v \in Writers |->
           IF v = w THEN [writer[v] EXCEPT !.at = "exists"]
           ELSE IF writer[v].ds = ds /\ At(v, "fill")
           THEN [writer[v] EXCEPT !.at = "lost"] ELSE writer[v]]
      /\ UNCHANGED <<vintaged, session, returned, writes, raced, clashed, torn>>
  BY <1>1 DEF RemoveTree
<1>3. Working(w) /\ writer \in [Writers -> Machines]
  BY <1>2 DEF Working, At, StoreInv, Typed, WriterTyped
<1>4. ASSUME NEW v \in Writers, NEW step \in Steps
      PROVE  /\ [writer[v] EXCEPT !.at = step] \in Machines
             /\ [writer[v] EXCEPT !.at = step].at = step
             /\ [writer[v] EXCEPT !.at = step].ds = writer[v].ds
             /\ [writer[v] EXCEPT !.at = step].left = writer[v].left
  BY <1>3 DEF Machines
<1>5. "exists" \in Steps /\ "lost" \in Steps
  BY DEF Steps
<1>6. /\ writer' \in [Writers -> Machines]
      /\ writer'[w].at = "exists" /\ writer'[w].ds = ds /\ writer'[w].left = writer[w].left
  BY <1>1, <1>2, <1>3, <1>4, <1>5
<1>7. \A v \in Writers : v # w => /\ writer'[v].ds = writer[v].ds
                                  /\ writer'[v].at = "idle" <=> writer[v].at = "idle"
  BY <1>2, <1>4, <1>5 DEF At
<1>8. /\ ds \notin DOMAIN dir' /\ \A d : d # ds => Same(d)
      /\ \A v \in Writers : writer'[v].at = "fill" => writer'[v].ds \in DOMAIN dir'
  <2>1. DOMAIN dir' = DOMAIN dir \ {ds}
    BY <1>2
  <2>2. ASSUME NEW v \in Writers, writer'[v].at = "fill"
        PROVE  writer'[v] = writer[v] /\ writer[v].ds # ds
    BY <1>2, <1>4, <1>5, <1>6, <2>2 DEF At
  <2>3. \A v \in Writers : writer'[v].at = "fill" => writer'[v].ds \in DOMAIN dir'
    BY <2>1, <2>2 DEF StoreInv, Typed, OpenIsThere, At, Exists
  <2> QED
    BY <1>2, <2>3 DEF Same
<1>9. ASSUME ~ clashed
      PROVE  /\ \A v \in Writers : v # w => writer'[v] = writer[v]
             /\ StepSound(w)'
             /\ ds \notin DatasetIds /\ ~ Verified(ds)
  <2>1. Unclashed
    BY <1>9 DEF StoreInv
  <2>2. \A v \in Writers : v # w => ~ (writer[v].ds = ds /\ At(v, "fill"))
    BY <1>1, <1>3, <2>1 DEF Unclashed, OwnDatasets, Working, At
  <2>3. Directory(ds).manifest = "none" /\ UNION writer[w].left = ds
    BY <1>1, <1>2, <2>1 DEF Unclashed, StepSound
  <2>4. StepSound(w)'
    BY <1>6, <1>8, <2>3 DEF StepSound, At, Exists
  <2>5. ds \notin DatasetIds /\ ~ Verified(ds)
    BY <2>3 DEF DatasetIds, Verified, Directory, Exists
  <2> QED
    BY <1>2, <2>2, <2>4, <2>5
<1> QED
  BY <1>1, <1>2, <1>3, <1>6, <1>7, <1>8, <1>9, WriterFrame

LEMMA WritePartKeepsInv == ASSUME StoreInv, NEW w \in Writers, WritePart(w) PROVE StoreInv'
<1>1. PICK ds : ds = writer[w].ds
  OBVIOUS
<1>2. PICK piece \in writer[w].left :
        /\ Put(ds, [Directory(ds) EXCEPT !.payload = @ \cup piece])
        /\ writer' = [writer EXCEPT ![w].left = @ \ {piece}]
  BY <1>1 DEF WritePart
<1>3. /\ At(w, "parts") /\ Working(w)
      /\ UNCHANGED <<vintaged, session, returned, writes, raced, clashed, torn>>
  BY DEF WritePart, Working, At
<1>4. /\ Typed /\ writer \in [Writers -> Machines]
      /\ piece \in SUBSET Row /\ Directory(ds) \in Entries
  BY <1>2, DirectoryTyped DEF StoreInv, Typed, WriterTyped, Machines
<1>5. PICK entry : entry = [Directory(ds) EXCEPT !.payload = @ \cup piece]
  OBVIOUS
<1>6. /\ entry \in Entries
      /\ entry.payload = Directory(ds).payload \cup piece
      /\ entry.manifest = Directory(ds).manifest
  BY <1>4, <1>5 DEF Entries
<1>7. PICK me : me = [writer[w] EXCEPT !.left = @ \ {piece}]
  OBVIOUS
<1>8. /\ me \in Machines /\ me.at = "parts" /\ me.ds = ds
      /\ me.left = writer[w].left \ {piece}
  BY <1>1, <1>3, <1>4, <1>7 DEF Machines, At
<1>9. /\ writer' \in [Writers -> Machines] /\ writer'[w] = me
      /\ \A v \in Writers : v # w => writer'[v] = writer[v]
  BY <1>2, <1>4, <1>7, <1>8
<1>10. /\ DOMAIN dir' = DOMAIN dir \cup {ds} /\ dir'[ds] = entry
       /\ \A d : d # ds => Same(d)
  BY <1>2, <1>5, PutFacts
<1>11. \A v \in Writers : writer'[v].at = "fill" => writer'[v].ds \in DOMAIN dir'
  BY <1>4, <1>8, <1>9, <1>10 DEF Typed, OpenIsThere, At, Exists
<1>12. ASSUME ~ clashed
       PROVE  /\ StepSound(w)' /\ dir'[ds].manifest = "none"
              /\ ds \notin DatasetIds /\ ~ Verified(ds)
  <2>1. /\ Directory(ds).manifest = "none"
        /\ Directory(ds).payload \cup UNION writer[w].left = ds
    BY <1>1, <1>3, <1>12 DEF StoreInv, Unclashed, StepSound
  <2>2. entry.payload \cup UNION me.left = ds
    BY <1>2, <1>6, <1>8, <2>1
  <2>3. Directory(ds)' = entry
    BY <1>10 DEF Directory, Exists
  <2>4. StepSound(w)'
    BY <1>6, <1>8, <1>9, <2>1, <2>2, <2>3 DEF StepSound, At
  <2>5. ds \notin DatasetIds /\ ~ Verified(ds)
    BY <2>1 DEF DatasetIds, Verified, Directory, Exists
  <2> QED
    BY <1>6, <1>10, <2>1, <2>4, <2>5
<1> QED
  BY <1>1, <1>3, <1>6, <1>8, <1>9, <1>10, <1>11, <1>12, WriterFrame

LEMMA OpenManifestKeepsInv == ASSUME StoreInv, NEW w \in Writers, OpenManifest(w) PROVE StoreInv'
<1>1. PICK ds : ds = writer[w].ds
  OBVIOUS
<1>2. /\ At(w, "parts") /\ Working(w) /\ writer[w].left = {}
      /\ UNCHANGED <<vintaged, session, returned, writes, raced, clashed, torn>>
  BY DEF OpenManifest, Working, At
<1>3. Typed /\ writer \in [Writers -> Machines]
  BY DEF StoreInv, Typed, WriterTyped
<1>4. ASSUME ~ clashed
      PROVE  Directory(ds).manifest = "none" /\ Directory(ds).payload = ds
  <2>1. /\ Directory(ds).manifest = "none"
        /\ Directory(ds).payload \cup UNION writer[w].left = ds
    BY <1>1, <1>2, <1>4 DEF StoreInv, Unclashed, StepSound
  <2> QED
    BY <1>2, <2>1
<1>5. CASE Exists(ds) /\ Put(ds, [dir[ds] EXCEPT !.manifest = "torn"]) /\ Move(w, "fill")
  <2>1. PICK entry : entry = [dir[ds] EXCEPT !.manifest = "torn"]
    OBVIOUS
  <2>2. entry \in Entries /\ entry.manifest = "torn" /\ entry.payload = dir[ds].payload
    BY <1>3, <1>5, <2>1 DEF Typed, DirTyped, Exists, Entries
  <2>3. /\ DOMAIN dir' = DOMAIN dir \cup {ds} /\ dir'[ds] = entry
        /\ \A d : d # ds => Same(d)
    BY <1>5, <2>1, PutFacts
  <2>4. /\ writer' \in [Writers -> Machines]
        /\ writer'[w].at = "fill" /\ writer'[w].ds = ds
        /\ \A v \in Writers : v # w => writer'[v] = writer[v]
    BY <1>1, <1>3, <1>5, Moved DEF Steps
  <2>5. Directory(ds)' = entry
    BY <2>3 DEF Directory, Exists
  <2>6. StepSound(w)'
    BY <2>2, <2>4, <2>5 DEF StepSound, At
  <2>7. ASSUME ~ clashed
        PROVE  ds \notin DatasetIds /\ ~ Verified(ds) /\ dir'[ds].payload = ds
    BY <1>4, <1>5, <2>2, <2>3, <2>7 DEF DatasetIds, Verified, Directory, Exists
  <2>8. \A v \in Writers : writer'[v].at = "fill" => writer'[v].ds \in DOMAIN dir'
    BY <1>3, <2>3, <2>4 DEF Typed, OpenIsThere, At, Exists
  <2> QED
    BY <1>1, <1>2, <2>2, <2>3, <2>4, <2>6, <2>7, <2>8, WriterFrame
<1>6. CASE ~ Exists(ds) /\ Stop(w) /\ UNCHANGED dir
  <2>1. /\ writer' \in [Writers -> Machines]
        /\ writer'[w].at = "idle" /\ writer'[w].ds = {}
        /\ \A v \in Writers : v # w => writer'[v] = writer[v]
    BY <1>3, <1>6, Stopped
  <2>2. StepSound(w)' /\ ~ At(w, "fill")
    BY <1>2, <2>1 DEF StepSound, At
  <2> QED
    BY <1>1, <1>2, <1>6, <2>1, <2>2, QuietFrame
<1> QED
  BY <1>1, <1>5, <1>6 DEF OpenManifest

LEMMA FillManifestKeepsInv == ASSUME StoreInv, NEW w \in Writers, FillManifest(w) PROVE StoreInv'
<1>1. PICK ds : ds = writer[w].ds
  OBVIOUS
<1>2. /\ Working(w) /\ Stop(w)
      /\ returned' = returned \cup {ds}
      /\ UNCHANGED <<vintaged, session, writes, raced, clashed, torn>>
  BY <1>1 DEF FillManifest, Working, At
<1>3. Typed /\ ds \in Sound
  BY <1>1, <1>2 DEF StoreInv, Typed, WriterTyped
<1>4. /\ writer' \in [Writers -> Machines]
      /\ writer'[w].at = "idle" /\ writer'[w].ds = {}
      /\ \A v \in Writers : v # w => writer'[v] = writer[v]
  BY <1>2, <1>3, Stopped
<1>5. StepSound(w)'
  BY <1>4 DEF StepSound, At
<1>6. CASE At(w, "fill") /\ Put(ds, [dir[ds] EXCEPT !.manifest = "whole"])
  <2>1. PICK entry : entry = [dir[ds] EXCEPT !.manifest = "whole"]
    OBVIOUS
  <2>2. /\ DOMAIN dir' = DOMAIN dir \cup {ds} /\ dir'[ds] = entry
        /\ \A d : d # ds => Same(d)
    BY <1>6, <2>1, PutFacts
  <2>3. ASSUME ~ clashed
        PROVE  /\ ds \in DOMAIN dir /\ dir[ds].payload = ds
               /\ dir[ds] \in Entries
    <3>1. Directory(ds).manifest = "torn" /\ Unclashed
      BY <1>1, <1>6, <2>3 DEF StoreInv, Unclashed, StepSound
    <3>2. ds \in DOMAIN dir
      BY <3>1 DEF Directory, Exists, NoDirectory
    <3> QED
      BY <1>3, <3>1, <3>2 DEF Typed, DirTyped, Directory, Exists, Unclashed, ManifestLast
  <2>4. ASSUME ~ clashed
        PROVE  /\ dir'[ds].payload = ds /\ dir'[ds].manifest = "whole"
               /\ Verified(ds)' /\ ds \in DatasetIds'
    <3>1. entry.payload = ds /\ entry.manifest = "whole"
      BY <2>1, <2>3, <2>4 DEF Entries
    <3> QED
      BY <2>2, <3>1 DEF Verified, DatasetIds, Directory, Exists
  <2>5. dir'[ds] \in Entries
    <3>1. dir[ds] \in Entries
      BY <1>1, <1>3, <1>6 DEF Typed, DirTyped, OpenIsThere, Exists
    <3> QED
      BY <2>1, <2>2, <3>1 DEF Entries
  <2>6. \A v \in Writers : writer'[v].at = "fill" => writer'[v].ds \in DOMAIN dir'
    BY <1>3, <1>4, <2>2 DEF Typed, OpenIsThere, At, Exists
  <2> QED
    BY <1>1, <1>2, <1>4, <1>5, <2>2, <2>4, <2>5, <2>6, WriterFrame
<1>7. CASE At(w, "lost") /\ UNCHANGED dir
  <2>1. clashed /\ ~ At(w, "fill")
    BY <1>7 DEF StoreInv, Unclashed, StepSound, At
  <2> QED
    BY <1>1, <1>2, <1>4, <1>7, <2>1, QuietFrame
<1> QED
  BY <1>1, <1>6, <1>7 DEF FillManifest

LEMMA BeginKeepsInv ==
  ASSUME StoreInv, NEW w \in Writers, NEW rows \in Offers, Begin(w, rows)
  PROVE  StoreInv'
<1> DEFINE me == [at |-> "look", ds |-> rows, left |-> Parts(rows)]
<1>1. /\ At(w, "idle") /\ Accepts(rows)
      /\ writer' = [writer EXCEPT ![w] = me]
      /\ raced' = (raced \/ \E v \in Writers : ~ At(v, "idle"))
      /\ clashed' = (clashed \/ \E v \in Writers : writer[v].ds = rows)
      /\ UNCHANGED <<vintaged, dir, session, returned, torn>>
  BY DEF Begin
<1>2. rows \in Sound /\ rows \in SUBSET Row /\ rows # {}
  BY <1>1, SoundRows DEF Accepts, Sound
<1>3. Typed /\ writer \in [Writers -> Machines] /\ ~ Working(w)
  BY <1>1 DEF StoreInv, Typed, WriterTyped, Working, At
<1>4. me \in Machines /\ UNION Parts(rows) = rows
  BY <1>2, PartsWhole DEF Machines, Steps
<1>5. /\ writer' \in [Writers -> Machines]
      /\ writer'[w].at = "look" /\ writer'[w].ds = rows /\ writer'[w].left = Parts(rows)
      /\ \A v \in Writers : v # w => writer'[v] = writer[v]
  BY <1>1, <1>3, <1>4
<1>6. /\ \A d : Same(d)
      /\ DatasetIds' = DatasetIds
      /\ Verified(rows)' <=> Verified(rows)
  BY <1>1 DEF Same, DatasetIds, Verified, Directory, Exists
<1>7. Typed'
  <2>1. rows \in DOMAIN dir' => dir'[rows] \in Entries
    BY <1>1, <1>3 DEF Typed, DirTyped
  <2>2. \A v \in Writers : writer'[v].at = "fill" => writer'[v].ds \in DOMAIN dir'
    BY <1>1, <1>3, <1>5 DEF Typed, OpenIsThere, At, Exists
  <2> QED
    BY <1>1, <1>2, <1>3, <1>5, <1>6, <2>1, <2>2, TypedFrame
<1>8. ASSUME ~ clashed' PROVE Unclashed'
  <2>1. Unclashed /\ \A v \in Writers : writer[v].ds # rows
    BY <1>1, <1>8 DEF StoreInv
  <2>2. StepSound(w)'
    BY <1>4, <1>5 DEF StepSound, At
  <2>3. rows \in DOMAIN dir' /\ dir'[rows].manifest # "none" => dir'[rows].payload = rows
    BY <1>1, <2>1 DEF Unclashed, ManifestLast
  <2>4. torn' \/ ~ (rows \in DOMAIN dir' /\ dir'[rows].manifest = "torn")
    BY <1>1, <2>1 DEF Unclashed, TornBeingFilled
  <2> QED
    BY <1>1, <1>3, <1>5, <1>6, <2>1, <2>2, <2>3, <2>4, UnclashedFrame
<1>9. ASSUME ~ raced' PROVE InTurn'
  <2>1. InTurn /\ \A v \in Writers : ~ Working(v)
    BY <1>1, <1>9 DEF StoreInv, Working, At
  <2>2. ~ clashed'
    BY <1>1, <1>2, <1>3, <2>1 DEF InTurn, Typed, WriterTyped
  <2>3. OneWorks'
    BY <1>5, <2>1 DEF OneWorks, Working
  <2>4. ASSUME vintaged PROVE Appending'
    <3>1. \A d \in DatasetIds : VintageAppend(d, rows)
      BY <1>1, <2>4 DEF Accepts
    <3>2. \A v \in Writers : writer'[v].at # "idle" => writer'[v].ds = rows
      BY <1>5, <2>1 DEF Working
    <3> QED
      BY <1>6, <2>1, <2>4, <3>1, <3>2 DEF InTurn, Appending, Working
  <2> QED
    BY <1>1, <2>2, <2>3, <2>4 DEF InTurn
<1> QED
  BY <1>7, <1>8, <1>9 DEF StoreInv

-----------------------------------------------------------------------------
(* The steps of a session.                                                 *)

LEMMA SessionFrame ==
  ASSUME StoreInv, UNCHANGED <<vintaged, dir, writer, returned, raced, clashed, torn>>,
         session' \in [Sessions -> SessionStates],
         ~ clashed => LoadsWhole'
  PROVE  StoreInv'
<1>1. Typed'
  BY DEF StoreInv, Typed, WriterTyped, DirTyped, SessionTyped, OpenIsThere, Working, At, Exists
<1>2. ASSUME ~ clashed PROVE Unclashed'
  <2>1. \A w \in Writers : StepSound(w)' <=> StepSound(w)
    BY DEF StepSound, At, Directory, Exists
  <2>2. ReturnedWhole' <=> ReturnedWhole
    BY DEF ReturnedWhole, Verified, Directory, Exists
  <2>3. /\ OwnDatasets' <=> OwnDatasets
        /\ ManifestLast' <=> ManifestLast
        /\ TornBeingFilled' <=> TornBeingFilled
    BY DEF OwnDatasets, ManifestLast, TornBeingFilled, Working, At
  <2> QED
    BY <1>2, <2>1, <2>2, <2>3 DEF StoreInv, Unclashed
<1>3. InTurn' <=> InTurn
  BY DEF InTurn, OneWorks, Appending, Working, DatasetIds
<1> QED
  BY <1>1, <1>2, <1>3 DEF StoreInv

LEMMA OpenKeepsInv == ASSUME StoreInv, NEW s \in Sessions, Open(s) PROVE StoreInv'
<1>1. PICK pin \in returned \cup {Unpinned} : session' = [session EXCEPT ![s] = Waiting(pin)]
  BY DEF Open
<1>2. UNCHANGED <<vintaged, dir, writer, returned, raced, clashed, torn>>
  BY DEF Open
<1>3. session \in [Sessions -> SessionStates] /\ pin \in (SUBSET Row) \cup {Unpinned}
  BY <1>1 DEF StoreInv, Typed, SessionTyped
<1>4. /\ Waiting(pin) \in SessionStates
      /\ Waiting(pin).at = "idle" /\ Waiting(pin).cache = {}
  BY <1>3 DEF Waiting, SessionStates
<1>5. /\ session' \in [Sessions -> SessionStates]
      /\ session'[s].at = "idle" /\ session'[s].cache = {}
      /\ \A t \in Sessions : t # s => session'[t] = session[t]
  BY <1>1, <1>3, <1>4
<1>6. ASSUME ~ clashed PROVE LoadsWhole'
  <2>1. \A ds : Verified(ds)' <=> Verified(ds)
    BY <1>2 DEF Verified, Directory, Exists
  <2> QED
    BY <1>5, <1>6, <2>1 DEF StoreInv, Unclashed, LoadsWhole
<1> QED
  BY <1>2, <1>5, <1>6, SessionFrame

LEMMA QueryKeepsInv == ASSUME StoreInv, NEW s \in Sessions, Query(s) PROVE StoreInv'
<1>1. PICK ds \in Resolve(s) \ Cached(s) :
        /\ Verified(ds)
        /\ session' = [session EXCEPT ![s].at = "read", ![s].ds = ds]
  BY DEF Query
<1>2. UNCHANGED <<vintaged, dir, writer, returned, raced, clashed, torn>>
  BY DEF Query
<1>3. session \in [Sessions -> SessionStates] /\ ds \in SUBSET Row
  <2>1. ds \in DOMAIN dir
    BY <1>1 DEF Verified, Directory, Exists, NoDirectory
  <2> QED
    BY <2>1, SoundRows DEF StoreInv, Typed, SessionTyped, DirTyped
<1>4. PICK now : now = [session[s] EXCEPT !.at = "read", !.ds = ds]
  OBVIOUS
<1>5. /\ now \in SessionStates /\ now.at = "read" /\ now.ds = ds
      /\ now.cache = session[s].cache
  BY <1>3, <1>4 DEF SessionStates
<1>6. /\ session' \in [Sessions -> SessionStates] /\ session'[s] = now
      /\ \A t \in Sessions : t # s => session'[t] = session[t]
  BY <1>1, <1>3, <1>4, <1>5
<1>7. ASSUME ~ clashed PROVE LoadsWhole'
  <2>1. \A d : Verified(d)' <=> Verified(d)
    BY <1>2 DEF Verified, Directory, Exists
  <2> QED
    BY <1>1, <1>5, <1>6, <1>7, <2>1 DEF StoreInv, Unclashed, LoadsWhole
<1> QED
  BY <1>2, <1>6, <1>7, SessionFrame

LEMMA ReadRecordsKeepsInv == ASSUME StoreInv, NEW s \in Sessions, ReadRecords(s) PROVE StoreInv'
<1>1. PICK ds : ds = session[s].ds
  OBVIOUS
<1>2. PICK load : load = [ds |-> ds, rows |-> dir[ds].payload]
  OBVIOUS
<1>3. /\ session[s].at = "read"
      /\ session' = [session EXCEPT ![s].at = "idle",
           ![s].cache = IF Directory(ds).payload = {} THEN @ ELSE @ \cup {load}]
      /\ UNCHANGED <<vintaged, dir, writer, returned, raced, clashed, torn>>
  BY <1>1, <1>2 DEF ReadRecords
<1>4. session \in [Sessions -> SessionStates] /\ ds \in SUBSET Row
  BY <1>1 DEF StoreInv, Typed, SessionTyped, SessionStates
<1>5. PICK cache : cache = IF Directory(ds).payload = {} THEN session[s].cache
                           ELSE session[s].cache \cup {load}
  OBVIOUS
<1>6. cache \in SUBSET Loads
  <2>1. session[s].cache \in SUBSET Loads
    BY <1>4 DEF SessionStates
  <2>2. Directory(ds).payload # {} => load \in Loads
    BY <1>2, <1>4 DEF StoreInv, Typed, DirTyped, Directory, Exists, NoDirectory, Entries, Loads
  <2> QED
    BY <1>5, <2>1, <2>2
<1>7. PICK now : now = [session[s] EXCEPT !.at = "idle", !.cache = cache]
  OBVIOUS
<1>8. now \in SessionStates /\ now.at = "idle" /\ now.cache = cache
  BY <1>4, <1>6, <1>7 DEF SessionStates
<1>9. /\ session' \in [Sessions -> SessionStates] /\ session'[s] = now
      /\ \A t \in Sessions : t # s => session'[t] = session[t]
  <2>1. session' = [session EXCEPT ![s] = now]
    BY <1>3, <1>5, <1>7
  <2> QED
    BY <1>4, <1>8, <2>1
<1>10. ASSUME ~ clashed PROVE LoadsWhole'
  <2>1. Unclashed /\ Verified(ds)
    BY <1>1, <1>3, <1>10 DEF StoreInv, Unclashed, LoadsWhole
  <2>2. ds \in DOMAIN dir /\ dir[ds].payload = ds
    BY <2>1 DEF Verified, Directory, Exists, NoDirectory
  <2>3. load.ds = ds /\ load.rows = ds /\ ds \in Sound
    BY <1>2, <2>2 DEF StoreInv, Typed, DirTyped
  <2>4. \A e \in cache : e.rows = e.ds /\ e.ds \in Sound
    BY <1>5, <2>1, <2>3 DEF Unclashed, LoadsWhole
  <2>5. \A d : Verified(d)' <=> Verified(d)
    BY <1>3 DEF Verified, Directory, Exists
  <2> QED
    BY <1>8, <1>9, <2>1, <2>4, <2>5 DEF Unclashed, LoadsWhole
<1> QED
  BY <1>3, <1>9, <1>10, SessionFrame

-----------------------------------------------------------------------------
LEMMA StoreInit == Init => StoreInv
<1> SUFFICES ASSUME Init PROVE StoreInv
  OBVIOUS
<1>1. DOMAIN dir = {} /\ returned = {}
  BY DEF Init
<1>2. /\ writer \in [Writers -> Machines]
      /\ \A w \in Writers : writer[w].at = "idle" /\ writer[w].ds = {}
  BY DEF Init, Idle, Machines, Steps
<1>3. PICK closed : closed = [Waiting(Unpinned) EXCEPT !.at = "closed"]
  OBVIOUS
<1>4. closed \in SessionStates /\ closed.at = "closed" /\ closed.cache = {}
  BY <1>3 DEF Waiting, SessionStates
<1>5. session = [s \in Sessions |-> closed]
  BY <1>3 DEF Init
<1>6. /\ session \in [Sessions -> SessionStates]
      /\ \A s \in Sessions : session[s].at = "closed" /\ session[s].cache = {}
  BY <1>4, <1>5
<1>7. Typed
  BY <1>1, <1>2, <1>6 DEF Init, Typed, WriterTyped, DirTyped, SessionTyped, OpenIsThere,
                          Working, At
<1>8. Unclashed
  BY <1>1, <1>2, <1>6 DEF Unclashed, OwnDatasets, StepSound, ManifestLast, ReturnedWhole,
                          LoadsWhole, TornBeingFilled, Working, At
<1>9. InTurn
  BY <1>1, <1>2 DEF Init, InTurn, OneWorks, Appending, DatasetIds, Working
<1> QED
  BY <1>7, <1>8, <1>9 DEF StoreInv

LEMMA StoreStep == StoreInv /\ [Next]_vars => StoreInv'
<1> SUFFICES ASSUME StoreInv, [Next]_vars PROVE StoreInv'
  OBVIOUS
<1>1. ASSUME NEW w \in Writers, NEW rows \in Offers, Begin(w, rows) PROVE StoreInv'
  BY <1>1, BeginKeepsInv
<1>2. ASSUME NEW w \in Writers, Look(w) \/ RemoveTree(w) PROVE StoreInv'
  BY <1>2, LookKeepsInv, RemoveTreeKeepsInv
<1>3. ASSUME NEW w \in Writers, NoOp(w) \/ Start(w) \/ WritePart(w) PROVE StoreInv'
  BY <1>3, NoOpKeepsInv, StartKeepsInv, WritePartKeepsInv
<1>4. ASSUME NEW w \in Writers, OpenManifest(w) \/ FillManifest(w) \/ Crash(w) PROVE StoreInv'
  BY <1>4, OpenManifestKeepsInv, FillManifestKeepsInv, CrashKeepsInv
<1>5. ASSUME NEW s \in Sessions, Open(s) \/ Query(s) \/ ReadRecords(s) PROVE StoreInv'
  BY <1>5, OpenKeepsInv, QueryKeepsInv, ReadRecordsKeepsInv
<1>6. CASE UNCHANGED vars
  <2>1. UNCHANGED <<vintaged, dir, writer, session, returned, raced, clashed, torn>>
    BY <1>6 DEF vars
  <2>2. session' \in [Sessions -> SessionStates]
    BY <2>1 DEF StoreInv, Typed, SessionTyped
  <2>3. ~ clashed => LoadsWhole'
    BY <2>1 DEF StoreInv, Unclashed, LoadsWhole, Verified, Directory, Exists
  <2> QED
    BY <2>1, <2>2, <2>3, SessionFrame
<1> QED
  BY <1>1, <1>2, <1>3, <1>4, <1>5, <1>6 DEF Next

LEMMA StoreInvariant == Spec => []StoreInv
  BY StoreInit, StoreStep, PTL DEF Spec

-----------------------------------------------------------------------------
(* What the queries answer.                                                *)

LEMMA RowFields ==
  ASSUME NEW r \in Row
  PROVE  r.vintage \in Nat /\ r.kt \in Nat
  BY CanonicalAssumption DEF Row

\* Appended rows are known too late to change an answer about the old ones.
LEMMA AppendContinues ==
  ASSUME NEW old \in SUBSET Row, NEW new \in SUBSET Row, VintageAppend(old, new)
  PROVE  Continues(new, old)
<1>1. old \subseteq new
  BY DEF VintageAppend
<1>2. ASSUME NEW r \in old, NEW cutoff \in 0 .. r.kt
      PROVE  AsOf(OfKey(new, r.key), cutoff) = AsOf(OfKey(old, r.key), cutoff)
  <2>1. ASSUME NEW q \in new, q.key = r.key, q.kt <= cutoff PROVE q \in old
    <3>1. SUFFICES ASSUME q \notin old PROVE FALSE
      OBVIOUS
    <3>2. r \in OfKey(old, q.key)
      BY <2>1 DEF OfKey
    <3>3. q.kt > r.kt
      BY <3>1, <3>2 DEF VintageAppend
    <3>4. q.kt \in Nat /\ r.kt \in Nat /\ cutoff <= r.kt
      BY RowFields
    <3> QED
      BY <2>1, <3>3, <3>4
  <2>2. \A key : Known(OfKey(OfKey(new, r.key), key), cutoff) = Known(OfKey(OfKey(old, r.key), key), cutoff)
    BY <1>1, <2>1 DEF Known, OfKey
  <2>3. Known(OfKey(new, r.key), cutoff) = Known(OfKey(old, r.key), cutoff)
    BY <1>1, <2>1 DEF Known, OfKey
  <2> QED
    BY <2>2, <2>3 DEF AsOf
<1> QED
  BY <1>1, <1>2 DEF Continues

\* The rows knowable at a date, and per key the highest vintage among them.
KnowableAt(rows, asOf, lag) == {r \in rows : r.kt + Lag <= asOf /\ r.kt + lag <= asOf}

Highest(rows) == {r \in rows : \A q \in OfKey(rows, r.key) : q.vintage <= r.vintage}

\* Where vintages and knowledge times agree, the last known row of a key is
\* that of the highest vintage knowable.
LEMMA AsOfExact ==
  ASSUME NEW rows \in SUBSET Row, WellFormed(rows),
         NEW asOf \in Nat, NEW lag \in Nat
  PROVE  AsOf(rows, Cutoff(asOf, lag)) = Highest(KnowableAt(rows, asOf, lag))
<1> DEFINE knowable == KnowableAt(rows, asOf, lag)
           cutoff == Cutoff(asOf, lag)
<1>1. Lag \in Nat
  BY CanonicalAssumption
<1>2. \A r \in rows : r.kt \in Nat /\ r.vintage \in Nat
  BY RowFields
<1>3. \A r \in rows : r.kt <= cutoff <=> r.kt + Lag <= asOf /\ r.kt + lag <= asOf
  BY <1>1, <1>2 DEF Cutoff
<1>4. Known(rows, cutoff) = knowable
  BY <1>3 DEF Known, KnowableAt
<1>5. \A key : Known(OfKey(rows, key), cutoff) = OfKey(knowable, key)
  BY <1>3 DEF Known, OfKey, KnowableAt
<1>6. ASSUME NEW r \in knowable, NEW q \in OfKey(knowable, r.key)
      PROVE  q.kt < r.kt \/ (q.kt = r.kt /\ q.vintage <= r.vintage) <=> q.vintage <= r.vintage
  <2>1. q \in rows /\ r \in rows /\ q.key = r.key
    BY DEF OfKey, KnowableAt
  <2>2. q # r => q.vintage # r.vintage /\ (q.vintage < r.vintage <=> q.kt < r.kt)
    BY <2>1 DEF WellFormed
  <2> QED
    BY <1>2, <2>1, <2>2
<1> HIDE DEF knowable, cutoff
<1>7. AsOf(rows, cutoff) = Highest(knowable)
  BY <1>4, <1>5, <1>6 DEF AsOf, Highest
<1> QED
  BY <1>7 DEF knowable, cutoff

-----------------------------------------------------------------------------
(* The results.                                                            *)

\* For any writers, sessions and contents: a dataset whose write has returned
\* stays verifiable, whatever the other writers and crashes do, unless two
\* writers were at work on one dataset (CanonicalStore.write).
THEOREM StoreKeepsReturned == Spec => []ReturnedStays
<1>1. StoreInv => ReturnedStays
  BY DEF StoreInv, Unclashed, ReturnedWhole, ReturnedStays
<1> QED
  BY StoreInvariant, <1>1, PTL

\* For any contents: as long as writers take turns, of two datasets of a
\* vintaged table one continues the other, so that no restatement changes an
\* earlier answer (verify_vintage_append; CI-002).
THEOREM StoreFormsChain == Spec => []DatasetsFormChain
<1>1. StoreInv => DatasetsFormChain
  <2> SUFFICES ASSUME StoreInv, ~ raced, vintaged, NEW d \in DatasetIds, NEW e \in DatasetIds
               PROVE  Continues(d, e) \/ Continues(e, d)
    BY DEF DatasetsFormChain
  <2>1. d \in SUBSET Row /\ e \in SUBSET Row
    BY SoundRows DEF StoreInv, Typed, DirTyped, DatasetIds
  <2>2. VintageAppend(d, e) \/ VintageAppend(e, d)
    BY DEF StoreInv, InTurn, Appending
  <2> QED
    BY <2>1, <2>2, AppendContinues
<1> QED
  BY StoreInvariant, <1>1, PTL

\* For any writers and contents: unless a crash hit the writing of a manifest,
\* no retry stops at a broken directory, every manifest vouches for a whole
\* payload, and the newest dataset is one the next write may continue
\* (CanonicalStore.write, verified_records).
THEOREM StoreUsableAfterCrash == Spec => []CrashLeavesUsable
<1>1. StoreInv => CrashLeavesUsable
  <2> SUFFICES ASSUME StoreInv, ~ clashed, ~ torn PROVE CrashLeavesUsable
    BY DEF CrashLeavesUsable
  <2>1. Unclashed /\ Typed
    BY DEF StoreInv
  <2>2. ASSUME NEW ds \in DatasetIds
        PROVE  Verified(ds) \/ \E w \in Writers : At(w, "fill") /\ writer[w].ds = ds
    <3>1. /\ ds \in DOMAIN dir /\ dir[ds].manifest # "none" /\ dir[ds] \in Entries
          /\ dir[ds].payload = ds
      BY <2>1 DEF DatasetIds, Typed, DirTyped, Unclashed, ManifestLast
    <3>2. dir[ds].manifest = "whole" \/ dir[ds].manifest = "torn"
      BY <3>1 DEF Entries
    <3>3. CASE dir[ds].manifest = "whole"
      BY <3>1, <3>3 DEF Verified, Directory, Exists
    <3>4. CASE dir[ds].manifest = "torn"
      BY <2>1, <3>1, <3>4 DEF Unclashed, TornBeingFilled
    <3> QED
      BY <3>2, <3>3, <3>4
  <2>3. ASSUME NEW w \in Writers, At(w, "exists"), Exists(writer[w].ds)
        PROVE  Verified(writer[w].ds)
    <3>1. writer[w].ds \in DatasetIds
      BY <2>1, <2>3 DEF Unclashed, StepSound, DatasetIds, Directory, Exists
    <3>2. ASSUME NEW v \in Writers, At(v, "fill"), writer[v].ds = writer[w].ds PROVE FALSE
      BY <2>1, <2>3, <3>2 DEF Unclashed, OwnDatasets, Working, At
    <3> QED
      BY <2>2, <3>1, <3>2
  <2>4. ASSUME ~ raced, ~ \E w \in Writers : At(w, "fill"), DatasetIds # {}
        PROVE  \E ds \in DatasetIds : Accepts(ds)
    <3>1. \A ds \in DatasetIds : Verified(ds) /\ WellFormed(ds)
      BY <2>1, <2>2, <2>4, SoundRows DEF Typed, DirTyped, DatasetIds
    <3>2. CASE ~ vintaged
      BY <2>4, <3>1, <3>2 DEF Accepts
    <3>3. CASE vintaged
      <4>1. PICK ds \in DatasetIds : \A d \in DatasetIds : VintageAppend(d, ds)
        BY <2>4, <3>3 DEF StoreInv, InTurn, Appending
      <4> QED
        BY <3>1, <4>1 DEF Accepts
    <3> QED
      BY <3>2, <3>3
  <2> QED
    BY <2>2, <2>3, <2>4 DEF CrashLeavesUsable
<1> QED
  BY StoreInvariant, <1>1, PTL

\* For any contents and lags: what a session answers, whatever was written or
\* crashed while it loaded, is per key the highest vintage knowable at the date
\* asked about, unless two writers were at work on one dataset (PitStore.as_of_frame, select_latest_vintages).
THEOREM SessionsAnswerExactly == Spec => []AnswersExact
<1>1. StoreInv => AnswersExact
  <2> SUFFICES ASSUME StoreInv, ~ clashed, NEW s \in Sessions, NEW e \in session[s].cache,
                      NEW asOf \in 1 .. MaxTime + Lag + 1, NEW lag \in 0 .. Lag + 1
               PROVE  AsOf(e.rows, Cutoff(asOf, lag)) = Highest(KnowableAt(e.ds, asOf, lag))
    BY DEF AnswersExact, Highest, KnowableAt
  <2>1. e.rows = e.ds /\ e.ds \in Sound
    BY DEF StoreInv, Unclashed, LoadsWhole
  <2>2. asOf \in Nat /\ lag \in Nat
    BY CanonicalAssumption
  <2>3. PICK ds \in SUBSET Row : ds = e.ds /\ WellFormed(ds)
    BY <2>1, SoundRows
  <2>4. AsOf(ds, Cutoff(asOf, lag)) = Highest(KnowableAt(ds, asOf, lag))
    BY <2>2, <2>3, AsOfExact
  <2> QED
    BY <2>1, <2>3, <2>4
<1> QED
  BY StoreInvariant, <1>1, PTL

-----------------------------------------------------------------------------
(* Runs that share a root.                                                 *)

Names == Range(RunFiles) \cup {"manifest"}

Conditions == {"none", "torn", "whole", "damaged"}

RunSteps == {"idle", "snapshot", "manifest", "dataset", "battery", "serve", "file", "filling"}

Procs == [at : RunSteps, exp : (DOMAIN Experiments) \cup {None}, n : Nat]

\* The files of an experiment are those of a run and its manifest.
FilesTyped == /\ files \in [DOMAIN Experiments -> [Names -> Conditions]]
              /\ proc \in Procs
              /\ proc.at # "idle" => proc.exp \in DOMAIN Experiments
              /\ proc.at \in {"file", "filling"} => proc.n \in 1 .. Len(RunFiles) + 1

\* The files a run at work has finished.
FilesFinished ==
  proc.at \in {"file", "filling"} =>
    \A i \in 1 .. Len(RunFiles) : i < proc.n => files[proc.exp][RunFiles[i]] = "whole"

\* The manifest is the last file, and open only in its turn.
ManifestInTurn ==
  proc.at # "idle" /\ files[proc.exp]["manifest"] # "none"
    => proc.at = "filling" /\ proc.n = Len(RunFiles) + 1

\* A run past the battery has found the datasets it will publish sound.
AuditedSound == proc.at \in {"serve", "file", "filling"} => \A d \in canon : ~ IntegrityProblems(d)

\* A manifest vouches for files that are there, unless something damaged them.
ManifestVouches ==
  \A e \in DOMAIN Experiments : files[e]["manifest"] # "none" /\ e \notin damaged
    => \A f \in Range(RunFiles) : files[e][f] = "whole"

\* A manifest is not damaged: it is there in whole, in part, or not at all.
ManifestKept == \A e \in DOMAIN Experiments : files[e]["manifest"] # "damaged"

\* A call that found the files of an earlier run unlike its manifest.
UnverifiedExplained ==
  last.what = "unverified" =>
    /\ last.exp \in DOMAIN Experiments
    /\ \/ /\ files[last.exp]["manifest"] = "torn"
          /\ proc.at # "idle" => proc.exp # last.exp
       \/ last.exp \in damaged

RunInv == /\ FilesTyped /\ FilesFinished /\ ManifestInTurn /\ AuditedSound
          /\ ManifestVouches /\ ManifestKept /\ UnverifiedExplained

LEMMA RunFilesFacts ==
  /\ Len(RunFiles) = 8
  /\ \A i \in 1 .. Len(RunFiles) : RunFiles[i] \in Range(RunFiles)
  /\ \A f \in Range(RunFiles) : \E i \in 1 .. Len(RunFiles) : f = RunFiles[i]
  /\ \A i, j \in 1 .. Len(RunFiles) : RunFiles[i] = RunFiles[j] => i = j
  /\ "manifest" \notin Range(RunFiles)
<1>1. Len(RunFiles) = 8 /\ DOMAIN RunFiles = 1 .. 8
  BY DEF RunFiles
<1>2. \A i, j \in 1 .. 8 : RunFiles[i] = RunFiles[j] => i = j
  BY DEF RunFiles
<1>3. \A i \in 1 .. 8 : RunFiles[i] # "manifest"
  BY DEF RunFiles
<1> QED
  BY <1>1, <1>2, <1>3 DEF Range

\* What a step of a run that touches no file keeps.
LEMMA FilesFrame ==
  ASSUME RunInv, UNCHANGED <<files, damaged>>,
         \/ UNCHANGED proc
         \/ proc' = NoProc
         \/ /\ proc' \in Procs /\ proc.at # "idle" /\ proc'.exp = proc.exp
            /\ proc'.at \notin {"file", "filling", "idle"} \/ (proc'.at = "file" /\ proc'.n = 1)
            /\ proc.at # "filling",
         AuditedSound',
         last' = last \/ last'.what # "unverified"
  PROVE  RunInv'
<1>1. NoProc.at = "idle" /\ NoProc \in Procs
  BY DEF NoProc, Procs, RunSteps
<1>2. FilesTyped'
  BY <1>1, RunFilesFacts DEF RunInv, FilesTyped
<1>3. FilesFinished'
  <2>1. CASE UNCHANGED proc
    BY <2>1 DEF RunInv, FilesFinished
  <2>2. CASE proc'.at = "idle"
    BY <2>2 DEF FilesFinished
  <2>3. CASE proc'.at \notin {"file", "filling", "idle"} \/ (proc'.at = "file" /\ proc'.n = 1)
    BY <2>3, RunFilesFacts DEF FilesFinished
  <2> QED
    BY <1>1, <2>1, <2>2, <2>3
<1>4. ManifestInTurn'
  BY <1>1 DEF RunInv, ManifestInTurn
<1>5. ManifestVouches' /\ ManifestKept'
  BY DEF RunInv, ManifestVouches, ManifestKept
<1>6. UnverifiedExplained'
  BY <1>1 DEF RunInv, UnverifiedExplained
<1> QED
  BY <1>2, <1>3, <1>4, <1>5, <1>6 DEF RunInv

\* The datasets stay sound while a run that has audited them is at work.
LEMMA AuditedFrame ==
  ASSUME AuditedSound, UNCHANGED canon,
         proc'.at \in {"serve", "file", "filling"} => proc.at \in {"serve", "file", "filling"}
  PROVE  AuditedSound'
  BY DEF AuditedSound

LEMMA Went ==
  ASSUME FilesTyped, NEW at \in RunSteps, NEW n \in Nat, Goto(at, n)
  PROVE  proc' \in Procs /\ proc'.at = at /\ proc'.n = n /\ proc'.exp = proc.exp
<1>1. proc \in Procs
  BY DEF FilesTyped
<1> QED
  BY <1>1 DEF Goto, Procs

LEMMA EndedRun ==
  ASSUME NEW what, EndRun(what), what # "unverified"
  PROVE  proc' = NoProc /\ last'.what # "unverified"
  BY DEF EndRun

LEMMA StartRunKeepsInv ==
  ASSUME RunInv, NEW e \in DOMAIN Experiments, StartRun(e)
  PROVE  RunInv'
<1>1. proc.at = "idle" /\ UNCHANGED <<raw, canon, files, faults, damaged>>
  BY DEF StartRun
<1>2. CASE /\ files[e]["manifest"] = "none"
           /\ proc' = [at |-> "snapshot", exp |-> e, n |-> 1]
           /\ UNCHANGED last
  <2>1. proc' \in Procs /\ proc'.at = "snapshot" /\ proc'.exp = e
    BY <1>2 DEF Procs, RunSteps
  <2>2. FilesTyped' /\ FilesFinished' /\ AuditedSound'
    BY <1>1, <2>1 DEF RunInv, FilesTyped, FilesFinished, AuditedSound
  <2>3. ManifestInTurn' /\ ManifestVouches' /\ ManifestKept'
    BY <1>1, <1>2, <2>1 DEF RunInv, ManifestInTurn, ManifestVouches, ManifestKept
  <2>4. UnverifiedExplained'
    BY <1>1, <1>2, <2>1 DEF RunInv, UnverifiedExplained
  <2> QED
    BY <2>2, <2>3, <2>4 DEF RunInv
<1>3. CASE /\ files[e]["manifest"] # "none"
           /\ last' = [exp |-> e, what |-> IF files[e]["manifest"] = "whole" /\ VerifyRun(e) = {}
                                           THEN "no-op" ELSE "unverified"]
           /\ UNCHANGED proc
  <2>1. FilesTyped' /\ FilesFinished' /\ ManifestInTurn' /\ AuditedSound' /\ ManifestVouches' /\ ManifestKept'
    BY <1>1, <1>3 DEF RunInv, FilesTyped, FilesFinished, ManifestInTurn, AuditedSound,
                      ManifestVouches, ManifestKept
  <2>2. "manifest" \in Names /\ files[e] \in [Names -> Conditions]
    BY DEF Names, RunInv, FilesTyped
  <2>3. files[e]["manifest"] \in {"torn", "whole"}
    BY <1>3, <2>2 DEF RunInv, ManifestKept, Conditions
  <2>4. VerifyRun(e) # {} => e \in damaged
    BY <1>3 DEF RunInv, ManifestVouches, VerifyRun
  <2>5. UnverifiedExplained'
    BY <1>1, <1>3, <2>3, <2>4 DEF UnverifiedExplained
  <2> QED
    BY <2>1, <2>5 DEF RunInv
<1> QED
  BY <1>2, <1>3 DEF StartRun

LEMMA StagesKeepInv ==
  ASSUME RunInv, WriteSnapshot \/ WriteManifest \/ WriteDataset \/ Battery \/ Serve
  PROVE  RunInv'
<1>1. FilesTyped /\ AuditedSound /\ proc.n \in Nat
  BY DEF RunInv, FilesTyped, Procs
<1>2. ASSUME NEW at \in {"snapshot", "manifest", "dataset", "battery"}, NEW n \in Nat, Goto(at, n),
             proc.at \in {"snapshot", "manifest", "dataset"},
             UNCHANGED <<files, damaged, last>>
      PROVE  RunInv'
  <2>1. /\ proc'.at = at /\ proc'.exp = proc.exp /\ proc' \in Procs
    BY <1>1, <1>2, Went DEF RunSteps
  <2>2. AuditedSound'
    BY <2>1 DEF AuditedSound
  <2> QED
    BY <1>2, <2>1, <2>2, FilesFrame
<1>3. ASSUME NEW what \in {"refused", "unreadable", "battery", "ambiguous"}, EndRun(what),
             UNCHANGED <<files, damaged>>
      PROVE  RunInv'
  <2>1. proc' = NoProc /\ last'.what # "unverified"
    BY <1>3, EndedRun
  <2>2. AuditedSound'
    BY <2>1 DEF AuditedSound, NoProc
  <2> QED
    BY <1>3, <2>1, <2>2, FilesFrame
<1>4. CASE WriteSnapshot
  <2>1. /\ proc.at = "snapshot" /\ UNCHANGED <<files, damaged>>
        /\ \/ Goto("dataset", 1) /\ UNCHANGED last
           \/ EndRun("refused")
           \/ Goto("manifest", proc.n) /\ UNCHANGED last
           \/ EndRun("unreadable")
           \/ Goto("snapshot", proc.n + 1) /\ UNCHANGED last
    BY <1>4 DEF WriteSnapshot
  <2>2. 1 \in Nat /\ proc.n + 1 \in Nat
    BY <1>1
  <2> QED
    BY <1>1, <1>2, <1>3, <2>1, <2>2
<1>5. CASE WriteManifest
  <2>1. /\ proc.at = "manifest" /\ UNCHANGED <<files, damaged, canon, last>>
        /\ Goto("snapshot", proc.n + 1) \/ UNCHANGED proc
    BY <1>5 DEF WriteManifest
  <2>2. proc.n + 1 \in Nat
    BY <1>1
  <2>3. CASE UNCHANGED proc
    BY <1>1, <2>1, <2>3, AuditedFrame, FilesFrame
  <2> QED
    BY <1>2, <2>1, <2>2, <2>3
<1>6. CASE WriteDataset
  <2>1. /\ proc.at = "dataset" /\ UNCHANGED <<files, damaged>>
        /\ \/ Goto("battery", 1) /\ UNCHANGED last
           \/ EndRun("refused")
           \/ Goto("dataset", proc.n + 1) /\ UNCHANGED last
    BY <1>6 DEF WriteDataset
  <2>2. 1 \in Nat /\ proc.n + 1 \in Nat
    BY <1>1
  <2> QED
    BY <1>2, <1>3, <2>1, <2>2
<1>7. CASE Battery
  <2>1. /\ proc.at = "battery" /\ UNCHANGED <<files, damaged, canon>>
        /\ \/ EndRun("battery")
           \/ Failing = {} /\ Goto("serve", 1) /\ UNCHANGED last
    BY <1>7 DEF Battery
  <2>2. Failing = {} => \A d \in canon : ~ IntegrityProblems(d)
    BY DEF Failing, RunQualityBattery, AuditAllDatasets
  <2>3. CASE Failing = {} /\ Goto("serve", 1) /\ UNCHANGED last
    <3>1. proc' \in Procs /\ proc'.at = "serve" /\ proc'.exp = proc.exp
      BY <1>1, <2>3, Went DEF RunSteps
    <3>2. AuditedSound'
      BY <2>1, <2>2, <2>3 DEF AuditedSound
    <3> QED
      BY <2>1, <2>3, <3>1, <3>2, FilesFrame
  <2> QED
    BY <1>3, <2>1, <2>3
<1>8. CASE Serve
  <2>1. /\ proc.at = "serve" /\ UNCHANGED <<files, damaged, canon>>
        /\ \/ EndRun("ambiguous")
           \/ Goto("file", 1) /\ UNCHANGED last
    BY <1>8 DEF Serve
  <2>2. CASE Goto("file", 1) /\ UNCHANGED last
    <3>1. proc' \in Procs /\ proc'.at = "file" /\ proc'.exp = proc.exp /\ proc'.n = 1
      BY <1>1, <2>2, Went DEF RunSteps
    <3>2. AuditedSound'
      BY <1>1, <2>1, AuditedFrame
    <3> QED
      BY <2>1, <2>2, <3>1, <3>2, FilesFrame
  <2> QED
    BY <1>3, <2>1, <2>2
<1> QED
  BY <1>4, <1>5, <1>6, <1>7, <1>8

LEMMA WriteFileKeepsInv == ASSUME RunInv, WriteFile PROVE RunInv'
<1> DEFINE N == Len(RunFiles)
<1>1. PICK e \in DOMAIN Experiments, name \in Names :
        /\ e = proc.exp
        /\ name = IF proc.n > N THEN "manifest" ELSE RunFiles[proc.n]
  <2>1. proc.exp \in DOMAIN Experiments /\ proc.n \in 1 .. N + 1
    BY DEF WriteFile, RunInv, FilesTyped
  <2> QED
    BY <2>1, RunFilesFacts DEF Names
<1>2. PICK state \in {"torn", "whole"} : state = IF proc.at = "filling" THEN "whole" ELSE "torn"
  OBVIOUS
<1>3. /\ proc.at \in {"file", "filling"}
      /\ files' = [files EXCEPT ![e][name] = state]
      /\ UNCHANGED <<canon, damaged>>
      /\ \/ proc.at = "file" /\ Goto("filling", proc.n) /\ UNCHANGED last
         \/ proc.at = "filling" /\ name = "manifest" /\ EndRun("done")
         \/ proc.at = "filling" /\ name # "manifest" /\ Goto("file", proc.n + 1) /\ UNCHANGED last
  BY <1>1, <1>2 DEF WriteFile
<1>4. /\ files \in [DOMAIN Experiments -> [Names -> Conditions]]
      /\ proc \in Procs /\ proc.n \in 1 .. N + 1 /\ N = 8
      /\ FilesTyped
  BY <1>3, RunFilesFacts DEF RunInv, FilesTyped
<1>5. PICK entry : entry = [files[e] EXCEPT ![name] = state]
  OBVIOUS
<1>6. /\ entry \in [Names -> Conditions] /\ entry[name] = state
      /\ \A f \in Names : f # name => entry[f] = files[e][f]
  BY <1>4, <1>5 DEF Conditions
<1>7. /\ files' \in [DOMAIN Experiments -> [Names -> Conditions]]
      /\ files'[e] = entry
      /\ \A x \in DOMAIN Experiments : x # e => files'[x] = files[x]
  <2>1. files' = [files EXCEPT ![e] = entry]
    BY <1>3, <1>5
  <2> QED
    BY <1>4, <1>6, <2>1
<1>8. /\ name = "manifest" <=> proc.n = N + 1
      /\ \A i \in 1 .. N : i < proc.n => RunFiles[i] # name
      /\ \A i \in 1 .. N : RunFiles[i] \in Names /\ RunFiles[i] # "manifest"
  BY <1>1, <1>4, RunFilesFacts DEF Names
<1>9. /\ \A i \in 1 .. N : i < proc.n => files[e][RunFiles[i]] = "whole"
      /\ files[e]["manifest"] # "none" => proc.at = "filling" /\ proc.n = N + 1
  BY <1>1, <1>3 DEF RunInv, FilesFinished, ManifestInTurn
<1>10. \A i \in 1 .. N : i < proc.n => entry[RunFiles[i]] = "whole"
  BY <1>6, <1>8, <1>9
<1>11. "manifest" \in Names
  BY DEF Names
<1>12. FilesTyped' /\ FilesFinished' /\ ManifestInTurn' /\ AuditedSound'
  <2>1. CASE proc.at = "file" /\ Goto("filling", proc.n)
    <3>1. /\ proc' \in Procs /\ proc'.at = "filling" /\ proc'.n = proc.n /\ proc'.exp = e
      BY <1>1, <1>4, <2>1, Went DEF RunSteps
    <3>2. entry["manifest"] # "none" => proc.n = N + 1
      BY <1>6, <1>8, <1>9, <1>11
    <3> QED
      BY <1>3, <1>4, <1>7, <1>10, <2>1, <3>1, <3>2
         DEF RunInv, FilesTyped, FilesFinished, ManifestInTurn, AuditedSound
  <2>2. CASE EndRun("done")
    <3>1. proc' \in Procs /\ proc'.at = "idle"
      BY <2>2 DEF EndRun, NoProc, Procs, RunSteps
    <3> QED
      BY <1>7, <3>1 DEF FilesTyped, FilesFinished, ManifestInTurn, AuditedSound
  <2>3. CASE proc.at = "filling" /\ name # "manifest" /\ Goto("file", proc.n + 1)
    <3>1. proc.n \in 1 .. N /\ name = RunFiles[proc.n] /\ proc.n + 1 \in Nat
      BY <1>1, <1>4, <1>8, <2>3
    <3>2. /\ proc' \in Procs /\ proc'.at = "file" /\ proc'.n = proc.n + 1 /\ proc'.exp = e
      BY <1>1, <1>4, <2>3, <3>1, Went DEF RunSteps
    <3>3. \A i \in 1 .. N : i < proc.n + 1 => entry[RunFiles[i]] = "whole"
      <4>1. \A i \in 1 .. N : i < proc.n + 1 => i < proc.n \/ i = proc.n
        BY <1>4
      <4>2. entry[RunFiles[proc.n]] = "whole"
        BY <1>2, <1>6, <2>3, <3>1
      <4> QED
        BY <1>10, <4>1, <4>2
    <3>4. entry["manifest"] = "none"
      BY <1>6, <1>8, <1>9, <1>11, <2>3
    <3>5. FilesTyped'
      BY <1>4, <1>7, <3>1, <3>2 DEF FilesTyped
    <3>6. FilesFinished'
      BY <1>7, <3>2, <3>3 DEF FilesFinished
    <3>7. ManifestInTurn'
      BY <1>7, <3>2, <3>4 DEF ManifestInTurn
    <3>8. AuditedSound'
      BY <1>3, <2>3 DEF RunInv, AuditedSound
    <3> QED
      BY <3>5, <3>6, <3>7, <3>8
  <2> QED
    BY <1>3, <2>1, <2>2, <2>3
<1>13. ManifestVouches'
  <2>1. ASSUME entry["manifest"] # "none", NEW f \in Range(RunFiles) PROVE entry[f] = "whole"
    <3>1. proc.n = N + 1
      BY <1>6, <1>8, <1>9, <1>11, <2>1
    <3>2. PICK i \in 1 .. N : f = RunFiles[i]
      BY RunFilesFacts
    <3> QED
      BY <1>4, <1>10, <3>1, <3>2
  <2>2. ASSUME NEW x \in DOMAIN Experiments, files'[x]["manifest"] # "none", x \notin damaged,
               NEW f \in Range(RunFiles)
        PROVE  files'[x][f] = "whole"
    <3>1. CASE x = e
      BY <1>7, <2>1, <2>2, <3>1
    <3>2. CASE x # e
      BY <1>7, <2>2, <3>2 DEF RunInv, ManifestVouches
    <3> QED
      BY <3>1, <3>2
  <2> QED
    BY <1>3, <2>2 DEF ManifestVouches
<1>14. ManifestKept'
  BY <1>2, <1>6, <1>7, <1>11 DEF RunInv, ManifestKept
<1>15. UnverifiedExplained'
  <2>1. CASE UNCHANGED last /\ proc'.exp = proc.exp
    <3>1. last.what = "unverified" /\ last.exp = e => last.exp \in damaged
      BY <1>1, <1>3 DEF RunInv, UnverifiedExplained
    <3> QED
      BY <1>1, <1>3, <1>7, <2>1, <3>1 DEF RunInv, UnverifiedExplained
  <2>2. CASE EndRun("done")
    BY <2>2 DEF EndRun, UnverifiedExplained
  <2>3. proc.n \in Nat /\ proc.n + 1 \in Nat
    BY <1>4
  <2> QED
    BY <1>3, <1>4, <2>1, <2>2, <2>3, Went DEF RunSteps
<1> QED
  BY <1>12, <1>13, <1>14, <1>15 DEF RunInv

LEMMA DieKeepsInv == ASSUME RunInv, Die PROVE RunInv'
<1>1. proc' = NoProc /\ last'.what # "unverified" /\ UNCHANGED <<files, damaged>>
  BY EndedRun DEF Die
<1>2. AuditedSound'
  BY <1>1 DEF AuditedSound, NoProc
<1> QED
  BY <1>1, <1>2, FilesFrame

LEMMA DamageKeepsInv == ASSUME RunInv, Damage PROVE RunInv'
<1>1. proc.at = "idle" /\ UNCHANGED <<proc, last>>
  BY DEF Damage
<1>2. FilesFinished' /\ ManifestInTurn' /\ AuditedSound'
  BY <1>1 DEF FilesFinished, ManifestInTurn, AuditedSound
<1>3. CASE UNCHANGED files /\ damaged \subseteq damaged'
  BY <1>1, <1>2, <1>3 DEF RunInv, FilesTyped, ManifestVouches, ManifestKept, UnverifiedExplained
<1>4. ASSUME NEW e \in DOMAIN Experiments, NEW f \in Range(RunFiles), DamageRun(e, f)
      PROVE  RunInv'
  <2>1. PICK how \in {"damaged", "none"} : files' = [files EXCEPT ![e][f] = how]
    BY <1>4 DEF DamageRun
  <2>2. damaged' = damaged \cup {e}
    BY <1>4 DEF DamageRun
  <2>3. /\ files \in [DOMAIN Experiments -> [Names -> Conditions]]
        /\ f \in Names /\ f # "manifest" /\ "manifest" \in Names /\ how \in Conditions
    BY RunFilesFacts DEF RunInv, FilesTyped, Names, Conditions
  <2>4. /\ files' \in [DOMAIN Experiments -> [Names -> Conditions]]
        /\ \A x \in DOMAIN Experiments : /\ files'[x]["manifest"] = files[x]["manifest"]
                                         /\ x # e => files'[x] = files[x]
    BY <2>1, <2>3
  <2>5. FilesTyped'
    BY <1>1, <2>4 DEF RunInv, FilesTyped
  <2>6. ManifestVouches' /\ ManifestKept' /\ UnverifiedExplained'
    BY <1>1, <2>2, <2>4 DEF RunInv, ManifestVouches, ManifestKept, UnverifiedExplained
  <2> QED
    BY <1>2, <2>5, <2>6 DEF RunInv
<1>5. \/ \E e \in DOMAIN Experiments, f \in Range(RunFiles) : DamageRun(e, f)
      \/ UNCHANGED files /\ damaged \subseteq damaged'
  BY DEF Damage, DamageSnapshot, DamageDataset
<1> QED
  BY <1>3, <1>4, <1>5

LEMMA RunsInit == Fresh => RunInv
<1> SUFFICES ASSUME Fresh PROVE RunInv
  OBVIOUS
<1>1. proc = NoProc /\ proc.at = "idle" /\ proc \in Procs
  BY DEF Fresh, NoProc, Procs, RunSteps
<1>2. files \in [DOMAIN Experiments -> [Names -> Conditions]]
  BY DEF Fresh, Names, Conditions
<1>3. \A e \in DOMAIN Experiments : files[e]["manifest"] = "none"
  BY DEF Fresh, Names
<1> QED
  BY <1>1, <1>2, <1>3 DEF Fresh, RunInv, FilesTyped, FilesFinished, ManifestInTurn, AuditedSound,
                          ManifestVouches, ManifestKept, UnverifiedExplained

LEMMA RunsStep == RunInv /\ [Step]_artifacts => RunInv'
<1> SUFFICES ASSUME RunInv, [Step]_artifacts PROVE RunInv'
  OBVIOUS
<1>1. ASSUME NEW e \in DOMAIN Experiments, StartRun(e) PROVE RunInv'
  BY <1>1, StartRunKeepsInv
<1>2. CASE WriteSnapshot \/ WriteManifest \/ WriteDataset \/ Battery \/ Serve
  BY <1>2, StagesKeepInv
<1>3. CASE WriteFile
  BY <1>3, WriteFileKeepsInv
<1>4. CASE Die \/ Damage
  BY <1>4, DieKeepsInv, DamageKeepsInv
<1>5. CASE UNCHANGED artifacts
  <2>1. UNCHANGED <<canon, files, proc, last, damaged>>
    BY <1>5 DEF artifacts
  <2>2. AuditedSound'
    BY <2>1, AuditedFrame DEF RunInv
  <2> QED
    BY <2>1, <2>2, FilesFrame
<1> QED
  BY <1>1, <1>2, <1>3, <1>4, <1>5 DEF Step

LEMMA RunsInvariant == RunsSpec => []RunInv
  BY RunsInit, RunsStep, PTL DEF RunsSpec

\* A call that does nothing found the files of the earlier run whole.
LEMMA StartsWell ==
  ASSUME NEW e \in DOMAIN Experiments, StartRun(e), last' # last, last'.what \in {"done", "no-op"}
  PROVE  /\ files'[last'.exp]["manifest"] = "whole"
         /\ \A f \in Range(RunFiles) : files'[last'.exp][f] = "whole"
         /\ last'.what # "done"
<1>1. /\ UNCHANGED files
      /\ last' = [exp |-> e, what |-> IF files[e]["manifest"] = "whole" /\ VerifyRun(e) = {}
                                      THEN "no-op" ELSE "unverified"]
  BY DEF StartRun
<1>2. last'.exp = e /\ files[e]["manifest"] = "whole" /\ VerifyRun(e) = {} /\ last'.what = "no-op"
  BY <1>1
<1> QED
  BY <1>1, <1>2 DEF VerifyRun

\* No step but those of StartRun and WriteFile ends a call well.
LEMMA OthersEndIll ==
  ASSUME last' # last, last'.what \in {"done", "no-op"}
  PROVE  ~ (WriteSnapshot \/ WriteManifest \/ WriteDataset \/ Battery \/ Serve \/ Die \/ Damage)
<1>1. ~ EndRun("refused") /\ ~ EndRun("unreadable") /\ ~ EndRun("battery") /\ ~ EndRun("ambiguous") /\ ~ EndRun("died")
  BY DEF EndRun
<1>2. ~ WriteSnapshot
  BY <1>1 DEF WriteSnapshot
<1>3. ~ WriteManifest
  BY DEF WriteManifest
<1>4. ~ WriteDataset
  BY <1>1 DEF WriteDataset
<1>5. ~ Battery /\ ~ Serve
  BY <1>1 DEF Battery, Serve
<1>6. ~ Die /\ ~ Damage
  BY <1>1 DEF Die, Damage
<1> QED
  BY <1>2, <1>3, <1>4, <1>5, <1>6

\* A run that ends by writing its manifest leaves every file whole.
LEMMA RunCompletes ==
  ASSUME RunInv, WriteFile, last' # last, last'.what \in {"done", "no-op"}
  PROVE  /\ files'[last'.exp]["manifest"] = "whole"
         /\ \A f \in Range(RunFiles) : files'[last'.exp][f] = "whole"
         /\ \A d \in canon' : ~ IntegrityProblems(d)
<1>1. /\ files \in [DOMAIN Experiments -> [Names -> Conditions]]
      /\ proc.at \in {"file", "filling"} => proc.exp \in DOMAIN Experiments /\ proc.n \in 1 .. Len(RunFiles) + 1
  BY DEF RunInv, FilesTyped
<1>2. proc.at \in {"file", "filling"} /\ UNCHANGED canon
  BY DEF WriteFile
<1>3. PICK e \in DOMAIN Experiments : e = proc.exp
  BY <1>1, <1>2
<1> DEFINE name == IF proc.n > Len(RunFiles) THEN "manifest" ELSE RunFiles[proc.n]
<1>4. proc.at = "filling" /\ name = "manifest" /\ EndRun("done")
  BY DEF WriteFile
<1>5. files' = [files EXCEPT ![e]["manifest"] = "whole"]
  BY <1>3, <1>4 DEF WriteFile
<1>6. last'.exp = e
  BY <1>3, <1>4 DEF EndRun
<1>7. proc.n = Len(RunFiles) + 1
  BY <1>1, <1>4, RunFilesFacts
<1>8. \A i \in 1 .. Len(RunFiles) : i < proc.n
  BY <1>7, RunFilesFacts
<1>9. \A i \in 1 .. Len(RunFiles) : files[e][RunFiles[i]] = "whole"
  BY <1>3, <1>4, <1>8 DEF RunInv, FilesFinished
<1>10. \A f \in Range(RunFiles) : files[e][f] = "whole" /\ f # "manifest" /\ f \in Names
  BY <1>9, RunFilesFacts DEF Names
<1>11. /\ files'[e]["manifest"] = "whole"
       /\ \A f \in Names : f # "manifest" => files'[e][f] = files[e][f]
  BY <1>1, <1>5 DEF Names
<1>12. \A d \in canon : ~ IntegrityProblems(d)
  BY <1>4 DEF RunInv, AuditedSound
<1> QED
  BY <1>2, <1>6, <1>10, <1>11, <1>12

\* For any worlds, experiments and settings: a call that ends well, by running
\* or because it had run, leaves a manifest and every file it vouches for,
\* whatever died or was damaged before, and a run never publishes over a
\* dataset with an integrity problem (run_experiment, _persist).
THEOREM RunsEndWhole == RunsSpec => SuccessIsWhole
<1> DEFINE Whole == last' # last /\ last'.what \in {"done", "no-op"}
                      => /\ files'[last'.exp]["manifest"] = "whole"
                         /\ \A f \in Range(RunFiles) : files'[last'.exp][f] = "whole"
                         /\ last'.what = "done" => \A d \in canon' : ~ IntegrityProblems(d)
<1>1. ASSUME RunInv, Step PROVE Whole
  <2>1. SUFFICES ASSUME last' # last, last'.what \in {"done", "no-op"}
                 PROVE  /\ files'[last'.exp]["manifest"] = "whole"
                        /\ \A f \in Range(RunFiles) : files'[last'.exp][f] = "whole"
                        /\ last'.what = "done" => \A d \in canon' : ~ IntegrityProblems(d)
    OBVIOUS
  <2>2. ASSUME NEW e \in DOMAIN Experiments, StartRun(e)
        PROVE  /\ files'[last'.exp]["manifest"] = "whole"
               /\ \A f \in Range(RunFiles) : files'[last'.exp][f] = "whole"
               /\ last'.what # "done"
    BY <2>1, <2>2, StartsWell
  <2>3. ~ (WriteSnapshot \/ WriteManifest \/ WriteDataset \/ Battery \/ Serve \/ Die \/ Damage)
    BY <2>1, OthersEndIll
  <2>4. ASSUME WriteFile
        PROVE  /\ files'[last'.exp]["manifest"] = "whole"
               /\ \A f \in Range(RunFiles) : files'[last'.exp][f] = "whole"
               /\ \A d \in canon' : ~ IntegrityProblems(d)
    BY <1>1, <2>1, <2>4, RunCompletes
  <2> QED
    BY <1>1, <2>2, <2>3, <2>4 DEF Step
<1>2. RunInv /\ [Step]_artifacts => [Whole]_artifacts
  BY <1>1
<1> QED
  BY RunsInvariant, <1>2, PTL DEF RunsSpec, SuccessIsWhole

\* For any worlds, experiments and settings: a call finds an earlier run unlike
\* its manifest only if a death tore the manifest or a file was damaged since
\* (run_experiment, verify_run).
THEOREM UnverifiedHasCause ==
  RunsSpec => [](last.what = "unverified" => files[last.exp]["manifest"] = "torn" \/ last.exp \in damaged)
<1>1. RunInv => (last.what = "unverified" => files[last.exp]["manifest"] = "torn" \/ last.exp \in damaged)
  BY DEF RunInv, UnverifiedExplained
<1> QED
  BY RunsInvariant, <1>1, PTL

-----------------------------------------------------------------------------
(* Figures that are delivered again and again.                                *)

\* Every set of natural numbers that is not empty has a least element.
LEMMA LeastNat ==
  ASSUME NEW T \in SUBSET Nat, T # {}
  PROVE  \E x \in T : \A y \in T : x <= y
<1> DEFINE Below == OpToRel(<, Nat)
<1>1. IsWellFoundedOn(Below, Nat)
  BY NatLessThanWellFounded
<1>2. \A x, y \in Nat : y < x => <<y, x>> \in Below
  BY DEF OpToRel
<1> HIDE DEF Below
<1>3. PICK x \in T : \A y \in T : <<y, x>> \notin Below
  BY <1>1, WFMin
<1>4. ASSUME NEW y \in T PROVE x <= y
  <2>1. x \in Nat /\ y \in Nat
    OBVIOUS
  <2>2. ~ (y < x)
    BY <1>2, <1>3, <2>1
  <2>3. QED
    BY <2>1, <2>2
<1>5. QED
  BY <1>4

\* A set of places has a last one.
LEMMA MaxIn ==
  ASSUME NEW n \in Nat, NEW T \in SUBSET (1 .. n), T # {}
  PROVE  Max(T) \in T /\ \A x \in T : x <= Max(T)
<1> DEFINE U == {m \in Nat : \A x \in T : x <= m}
<1>1. U \in SUBSET Nat /\ U # {}
  <2>1. n \in U
    OBVIOUS
  <2> QED
    BY <2>1
<1>2. PICK m \in U : \A y \in U : m <= y
  <2> HIDE DEF U
  <2> QED
    BY <1>1, LeastNat
<1>3. m \in T
  <2> SUFFICES ASSUME m \notin T PROVE FALSE
    OBVIOUS
  <2>0. PICK x \in T : x \in 1 .. n
    OBVIOUS
  <2>1. m \in Nat /\ x <= m
    OBVIOUS
  <2>2. m > 0 /\ \A y \in T : y <= m - 1
    <3>1. \A y \in T : y \in Int /\ y <= m /\ y # m
      OBVIOUS
    <3> QED
      BY <2>0, <2>1, <3>1
  <2>3. m - 1 \in U
    BY <2>1, <2>2
  <2> QED
    BY <1>2, <2>1, <2>3
<1>4. \E x \in T : \A y \in T : x >= y
  BY <1>3
<1>5. Max(T) \in T /\ \A y \in T : Max(T) >= y
  BY <1>4 DEF Max
<1> QED
  BY <1>5

\* Max and Min of one number.
LEMMA MaxOfOne == \A x \in Int : Max({x}) = x
  BY DEF Max

FigureKey(table) ==
  IF table = "fundamentals" THEN <<Ids[1].id, "EPS">> \o <<1>> ELSE <<Ids[1].id, "EPS">> \o <<1, "mean">>

Unassembled(rows) == [error |-> "none", rows |-> rows, seen |-> {}]

\* Assembling one candidate.
LEMMA AssembleOne ==
  ASSUME NEW rows, NEW candidates, DOMAIN candidates = {1}
  PROVE  AssembleVintages(rows, candidates) = Assembled(Unassembled(rows), candidates[1])
<1> DEFINE base == Unassembled(rows)
           Goes(g) == g = [s \in SUBSET {1} |-> IF s = {} THEN base
                                                ELSE Assembled(g[s \ {Max(s)}], candidates[Max(s)])]
           iter == CHOOSE g : Goes(g)
<1>1. AssembleVintages(rows, candidates) = iter[{1}]
  BY DEF AssembleVintages, FoldLeft, MapThenFoldSet, Unassembled
<1>2. Max({1}) = 1
  BY MaxOfOne
<1>3. SUBSET {1} = {{}, {1}}
  OBVIOUS
<1>4. Goes([s \in SUBSET {1} |-> IF s = {} THEN base ELSE Assembled(base, candidates[1])])
  <2> DEFINE g == [s \in SUBSET {1} |-> IF s = {} THEN base ELSE Assembled(base, candidates[1])]
  <2>1. \A s \in SUBSET {1} : s # {} => s = {1} /\ s \ {Max(s)} = {}
    BY <1>2, <1>3
  <2>2. g[{}] = base
    OBVIOUS
  <2>3. \A s \in SUBSET {1} : g[s] = IF s = {} THEN base ELSE Assembled(g[s \ {Max(s)}], candidates[Max(s)])
    BY <1>2, <2>1, <2>2
  <2>4. g = [s \in SUBSET {1} |-> g[s]]
    OBVIOUS
  <2> HIDE DEF g, base
  <2>5. g = [s \in SUBSET {1} |-> IF s = {} THEN base ELSE Assembled(g[s \ {Max(s)}], candidates[Max(s)])]
    BY <2>3, <2>4
  <2> QED
    BY <2>5 DEF g
<1>5. Goes(iter)
  <2> HIDE DEF Goes
  <2> QED
    BY <1>4
<1>6. \A s \in SUBSET {1} : iter[s] = IF s = {} THEN base ELSE Assembled(iter[s \ {Max(s)}], candidates[Max(s)])
  <2> HIDE DEF iter, base
  <2> QED
    BY <1>5
<1> HIDE DEF iter, base
<1>7. iter[{}] = base
  BY <1>6
<1>8. iter[{1}] = Assembled(iter[{1} \ {1}], candidates[1])
  BY <1>2, <1>6
<1>9. {1} \ {1} = {}
  OBVIOUS
<1> QED
  BY <1>1, <1>7, <1>8, <1>9 DEF base

\* A row that is stamped is stamped as its provider and the run say.
LEMMA StampIs ==
  ASSUME NEW family, NEW cap, NEW config, NEW retrieval, NEW day, NEW told, cap.available,
         StampObservation(family, cap, config, retrieval, day, told).error = "none"
  PROVE  /\ cap.pit => StampObservation(family, cap, config, retrieval, day, told).known = told
         /\ ~ cap.pit /\ family \in config.lagRule =>
              /\ day # None
              /\ StampObservation(family, cap, config, retrieval, day, told).known
                   = LagRuleTime(day, config.lags[family])
         /\ ~ cap.pit /\ family \notin config.lagRule =>
              StampObservation(family, cap, config, retrieval, day, told).known = retrieval
<1>1. \A why \in {"unavailable", "no knowledge time", "no event date"} : Unstamped(why).error # "none"
  BY DEF Unstamped
<1>2. \A known, basis : Stamp(known, basis).known = known
  BY DEF Stamp
<1>3. CASE cap.pit
  BY <1>1, <1>2, <1>3 DEF StampObservation
<1>4. CASE ~ cap.pit /\ family \in config.lagRule
  BY <1>1, <1>2, <1>4 DEF StampObservation
<1>5. CASE ~ cap.pit /\ family \notin config.lagRule
  BY <1>1, <1>2, <1>5 DEF StampObservation
<1> QED
  BY <1>3, <1>4, <1>5

\* What a delivery of a figure comes to: nothing, or its assembly.
LEMMA DeliverOne ==
  ASSUME NEW table \in {"fundamentals", "estimates"}, NEW rows, NEW drop, NEW cap, cap.available, NEW config
  PROVE  LET built == Assembled(Unassembled(rows),
                                [key |-> FigureKey(table), value |-> drop.value,
                                 known |-> Stamped(table, drop, cap, config)])
         IN \/ Deliver(table, rows, drop, cap, config) = rows
            \/ built.error = "none" /\ Deliver(table, rows, drop, cap, config) = built.rows
<1> DEFINE figure == Figure(table, drop, IF cap.pit THEN drop.at ELSE None)
           batch == <<figure>>
           ctx == Ctx(cap, config, drop.at)
           c == [key |-> FigureKey(table), value |-> drop.value, known |-> Stamped(table, drop, cap, config)]
           stamp == Observed(ctx, table, figure, IF table = "fundamentals" THEN figure.end ELSE None)
           given(b) == IF b.error = "none" THEN b.rows ELSE rows
           pieces == IF table = "fundamentals" THEN <<1>> ELSE <<1, "mean">>
           stamps == [i \in DOMAIN batch |-> stamp]
           figures == [i \in DOMAIN batch |-> pieces]
           candidates == [i \in DOMAIN batch |->
              [key |-> <<Ids[NormKey(batch[i].ticker)].id, batch[i].metric>> \o figures[i], value |-> batch[i].value,
               known |-> stamps[i].known]]
<1>1. DOMAIN batch = {1} /\ batch[1] = figure
  OBVIOUS
<1>2. /\ figure.ticker = Ticker(1) /\ figure.metric = "EPS" /\ figure.value = drop.value
      /\ figure.known = IF cap.pit THEN drop.at ELSE None
      /\ table = "fundamentals" => figure.end = 1 /\ figure.period = <<"fiscal", 1>>
      /\ table = "estimates" => figure.period = 1 /\ figure.stat = None
  BY DEF Figure
<1>3. ctx.cap = cap /\ ctx.config = config /\ ctx.retrieval = drop.at
  BY DEF Ctx
<1>4. stamp.error = "none" => stamp.known = Stamped(table, drop, cap, config)
  <2>1. stamp = StampObservation(table, cap, config, drop.at, IF table = "fundamentals" THEN figure.end ELSE None,
                                 figure.known)
    BY <1>3 DEF Observed
  <2> DEFINE day == IF table = "fundamentals" THEN figure.end ELSE None
  <2>2. table = "fundamentals" => day = 1
    BY <1>2
  <2>3. table = "estimates" => day = None
    OBVIOUS
  <2>4. cap.pit => figure.known = drop.at
    BY <1>2
  <2> HIDE DEF stamp, figure, day
  <2>5. SUFFICES ASSUME stamp.error = "none" PROVE stamp.known = Stamped(table, drop, cap, config)
    OBVIOUS
  <2>6. /\ cap.pit => stamp.known = figure.known
        /\ ~ cap.pit /\ table \in config.lagRule => day # None /\ stamp.known = LagRuleTime(day, config.lags[table])
        /\ ~ cap.pit /\ table \notin config.lagRule => stamp.known = drop.at
    <3>1. stamp = StampObservation(table, cap, config, drop.at, day, figure.known)
      BY <2>1 DEF day
    <3> QED
      BY <2>5, <3>1, StampIs
  <2> QED
    BY <2>2, <2>3, <2>4, <2>6 DEF Stamped
<1>5. Deliver(table, rows, drop, cap, config) = given(Vintages(rows, batch, Ids, stamps, figures))
  <2>1. CASE table = "fundamentals"
    <3>1. \A i \in DOMAIN batch : <<NormalizePeriod(batch[i])>> = figures[i]
      BY <1>1, <1>2, <2>1 DEF NormalizePeriod
    <3>2. [i \in DOMAIN batch |-> <<NormalizePeriod(batch[i])>>] = figures
      BY <3>1
    <3>3. [i \in DOMAIN batch |-> Observed(ctx, "fundamentals", batch[i], batch[i].end)] = stamps
      BY <1>1, <2>1
    <3>4. Deliver(table, rows, drop, cap, config) = given(BuildFundamentals(batch, Ids, ctx, rows))
      BY <2>1 DEF Deliver
    <3>5. BuildFundamentals(batch, Ids, ctx, rows) = Vintages(rows, batch, Ids, stamps, figures)
      BY <3>2, <3>3 DEF BuildFundamentals
    <3> QED
      BY <3>4, <3>5
  <2>2. CASE table = "estimates"
    <3>1. \A i \in DOMAIN batch : <<batch[i].period, IF batch[i].stat = None THEN "mean" ELSE batch[i].stat>> = figures[i]
      BY <1>1, <1>2, <2>2
    <3>2. [i \in DOMAIN batch |-> <<batch[i].period, IF batch[i].stat = None THEN "mean" ELSE batch[i].stat>>] = figures
      BY <3>1
    <3>3. [i \in DOMAIN batch |-> Observed(ctx, "estimates", batch[i], None)] = stamps
      BY <1>1, <2>2
    <3>4. Deliver(table, rows, drop, cap, config) = given(BuildEstimatesConsensus(batch, Ids, ctx, rows, "mean"))
      BY <2>2 DEF Deliver
    <3>5. BuildEstimatesConsensus(batch, Ids, ctx, rows, "mean") = Vintages(rows, batch, Ids, stamps, figures)
      BY <3>2, <3>3 DEF BuildEstimatesConsensus
    <3> QED
      BY <3>4, <3>5
  <2> QED
    BY <2>1, <2>2
<1>6. \/ given(Vintages(rows, batch, Ids, stamps, figures)) = rows
      \/ /\ stamp.error = "none"
         /\ Vintages(rows, batch, Ids, stamps, figures) = AssembleVintages(rows, candidates)
  <2>1. \A i \in DOMAIN batch : stamps[i] = stamp
    OBVIOUS
  <2> HIDE DEF batch, stamps, figures, stamp
  <2>2. \/ Vintages(rows, batch, Ids, stamps, figures) = Refuse("empty")
        \/ Vintages(rows, batch, Ids, stamps, figures) = Refuse("no id")
        \/ Vintages(rows, batch, Ids, stamps, figures) = Refuse("stamp")
        \/ /\ \A i \in DOMAIN batch : stamps[i].error = "none"
           /\ Vintages(rows, batch, Ids, stamps, figures) = AssembleVintages(rows, candidates)
    BY DEF Vintages
  <2>3. given(Refuse("empty")) = rows /\ given(Refuse("no id")) = rows /\ given(Refuse("stamp")) = rows
    BY DEF Refuse
  <2> QED
    BY <1>1, <2>1, <2>2, <2>3
<1>7. stamp.error = "none" => candidates[1] = c
  <2>1. NormKey(batch[1].ticker) = 1
    BY <1>1, <1>2 DEF NormKey, Ticker
  <2>2. stamps[1] = stamp /\ figures[1] = pieces
    BY <1>1
  <2>3. FigureKey(table) = <<Ids[1].id, "EPS">> \o pieces
    BY DEF FigureKey
  <2>4. candidates[1] = [key |-> <<Ids[NormKey(batch[1].ticker)].id, batch[1].metric>> \o figures[1],
                         value |-> batch[1].value, known |-> stamps[1].known]
    BY <1>1
  <2> HIDE DEF batch, stamps, figures, pieces, stamp, figure
  <2> QED
    BY <1>1, <1>2, <1>4, <2>1, <2>2, <2>3, <2>4
<1>8. DOMAIN candidates = {1}
  BY <1>1
<1> HIDE DEF candidates, batch, stamps, figures, stamp, c
<1>9. AssembleVintages(rows, candidates) = Assembled(Unassembled(rows), candidates[1])
  BY <1>8, AssembleOne
<1> QED
  BY <1>5, <1>6, <1>7, <1>9 DEF c

\* The inductive invariant: what the rows are, out of the deliveries that were
\* added.  That their vintages are in the order of their times is why the row of
\* the highest vintage is the one of the last delivery.
FigureRows(table) == [key : {FigureKey(table)}, value : FigureValues, known : Int, vintage : Nat]
Says(r, s) == r.value = s.value /\ r.known = s.known

DeliveriesTyped(q) ==
  /\ q.table \in {"fundamentals", "estimates"} /\ q.cap.available
  /\ q.config.lagRule \subseteq DOMAIN q.config.lags
  /\ \A t \in DOMAIN q.config.lags : q.config.lags[t] \in Int
  /\ q.served \in Seq([value : FigureValues, known : Int])
  /\ q.after \in Seq(SUBSET FigureRows(q.table))
  /\ Len(q.after) = Len(q.served) + 1
RowsServed(q) ==
  /\ \A r \in RowsOf(q) : \E n \in AddedIn(q) : Says(r, q.served[n])
  /\ \A n \in AddedIn(q) : \E r \in RowsOf(q) : Says(r, q.served[n])
ServedRises(q) == \A m, n \in AddedIn(q) : m < n => q.served[m].known < q.served[n].known
RowsRise(q) ==
  \A r, s \in RowsOf(q) : (r.known < s.known <=> r.vintage < s.vintage) /\ (r.known = s.known => r = s)
Deliveries(q) == /\ DeliveriesTyped(q) /\ RowsStay(q) /\ RowsServed(q) /\ ServedRises(q) /\ RowsRise(q) /\ Restated(q)

\* One delivery more: the numbers of what was there before stay.
LEMMA OneMore ==
  ASSUME NEW q, DeliveriesTyped(q), NEW p, NEW entry \in [value : FigureValues, known : Int],
         NEW rows \in SUBSET FigureRows(q.table),
         p.served = Append(q.served, entry), p.after = Append(q.after, rows)
  PROVE  LET l == Len(q.served)
         IN  /\ l \in Nat /\ DOMAIN q.served = 1 .. l /\ DOMAIN p.served = 1 .. l + 1
             /\ Len(p.served) = l + 1 /\ Len(p.after) = l + 2
             /\ \A n \in 1 .. l : p.served[n] = q.served[n]
             /\ \A n \in 1 .. l + 1 : p.after[n] = q.after[n]
             /\ p.served[l + 1] = entry /\ p.after[l + 2] = rows /\ RowsOf(p) = rows
             /\ RowsOf(q) = q.after[l + 1]
             /\ p.served \in Seq([value : FigureValues, known : Int])
             /\ p.after \in Seq(SUBSET FigureRows(q.table))
<1> DEFINE l == Len(q.served)
<1>1. /\ q.served \in Seq([value : FigureValues, known : Int]) /\ q.after \in Seq(SUBSET FigureRows(q.table))
      /\ Len(q.after) = l + 1
  BY DEF DeliveriesTyped
<1>2. l \in Nat /\ DOMAIN q.served = 1 .. l /\ Len(q.served) = l
  BY <1>1
<1> HIDE DEF l
<1>3. /\ DOMAIN p.served = 1 .. l + 1 /\ Len(p.served) = l + 1 /\ p.served[l + 1] = entry
      /\ \A n \in 1 .. l : p.served[n] = q.served[n]
      /\ p.served \in Seq([value : FigureValues, known : Int])
  BY <1>1, <1>2
<1>4. /\ Len(p.after) = l + 2 /\ p.after[l + 2] = rows
      /\ \A n \in 1 .. l + 1 : p.after[n] = q.after[n]
      /\ p.after \in Seq(SUBSET FigureRows(q.table))
  BY <1>1, <1>2
<1> QED
  BY <1>1, <1>2, <1>3, <1>4 DEF l, RowsOf

\* A delivery that adds nothing changes no answer.
LEMMA RepeatKept ==
  ASSUME NEW q, Deliveries(q), NEW p, NEW entry \in [value : FigureValues, known : Int],
         p.table = q.table, p.cap = q.cap, p.config = q.config,
         p.served = Append(q.served, entry), p.after = Append(q.after, RowsOf(q))
  PROVE  Deliveries(p)
<1> DEFINE l == Len(q.served)
<1>0. DeliveriesTyped(q)
  BY DEF Deliveries
<1>1. RowsOf(q) \in SUBSET FigureRows(q.table)
  BY <1>0 DEF DeliveriesTyped, RowsOf
<1>2. /\ l \in Nat /\ DOMAIN q.served = 1 .. l /\ DOMAIN p.served = 1 .. l + 1
      /\ Len(p.served) = l + 1 /\ Len(p.after) = l + 2
      /\ \A n \in 1 .. l : p.served[n] = q.served[n]
      /\ \A n \in 1 .. l + 1 : p.after[n] = q.after[n]
      /\ p.served[l + 1] = entry /\ p.after[l + 2] = RowsOf(q) /\ RowsOf(p) = RowsOf(q)
      /\ RowsOf(q) = q.after[l + 1]
      /\ p.served \in Seq([value : FigureValues, known : Int])
      /\ p.after \in Seq(SUBSET FigureRows(q.table))
  BY <1>0, <1>1, OneMore
<1> HIDE DEF l
<1>3. AddedIn(p) = AddedIn(q)
  <2>1. \A n \in 1 .. l : p.after[n + 1] = q.after[n + 1] /\ p.after[n] = q.after[n]
    BY <1>2
  <2>2. p.after[(l + 1) + 1] = p.after[l + 1]
    BY <1>2
  <2>3. \A n \in 1 .. l + 1 : n \in 1 .. l \/ n = l + 1
    BY <1>2
  <2>4. \A n \in 1 .. l : n \in 1 .. l + 1
    BY <1>2
  <2> QED
    BY <1>2, <2>1, <2>2, <2>3, <2>4 DEF AddedIn
<1>4. \A n \in AddedIn(q) : n \in 1 .. l /\ p.served[n] = q.served[n]
  BY <1>2 DEF AddedIn
<1>5. DeliveriesTyped(p)
  BY <1>0, <1>2 DEF DeliveriesTyped
<1>6. RowsStay(p)
  <2> SUFFICES ASSUME NEW n \in 1 .. l + 1 PROVE p.after[n] \subseteq p.after[n + 1]
    BY <1>2 DEF RowsStay
  <2>1. CASE n = l + 1
    BY <1>2, <2>1
  <2>2. CASE n \in 1 .. l
    <3>1. q.after[n] \subseteq q.after[n + 1]
      BY <1>2, <2>2 DEF Deliveries, RowsStay
    <3>2. p.after[n] = q.after[n] /\ p.after[n + 1] = q.after[n + 1]
      BY <1>2, <2>2
    <3> QED
      BY <3>1, <3>2
  <2> QED
    BY <1>2, <2>1, <2>2
<1>7. RowsServed(p)
  BY <1>2, <1>3, <1>4 DEF Deliveries, RowsServed
<1>8. ServedRises(p)
  BY <1>3, <1>4 DEF Deliveries, ServedRises
<1>9. RowsRise(p)
  BY <1>2 DEF Deliveries, RowsRise
<1>10. Restated(p)
  BY <1>3, <1>4 DEF Deliveries, Restated
<1> QED
  BY <1>5, <1>6, <1>7, <1>8, <1>9, <1>10 DEF Deliveries

\* What the numbers and the rows of the deliveries are.
LEMMA DeliveryFacts ==
  ASSUME NEW q, DeliveriesTyped(q)
  PROVE  /\ Len(q.served) \in Nat /\ DOMAIN q.served = 1 .. Len(q.served)
         /\ AddedIn(q) \in SUBSET (1 .. Len(q.served))
         /\ \A n \in 1 .. Len(q.served) : q.served[n].value \in FigureValues /\ q.served[n].known \in Int
         /\ RowsOf(q) \in SUBSET FigureRows(q.table)
         /\ \A r \in RowsOf(q) : /\ r.key = FigureKey(q.table) /\ r.value \in FigureValues
                                 /\ r.known \in Int /\ r.vintage \in Nat
<1>1. Len(q.served) \in Nat /\ DOMAIN q.served = 1 .. Len(q.served)
  BY DEF DeliveriesTyped
<1>2. \A n \in 1 .. Len(q.served) : q.served[n].value \in FigureValues /\ q.served[n].known \in Int
  <2>1. q.served \in Seq([value : FigureValues, known : Int])
    BY DEF DeliveriesTyped
  <2>2. ASSUME NEW S, NEW f \in Seq(S) PROVE \A n \in 1 .. Len(f) : f[n] \in S
    OBVIOUS
  <2>3. \A n \in 1 .. Len(q.served) : q.served[n] \in [value : FigureValues, known : Int]
    BY <2>1, <2>2
  <2> QED
    BY <2>3
<1>3. AddedIn(q) \in SUBSET (1 .. Len(q.served))
  BY <1>1 DEF AddedIn
<1>4. RowsOf(q) \in SUBSET FigureRows(q.table)
  BY <1>1 DEF DeliveriesTyped, RowsOf
<1>5. \A r \in FigureRows(q.table) : /\ r.key = FigureKey(q.table) /\ r.value \in FigureValues
                                     /\ r.known \in Int /\ r.vintage \in Nat
  BY DEF FigureRows
<1> QED
  BY <1>1, <1>2, <1>3, <1>4, <1>5

\* The last of some added deliveries has the row known last, and of the highest
\* vintage, of theirs.
LEMMA LastOf ==
  ASSUME NEW q, Deliveries(q), NEW by \in SUBSET AddedIn(q), by # {}
  PROVE  /\ Max(by) \in by /\ \A n \in by : n <= Max(by)
         /\ \E r \in RowsOf(q) :
              /\ Says(r, q.served[Max(by)])
              /\ \A s \in RowsOf(q) : (\E n \in by : Says(s, q.served[n])) =>
                   s.known <= r.known /\ s.vintage <= r.vintage
<1> DEFINE l == Len(q.served)
           M == Max(by)
<1>0. DeliveriesTyped(q)
  BY DEF Deliveries
<1>1. l \in Nat /\ AddedIn(q) \in SUBSET (1 .. l)
      /\ (\A n \in 1 .. l : q.served[n].known \in Int)
      /\ \A r \in RowsOf(q) : r.known \in Int /\ r.vintage \in Nat
  BY <1>0, DeliveryFacts
<1> HIDE DEF l
<1>2. M \in by /\ \A n \in by : n <= M
  BY <1>1, MaxIn
<1> HIDE DEF M
<1>3. PICK r \in RowsOf(q) : Says(r, q.served[M])
  BY <1>2 DEF Deliveries, RowsServed
<1>4. ASSUME NEW s \in RowsOf(q), NEW n \in by, Says(s, q.served[n])
      PROVE  s.known <= r.known /\ s.vintage <= r.vintage
  <2>1. n <= M /\ n \in 1 .. l /\ M \in 1 .. l /\ n \in AddedIn(q) /\ M \in AddedIn(q)
    BY <1>1, <1>2
  <2>2. n < M => q.served[n].known < q.served[M].known
    BY <2>1 DEF Deliveries, ServedRises
  <2>3. n < M \/ n = M
    BY <1>1, <2>1
  <2>4. q.served[n].known <= q.served[M].known
    BY <1>1, <2>1, <2>2, <2>3
  <2>5. s.known <= r.known
    BY <1>3, <1>4, <2>4 DEF Says
  <2>6. (s.known < r.known => s.vintage < r.vintage) /\ (s.known = r.known => s = r)
    BY DEF Deliveries, RowsRise
  <2> QED
    BY <1>1, <2>5, <2>6
<1> QED
  BY <1>2, <1>3, <1>4 DEF M

\* A delivery that is added becomes the row after the last one.
Follows(q, entry, n) ==
  \/ RowsOf(q) = {} /\ n = 0
  \/ \E top \in RowsOf(q) :
       /\ \A r \in RowsOf(q) : r.vintage <= top.vintage
       /\ top.value # entry.value /\ entry.known > top.known /\ n = top.vintage + 1
RowOf(table, entry, n) == [key |-> FigureKey(table), value |-> entry.value, known |-> entry.known, vintage |-> n]

LEMMA AddedKept ==
  ASSUME NEW q, Deliveries(q), NEW p, NEW entry \in [value : FigureValues, known : Int],
         NEW n \in Nat, Follows(q, entry, n),
         p.table = q.table, p.cap = q.cap, p.config = q.config, p.served = Append(q.served, entry),
         p.after = Append(q.after, RowsOf(q) \cup {RowOf(q.table, entry, n)})
  PROVE  Deliveries(p)
<1> DEFINE l == Len(q.served)
           new == RowOf(q.table, entry, n)
           rows == RowsOf(q) \cup {new}
<1>0. DeliveriesTyped(q)
  BY DEF Deliveries
<1>1. /\ new \in FigureRows(q.table) /\ new.value = entry.value /\ new.known = entry.known /\ new.vintage = n
      /\ entry.known \in Int
  BY DEF RowOf, FigureRows
<1>2. /\ RowsOf(q) \in SUBSET FigureRows(q.table) /\ AddedIn(q) \in SUBSET (1 .. l)
      /\ (\A m \in 1 .. l : q.served[m].known \in Int)
      /\ \A r \in RowsOf(q) : r.known \in Int /\ r.vintage \in Nat
  BY <1>0, DeliveryFacts
<1> HIDE DEF new
<1>3. /\ l \in Nat /\ DOMAIN q.served = 1 .. l /\ DOMAIN p.served = 1 .. l + 1
      /\ Len(p.served) = l + 1 /\ Len(p.after) = l + 2
      /\ \A m \in 1 .. l : p.served[m] = q.served[m]
      /\ \A m \in 1 .. l + 1 : p.after[m] = q.after[m]
      /\ p.served[l + 1] = entry /\ p.after[l + 2] = rows /\ RowsOf(p) = rows
      /\ RowsOf(q) = q.after[l + 1]
      /\ p.served \in Seq([value : FigureValues, known : Int])
      /\ p.after \in Seq(SUBSET FigureRows(q.table))
  <2>1. rows \in SUBSET FigureRows(q.table) /\ p.after = Append(q.after, rows)
    BY <1>1, <1>2 DEF new
  <2> HIDE DEF rows
  <2> QED
    BY <1>0, <2>1, OneMore
<1> HIDE DEF l
\* It is known after every row, and of a higher vintage.
<1>4. \A r \in RowsOf(q) : r.known < entry.known /\ r.vintage < n
  <2>1. CASE RowsOf(q) = {}
    BY <2>1
  <2>2. CASE RowsOf(q) # {}
    <3>1. PICK top \in RowsOf(q) : /\ \A r \in RowsOf(q) : r.vintage <= top.vintage
                                    /\ entry.known > top.known /\ n = top.vintage + 1
      BY <2>2 DEF Follows
    <3>2. ASSUME NEW r \in RowsOf(q) PROVE r.known <= top.known /\ r.vintage <= top.vintage
      <4>1. (top.known < r.known => top.vintage < r.vintage) /\ r.vintage <= top.vintage
        BY <3>1 DEF Deliveries, RowsRise
      <4> QED
        BY <1>2, <4>1
    <3>3. ASSUME NEW r \in RowsOf(q) PROVE r.known < entry.known /\ r.vintage < n
      BY <1>1, <1>2, <3>1, <3>2
    <3> QED
      BY <3>3
  <2> QED
    BY <2>1, <2>2
<1>5. new \notin RowsOf(q) /\ rows # RowsOf(q)
  <2>1. new \notin RowsOf(q)
    BY <1>1, <1>4
  <2> QED
    BY <2>1
<1>6. AddedIn(p) = AddedIn(q) \cup {l + 1}
  <2> HIDE DEF rows
  <2>0. \A m \in 1 .. l : m \in 1 .. l + 1 /\ m + 1 \in 1 .. l + 1
    BY <1>3
  <2>1. \A m \in 1 .. l : p.after[m + 1] = q.after[m + 1] /\ p.after[m] = q.after[m]
    BY <1>3, <2>0
  <2>2. p.after[(l + 1) + 1] = rows /\ p.after[l + 1] = RowsOf(q)
    BY <1>3
  <2>3. \A m \in 1 .. l + 1 : m \in 1 .. l \/ m = l + 1
    BY <1>3
  <2>4. (\A m \in 1 .. l : m \in 1 .. l + 1) /\ l + 1 \in 1 .. l + 1
    BY <1>3
  <2> QED
    BY <1>3, <1>5, <2>1, <2>2, <2>3, <2>4 DEF AddedIn
<1>7. \A m \in AddedIn(q) : m \in 1 .. l /\ p.served[m] = q.served[m] /\ m < l + 1
  BY <1>2, <1>3
<1>8. Says(new, p.served[l + 1])
  BY <1>1, <1>3 DEF Says
<1>9. \A m \in AddedIn(q) : p.served[m].known < entry.known
  <2> SUFFICES ASSUME NEW m \in AddedIn(q) PROVE q.served[m].known < entry.known
    BY <1>7
  <2>1. PICK r \in RowsOf(q) : Says(r, q.served[m])
    BY DEF Deliveries, RowsServed
  <2> QED
    BY <1>4, <2>1 DEF Says
<1>10. DeliveriesTyped(p)
  BY <1>0, <1>3 DEF DeliveriesTyped
<1>11. RowsStay(p)
  <2> SUFFICES ASSUME NEW m \in 1 .. l + 1 PROVE p.after[m] \subseteq p.after[m + 1]
    BY <1>3 DEF RowsStay
  <2>1. CASE m = l + 1
    BY <1>3, <2>1
  <2>2. CASE m \in 1 .. l
    <3>1. q.after[m] \subseteq q.after[m + 1]
      BY <1>3, <2>2 DEF Deliveries, RowsStay
    <3>2. m \in 1 .. l + 1 /\ m + 1 \in 1 .. l + 1
      BY <1>3, <2>2
    <3> HIDE DEF rows
    <3>3. p.after[m] = q.after[m] /\ p.after[m + 1] = q.after[m + 1]
      BY <1>3, <3>2
    <3> QED
      BY <3>1, <3>3
  <2> QED
    BY <1>3, <2>1, <2>2
<1>12. RowsServed(p)
  <2>1. \A r \in RowsOf(q) : \E m \in AddedIn(p) : Says(r, p.served[m])
    BY <1>6, <1>7 DEF Deliveries, RowsServed
  <2>2. \A m \in AddedIn(q) : \E r \in RowsOf(p) : Says(r, p.served[m])
    BY <1>3, <1>7 DEF Deliveries, RowsServed
  <2> QED
    BY <1>3, <1>6, <1>8, <2>1, <2>2 DEF RowsServed
<1>13. ServedRises(p)
  <2> SUFFICES ASSUME NEW i \in AddedIn(p), NEW m \in AddedIn(p), i < m
               PROVE  p.served[i].known < p.served[m].known
    BY DEF ServedRises
  <2>1. i \in AddedIn(q)
    BY <1>3, <1>6, <1>7
  <2>2. CASE m \in AddedIn(q)
    BY <1>7, <2>1, <2>2 DEF Deliveries, ServedRises
  <2>3. CASE m = l + 1
    BY <1>3, <1>9, <2>1, <2>3
  <2> QED
    BY <1>6, <2>2, <2>3
<1>14. RowsRise(p)
  <2> SUFFICES ASSUME NEW r \in rows, NEW s \in rows
               PROVE  (r.known < s.known <=> r.vintage < s.vintage) /\ (r.known = s.known => r = s)
    BY <1>3 DEF RowsRise
  <2>1. CASE r \in RowsOf(q) /\ s \in RowsOf(q)
    BY <2>1 DEF Deliveries, RowsRise
  <2>2. CASE r = new /\ s = new
    BY <1>1, <2>2
  <2>3. CASE r \in RowsOf(q) /\ s = new
    BY <1>1, <1>2, <1>4, <2>3
  <2>4. CASE r = new /\ s \in RowsOf(q)
    BY <1>1, <1>2, <1>4, <2>4
  <2> QED
    BY <2>1, <2>2, <2>3, <2>4
<1>15. Restated(p)
  <2> SUFFICES ASSUME NEW k \in AddedIn(p), NEW m \in AddedIn(p), m < k,
                      \A i \in AddedIn(p) : ~ (m < i /\ i < k)
               PROVE  p.served[m].value # p.served[k].value
    BY DEF Restated
  <2>1. m \in AddedIn(q)
    BY <1>3, <1>6, <1>7
  <2>2. CASE k \in AddedIn(q)
    <3>1. \A i \in AddedIn(q) : ~ (m < i /\ i < k)
      BY <1>6
    <3>2. q.served[m].value # q.served[k].value
      BY <2>1, <2>2, <3>1 DEF Deliveries, Restated
    <3> QED
      BY <1>7, <2>1, <2>2, <3>2
  <2>3. CASE k = l + 1
    <3>1. PICK r \in RowsOf(q) : Says(r, q.served[m])
      BY <2>1 DEF Deliveries, RowsServed
    <3>2. PICK top \in RowsOf(q) : (\A s \in RowsOf(q) : s.vintage <= top.vintage) /\ top.value # entry.value
      BY <3>1 DEF Follows
    <3>3. PICK i \in AddedIn(q) : Says(top, q.served[i])
      BY DEF Deliveries, RowsServed
    <3>4. ~ (m < i)
      BY <1>6, <1>7, <2>3
    <3>5. ~ (i < m)
      <4> SUFFICES ASSUME i < m PROVE FALSE
        OBVIOUS
      <4>1. q.served[i].known < q.served[m].known
        BY <2>1 DEF Deliveries, ServedRises
      <4>2. top.known < r.known
        BY <3>1, <3>3, <4>1 DEF Says
      <4>3. top.vintage < r.vintage
        BY <4>2 DEF Deliveries, RowsRise
      <4> QED
        BY <1>2, <3>2, <4>3
    <3>6. i = m
      BY <1>3, <1>7, <2>1, <3>4, <3>5
    <3>7. q.served[m].value = top.value
      BY <3>3, <3>6 DEF Says
    <3> QED
      BY <1>3, <1>7, <2>1, <2>3, <3>2, <3>7
  <2> QED
    BY <1>6, <2>2, <2>3
<1> QED
  BY <1>10, <1>11, <1>12, <1>13, <1>14, <1>15 DEF Deliveries

\* What delivering a figure does: nothing, or it adds the row that follows.
LEMMA DeliverAdds ==
  ASSUME NEW q, Deliveries(q), NEW drop
  PROVE  LET entry == [value |-> drop.value, known |-> Stamped(q.table, drop, q.cap, q.config)]
             given == Deliver(q.table, RowsOf(q), drop, q.cap, q.config)
         IN \/ given = RowsOf(q)
            \/ \E n \in Nat : Follows(q, entry, n) /\ given = RowsOf(q) \cup {RowOf(q.table, entry, n)}
<1> DEFINE entry == [value |-> drop.value, known |-> Stamped(q.table, drop, q.cap, q.config)]
           given == Deliver(q.table, RowsOf(q), drop, q.cap, q.config)
           c == [key |-> FigureKey(q.table), value |-> drop.value, known |-> Stamped(q.table, drop, q.cap, q.config)]
           rows == RowsOf(q)
           base == Unassembled(rows)
           built == Assembled(base, c)
           group == GroupOf(rows, c.key)
           top == Latest(group, c.key)
<1>0. DeliveriesTyped(q) /\ q.table \in {"fundamentals", "estimates"} /\ q.cap.available
  BY DEF Deliveries, DeliveriesTyped
<1>1. given = rows \/ (built.error = "none" /\ given = built.rows)
  BY <1>0, DeliverOne
<1>2. \A r \in rows : r.key = c.key /\ r.vintage \in Nat
  BY <1>0, DeliveryFacts
<1> HIDE DEF base
<1>3. group = rows
  BY <1>2 DEF GroupOf
<1>4. entry.value = c.value /\ entry.known = c.known
  OBVIOUS
<1>5. rows # {} => top \in rows /\ \A r \in rows : r.vintage <= top.vintage
  <2> SUFFICES ASSUME rows # {} PROVE top \in rows /\ \A r \in rows : r.vintage <= top.vintage
    OBVIOUS
  <2>1. AddedIn(q) # {}
    BY DEF Deliveries, RowsServed
  <2>2. PICK r \in rows : \A s \in rows : (\E n \in AddedIn(q) : Says(s, q.served[n])) => s.vintage <= r.vintage
    BY <2>1, LastOf
  <2>3. \A s \in rows : s.vintage <= r.vintage
    BY <2>2 DEF Deliveries, RowsServed
  <2>4. \E x \in group : x.key = c.key /\ \A s \in group : s.key = c.key => s.vintage <= x.vintage
    BY <1>2, <1>3, <2>3
  <2>5. top \in group /\ \A s \in group : s.key = c.key => s.vintage <= top.vintage
    <3> HIDE DEF group, c
    <3> QED
      BY <2>4 DEF Latest
  <2> QED
    BY <1>2, <1>3, <2>5
<1>6. ASSUME built.error = "none"
      PROVE  \/ built.rows = rows
             \/ rows = {} /\ built.rows = rows \cup {RowOf(q.table, entry, 0)}
             \/ /\ rows # {} /\ top.value # c.value /\ c.known > top.known
                /\ built.rows = rows \cup {RowOf(q.table, entry, top.vintage + 1)}
  <2> DEFINE append(n) == [base EXCEPT !.rows = @ \cup {VintageOf(c, n)}, !.seen = @ \cup {c.key}]
  <2>1. base.error = "none" /\ base.rows = rows /\ base.seen = {} /\ DOMAIN base = {"error", "rows", "seen"}
    BY DEF base, Unassembled
  <2>2. \A n : append(n).rows = rows \cup {RowOf(q.table, entry, n)}
    <3>1. \A n : VintageOf(c, n) = RowOf(q.table, entry, n)
      BY DEF RowOf, VintageOf
    <3>2. \A n : append(n).rows = rows \cup {VintageOf(c, n)}
      BY DEF base, Unassembled
    <3> QED
      BY <3>1, <3>2
  <2>3. [base EXCEPT !.seen = @ \cup {c.key}].rows = rows
    BY DEF base, Unassembled
  <2>4. built = IF group = {} THEN append(0)
                ELSE IF top.value = c.value THEN [base EXCEPT !.seen = @ \cup {c.key}]
                ELSE IF ~ Restates(c, top) THEN [base EXCEPT !.error = "not later"]
                ELSE append(top.vintage + 1)
    <3>1. group = GroupOf(base.rows, c.key)
      BY <2>1
    <3>2. c.key \notin base.seen
      BY <2>1
    <3> HIDE DEF c, group
    <3>3. CASE group = {}
      BY <2>1, <3>1, <3>2, <3>3 DEF Assembled
    <3>4. CASE group # {} /\ top.value = c.value
      BY <2>1, <3>1, <3>2, <3>4 DEF Assembled
    <3>5. CASE group # {} /\ top.value # c.value /\ ~ Restates(c, top)
      BY <2>1, <3>1, <3>2, <3>5 DEF Assembled
    <3>6. CASE group # {} /\ top.value # c.value /\ Restates(c, top)
      BY <2>1, <3>1, <3>2, <3>6 DEF Assembled
    <3> HIDE DEF built, top, append
    <3> QED
      BY <3>3, <3>4, <3>5, <3>6
  <2>5. [base EXCEPT !.error = "not later"].error # "none"
    BY DEF base, Unassembled
  <2>6. Restates(c, top) => c.known > top.known
    BY DEF Restates
  <2> HIDE DEF built, base, c, group, top, append, rows
  <2> QED
    BY <1>3, <1>6, <2>2, <2>3, <2>4, <2>5, <2>6
<1> HIDE DEF built, base, c, group, top, rows, entry
<1>7. CASE given = rows
  BY <1>7 DEF rows
<1>8. CASE rows = {} /\ given = rows \cup {RowOf(q.table, entry, 0)}
  <2>1. Follows(q, entry, 0)
    BY <1>8 DEF Follows, rows
  <2> QED
    BY <1>8, <2>1 DEF rows, entry
<1>9. CASE /\ rows # {} /\ top.value # c.value /\ c.known > top.known
           /\ given = rows \cup {RowOf(q.table, entry, top.vintage + 1)}
  <2>1. top \in rows /\ (\A r \in rows : r.vintage <= top.vintage) /\ top.vintage + 1 \in Nat
    BY <1>2, <1>5, <1>9
  <2>2. Follows(q, entry, top.vintage + 1)
    BY <1>4, <1>9, <2>1 DEF Follows, rows
  <2> QED
    BY <1>9, <2>1, <2>2 DEF rows, entry
<1> QED
  BY <1>1, <1>6, <1>7, <1>8, <1>9

-----------------------------------------------------------------------------
(* The answers.                                                               *)

\* The row that is known last at an instant is the one of the delivery that was
\* added last of those known by then.
LEMMA LastKnown ==
  ASSUME NEW q, Deliveries(q), NEW t \in Int
  PROVE  /\ AddedBy(q, t) = {} => \A s \in RowsOf(q) : ~ (s.known <= t)
         /\ AddedBy(q, t) # {} =>
              \E r \in RowsOf(q) :
                /\ r.known <= t /\ r.value = q.served[Max(AddedBy(q, t))].value
                /\ \A s \in RowsOf(q) : s.known <= t =>
                     s.known <= r.known /\ s.vintage <= r.vintage /\ (s.known = r.known => s = r)
<1> DEFINE by == AddedBy(q, t)
<1>1. \A s \in RowsOf(q) : s.known <= t => \E n \in by : Says(s, q.served[n])
  BY DEF Deliveries, RowsServed, AddedBy, Says
<1>2. by \in SUBSET AddedIn(q) /\ \A n \in by : q.served[n].known <= t
  BY DEF AddedBy
<1> HIDE DEF by
<1>3. ASSUME by # {}
      PROVE  \E r \in RowsOf(q) :
                /\ r.known <= t /\ r.value = q.served[Max(by)].value
                /\ \A s \in RowsOf(q) : s.known <= t =>
                     s.known <= r.known /\ s.vintage <= r.vintage /\ (s.known = r.known => s = r)
  <2>1. Max(by) \in by
    BY <1>2, <1>3, LastOf
  <2>2. PICK r \in RowsOf(q) :
              /\ Says(r, q.served[Max(by)])
              /\ \A s \in RowsOf(q) : (\E n \in by : Says(s, q.served[n])) =>
                   s.known <= r.known /\ s.vintage <= r.vintage
    BY <1>2, <1>3, LastOf
  <2>3. r.known <= t /\ r.value = q.served[Max(by)].value
    BY <1>2, <2>1, <2>2 DEF Says
  <2>4. \A s \in RowsOf(q) : s.known <= t =>
                     s.known <= r.known /\ s.vintage <= r.vintage /\ (s.known = r.known => s = r)
    BY <1>1, <2>2 DEF Deliveries, RowsRise
  <2> QED
    BY <2>3, <2>4
<1> QED
  BY <1>1, <1>3 DEF by

\* The rows as a frame: of one event, and of one security.
LEMMA FrameFacts ==
  ASSUME NEW q, Deliveries(q)
  PROVE  /\ \A f \in FrameOf(q) : \E r \in RowsOf(q) : f = FrameRow(r)
         /\ \A r \in RowsOf(q) : FrameRow(r) \in FrameOf(q)
         /\ \A r \in RowsOf(q) : /\ FrameRow(r).known = r.known /\ FrameRow(r).vintage = r.vintage
                                 /\ FrameRow(r).value = r.value /\ FrameRow(r).by = Ids[1].id
         /\ \A f, g \in FrameOf(q) : EventKey(q.table, f) = EventKey(q.table, g)
<1>1. \A f \in FrameOf(q) : \E r \in RowsOf(q) : f = FrameRow(r)
  BY DEF FrameOf
<1>2. \A r \in RowsOf(q) : FrameRow(r) \in FrameOf(q)
  BY DEF FrameOf
<1>3. \A r \in RowsOf(q) : r.key = FigureKey(q.table)
  BY DeliveryFacts DEF Deliveries
<1>4. FigureKey(q.table)[1] = Ids[1].id
  BY DEF FigureKey
<1>5. \A r \in RowsOf(q) : /\ FrameRow(r).known = r.known /\ FrameRow(r).vintage = r.vintage
                          /\ FrameRow(r).value = r.value /\ FrameRow(r).by = r.key[1]
                          /\ FrameRow(r).security = r.key[1] /\ FrameRow(r).metric = r.key[2]
                          /\ FrameRow(r).period = r.key[3]
  BY DEF FrameRow
<1>6. \A f, g \in FrameOf(q) : f.security = g.security /\ f.metric = g.metric /\ f.period = g.period
  BY <1>1, <1>3, <1>5
<1>7. \A f, g \in FrameOf(q) : EventKey(q.table, f) = EventKey(q.table, g)
  BY <1>6 DEF EventKey
<1> QED
  BY <1>1, <1>2, <1>3, <1>4, <1>5, <1>7

\* A query without a lag sees what is known at its instant.
LEMMA CutoffIs ==
  ASSUME NEW q, NEW t \in Int, NEW frame
  PROVE  KnowledgeCutoff(Pit([x \in {q.table} |-> frame]), q.table, t, None) = t
<1> DEFINE pit == Pit([x \in {q.table} |-> frame])
<1>1. pit.lags[q.table] = 0
  BY DEF Pit
<1>2. Max({0}) = 0
  BY MaxOfOne
<1> HIDE DEF pit
<1>3. EffectiveLag(pit, q.table, None) = Max({0, 0})
  BY <1>1 DEF EffectiveLag
<1>4. {0, 0} = {0}
  OBVIOUS
<1>5. EffectiveLag(pit, q.table, None) = 0
  BY <1>2, <1>3, <1>4
<1> QED
  BY <1>5 DEF KnowledgeCutoff, pit

\* What a query finds, row by row.
Top(q, t, f) ==
  /\ f \in FrameOf(q) /\ f.known <= t
  /\ \A g \in FrameOf(q) : g.known <= t => g.known < f.known \/ (g.known = f.known /\ g.vintage <= f.vintage)

LEMMA QueryIs ==
  ASSUME NEW q, Deliveries(q), NEW t \in Int
  PROVE  \A f : f \in QueriedAt(q, t) <=> Top(q, t, f)
<1> DEFINE frame == FrameOf(q)
           pit == Pit([x \in {q.table} |-> frame])
           seen == {f \in frame : f.known <= t}
<1>1. Vintaged(q.table)
  BY DEF Deliveries, DeliveriesTyped, Vintaged
<1>2. \A f, g \in frame : EventKey(q.table, f) = EventKey(q.table, g)
  BY FrameFacts
<1> HIDE DEF frame
<1>3. KnowledgeCutoff(pit, q.table, t, None) = t
  BY CutoffIs
<1> HIDE DEF pit
<1>4. Knowable(frame, KnowledgeCutoff(pit, q.table, t, None)) = seen
  BY <1>3 DEF Knowable
<1>5. \A f : f \in seen <=> f \in frame /\ f.known <= t
  OBVIOUS
<1> HIDE DEF seen
<1>6. AsOfFrame(pit, q.table, t, frame, None)
        = {f \in seen : \A g \in seen : EventKey(q.table, g) = EventKey(q.table, f)
             => g.known < f.known \/ (g.known = f.known /\ g.vintage <= f.vintage)}
  BY <1>1, <1>4 DEF AsOfFrame
<1>7. QueriedAt(q, t) = AsOfFrame(pit, q.table, t, frame, None)
  BY DEF QueriedAt, pit, frame
<1> QED
  BY <1>2, <1>5, <1>6, <1>7 DEF Top, frame

\* What the join finds: the one row that the query finds, or none.
LEMMA JoinIs ==
  ASSUME NEW q, Deliveries(q), NEW t \in Int
  PROVE  /\ (\A f \in FrameOf(q) : ~ (f.known <= t)) => {x[2] : x \in JoinedAt(q, t)} = {None}
         /\ \A f : Top(q, t, f) /\ (\A g : Top(q, t, g) => g = f) => {x[2] : x \in JoinedAt(q, t)} = {f}
<1> DEFINE left == [by |-> Ids[1].id, at |-> t]
           frame == FrameOf(q)
           matches == {r \in frame : r.by = left.by /\ r.known <= left.at - 2 * 0}
           found == CHOOSE r \in matches : \A p \in matches :
                     p.known < r.known \/ (p.known = r.known /\ p.vintage <= r.vintage)
           answer == IF matches = {} THEN None ELSE found
<1>1. JoinedAt(q, t) = {<<left, answer>>}
  <2>1. {left} = {[by |-> Ids[1].id, at |-> t]}
    OBVIOUS
  <2> QED
    BY DEF JoinedAt, JoinLatestKnown
<1>2. \A f : f \in matches <=> f \in frame /\ f.known <= t
  <2>1. \A f \in frame : f.by = Ids[1].id
    BY FrameFacts
  <2>2. left.by = Ids[1].id /\ left.at - 2 * 0 = t
    OBVIOUS
  <2> HIDE DEF left, frame
  <2> QED
    BY <2>1, <2>2
<1>3. \A f : Top(q, t, f) <=> /\ f \in matches
                             /\ \A p \in matches : p.known < f.known \/ (p.known = f.known /\ p.vintage <= f.vintage)
  BY <1>2 DEF Top
<1>4. {x[2] : x \in {<<left, answer>>}} = {answer}
  <2> HIDE DEF left, answer
  <2> QED
    OBVIOUS
<1> HIDE DEF matches
<1>5. (\A f \in frame : ~ (f.known <= t)) => answer = None
  BY <1>2
<1>6. ASSUME NEW f, Top(q, t, f), \A g : Top(q, t, g) => g = f PROVE answer = f
  <2>1. f \in matches
    BY <1>3, <1>6
  <2>2. Top(q, t, found)
    BY <1>3, <1>6
  <2> QED
    BY <1>6, <2>1, <2>2
<1> HIDE DEF answer, left, frame
<1> QED
  BY <1>1, <1>4, <1>5, <1>6 DEF frame

\* Both find the last of the deliveries known by then.
LEMMA LastIsAnswered ==
  ASSUME NEW q, Deliveries(q), NEW t \in Int
  PROVE  LastAnswered(q, t)
<1>1. /\ \A f \in FrameOf(q) : \E r \in RowsOf(q) : f = FrameRow(r)
      /\ \A r \in RowsOf(q) : FrameRow(r) \in FrameOf(q)
      /\ \A r \in RowsOf(q) : /\ FrameRow(r).known = r.known /\ FrameRow(r).vintage = r.vintage
                              /\ FrameRow(r).value = r.value
  BY FrameFacts
<1>2. \A f : f \in QueriedAt(q, t) <=> Top(q, t, f)
  BY QueryIs
<1>3. CASE AddedBy(q, t) = {}
  <2>1. \A f \in FrameOf(q) : ~ (f.known <= t)
    BY <1>1, <1>3, LastKnown
  <2>2. QueriedAt(q, t) = {}
    BY <1>2, <2>1 DEF Top
  <2>3. {x[2] : x \in JoinedAt(q, t)} = {None}
    BY <2>1, JoinIs
  <2> QED
    BY <1>3, <2>2, <2>3 DEF LastAnswered
<1>4. CASE AddedBy(q, t) # {}
  <2>1. PICK r \in RowsOf(q) :
           /\ r.known <= t /\ r.value = q.served[Max(AddedBy(q, t))].value
           /\ \A s \in RowsOf(q) : s.known <= t =>
                s.known <= r.known /\ s.vintage <= r.vintage /\ (s.known = r.known => s = r)
    BY <1>4, LastKnown
  <2>2. \A s \in RowsOf(q) : s.known \in Int /\ s.vintage \in Nat
    BY DeliveryFacts DEF Deliveries
  <2>3. Top(q, t, FrameRow(r))
    <3> SUFFICES ASSUME NEW g \in FrameOf(q), g.known <= t
                 PROVE  g.known < r.known \/ (g.known = r.known /\ g.vintage <= r.vintage)
      BY <1>1, <2>1 DEF Top
    <3>1. PICK s \in RowsOf(q) : g = FrameRow(s)
      BY <1>1
    <3> QED
      BY <1>1, <2>1, <2>2, <3>1
  <2>4. ASSUME NEW g, Top(q, t, g) PROVE g = FrameRow(r)
    <3>1. PICK s \in RowsOf(q) : g = FrameRow(s)
      BY <1>1, <2>4 DEF Top
    <3>2. s.known <= t /\ (r.known < s.known \/ r.known = s.known)
      BY <1>1, <2>1, <2>4, <3>1 DEF Top
    <3>3. s = r
      BY <2>1, <2>2, <3>2
    <3> QED
      BY <3>1, <3>3
  <2>5. QueriedAt(q, t) = {FrameRow(r)}
    BY <1>2, <2>3, <2>4
  <2>6. {x[2] : x \in JoinedAt(q, t)} = {FrameRow(r)}
    BY <2>3, <2>4, JoinIs
  <2>7. {f.value : f \in QueriedAt(q, t)} = {q.served[Max(AddedBy(q, t))].value}
    BY <1>1, <2>1, <2>5
  <2> QED
    BY <1>4, <2>5, <2>6, <2>7 DEF LastAnswered
<1> QED
  BY <1>3, <1>4

-----------------------------------------------------------------------------
(* Every state of a question.                                                 *)
FiguresInv == question # None /\ question.kind = "vintages" => Deliveries(question)

\* A question about figures starts with no delivery.
LEMMA AskedFigures ==
  ASSUME AskVintages PROVE Deliveries(question')
<1>1. PICK pit \in BOOLEAN, table \in {"fundamentals", "estimates"}, lags \in LagChoices,
           rule \in SUBSET {"fundamentals", "estimates"} :
        LET used == [Stamping(FALSE) EXCEPT !.lagRule = rule, !.lags = lags]
        IN /\ ~ConfigRefused(used)
           /\ question' = [kind |-> "vintages", table |-> table, cap |-> Cap(pit, "unadjusted"), config |-> used,
                           served |-> <<>>, after |-> <<{}>>]
  BY DEF AskVintages
<1> DEFINE used == [Stamping(FALSE) EXCEPT !.lagRule = rule, !.lags = lags]
           q == [kind |-> "vintages", table |-> table, cap |-> Cap(pit, "unadjusted"), config |-> used,
                 served |-> <<>>, after |-> <<{}>>]
<1>2. ~ ConfigRefused(used) /\ question' = q
  BY <1>1
<1>3. used.lagRule = rule /\ used.lags = lags
  BY DEF Stamping
<1>4. rule \subseteq DOMAIN lags
  <2> HIDE DEF used
  <2> QED
    BY <1>2, <1>3 DEF ConfigRefused
<1>5. \A t \in DOMAIN lags : lags[t] \in Int
  BY FigureAssumption
<1> HIDE DEF used
<1>6. /\ q.table = table /\ q.cap = Cap(pit, "unadjusted") /\ q.config = used
      /\ q.served = <<>> /\ q.after = <<{}>>
  OBVIOUS
<1>7. Cap(pit, "unadjusted").available
  BY DEF Cap
<1> HIDE DEF q
<1>8. /\ q.served \in Seq([value : FigureValues, known : Int]) /\ Len(q.served) = 0 /\ DOMAIN q.served = {}
      /\ Len(q.after) = 1 /\ q.after[1] = {}
  BY <1>6
<1>9. q.after \in Seq(SUBSET FigureRows(q.table))
  BY <1>6
<1>10. DeliveriesTyped(q)
  <2>1. q.table \in {"fundamentals", "estimates"} /\ q.cap.available
    BY <1>6, <1>7
  <2>2. q.config.lagRule \subseteq DOMAIN q.config.lags /\ \A t \in DOMAIN q.config.lags : q.config.lags[t] \in Int
    BY <1>3, <1>4, <1>5, <1>6
  <2>3. Len(q.after) = Len(q.served) + 1
    BY <1>8
  <2> QED
    BY <1>8, <1>9, <2>1, <2>2, <2>3 DEF DeliveriesTyped
<1>11. AddedIn(q) = {} /\ RowsOf(q) = {}
  BY <1>8 DEF AddedIn, RowsOf
<1>12. RowsStay(q) /\ RowsServed(q) /\ ServedRises(q) /\ RowsRise(q) /\ Restated(q)
  BY <1>8, <1>11 DEF RowsStay, RowsServed, ServedRises, RowsRise, Restated
<1> QED
  BY <1>2, <1>10, <1>12 DEF Deliveries

\* What a delivery is stamped with is a time.
LEMMA StampedTime ==
  ASSUME NEW q, DeliveriesTyped(q), NEW drop \in [value : FigureValues, at : FigureTimes]
  PROVE  Stamped(q.table, drop, q.cap, q.config) \in Int
<1>1. drop.at \in Int
  BY FigureAssumption
<1>2. CASE q.cap.pit \/ q.table \notin q.config.lagRule
  BY <1>1, <1>2 DEF Stamped
<1>3. CASE ~ (q.cap.pit \/ q.table \notin q.config.lagRule)
  <2>1. q.config.lags[q.table] \in Int
    BY <1>3 DEF DeliveriesTyped
  <2> QED
    BY <1>3, <2>1 DEF Stamped, LagRuleTime
<1> QED
  BY <1>2, <1>3

LEMMA DeliveredFigures ==
  ASSUME Deliveries(question), DeliverFigure PROVE Deliveries(question')
<1> DEFINE q == question
           p == question'
<1>0. DeliveriesTyped(q)
  BY DEF Deliveries
<1>1. PICK drop \in [value : FigureValues, at : FigureTimes] :
        question' = [kind |-> "vintages", table |-> question.table, cap |-> question.cap, config |-> question.config,
                     served |-> Append(question.served,
                                  [value |-> drop.value,
                                   known |-> Stamped(question.table, drop, question.cap, question.config)]),
                     after |-> Append(question.after,
                                  Deliver(question.table, RowsOf(question), drop, question.cap, question.config))]
  BY DEF DeliverFigure, RowsOf
<1> DEFINE entry == [value |-> drop.value, known |-> Stamped(q.table, drop, q.cap, q.config)]
           given == Deliver(q.table, RowsOf(q), drop, q.cap, q.config)
<1>2. entry \in [value : FigureValues, known : Int]
  BY <1>0, StampedTime
<1>3. \/ given = RowsOf(q)
      \/ \E n \in Nat : Follows(q, entry, n) /\ given = RowsOf(q) \cup {RowOf(q.table, entry, n)}
  BY DeliverAdds
<1>4. /\ p.table = q.table /\ p.cap = q.cap /\ p.config = q.config
      /\ p.served = Append(q.served, entry) /\ p.after = Append(q.after, given)
  <2> HIDE DEF entry, given
  <2>1. question' = [kind |-> "vintages", table |-> question.table, cap |-> question.cap, config |-> question.config,
                     served |-> Append(question.served, entry), after |-> Append(question.after, given)]
    BY <1>1 DEF entry, given
  <2> QED
    BY <2>1
<1> HIDE DEF entry, given, p, q
<1>5. Deliveries(q)
  BY DEF q
<1>6. CASE given = RowsOf(q)
  BY <1>2, <1>4, <1>5, <1>6, RepeatKept DEF p
<1>7. CASE \E n \in Nat : Follows(q, entry, n) /\ given = RowsOf(q) \cup {RowOf(q.table, entry, n)}
  BY <1>2, <1>4, <1>5, <1>7, AddedKept DEF p
<1> QED
  BY <1>3, <1>6, <1>7

\* The other questions are of other kinds.
LEMMA OtherQuestions ==
  ASSUME AskMerge \/ AskFactors \/ AskGrade \/ AskBattery \/ AskDelistings
  PROVE  question'.kind # "vintages"
<1>1. CASE AskMerge
  BY <1>1 DEF AskMerge
<1>2. CASE AskFactors
  BY <1>2 DEF AskFactors
<1>3. CASE AskGrade
  <2>1. PICK pit, acknowledged \in BOOLEAN, basis \in {"unadjusted", "adjusted", "unknown"}, retrieval \in 3 .. 9 :
        LET ctx == Ctx(Cap(pit, basis), Stamping(acknowledged), retrieval)
            rows == {[b EXCEPT !.known = IF pit THEN @ ELSE None] : b \in {Market(1, 1, 9), Market(1, 2, 8)}}
            built == BuildPricesDaily(rows, Ids, ctx)
            of(config) == ManifestOf("prices", "market", [ctx EXCEPT !.config = config], built.rows,
                             GradeDataset("market", ctx.cap, config), Downgrades("market", ctx.cap, config))
        IN question' = [kind |-> "grade", built |-> built, cap |-> ctx.cap, config |-> ctx.config,
                        retrieval |-> retrieval,
                        refused |-> ManifestRefused(of(ctx.config), built.rows),
                        rewritten |-> ManifestRefused(of(Stamping(TRUE)), built.rows)]
    BY <1>3, Zenon DEF AskGrade
  <2> DEFINE ctx == Ctx(Cap(pit, basis), Stamping(acknowledged), retrieval)
             rows == {[b EXCEPT !.known = IF pit THEN @ ELSE None] : b \in {Market(1, 1, 9), Market(1, 2, 8)}}
             built == BuildPricesDaily(rows, Ids, ctx)
             of(config) == ManifestOf("prices", "market", [ctx EXCEPT !.config = config], built.rows,
                              GradeDataset("market", ctx.cap, config), Downgrades("market", ctx.cap, config))
  <2>2. question' = [kind |-> "grade", built |-> built, cap |-> ctx.cap, config |-> ctx.config,
                     retrieval |-> retrieval,
                     refused |-> ManifestRefused(of(ctx.config), built.rows),
                     rewritten |-> ManifestRefused(of(Stamping(TRUE)), built.rows)]
    BY <2>1, Zenon
  <2> HIDE DEF ctx, rows, built, of
  <2> QED
    BY <2>2
<1>4. CASE AskBattery
  BY <1>4 DEF AskBattery
<1>5. CASE AskDelistings
  BY <1>5 DEF AskDelistings
<1> QED
  BY <1>1, <1>2, <1>3, <1>4, <1>5

LEMMA FiguresInvariant == StoresSpec => []FiguresInv
<1>1. StoresInit => FiguresInv
  BY DEF StoresInit, FiguresInv
<1>2. FiguresInv /\ [StoresNext]_<<part, question, vars, artifacts>> => FiguresInv'
  <2> SUFFICES ASSUME FiguresInv, [StoresNext]_<<part, question, vars, artifacts>> PROVE FiguresInv'
    OBVIOUS
  <2>1. CASE UNCHANGED question
    BY <2>1 DEF FiguresInv
  <2>2. CASE question = None /\ Ask
    <3>1. CASE AskVintages
      BY <3>1, AskedFigures DEF FiguresInv, Deliveries, DeliveriesTyped, AddedIn, RowsStay, RowsOf, RowsServed
    <3>2. CASE AskMerge \/ AskFactors \/ AskGrade \/ AskBattery \/ AskDelistings
      BY <3>2, OtherQuestions DEF FiguresInv
    <3> QED
      BY <2>2, <3>1, <3>2 DEF Ask
  <2>3. CASE question # None /\ question.kind = "vintages" /\ DeliverFigure
    <3>1. Deliveries(question)
      BY <2>3 DEF FiguresInv
    <3>2. Deliveries(question')
      BY <2>3, <3>1, DeliveredFigures
    <3> QED
      BY <3>2 DEF FiguresInv
  <2>4. [StoresNext]_<<part, question, vars, artifacts>> =>
           \/ UNCHANGED question
           \/ question = None /\ Ask
           \/ question # None /\ question.kind = "vintages" /\ DeliverFigure
    BY DEF StoresNext
  <2> QED
    BY <2>1, <2>2, <2>3, <2>4
<1> QED
  BY <1>1, <1>2, PTL DEF StoresSpec

\* However often a figure is delivered, with whatever values, times and lags, the
\* rows that were there stay; a query at any instant (select_latest_vintages) finds
\* the value of the delivery that assemble_vintages added last of those known by
\* then; the as-of join finds the same row; and what is added is another value.
THEOREM FiguresAnswered == StoresSpec => []AnswersLastServed
<1>1. FiguresInv => AnswersLastServed
  <2> SUFFICES ASSUME FiguresInv, question # None, question.kind = "vintages"
               PROVE  RowsStay(question) /\ Restated(question) /\ \A t \in Instants : LastAnswered(question, t)
    BY DEF AnswersLastServed
  <2>1. Deliveries(question)
    BY DEF FiguresInv
  <2>2. \A t \in Instants : LastAnswered(question, t)
    BY <2>1, LastIsAnswered, FigureAssumption
  <2> QED
    BY <2>1, <2>2 DEF Deliveries
<1> QED
  BY <1>1, FiguresInvariant, PTL
=============================================================================

--------------------------- MODULE ResponseCache ---------------------------
(***************************************************************************)
(* The directory of one request in the raw-response cache                  *)
(* (factset/cache.py): a body file per digest and the capture index        *)
(* meta.json, both written to a temporary file that is then renamed.  The  *)
(* temporary names are fixed, and nothing locks the directory, so writers  *)
(* of one request share them.                                              *)
(*                                                                         *)
(* Contents are all a reader can tell apart: no file, a file just          *)
(* truncated, a mixture of two writes, or a whole value.  A rename moves   *)
(* the file, not the name: a writer still holding the temporary file open  *)
(* then writes into the final one.                                         *)
(***************************************************************************)
EXTENDS Naturals, Sequences

CONSTANTS Writers,  \* processes inside cache.store for this request
          Readers,  \* processes inside cache.latest_success
          Digests,  \* sha256 of the response bodies
          Meta,     \* the name meta.json
          NoRecord,
          MaxStores \* bound: calls of store

ASSUME CacheAssumption == Meta \notin Digests /\ MaxStores \in Nat

VARIABLES disk,      \* contents of the final files
          tmp,       \* contents of the temporary files
          writer,    \* per writer: its step, its record, the open file
          reader,    \* per reader: the record it read from the index
          returned,  \* history: records whose store returned
          stores,    \* calls of store so far
          raced      \* history: two writers were in the directory at once

directory == <<disk, tmp, writer, reader, returned, stores, raced>>

Names == Digests \cup {Meta}

\* What differs between responses with the same bytes (status, retrieval
\* time, quota headers) is folded into ok.
Record == [digest : Digests, ok : BOOLEAN]

Absent == [is |-> "absent", captures |-> <<>>]
Truncated == [is |-> "truncated", captures |-> <<>>]
Mixed == [is |-> "mixed", captures |-> <<>>]
Whole(captures) == [is |-> "whole", captures |-> captures]

NotWriting == [at |-> "idle", rec |-> NoRecord,
               name |-> Meta, content |-> Absent, file |-> "none"]

NotReading == [at |-> "idle", rec |-> NoRecord]

-----------------------------------------------------------------------------
Index == disk[Meta].captures

IndexReadable == disk[Meta].is \in {"absent", "whole"}

\* Writing from the start of a file another writer has already filled leaves
\* the tail of the longer text.
Overlay(old, new) == IF old \in {Truncated, new} THEN {new} ELSE {new, Mixed}

Stands(w, step) == writer[w].at = step

Leaves(w) == writer' = [writer EXCEPT ![w] = NotWriting]

Enters(w) == /\ Stands(w, "idle")
             /\ stores < MaxStores
             /\ stores' = stores + 1
             /\ raced' = (raced \/ \E v \in Writers : ~ Stands(v, "idle"))

\* Mutant of Begin: the index is written first.
BeginWithIndex(w, rec) ==
  /\ Enters(w)
  /\ writer' = [writer EXCEPT ![w] =
       [NotWriting EXCEPT !.at = "index", !.rec = rec, !.name = rec.digest]]
  /\ UNCHANGED <<disk, tmp, reader, returned>>

\* Entry of store: the body is written first, unless its file exists.
Begin(w, rec) ==
  /\ Enters(w)
  /\ writer' = [writer EXCEPT ![w] =
       [at      |-> IF disk[rec.digest] = Absent THEN "open" ELSE "index",
        rec     |-> rec,
        name    |-> rec.digest,
        content |-> Whole(<<>>),
        file    |-> "none"]]
  /\ UNCHANGED <<disk, tmp, reader, returned>>

\* Opening for writing truncates the temporary file, whoever made it.
Open(w) ==
  /\ Stands(w, "open")
  /\ tmp' = [tmp EXCEPT ![writer[w].name] = Truncated]
  /\ writer' = [writer EXCEPT ![w].at = "fill", ![w].file = "tmp"]
  /\ UNCHANGED <<disk, reader, returned, stores, raced>>

\* The text reaches the open file, wherever a rename has moved it since.
Fill(w) ==
  LET name == writer[w].name
  IN  /\ Stands(w, "fill")
      /\ \/ /\ writer[w].file = "tmp"
            /\ \E c \in Overlay(tmp[name], writer[w].content) : tmp' = [tmp EXCEPT ![name] = c]
            /\ UNCHANGED disk
         \/ /\ writer[w].file = "disk"
            /\ \E c \in Overlay(disk[name], writer[w].content) : disk' = [disk EXCEPT ![name] = c]
            /\ UNCHANGED tmp
         \/ /\ writer[w].file = "replaced"
            /\ UNCHANGED <<disk, tmp>>
      /\ writer' = [writer EXCEPT ![w].at = "rename", ![w].file = "none"]
      /\ UNCHANGED <<reader, returned, stores, raced>>

\* Where an open file is once the temporary file of its name is renamed.
AfterRename(file) == CASE file = "tmp"  -> "disk"
                       [] file = "disk" -> "replaced"
                       [] OTHER         -> file

Rename(w) ==
  LET name == writer[w].name
      next == IF name = Meta THEN NotWriting ELSE [writer[w] EXCEPT !.at = "index"]
  IN  /\ Stands(w, "rename")
      /\ tmp[name] # Absent
      /\ disk' = [disk EXCEPT ![name] = tmp[name]]
      /\ tmp' = [tmp EXCEPT ![name] = Absent]
      /\ writer' = [v \in Writers |->
           IF v = w THEN next
           ELSE IF writer[v].name = name
           THEN [writer[v] EXCEPT !.file = AfterRename(@)]
           ELSE writer[v]]
      /\ returned' = IF name = Meta THEN returned \cup {writer[w].rec} ELSE returned
      /\ UNCHANGED <<reader, stores, raced>>

\* Another writer has renamed the temporary file away: FileNotFoundError.
RenameFails(w) ==
  /\ Stands(w, "rename")
  /\ tmp[writer[w].name] = Absent
  /\ Leaves(w)
  /\ UNCHANGED <<disk, tmp, reader, returned, stores, raced>>

\* Read the index and append to the copy, unless the digest is there already.
ReadIndex(w) ==
  LET known == \E i \in DOMAIN Index : Index[i].digest = writer[w].rec.digest
  IN  /\ Stands(w, "index")
      /\ IndexReadable
      /\ \/ /\ known
            /\ Leaves(w)
            /\ returned' = returned \cup {writer[w].rec}
         \/ /\ ~ known
            /\ writer' = [writer EXCEPT ![w].at = "open", ![w].name = Meta,
                            ![w].content = Whole(Append(Index, writer[w].rec))]
            /\ UNCHANGED returned
      /\ UNCHANGED <<disk, tmp, reader, stores, raced>>

\* A corrupt index raises an integrity error.
IndexCorrupt(w) ==
  /\ Stands(w, "index")
  /\ ~ IndexReadable
  /\ Leaves(w)
  /\ UNCHANGED <<disk, tmp, reader, returned, stores, raced>>

WriterCrash(w) ==
  /\ ~ Stands(w, "idle")
  /\ Leaves(w)
  /\ UNCHANGED <<disk, tmp, reader, returned, stores, raced>>

\* latest_success: pick the last success of the index, if there is one ...
LastSuccessAt(i) == Index[i].ok /\ \A j \in DOMAIN Index : i < j => ~ Index[j].ok

LookUp(r) ==
  /\ reader[r].at = "idle"
  /\ \/ /\ ~ IndexReadable
        /\ reader' = [reader EXCEPT ![r] = [NotReading EXCEPT !.at = "corrupt"]]
     \/ /\ IndexReadable
        /\ \E i \in DOMAIN Index :
              /\ LastSuccessAt(i)
              /\ reader' = [reader EXCEPT ![r] = [at |-> "found", rec |-> Index[i]]]
     \/ /\ IndexReadable
        /\ \A i \in DOMAIN Index : ~ Index[i].ok
        /\ UNCHANGED reader
  /\ UNCHANGED <<disk, tmp, writer, returned, stores, raced>>

\* ... and read its body, checked against its digest.
ReadBody(r) ==
  /\ reader[r].at = "found"
  /\ reader' = [reader EXCEPT ![r] =
       IF disk[reader[r].rec.digest].is = "whole" THEN NotReading
                                              ELSE [@ EXCEPT !.at = "corrupt"]]
  /\ UNCHANGED <<disk, tmp, writer, returned, stores, raced>>

NoFiles == /\ disk = [n \in Names |-> Absent]
           /\ tmp = [n \in Names |-> Absent]
           /\ writer = [w \in Writers |-> NotWriting]
           /\ reader = [r \in Readers |-> NotReading]
           /\ returned = {}
           /\ stores = 0
           /\ raced = FALSE

Access == \/ \E w \in Writers : \/ \E rec \in Record : Begin(w, rec)
                                \/ Open(w)
                                \/ Fill(w)
                                \/ Rename(w)
                                \/ RenameFails(w)
                                \/ ReadIndex(w)
                                \/ IndexCorrupt(w)
                                \/ WriterCrash(w)
          \/ \E r \in Readers : LookUp(r) \/ ReadBody(r)

DirectorySpec == NoFiles /\ [][Access]_directory

-----------------------------------------------------------------------------
(* Properties.                                                             *)

\* While the writers of a request take turns, wherever one of them crashes, no
\* reader meets a corrupt index or an indexed body that is missing or torn: the
\* body is renamed into place before the index names it.  And what store has
\* returned stays: the index names a capture with those bytes, whole on disk,
\* through every later store.
FilesHold ==
  raced \/ /\ \A r \in Readers : reader[r].at # "corrupt"
           /\ \A rec \in returned : disk[rec.digest].is = "whole" /\ \E i \in DOMAIN Index : Index[i].digest = rec.digest

=============================================================================

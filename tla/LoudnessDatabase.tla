--------------------------- MODULE LoudnessDatabase ---------------------------
(***************************************************************************)
(* The loudness database: one SQLite connection behind a mutex, shared by   *)
(* the workers of a process that may crash and come back as another build.  *)
(* Workers measure tracks, store the records one at a time or as a batch,   *)
(* give an album its gain, and ask for records that are still fresh; the    *)
(* files they are about are written and removed meanwhile.                 *)
(*                                                                         *)
(* A row is what freshness depends on, and the album gain.  Identities do   *)
(* not collide (a digest), so a track is its key; `intact` says that the    *)
(* stored identity decodes to it.  A stamp is the modification time and     *)
(* size of a file.  SQLite is external: a statement outside a transaction   *)
(* and a commit take effect at once or fail, a crash rolls back.            *)
(***************************************************************************)
EXTENDS Naturals, Sequences

CONSTANTS
  Workers,
  Roles,         \* the calls each worker makes
  Locals, Webs,  \* the tracks, by the kind of their source
  Albums,        \* the lists of sources album gains are set for
  Gains,
  Builds,        \* values of CURRENT_SCAN_VERSION
  None,          \* no row, no worker, no build
  MaxBatch,      \* bound: records of a batch
  MaxContent,    \* bound: contents of a file
  MaxCrashes,    \* bound: crashes and closes
  MaxCalls       \* bound: calls and measurements

Calls == {"put", "album", "get", "fresh", "delete", "outdated"}

ASSUME DatabaseAssumption ==
  /\ Locals \cap Webs = {} /\ Albums \subseteq Seq(Locals \cup Webs)
  /\ Roles \in [Workers -> SUBSET Calls]
  /\ MaxBatch \in Nat \ {0} /\ MaxContent \in Nat /\ {MaxCrashes, MaxCalls} \subseteq Nat
  /\ None \notin Builds \cup Workers

VARIABLES
  disk,     \* the file: schema, rows, and whether dropped rows remain in it
  process,  \* its state, the build it is; crashes, calls and measurements so far
  lock,     \* who holds the connection
  tx,       \* the open transaction: its rows and the statements executed
  asked,    \* per worker: a request, an answer or Idle
  judged,   \* get_fresh between its two queries
  measuring, \* the measurement under way
  scanned,  \* the records made and not yet stored
  files     \* of each local track: is it readable, its content and its stamp

databaseVars == <<disk, process, lock, tx, asked, judged, measuring, scanned, files>>
storeVars == <<disk, process, lock, tx>>
workVars == <<judged, measuring, scanned, files>>

Tracks == Locals \cup Webs
NoStamp == 0
NoGain == 0
Stamps == 0..MaxContent + 1
Contents == 0..MaxContent

Rows == [version : Builds, stamp : Stamps, content : Contents, raced : BOOLEAN,
         album : Gains \cup {NoGain}, intact : BOOLEAN]

\* Answers and requests.
Idle == [op |-> "idle"]
Done == [op |-> "ok"]
Refused == [op |-> "error"]
Found(row) == [op |-> "found", row |-> row]
Listed(tracks) == [op |-> "listed", tracks |-> tracks]
Waiting(w, ops) == asked[w].op \in ops

\* A file that an earlier run may have left: by another build, with a row that
\* does not decode, of the schema of strings.
OldRows ==
  {None} \cup [version : Builds, stamp : {1}, content : {0}, raced : {FALSE},
                album : {NoGain}, intact : BOOLEAN]
EmptyRows == [t \in Tracks |-> None]

DatabaseInit ==
  /\ disk \in [schema : {"legacy", "current", "none"}, rows : [Tracks -> OldRows],
               residue : {FALSE}]
  /\ disk.schema = "none" => disk.rows = EmptyRows
  /\ process = [state |-> "down", build |-> None, crashes |-> 0, calls |-> 0]
  /\ lock = None /\ tx = None
  /\ asked = [w \in Workers |-> Idle] /\ judged = [w \in Workers |-> None]
  /\ measuring = [w \in Workers |-> None] /\ scanned = [w \in Workers |-> <<>>]
  /\ files = [t \in Locals |-> [readable |-> TRUE, content |-> 0, stamp |-> 1]]

-----------------------------------------------------------------------------
(* The process and the schema.                                             *)

\* `init_schema`: one transaction that drops a table of another schema.
Open(build) ==
  /\ process.state = "down"
  /\ LET drops == disk.schema = "legacy"
     IN /\ disk' = [schema |-> "current", residue |-> disk.residue \/ drops,
                    rows |-> IF drops THEN EmptyRows ELSE disk.rows]
        /\ process' = [process EXCEPT !.build = build,
                                      !.state = IF drops THEN "vacuuming" ELSE "up"]
  /\ UNCHANGED <<lock, tx, asked, workVars>>

Vacuum ==
  /\ process.state = "vacuuming"
  /\ process' = [process EXCEPT !.state = "up"]
  /\ disk' = [disk EXCEPT !.residue = FALSE]
  /\ UNCHANGED <<lock, tx, asked, workVars>>

\* The process ends or crashes, at any step; `open` may also fail.
Crash ==
  /\ process.state # "down" /\ process.crashes < MaxCrashes
  /\ process' = [process EXCEPT !.state = "down", !.build = None, !.crashes = @ + 1]
  /\ lock' = None /\ tx' = None
  /\ asked' = [w \in Workers |-> Idle] /\ judged' = [w \in Workers |-> None]
  /\ measuring' = [w \in Workers |-> None] /\ scanned' = [w \in Workers |-> <<>>]
  /\ UNCHANGED <<disk, files>>

Free == process.state = "up" /\ lock = None

-----------------------------------------------------------------------------
(* Measuring: the audio is read, and later `TrackLoudness::new` stats the   *)
(* file.                                                                   *)

Measure(w, t) ==
  /\ process.state = "up" /\ process.calls < MaxCalls
  /\ "put" \in Roles[w] /\ ~Waiting(w, Calls)
  /\ measuring[w] = None /\ Len(scanned[w]) < MaxBatch
  /\ t \in Locals => files[t].readable
  /\ measuring' = [measuring EXCEPT ![w] = [track |-> t,
                                  content |-> IF t \in Locals THEN files[t].content ELSE 0]]
  /\ process' = [process EXCEPT !.calls = @ + 1]
  /\ UNCHANGED <<disk, lock, tx, asked, judged, scanned, files>>

\* `get_file_metadata`
StampOf(t) == IF t \in Locals /\ files[t].readable THEN files[t].stamp ELSE NoStamp

NewRecord(w) ==
  /\ measuring[w] # None
  /\ LET t == measuring[w].track
         row == [version |-> process.build, stamp |-> StampOf(t),
                 content |-> measuring[w].content, album |-> NoGain, intact |-> TRUE,
                 raced |-> t \in Locals /\ files[t].content # measuring[w].content]
     IN scanned' = [scanned EXCEPT ![w] = Append(@, [track |-> t, row |-> row])]
  /\ measuring' = [measuring EXCEPT ![w] = None]
  /\ UNCHANGED <<storeVars, asked, judged, files>>

-----------------------------------------------------------------------------
(* The calls.                                                              *)

Answer(w, answer) == asked' = [asked EXCEPT ![w] = answer]

Ask(w) ==
  /\ process.state = "up" /\ ~Waiting(w, Calls) /\ process.calls < MaxCalls
  /\ process' = [process EXCEPT !.calls = @ + 1]
  /\ \/ /\ scanned[w] # <<>>
        /\ Answer(w, [op |-> "put", items |-> scanned[w]])
        /\ scanned' = [scanned EXCEPT ![w] = <<>>]
     \/ /\ \/ /\ "album" \in Roles[w]
              /\ \E album \in Albums, gain \in Gains :
                   Answer(w, [op |-> "album", tracks |-> album, gain |-> gain])
           \/ \E op \in Roles[w] \cap {"get", "fresh", "delete"}, t \in Tracks :
                Answer(w, [op |-> op, track |-> t])
           \/ "outdated" \in Roles[w] /\ Answer(w, [op |-> "outdated"])
        /\ UNCHANGED scanned
  /\ UNCHANGED <<disk, lock, tx, judged, measuring, files>>

\* `upsert`, one statement that replaces every column.
Upsert(w) ==
  /\ Free /\ Waiting(w, {"put"}) /\ Len(asked[w].items) = 1
  /\ disk' = [disk EXCEPT !.rows[asked[w].items[1].track] = asked[w].items[1].row]
  /\ Answer(w, Done)
  /\ UNCHANGED <<process, lock, tx, workVars>>

\* `batch_upsert` and `set_album_gain`: statement after statement in a transaction.
Begin(w) ==
  /\ Free /\ Waiting(w, {"put", "album"})
  /\ lock' = w /\ tx' = [rows |-> disk.rows, done |-> 0]
  /\ UNCHANGED <<disk, process, asked, workVars>>

Statements(request) == IF request.op = "put" THEN request.items ELSE request.tracks
ExecutedBy(request, rows, i) ==
  IF request.op = "put" THEN [rows EXCEPT ![request.items[i].track] = request.items[i].row]
  ELSE IF rows[request.tracks[i]] = None THEN rows
  ELSE [rows EXCEPT ![request.tracks[i]].album = request.gain]

\* Mutant: every statement commits by itself.
BugExecute(w) ==
  /\ lock = w /\ tx.done < Len(Statements(asked[w]))
  /\ LET rows == ExecutedBy(asked[w], tx.rows, tx.done + 1)
     IN tx' = [rows |-> rows, done |-> tx.done + 1] /\ disk' = [disk EXCEPT !.rows = rows]
  /\ UNCHANGED <<process, lock, asked, workVars>>

Execute(w) ==
  /\ lock = w /\ tx.done < Len(Statements(asked[w]))
  /\ tx' = [rows |-> ExecutedBy(asked[w], tx.rows, tx.done + 1), done |-> tx.done + 1]
  /\ UNCHANGED <<disk, process, lock, asked, workVars>>

Commit(w) ==
  /\ lock = w /\ tx.done = Len(Statements(asked[w]))
  /\ disk' = [disk EXCEPT !.rows = tx.rows]
  /\ lock' = None /\ tx' = None /\ Answer(w, Done)
  /\ UNCHANGED <<process, workVars>>

\* Any statement may fail; a transaction that is dropped rolls back.
Fail(w) ==
  /\ \/ lock = w
     \/ Free /\ Waiting(w, Calls)
  /\ lock' = None /\ tx' = None /\ Answer(w, Refused)
  /\ judged' = [judged EXCEPT ![w] = None]
  /\ UNCHANGED <<disk, process, measuring, scanned, files>>

Delete(w) ==
  /\ Free /\ Waiting(w, {"delete"})
  /\ disk' = [disk EXCEPT !.rows[asked[w].track] = None]
  /\ Answer(w, Done)
  /\ UNCHANGED <<process, lock, tx, workVars>>

\* `get`, and the second query of `get_fresh`.
Get(w) ==
  /\ Free
  /\ \/ Waiting(w, {"get"})
     \/ Waiting(w, {"fresh"}) /\ judged[w] # None
  /\ LET row == disk.rows[asked[w].track]
     IN Answer(w, IF row # None /\ ~row.intact THEN Refused ELSE Found(row))
  /\ judged' = [judged EXCEPT ![w] = None]
  /\ UNCHANGED <<storeVars, measuring, scanned, files>>

\* Mutant: a record of an older scanner is stale, one of a newer scanner is not.
BugNeedsScan(t, row) ==
  \/ row = None
  \/ row.version < process.build \/ t \in Webs
  \/ ~files[t].readable \/ files[t].stamp # row.stamp

\* `needs_scan`
NeedsScan(t, row) ==
  \/ row = None
  \/ row.version # process.build \/ t \in Webs
  \/ ~files[t].readable \/ files[t].stamp # row.stamp

\* `get_fresh` up to the moment the lock is released between its two queries.
Judge(w) ==
  /\ Free /\ Waiting(w, {"fresh"}) /\ judged[w] = None
  /\ LET t == asked[w].track
         row == disk.rows[t]
     IN IF NeedsScan(t, row)
        THEN Answer(w, Found(None)) /\ UNCHANGED judged
        ELSE judged' = [judged EXCEPT ![w] = row] /\ UNCHANGED asked
  /\ UNCHANGED <<storeVars, measuring, scanned, files>>

\* `get_outdated_tracks`: one row that does not decode fails the call.
Outdated(w) ==
  /\ Free /\ Waiting(w, {"outdated"})
  /\ LET stale == {t \in Tracks : /\ disk.rows[t] # None
                                  /\ disk.rows[t].version # process.build \/ t \in Webs}
     IN Answer(w, IF \E t \in stale : ~disk.rows[t].intact THEN Refused ELSE Listed(stale))
  /\ UNCHANGED <<storeVars, workVars>>

-----------------------------------------------------------------------------
(* The file system: external.                                              *)

\* A file is written; written again within a second, and as long, it keeps its
\* stamp.  Or it disappears.
FileChanges(t) ==
  /\ \/ /\ files[t].readable /\ files[t].content < MaxContent
        /\ \E stamp \in {files[t].stamp, files[t].content + 2} :
             files' = [files EXCEPT ![t].content = @ + 1, ![t].stamp = stamp]
     \/ files[t].readable /\ files' = [files EXCEPT ![t].readable = FALSE]
  /\ UNCHANGED <<storeVars, asked, judged, measuring, scanned>>

DatabaseNext ==
  \/ \E build \in Builds : Open(build)
  \/ Vacuum \/ Crash
  \/ \E t \in Locals : FileChanges(t)
  \/ \E w \in Workers :
       \/ \E t \in Tracks : Measure(w, t)
       \/ NewRecord(w) \/ Ask(w)
       \/ Upsert(w) \/ Begin(w) \/ Execute(w) \/ Commit(w) \/ Fail(w)
       \/ Delete(w) \/ Get(w) \/ Judge(w) \/ Outdated(w)

DatabaseSpec == DatabaseInit /\ [][DatabaseNext]_databaseVars

-----------------------------------------------------------------------------
(* Properties.                                                             *)

Cache == INSTANCE LoudnessCache WITH
              NoRow <- None, call <- asked,
              cache <- IF disk.schema = "current" THEN disk.rows ELSE EmptyRows

\* Every call takes effect as a whole, at one moment, or, when it answers an error
\* or the process crashes, not at all: no reader finds an album with the gain on
\* some of its tracks, nor half a batch (loudness_db.rs:804-805).
ImplementsCache == Cache!CacheSpec

\* The work of this build on what the file holds, if its stamp is still the file's:
\* unless the file was written while it was measured, or twice within the
\* resolution of a stamp.
Describes(t, row) ==
  /\ row.version = process.build
  /\ row.stamp = files[t].stamp =>
       row.raced \/ row.content = files[t].content \/ files[t].stamp # files[t].content + 1

\* The row `get_fresh` judges has the stamp of the file, and it and the row that is
\* returned in the end describe it as far as their stamps can tell, whoever stores
\* records between the two queries.  That the row returned still has the stamp of
\* the file does not follow (loudness_db.rs:656-670): FreshMatchesFile.
FreshIsVouched ==
  [][\A w \in Workers :
       /\ judged[w] = None /\ judged'[w] # None =>
            /\ judged'[w].stamp = files[asked[w].track].stamp
            /\ Describes(asked[w].track, judged'[w])
       /\ judged[w] # None /\ asked'[w].op = "found" /\ asked'[w].row # None =>
            Describes(asked[w].track, asked'[w].row)]_databaseVars

\* What the comment at loudness_db.rs:658-660 promises: the record `get_fresh` returns
\* for a file that is still there has the modification time and the size the file has
\* now, or had when it was judged.
FreshMatchesFile ==
  [][\A w \in Workers :
       /\ judged[w] # None /\ asked'[w].op = "found" /\ asked'[w].row # None
       /\ files[asked[w].track].readable
       => asked'[w].row.stamp \in {judged[w].stamp, files[asked[w].track].stamp}]_databaseVars

=============================================================================

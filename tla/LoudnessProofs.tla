---------------------------- MODULE LoudnessProofs ---------------------------
(***************************************************************************)
(* Theorems about what knows or changes the loudness: the database, for any *)
(* workers, tracks, albums, builds and bounds, with the cache that it        *)
(* implements; the dynamic loudness stage; the normalizer; the smoothed      *)
(* stages: equalizer, crossfeed and volume; and the saturation core.         *)
(***************************************************************************)
EXTENDS LoudnessDatabase, LevelStages, SmoothedStages, SaturationCore, SequenceTheorems,
        WellFoundedInduction, TLAPS

-----------------------------------------------------------------------------
(* The database: the inductive invariant.                                  *)

Items == [track : Tracks, row : Rows]
RowMaps == [Tracks -> {None} \cup Rows]

Putting == [op : {"put"}, items : Seq(Items)]
SettingAlbum == [op : {"album"}, tracks : Seq(Tracks), gain : Gains]
AskingTrack == [op : {"get", "fresh", "delete"}, track : Tracks]
AskingAll == {[op |-> "outdated"]}
Asking == Putting \cup SettingAlbum \cup AskingTrack \cup AskingAll

Finding == {Found(row) : row \in {None} \cup Rows}
Listing == {Listed(tracks) : tracks \in SUBSET Tracks}
Answers == {Idle, Done, Refused} \cup Finding \cup Listing

DiskType ==
  disk \in [schema : {"legacy", "current", "none"}, rows : RowMaps, residue : BOOLEAN]
ProcessType ==
  process \in [state : {"down", "vacuuming", "up"}, build : Builds \cup {None},
               crashes : Nat, calls : Nat]
TransactionType ==
  lock \in Workers \cup {None} /\ tx \in {None} \cup [rows : RowMaps, done : Nat]
CallType == asked \in [Workers -> Asking \cup Answers]
JudgedType == judged \in [Workers -> Rows \cup {None}]
ScanType ==
  /\ measuring \in [Workers -> {None} \cup [track : Tracks, content : Contents]]
  /\ scanned \in [Workers -> Seq(Items)]
FilesType == files \in [Locals -> [readable : BOOLEAN, content : Contents, stamp : Stamps]]

\* The states the variables of the database range over.
DatabaseTypeOK ==
  /\ DiskType /\ ProcessType /\ TransactionType /\ CallType /\ JudgedType
  /\ ScanType /\ FilesType

\* A process that runs is some build and its file has the current schema; one
\* that does not holds nothing.
ProcessInv ==
  /\ process.state # "down" => process.build \in Builds /\ disk.schema = "current"
  /\ disk.schema = "none" => disk.rows = EmptyRows
  /\ process.state # "up" =>
       /\ lock = None
       /\ \A w \in Workers : /\ asked[w] \in Answers /\ judged[w] = None
                             /\ measuring[w] = None /\ scanned[w] = <<>>

\* The holder of the connection has asked for a transaction and is inside it.
LockInv ==
  \A w \in Workers : lock = w =>
    /\ tx \in [rows : RowMaps, done : Nat]
    /\ asked[w] \in Putting \cup SettingAlbum
    /\ tx.done <= Len(Statements(asked[w]))

JudgedInv ==
  \A w \in Workers : judged[w] # None => Waiting(w, {"fresh"}) /\ asked[w].track \in Locals

\* The rows after the first `n` statements of a request.
BatchOf(items, before, after, n) ==
  \A t \in Tracks :
    /\ (\A i \in 1 .. n : items[i].track # t) => after[t] = before[t]
    /\ \A i \in 1 .. n :
         /\ items[i].track = t
         /\ \A j \in 1 .. n : items[j].track = t => j <= i
         => after[t] = items[i].row
AlbumOf(tracks, gain, before, after, n) ==
  \A t \in Tracks :
    after[t] = IF before[t] # None /\ \E i \in 1 .. n : tracks[i] = t
               THEN [before[t] EXCEPT !.album = gain] ELSE before[t]
TransactionInv ==
  \A w \in Workers : lock = w =>
    /\ asked[w] \in Putting => BatchOf(asked[w].items, disk.rows, tx.rows, tx.done)
    /\ asked[w] \in SettingAlbum =>
         AlbumOf(asked[w].tracks, asked[w].gain, disk.rows, tx.rows, tx.done)

\* What a worker has yet to store, and what replaces a row it has judged, is the
\* work of the build that runs.
VersionInv ==
  \A w \in Workers :
    /\ \A i \in 1 .. Len(scanned[w]) : scanned[w][i].row.version = process.build
    /\ asked[w] \in Putting =>
         \A i \in 1 .. Len(asked[w].items) : asked[w].items[i].row.version = process.build
    /\ judged[w] # None /\ disk.rows[asked[w].track] # None =>
         disk.rows[asked[w].track].version = process.build

\* A row that was not measured while its file was written is about a content the
\* file has had, and its stamp is not newer.
Vouched(contents, t, row) ==
  t \in Locals =>
    row.raced \/ (row.content <= contents[t].content /\ row.stamp <= row.content + 1)
VouchInv ==
  /\ \A t \in Locals : files[t].stamp <= files[t].content + 1
  /\ \A t \in Tracks : disk.rows[t] # None => Vouched(files, t, disk.rows[t])
  /\ \A w \in Workers :
       /\ \A i \in 1 .. Len(scanned[w]) : Vouched(files, scanned[w][i].track, scanned[w][i].row)
       /\ asked[w] \in Putting =>
            \A i \in 1 .. Len(asked[w].items) :
              Vouched(files, asked[w].items[i].track, asked[w].items[i].row)

DatabaseIInv ==
  /\ DatabaseTypeOK /\ ProcessInv /\ LockInv /\ JudgedInv /\ TransactionInv
  /\ VersionInv /\ VouchInv

-----------------------------------------------------------------------------
(* Calls and answers.                                                      *)

\* A call is known by its operation.
LEMMA Kinds ==
  ASSUME NEW a \in Asking \cup Answers
  PROVE  /\ a.op = "put" <=> a \in Putting
         /\ a.op = "album" <=> a \in SettingAlbum
         /\ a.op \in {"get", "fresh", "delete"} <=> a \in AskingTrack
         /\ a.op = "outdated" <=> a \in AskingAll
         /\ a.op \in Calls <=> a \notin Answers
<1>1. CASE a \in Putting
  BY <1>1 DEF Putting, SettingAlbum, AskingTrack, AskingAll, Answers, Idle, Done, Refused, Finding, Found, Listing, Listed, Calls
<1>2. CASE a \in SettingAlbum
  BY <1>2 DEF Putting, SettingAlbum, AskingTrack, AskingAll, Answers, Idle, Done, Refused, Finding, Found, Listing, Listed, Calls
<1>3. CASE a \in AskingTrack
  BY <1>3 DEF Putting, SettingAlbum, AskingTrack, AskingAll, Answers, Idle, Done, Refused, Finding, Found, Listing, Listed, Calls
<1>4. CASE a \in AskingAll
  BY <1>4 DEF Putting, SettingAlbum, AskingTrack, AskingAll, Answers, Idle, Done, Refused, Finding, Found, Listing, Listed, Calls
<1>5. CASE a \in Answers
  <2>1. a.op \in {"idle", "ok", "error", "found", "listed"}
    BY <1>5 DEF Answers, Idle, Done, Refused, Finding, Found, Listing, Listed
  <2> QED BY <1>5, <2>1 DEF Putting, SettingAlbum, AskingTrack, AskingAll, Calls
<1> QED BY <1>1, <1>2, <1>3, <1>4, <1>5 DEF Asking

\* What a worker waits for.
LEMMA WaitingFor ==
  ASSUME CallType, NEW w \in Workers
  PROVE  /\ Waiting(w, {"put"}) <=> asked[w] \in Putting
         /\ Waiting(w, {"album"}) <=> asked[w] \in SettingAlbum
         /\ Waiting(w, {"put", "album"}) <=> asked[w] \in Putting \cup SettingAlbum
         /\ \A ops \in SUBSET {"get", "fresh", "delete"} :
              Waiting(w, ops) => asked[w] \in AskingTrack
         /\ Waiting(w, {"outdated"}) <=> asked[w] \in AskingAll
         /\ Waiting(w, Calls) <=> asked[w] \notin Answers
         /\ asked[w] \in Asking \cup Answers
<1>1. asked[w] \in Asking \cup Answers
  BY DEF CallType
<1> QED BY <1>1, Kinds DEF Waiting

\* The answers are answers.
LEMMA AnswerTypes ==
  /\ Idle \in Answers /\ Done \in Answers /\ Refused \in Answers
  /\ \A row \in {None} \cup Rows : Found(row) \in Answers
  /\ \A tracks \in SUBSET Tracks : Listed(tracks) \in Answers
  BY DEF Answers, Finding, Listing

\* A request and its statements.
LEMMA RequestParts ==
  ASSUME NEW a \in Putting \cup SettingAlbum
  PROVE  /\ a \in Putting => /\ a.op = "put" /\ a.items \in Seq(Items)
                             /\ Statements(a) = a.items
                             /\ \A i \in 1 .. Len(a.items) :
                                  /\ a.items[i] \in Items
                                  /\ a.items[i].track \in Tracks /\ a.items[i].row \in Rows
         /\ a \in SettingAlbum => /\ a.op = "album" /\ a.tracks \in Seq(Tracks)
                                  /\ a.gain \in Gains
                                  /\ Statements(a) = a.tracks
                                  /\ \A i \in 1 .. Len(a.tracks) : a.tracks[i] \in Tracks
         /\ Len(Statements(a)) \in Nat
<1>1. CASE a \in Putting
  <2>1. a.op = "put" /\ a.items \in Seq(Items)
    BY <1>1 DEF Putting
  <2>2. \A i \in 1 .. Len(a.items) :
          a.items[i] \in Items /\ a.items[i].track \in Tracks /\ a.items[i].row \in Rows
    <3>1. \A item \in Items : item.track \in Tracks /\ item.row \in Rows
      BY DEF Items
    <3>2. \A i \in 1 .. Len(a.items) : a.items[i] \in Items
      BY <2>1
    <3> QED BY <3>1, <3>2
  <2>3. a \notin SettingAlbum
    BY <2>1 DEF SettingAlbum
  <2> QED BY <2>1, <2>2, <2>3 DEF Statements
<1>2. CASE a \in SettingAlbum
  <2>1. a.op = "album" /\ a.tracks \in Seq(Tracks) /\ a.gain \in Gains
    BY <1>2 DEF SettingAlbum
  <2>2. a \notin Putting
    BY <2>1 DEF Putting
  <2> QED BY <2>1, <2>2 DEF Statements
<1> QED BY <1>1, <1>2

\* One statement more leaves rows.
LEMMA StatementTypes ==
  ASSUME NEW a \in Putting \cup SettingAlbum, NEW rows \in RowMaps,
         NEW i \in 1 .. Len(Statements(a))
  PROVE  ExecutedBy(a, rows, i) \in RowMaps
<1>1. CASE a \in Putting
  <2>1. a.op = "put" /\ i \in 1 .. Len(a.items)
    BY <1>1, RequestParts
  <2>2. a.items[i].track \in Tracks /\ a.items[i].row \in Rows
    BY <1>1, <2>1, RequestParts
  <2> QED BY <2>1, <2>2 DEF ExecutedBy, RowMaps
<1>2. CASE a \in SettingAlbum
  <2>1. a.op = "album" /\ a.gain \in Gains /\ a.tracks[i] \in Tracks
    BY <1>2, RequestParts
  <2>2. CASE rows[a.tracks[i]] = None
    BY <2>1, <2>2 DEF ExecutedBy
  <2>3. CASE rows[a.tracks[i]] # None
    <3>1. rows[a.tracks[i]] \in Rows
      BY <2>1, <2>3 DEF RowMaps
    <3>2. [rows[a.tracks[i]] EXCEPT !.album = a.gain] \in Rows
      BY <2>1, <3>1 DEF Rows
    <3>3. ExecutedBy(a, rows, i) = [rows EXCEPT ![a.tracks[i]] = [rows[a.tracks[i]] EXCEPT !.album = a.gain]]
      BY <2>1, <2>3 DEF ExecutedBy, RowMaps
    <3> QED BY <2>1, <3>2, <3>3 DEF RowMaps
  <2> QED BY <2>2, <2>3
<1> QED BY <1>1, <1>2

-----------------------------------------------------------------------------
(* Type correctness.                                                       *)

\* The variables start in their types.
LEMMA TypeInit == DatabaseInit => DatabaseTypeOK
<1> SUFFICES ASSUME DatabaseInit PROVE DatabaseTypeOK
  OBVIOUS
<1> USE DatabaseAssumption
<1>1. OldRows \subseteq {None} \cup Rows
  <2>1. 0 \in Contents /\ 1 \in Stamps
    BY DEF Contents, Stamps
  <2> QED BY <2>1 DEF OldRows, Rows, NoGain
<1>2. DiskType
  <2>1. /\ disk \in [schema : {"legacy", "current", "none"}, rows : [Tracks -> OldRows],
                     residue : {FALSE}]
        /\ FALSE \in BOOLEAN
    BY DEF DatabaseInit
  <2> QED BY <1>1, <2>1 DEF DiskType, RowMaps
<1>3. ProcessType
  BY DEF DatabaseInit, ProcessType
<1>4. TransactionType
  BY DEF DatabaseInit, TransactionType
<1>5. CallType
  BY AnswerTypes DEF DatabaseInit, CallType
<1>6. JudgedType
  BY DEF DatabaseInit, JudgedType
<1>7. ScanType
  BY DEF DatabaseInit, ScanType
<1>8. FilesType
  BY DEF DatabaseInit, FilesType, Contents, Stamps
<1> QED BY <1>2, <1>3, <1>4, <1>5, <1>6, <1>7, <1>8 DEF DatabaseTypeOK

\* A record is a row.
LEMMA RecordIsRow ==
  ASSUME DatabaseTypeOK, ProcessInv, NEW w \in Workers, measuring[w] # None
  PROVE  [version |-> process.build, stamp |-> StampOf(measuring[w].track),
          content |-> measuring[w].content, album |-> NoGain, intact |-> TRUE,
          raced |-> measuring[w].track \in Locals
                      /\ files[measuring[w].track].content # measuring[w].content] \in Rows
<1>1. process.build \in Builds
  BY DEF ProcessInv, DatabaseTypeOK, ProcessType
<1>2. measuring[w] \in [track : Tracks, content : Contents]
  BY DEF DatabaseTypeOK, ScanType
<1>3. StampOf(measuring[w].track) \in Stamps
  BY DatabaseAssumption DEF StampOf, Stamps, NoStamp, DatabaseTypeOK, FilesType
<1>4. (measuring[w].track \in Locals
         /\ files[measuring[w].track].content # measuring[w].content) \in BOOLEAN
  OBVIOUS
<1> HIDE DEF StampOf
<1> DEFINE raced == measuring[w].track \in Locals
                      /\ files[measuring[w].track].content # measuring[w].content
<1>5. raced \in BOOLEAN
  BY <1>4
<1> HIDE DEF raced
<1>6. \A r \in BOOLEAN :
        [version |-> process.build, stamp |-> StampOf(measuring[w].track),
         content |-> measuring[w].content, album |-> NoGain, intact |-> TRUE,
         raced |-> r] \in Rows
  BY <1>1, <1>2, <1>3 DEF Rows, NoGain
<1> QED BY <1>5, <1>6 DEF raced

\* What a worker's call sets: its own request, and its batch emptied into a `put`.
LEMMA AskType ==
  ASSUME DatabaseTypeOK, NEW w \in Workers, Ask(w)
  PROVE  /\ asked' = [asked EXCEPT ![w] = asked'[w]] /\ asked'[w] \in Asking
         /\ scanned' \in [Workers -> Seq(Items)]
         /\ \/ /\ asked'[w] \in Putting /\ asked'[w].items = scanned[w]
               /\ scanned' = [scanned EXCEPT ![w] = <<>>]
            \/ asked'[w] \notin Putting /\ scanned' = scanned
<1>1. asked \in [Workers -> Asking \cup Answers] /\ scanned \in [Workers -> Seq(Items)]
  BY DEF DatabaseTypeOK, CallType, ScanType
<1>2. CASE /\ Answer(w, [op |-> "put", items |-> scanned[w]])
           /\ scanned' = [scanned EXCEPT ![w] = <<>>]
  <2>1. asked'[w] = [op |-> "put", items |-> scanned[w]]
    BY <1>1, <1>2 DEF Answer
  <2>2. scanned[w] \in Seq(Items)
    BY <1>1
  <2>3. asked'[w] \in Putting
    BY <2>1, <2>2 DEF Putting
  <2>4. scanned' \in [Workers -> Seq(Items)]
    BY <1>1, <1>2
  <2> QED BY <1>1, <1>2, <2>1, <2>3, <2>4 DEF Answer, Asking
<1>3. CASE /\ \/ \E album \in Albums, gain \in Gains :
                   Answer(w, [op |-> "album", tracks |-> album, gain |-> gain])
              \/ \E op \in Roles[w] \cap {"get", "fresh", "delete"}, t \in Tracks :
                   Answer(w, [op |-> op, track |-> t])
              \/ Answer(w, [op |-> "outdated"])
           /\ UNCHANGED scanned
  <2>1. PICK a \in Asking : Answer(w, a) /\ a \notin Putting
    <3>1. CASE \E album \in Albums, gain \in Gains :
                   Answer(w, [op |-> "album", tracks |-> album, gain |-> gain])
      <4>1. PICK album \in Albums, gain \in Gains :
                   Answer(w, [op |-> "album", tracks |-> album, gain |-> gain])
        BY <3>1
      <4>2. album \in Seq(Tracks)
        BY DatabaseAssumption DEF Tracks
      <4>3. [op |-> "album", tracks |-> album, gain |-> gain] \in SettingAlbum \ Putting
        BY <4>2 DEF SettingAlbum, Putting
      <4> QED BY <4>1, <4>3 DEF Asking
    <3>2. CASE \E op \in Roles[w] \cap {"get", "fresh", "delete"}, t \in Tracks :
                   Answer(w, [op |-> op, track |-> t])
      <4>1. PICK op \in {"get", "fresh", "delete"}, t \in Tracks :
                   Answer(w, [op |-> op, track |-> t])
        BY <3>2
      <4>2. [op |-> op, track |-> t] \in AskingTrack \ Putting
        BY DEF AskingTrack, Putting
      <4> QED BY <4>1, <4>2 DEF Asking
    <3>3. CASE Answer(w, [op |-> "outdated"])
      <4>1. [op |-> "outdated"] \in AskingAll \ Putting
        BY DEF AskingAll, Putting
      <4> QED BY <3>3, <4>1 DEF Asking
    <3> QED BY <1>3, <3>1, <3>2, <3>3
  <2> QED BY <1>1, <1>3, <2>1 DEF Answer
<1> QED BY <1>2, <1>3 DEF Ask

\* A new answer, and rows that follow a call.
LEMMA AnswerKeepsType ==
  ASSUME CallType, NEW w \in Workers, NEW a \in Asking \cup Answers, Answer(w, a)
  PROVE  CallType' /\ asked'[w] = a /\ \A v \in Workers \ {w} : asked'[v] = asked[v]
  BY DEF CallType, Answer

\* Every step keeps the types.
LEMMA TypeStep ==
  ASSUME DatabaseTypeOK, ProcessInv, LockInv, DatabaseNext
  PROVE  DatabaseTypeOK'
<1> USE DatabaseAssumption DEF DatabaseTypeOK
<1> USE AnswerTypes
<1>1. CASE \E build \in Builds : Open(build)
  <2>1. PICK build \in Builds : Open(build)
    BY <1>1
  <2>2. EmptyRows \in RowMaps
    BY DEF EmptyRows, RowMaps
  <2>3. DiskType' /\ ProcessType'
    BY <2>1, <2>2 DEF Open, DiskType, ProcessType
  <2> QED BY <2>1, <2>3 DEF Open, workVars, TransactionType, CallType, JudgedType, ScanType, FilesType
<1>2. CASE Vacuum
  BY <1>2 DEF Vacuum, DiskType, ProcessType, workVars, TransactionType, CallType, JudgedType, ScanType, FilesType
<1>3. CASE Crash
  <2>1. ProcessType'
    <3>1. process' = [process EXCEPT !.state = "down", !.build = None,
                                     !.crashes = process.crashes + 1]
      BY <1>3 DEF Crash
    <3>2. process.crashes + 1 \in Nat /\ None \in Builds \cup {None}
      BY DEF ProcessType
    <3> QED BY <3>1, <3>2 DEF ProcessType
  <2>2. CallType'
    <3>1. asked' = [v \in Workers |-> Idle] /\ Idle \in Asking \cup Answers
      BY <1>3 DEF Crash
    <3> QED BY <3>1 DEF CallType
  <2>3. JudgedType' /\ TransactionType'
    BY <1>3 DEF Crash, JudgedType, TransactionType
  <2>4. ScanType'
    BY <1>3 DEF Crash, ScanType
  <2> QED BY <1>3, <2>1, <2>2, <2>3, <2>4 DEF Crash, DiskType, FilesType
<1>4. CASE \E t \in Locals : FileChanges(t)
  <2>1. PICK t \in Locals : FileChanges(t)
    BY <1>4
  <2>2. FilesType'
    <3>1. files[t].content \in Contents /\ files[t].stamp \in Stamps
      BY DEF FilesType
    <3>2. CASE /\ files[t].readable /\ files[t].content < MaxContent
               /\ \E stamp \in {files[t].stamp, files[t].content + 2} :
                    files' = [files EXCEPT ![t].content = @ + 1, ![t].stamp = stamp]
      <4>1. /\ files[t].content + 1 \in Contents
            /\ {files[t].stamp, files[t].content + 2} \subseteq Stamps
        <5> DEFINE content == files[t].content
                   stamp == files[t].stamp
        <5>1. MaxContent \in Nat /\ content \in 0..MaxContent /\ content < MaxContent
              /\ stamp \in 0..MaxContent + 1
          BY <3>1, <3>2, DatabaseAssumption DEF Contents, Stamps
        <5> HIDE DEF content, stamp
        <5>2. content + 1 \in 0..MaxContent /\ content + 2 \in 0..MaxContent + 1
          BY <5>1
        <5> QED BY <5>1, <5>2 DEF Contents, Stamps, content, stamp
      <4>2. PICK stamp \in {files[t].stamp, files[t].content + 2} :
              files' = [files EXCEPT ![t].content = files[t].content + 1, ![t].stamp = stamp]
        BY <3>2
      <4>3. stamp \in Stamps
        BY <4>1
      <4> HIDE DEF FilesType
      <4> QED BY <4>1, <4>2, <4>3 DEF FilesType
    <3>3. CASE files' = [files EXCEPT ![t].readable = FALSE]
      BY <3>3 DEF FilesType
    <3> QED BY <2>1, <3>2, <3>3 DEF FileChanges
  <2> QED BY <2>1, <2>2 DEF FileChanges, storeVars, DiskType, ProcessType, TransactionType, CallType, JudgedType, ScanType
<1>5. ASSUME NEW w \in Workers, NEW t \in Tracks, Measure(w, t)
      PROVE  DatabaseTypeOK'
  <2>1. (IF t \in Locals THEN files[t].content ELSE 0) \in Contents
    BY DEF FilesType, Contents
  <2>2. ScanType'
    BY <1>5, <2>1 DEF Measure, ScanType
  <2>3. ProcessType'
    BY <1>5 DEF Measure, ProcessType
  <2> QED BY <1>5, <2>2, <2>3 DEF Measure, DiskType, TransactionType, CallType, JudgedType, FilesType
<1>6. ASSUME NEW w \in Workers, NewRecord(w)
      PROVE  DatabaseTypeOK'
  <2>1. PICK item : scanned' = [scanned EXCEPT ![w] = Append(scanned[w], item)] /\ item \in Items
    <3>1. measuring[w] # None /\ measuring[w].track \in Tracks
      BY <1>6 DEF NewRecord, ScanType
    <3> DEFINE row == [version |-> process.build, stamp |-> StampOf(measuring[w].track),
                       content |-> measuring[w].content, album |-> NoGain, intact |-> TRUE,
                       raced |-> measuring[w].track \in Locals
                         /\ files[measuring[w].track].content # measuring[w].content]
    <3>2. row \in Rows
      BY <3>1, RecordIsRow
    <3>3. scanned' = [scanned EXCEPT ![w] = Append(scanned[w], [track |-> measuring[w].track, row |-> row])]
      BY <1>6 DEF NewRecord
    <3> HIDE DEF row
    <3>4. [track |-> measuring[w].track, row |-> row] \in Items
      BY <3>1, <3>2 DEF Items
    <3> QED BY <3>3, <3>4
  <2>2. ScanType'
    <3>1. Append(scanned[w], item) \in Seq(Items)
      BY <2>1 DEF ScanType
    <3> QED BY <1>6, <2>1, <3>1 DEF NewRecord, ScanType
  <2> QED BY <1>6, <2>2 DEF NewRecord, storeVars, DiskType, ProcessType, TransactionType, CallType, JudgedType, FilesType
<1>7. ASSUME NEW w \in Workers, Ask(w)
      PROVE  DatabaseTypeOK'
  <2>1. CallType' /\ ScanType'
    BY <1>7, AskType DEF Ask, CallType, ScanType
  <2>2. ProcessType'
    BY <1>7 DEF Ask, ProcessType
  <2> QED BY <1>7, <2>1, <2>2 DEF Ask, DiskType, TransactionType, JudgedType, FilesType
<1>8. ASSUME NEW w \in Workers, Upsert(w)
      PROVE  DatabaseTypeOK'
  <2>1. asked[w] \in Putting /\ Len(asked[w].items) = 1
    BY <1>8, WaitingFor DEF Upsert
  <2>2. asked[w].items[1].track \in Tracks /\ asked[w].items[1].row \in Rows
    BY <2>1, RequestParts
  <2>3. DiskType'
    BY <1>8, <2>2 DEF Upsert, DiskType, RowMaps
  <2>4. CallType'
    BY <1>8, AnswerKeepsType DEF Upsert
  <2> QED BY <1>8, <2>3, <2>4 DEF Upsert, workVars, ProcessType, TransactionType, JudgedType, ScanType, FilesType
<1>9. ASSUME NEW w \in Workers, Begin(w)
      PROVE  DatabaseTypeOK'
  <2>1. TransactionType'
    BY <1>9 DEF Begin, TransactionType, DiskType
  <2> QED BY <1>9, <2>1 DEF Begin, workVars, DiskType, ProcessType, CallType, JudgedType, ScanType, FilesType
<1>10. ASSUME NEW w \in Workers, Execute(w)
      PROVE  DatabaseTypeOK'
  <2>1. asked[w] \in Putting \cup SettingAlbum /\ tx \in [rows : RowMaps, done : Nat]
    BY <1>10 DEF Execute, LockInv
  <2>2. tx.done + 1 \in 1 .. Len(Statements(asked[w]))
    BY <1>10, <2>1, RequestParts DEF Execute
  <2>3. ExecutedBy(asked[w], tx.rows, tx.done + 1) \in RowMaps
    BY <2>1, <2>2, StatementTypes
  <2>4. TransactionType'
    BY <1>10, <2>1, <2>3 DEF Execute, TransactionType
  <2> QED BY <1>10, <2>4 DEF Execute, workVars, DiskType, ProcessType, CallType, JudgedType, ScanType, FilesType
<1>11. ASSUME NEW w \in Workers, Commit(w)
      PROVE  DatabaseTypeOK'
  <2>1. tx \in [rows : RowMaps, done : Nat]
    BY <1>11 DEF Commit, LockInv
  <2>2. DiskType' /\ TransactionType'
    BY <1>11, <2>1 DEF Commit, DiskType, TransactionType
  <2>3. CallType'
    BY <1>11, AnswerKeepsType DEF Commit
  <2> QED BY <1>11, <2>2, <2>3 DEF Commit, workVars, ProcessType, JudgedType, ScanType, FilesType
<1>12. ASSUME NEW w \in Workers, Fail(w)
      PROVE  DatabaseTypeOK'
  <2>1. CallType'
    BY <1>12, AnswerKeepsType DEF Fail
  <2> QED BY <1>12, <2>1 DEF Fail, DiskType, ProcessType, TransactionType, JudgedType, ScanType, FilesType
<1>13. ASSUME NEW w \in Workers, Delete(w)
      PROVE  DatabaseTypeOK'
  <2>1. asked[w].track \in Tracks
    BY <1>13, WaitingFor DEF Delete, AskingTrack
  <2>2. DiskType'
    BY <1>13, <2>1 DEF Delete, DiskType, RowMaps
  <2>3. CallType'
    BY <1>13, AnswerKeepsType DEF Delete
  <2> QED BY <1>13, <2>2, <2>3 DEF Delete, workVars, ProcessType, TransactionType, JudgedType, ScanType, FilesType
<1>14. ASSUME NEW w \in Workers, Get(w)
      PROVE  DatabaseTypeOK'
  <2>1. asked[w].track \in Tracks
    BY <1>14, WaitingFor DEF Get, AskingTrack
  <2>2. Found(disk.rows[asked[w].track]) \in Answers
    BY <2>1 DEF DiskType, RowMaps
  <2>3. CallType'
    BY <1>14, <2>2, AnswerKeepsType DEF Get
  <2> QED BY <1>14, <2>3 DEF Get, storeVars, DiskType, ProcessType, TransactionType, JudgedType, ScanType, FilesType
<1>15. ASSUME NEW w \in Workers, Judge(w)
      PROVE  DatabaseTypeOK'
  <2>1. asked[w].track \in Tracks
    BY <1>15, WaitingFor DEF Judge, AskingTrack
  <2>2. disk.rows[asked[w].track] \in {None} \cup Rows
    BY <2>1 DEF DiskType, RowMaps
  <2>3. CallType'
    <3>1. Found(None) \in Answers
      OBVIOUS
    <3>2. CASE Answer(w, Found(None))
      BY <3>1, <3>2, AnswerKeepsType
    <3>3. CASE UNCHANGED asked
      BY <3>3 DEF CallType
    <3> QED BY <1>15, <3>2, <3>3 DEF Judge
  <2>4. JudgedType'
    BY <1>15, <2>2 DEF Judge, JudgedType
  <2> QED BY <1>15, <2>3, <2>4 DEF Judge, storeVars, DiskType, ProcessType, TransactionType, ScanType, FilesType
<1>16. ASSUME NEW w \in Workers, Outdated(w)
      PROVE  DatabaseTypeOK'
  <2> DEFINE stale == {t \in Tracks : /\ disk.rows[t] # None
                                      /\ disk.rows[t].version # process.build \/ t \in Webs}
  <2>1. Listed(stale) \in Answers
    OBVIOUS
  <2>2. \E a \in Answers : Answer(w, a)
    BY <1>16, <2>1 DEF Outdated
  <2>3. CallType'
    BY <2>2, AnswerKeepsType
  <2> QED BY <1>16, <2>3 DEF Outdated, storeVars, workVars, DiskType, ProcessType, TransactionType, JudgedType, ScanType, FilesType
<1> QED
  BY <1>1, <1>2, <1>3, <1>4, <1>5, <1>6, <1>7, <1>8, <1>9, <1>10, <1>11, <1>12, <1>13, <1>14, <1>15, <1>16
  DEF DatabaseNext

-----------------------------------------------------------------------------
(* The process, the lock and what has been judged.                         *)

\* No process, no lock and no judgement at the start.
LEMMA ControlInit == DatabaseInit => ProcessInv /\ LockInv /\ JudgedInv /\ TransactionInv
<1> SUFFICES ASSUME DatabaseInit PROVE ProcessInv /\ LockInv /\ JudgedInv /\ TransactionInv
  OBVIOUS
<1>1. ProcessInv
  BY AnswerTypes DEF DatabaseInit, ProcessInv
<1>2. \A w \in Workers : lock # w
  BY DatabaseAssumption DEF DatabaseInit
<1>3. JudgedInv
  BY DEF DatabaseInit, JudgedInv
<1> QED BY <1>1, <1>2, <1>3 DEF LockInv, TransactionInv

\* A worker that has not asked, and is not inside the process's calls.
LEMMA ProcessStep ==
  ASSUME DatabaseTypeOK, ProcessInv, LockInv, DatabaseNext
  PROVE  ProcessInv'
<1> USE DatabaseAssumption DEF DatabaseTypeOK
<1> USE AnswerTypes
<1>1. CASE \E build \in Builds : Open(build)
  BY <1>1 DEF Open, workVars, ProcessInv, DiskType, ProcessType
<1>2. CASE Vacuum
  BY <1>2 DEF Vacuum, workVars, ProcessInv, DiskType, ProcessType
<1>3. CASE Crash
  <2>1. process'.state = "down" /\ disk' = disk /\ lock' = None
    BY <1>3 DEF Crash, ProcessType
  <2>2. \A w \in Workers : /\ asked'[w] \in Answers /\ judged'[w] = None
                           /\ measuring'[w] = None /\ scanned'[w] = <<>>
    BY <1>3 DEF Crash
  <2>3. (disk.schema = "none" => disk.rows = EmptyRows)'
    BY <2>1 DEF ProcessInv, EmptyRows
  <2> QED BY <2>1, <2>2, <2>3 DEF ProcessInv
<1>4. CASE \E t \in Locals : FileChanges(t)
  BY <1>4 DEF FileChanges, storeVars, ProcessInv, EmptyRows
<1>5. ASSUME NEW w \in Workers, NEW t \in Tracks, Measure(w, t)
      PROVE  ProcessInv'
  BY <1>5 DEF Measure, ProcessInv, EmptyRows, ProcessType
<1>6. ASSUME NEW w \in Workers, NewRecord(w)
      PROVE  ProcessInv'
  BY <1>6 DEF NewRecord, storeVars, ProcessInv, EmptyRows
<1>7. ASSUME NEW w \in Workers, Ask(w)
      PROVE  ProcessInv'
  BY <1>7 DEF Ask, ProcessInv, EmptyRows, ProcessType
<1>8. \A w \in Workers : Free \/ lock = w => process.state = "up"
  BY DEF Free, ProcessInv
<1>9. ASSUME NEW w \in Workers, process.state = "up", process' = process,
             disk'.schema = disk.schema
      PROVE  ProcessInv'
  BY <1>9 DEF ProcessInv
<1>10. ASSUME NEW w \in Workers,
              \/ Upsert(w) \/ Begin(w) \/ Execute(w) \/ Commit(w)
              \/ Delete(w) \/ Get(w) \/ Judge(w) \/ Outdated(w)
      PROVE  ProcessInv'
  <2>1. process.state = "up" /\ process' = process
    BY <1>8, <1>10 DEF Upsert, Begin, Execute, Commit, Delete, Get, Judge, Outdated, storeVars
  <2>2. disk'.schema = disk.schema
    BY <1>10 DEF Upsert, Begin, Execute, Commit, Delete, Get, Judge, Outdated, storeVars, DiskType
  <2> QED BY <1>9, <2>1, <2>2
<1>11. ASSUME NEW w \in Workers, Fail(w)
       PROVE  ProcessInv'
  BY <1>8, <1>9, <1>11 DEF Fail
<1> QED
  BY <1>1, <1>2, <1>3, <1>4, <1>5, <1>6, <1>7, <1>10, <1>11 DEF DatabaseNext

\* One statement more of a batch, and of an album.
LEMMA BatchGrows ==
  ASSUME NEW a \in Putting, NEW before \in RowMaps, NEW rows \in RowMaps, NEW n \in Nat,
         n + 1 <= Len(a.items), BatchOf(a.items, before, rows, n)
  PROVE  BatchOf(a.items, before, ExecutedBy(a, rows, n + 1), n + 1)
<1>1. a.op = "put" /\ \A i \in 1 .. Len(a.items) : a.items[i].track \in Tracks
  BY RequestParts
<1> DEFINE after == ExecutedBy(a, rows, n + 1)
           last == a.items[n + 1]
<1>2. after = [rows EXCEPT ![last.track] = last.row]
  BY <1>1 DEF ExecutedBy
<1>3. Len(a.items) \in Nat
  BY DEF Putting
<1>4. n + 1 \in 1 .. Len(a.items) /\ last.track \in Tracks
  BY <1>1, <1>3
<1>5. ASSUME NEW t \in Tracks, \A i \in 1 .. n + 1 : a.items[i].track # t
      PROVE  after[t] = before[t]
  <2>1. t # last.track /\ \A i \in 1 .. n : a.items[i].track # t
    BY <1>5
  <2> QED BY <1>2, <2>1 DEF BatchOf, RowMaps
<1>6. ASSUME NEW t \in Tracks, NEW i \in 1 .. n + 1, a.items[i].track = t,
             \A j \in 1 .. n + 1 : a.items[j].track = t => j <= i
      PROVE  after[t] = a.items[i].row
  <2>1. CASE i = n + 1
    BY <1>2, <1>6, <2>1 DEF RowMaps
  <2>2. CASE i # n + 1
    <3>1. i \in 1 .. n /\ last.track # t
      <4>1. i \in Nat /\ 1 <= i /\ i < n + 1
        BY <1>6, <2>2
      <4>2. n + 1 \in 1 .. n + 1 /\ ~(n + 1 <= i)
        BY <4>1
      <4>3. last.track # t
        BY <1>6, <4>2, Zenon
      <4> QED BY <4>1, <4>3
    <3>2. \A j \in 1 .. n : a.items[j].track = t => j <= i
      BY <1>6
    <3>3. rows[t] = a.items[i].row
      BY <1>6, <3>1, <3>2 DEF BatchOf
    <3> QED BY <1>2, <3>1, <3>3 DEF RowMaps
  <2> QED BY <2>1, <2>2
<1> HIDE DEF after
<1> QED BY <1>5, <1>6 DEF BatchOf, after

\* A further statement of an album's transaction writes the next of its tracks.
LEMMA AlbumGrows ==
  ASSUME NEW a \in SettingAlbum, NEW before \in RowMaps, NEW rows \in RowMaps, NEW n \in Nat,
         n + 1 <= Len(a.tracks), AlbumOf(a.tracks, a.gain, before, rows, n)
  PROVE  AlbumOf(a.tracks, a.gain, before, ExecutedBy(a, rows, n + 1), n + 1)
<1>1. a.op = "album" /\ \A i \in 1 .. Len(a.tracks) : a.tracks[i] \in Tracks
  BY RequestParts
<1> DEFINE after == ExecutedBy(a, rows, n + 1)
           last == a.tracks[n + 1]
           With(row) == [row EXCEPT !.album = a.gain]
<1>2. n + 1 \in 1 .. Len(a.tracks) /\ last \in Tracks
  <2>1. Len(a.tracks) \in Nat
    BY DEF SettingAlbum
  <2> QED BY <1>1, <2>1
<1>3. after = IF rows[last] = None THEN rows ELSE [rows EXCEPT ![last] = With(rows[last])]
  BY <1>1 DEF ExecutedBy, RowMaps
<1>4. \A row \in Rows : With(With(row)) = With(row)
  BY DEF Rows
<1> SUFFICES ASSUME NEW t \in Tracks
             PROVE  after[t] = IF before[t] # None /\ \E i \in 1 .. n + 1 : a.tracks[i] = t
                               THEN With(before[t]) ELSE before[t]
  BY DEF AlbumOf
<1>5. rows[t] = IF before[t] # None /\ \E i \in 1 .. n : a.tracks[i] = t
                THEN With(before[t]) ELSE before[t]
  BY DEF AlbumOf
<1>6. CASE t # last
  <2>1. after[t] = rows[t]
    BY <1>2, <1>3, <1>6 DEF RowMaps
  <2>2. (\E i \in 1 .. n + 1 : a.tracks[i] = t) <=> \E i \in 1 .. n : a.tracks[i] = t
    BY <1>6
  <2> QED BY <1>5, <2>1, <2>2
<1>7. CASE t = last
  <2>1. after[t] = IF rows[t] = None THEN None ELSE With(rows[t])
    BY <1>2, <1>3, <1>7 DEF RowMaps
  <2>2. \E i \in 1 .. n + 1 : a.tracks[i] = t
    BY <1>7
  <2>3. before[t] = None \/ before[t] \in Rows
    BY DEF RowMaps
  <2> HIDE DEF With, after
  <2> QED BY <1>4, <1>5, <2>1, <2>2, <2>3
<1> QED BY <1>6, <1>7

\* Every step keeps the owner of the lock the only one with a transaction, and
\* what it has written the beginning of its request.
LEMMA LockStep ==
  ASSUME DatabaseTypeOK, ProcessInv, LockInv, TransactionInv, DatabaseNext
  PROVE  LockInv' /\ TransactionInv'
<1> DEFINE Inside(v) ==
      /\ tx \in [rows : RowMaps, done : Nat]
      /\ asked[v] \in Putting \cup SettingAlbum
      /\ tx.done <= Len(Statements(asked[v]))
      /\ asked[v] \in Putting => BatchOf(asked[v].items, disk.rows, tx.rows, tx.done)
      /\ asked[v] \in SettingAlbum =>
           AlbumOf(asked[v].tracks, asked[v].gain, disk.rows, tx.rows, tx.done)
<1>1. /\ \A v \in Workers : lock = v => Inside(v)
      /\ (\A v \in Workers : lock' = v => Inside(v)') => LockInv' /\ TransactionInv'
  BY DEF LockInv, TransactionInv
<1>2. ASSUME lock' = None
      PROVE  \A v \in Workers : lock' = v => Inside(v)'
  BY <1>2, DatabaseAssumption
<1>3. ASSUME lock' = lock, tx' = tx,
             \A v \in Workers : lock = v => asked'[v] = asked[v] /\ disk' = disk
      PROVE  \A v \in Workers : lock' = v => Inside(v)'
  <2> SUFFICES ASSUME NEW v \in Workers, lock' = v PROVE Inside(v)'
    OBVIOUS
  <2>1. Inside(v) /\ asked'[v] = asked[v] /\ disk' = disk /\ tx' = tx
    BY <1>1, <1>3
  <2> QED BY <2>1, SMTT(20) DEF BatchOf, AlbumOf
<1>4. \A v \in Workers : lock = v => asked[v] \notin Answers /\ ~Free
  BY <1>1, DatabaseAssumption, WaitingFor, Kinds DEF DatabaseTypeOK, CallType, Free, Putting, SettingAlbum, Calls
<1>5. CASE (\E build \in Builds : Open(build)) \/ Vacuum
  <2>1. lock = None
    BY <1>5 DEF Open, Vacuum, ProcessInv
  <2> QED BY <1>1, <1>2, <1>5, <2>1 DEF Open, Vacuum
<1>6. CASE Crash
  BY <1>1, <1>2, <1>6 DEF Crash
<1>7. CASE \E t \in Locals : FileChanges(t)
  BY <1>1, <1>3, <1>7 DEF FileChanges, storeVars
<1>8. CASE \E w \in Workers : (\E t \in Tracks : Measure(w, t)) \/ NewRecord(w)
  BY <1>1, <1>3, <1>8 DEF Measure, NewRecord, storeVars
<1>9. ASSUME NEW w \in Workers, Ask(w)
      PROVE  LockInv' /\ TransactionInv'
  <2>1. asked[w] \in Answers /\ lock' = lock /\ tx' = tx /\ disk' = disk
    BY <1>9, WaitingFor DEF Ask, DatabaseTypeOK
  <2>2. \A v \in Workers : lock = v => asked'[v] = asked[v]
    BY <1>4, <1>9, <2>1, AskType DEF DatabaseTypeOK, CallType
  <2> QED BY <1>1, <1>3, <2>1, <2>2
<1>10. ASSUME NEW w \in Workers, Begin(w)
       PROVE  LockInv' /\ TransactionInv'
  <2>1. /\ lock' = w /\ tx' = [rows |-> disk.rows, done |-> 0]
        /\ disk' = disk /\ asked' = asked
        /\ asked[w] \in Putting \cup SettingAlbum
    BY <1>10, WaitingFor DEF Begin, DatabaseTypeOK
  <2>2. tx' \in [rows : RowMaps, done : Nat] /\ tx'.rows = disk.rows /\ tx'.done = 0
    BY <2>1 DEF DatabaseTypeOK, DiskType
  <2>3. (tx.done <= Len(Statements(asked[w])))'
    BY <2>1, <2>2, RequestParts
  <2>4. \A items : BatchOf(items, disk.rows, disk.rows, 0)
    BY DEF BatchOf
  <2>5. \A tracks, gain : AlbumOf(tracks, gain, disk.rows, disk.rows, 0)
    BY DEF AlbumOf
  <2>6. Inside(w)'
    BY <2>1, <2>2, <2>3, <2>4, <2>5
  <2> QED BY <1>1, <2>1, <2>6
<1>11. ASSUME NEW w \in Workers, Execute(w)
       PROVE  LockInv' /\ TransactionInv'
  <2>1. /\ Inside(w) /\ lock' = w /\ disk' = disk /\ asked' = asked
        /\ tx.done < Len(Statements(asked[w]))
        /\ tx' = [rows |-> ExecutedBy(asked[w], tx.rows, tx.done + 1), done |-> tx.done + 1]
    BY <1>1, <1>11 DEF Execute, workVars
  <2>2. /\ Len(Statements(asked[w])) \in Nat
        /\ asked[w] \in Putting => Statements(asked[w]) = asked[w].items
        /\ asked[w] \in SettingAlbum => Statements(asked[w]) = asked[w].tracks
    BY <2>1, RequestParts
  <2>3. /\ tx.done \in Nat /\ tx.rows \in RowMaps /\ disk.rows \in RowMaps
        /\ tx.done + 1 \in 1 .. Len(Statements(asked[w]))
        /\ tx.done + 1 <= Len(Statements(asked[w]))
    BY <2>1, <2>2 DEF DatabaseTypeOK, DiskType
  <2>4. ExecutedBy(asked[w], tx.rows, tx.done + 1) \in RowMaps
    BY <2>1, <2>3, StatementTypes
  <2>5. /\ tx' \in [rows : RowMaps, done : Nat]
        /\ tx'.rows = ExecutedBy(asked[w], tx.rows, tx.done + 1)
        /\ tx'.done = tx.done + 1
    BY <2>1, <2>3, <2>4
  <2>6. asked[w] \in Putting =>
          BatchOf(asked[w].items, disk.rows, ExecutedBy(asked[w], tx.rows, tx.done + 1), tx.done + 1)
    BY <2>1, <2>2, <2>3, BatchGrows
  <2>7. asked[w] \in SettingAlbum =>
          AlbumOf(asked[w].tracks, asked[w].gain, disk.rows,
                  ExecutedBy(asked[w], tx.rows, tx.done + 1), tx.done + 1)
    BY <2>1, <2>2, <2>3, AlbumGrows
  <2>8. (tx.done <= Len(Statements(asked[w])))'
    BY <2>1, <2>3, <2>5
  <2>9. asked'[w] = asked[w] /\ disk'.rows = disk.rows
    BY <2>1
  <2>10. (asked[w] \in Putting => BatchOf(asked[w].items, disk.rows, tx.rows, tx.done))'
    BY <2>5, <2>6, <2>9
  <2>11. (asked[w] \in SettingAlbum =>
           AlbumOf(asked[w].tracks, asked[w].gain, disk.rows, tx.rows, tx.done))'
    BY <2>5, <2>7, <2>9
  <2>12. Inside(w)'
    BY <2>1, <2>5, <2>8, <2>9, <2>10, <2>11
  <2> QED BY <1>1, <2>1, <2>12
<1>12. CASE \E w \in Workers : Commit(w) \/ Fail(w)
  BY <1>1, <1>2, <1>12 DEF Commit, Fail
<1>13. CASE \E w \in Workers : Upsert(w) \/ Delete(w) \/ Get(w) \/ Judge(w) \/ Outdated(w)
  <2>1. lock = None /\ lock' = lock /\ tx' = tx
    BY <1>13 DEF Free, Upsert, Delete, Get, Judge, Outdated, storeVars
  <2> QED BY <1>1, <1>2, <2>1
<1> QED
  BY <1>5, <1>6, <1>7, <1>8, <1>9, <1>10, <1>11, <1>12, <1>13 DEF DatabaseNext

\* A call of `get_fresh` between its queries stays there, or has just judged a row.
Judges(v) ==
  /\ Judge(v) /\ asked' = asked
  /\ ~NeedsScan(asked[v].track, disk.rows[asked[v].track])
  /\ judged[v] = None /\ judged'[v] = disk.rows[asked[v].track]

\* A row under judgement is an old one, or was just read for a freshness check.
LEMMA JudgedOrigins ==
  ASSUME DatabaseTypeOK, ProcessInv, LockInv, JudgedInv, DatabaseNext
  PROVE  \A v \in Workers : judged'[v] # None =>
           \/ judged'[v] = judged[v] /\ asked'[v] = asked[v]
           \/ Judges(v)
<1> DEFINE FromScans == \A v \in Workers : judged'[v] # None =>
                     \/ judged'[v] = judged[v] /\ asked'[v] = asked[v]
                     \/ Judges(v)
<1> SUFFICES FromScans
  OBVIOUS
<1>1. \A v \in Workers : judged[v] # None => asked[v].op = "fresh" /\ asked[v] \in AskingTrack
  BY WaitingFor DEF JudgedInv, Waiting, DatabaseTypeOK
<1>3. ASSUME \A v \in Workers : judged'[v] # None =>
               judged'[v] = judged[v] /\ asked'[v] = asked[v]
      PROVE  FromScans
  BY <1>3
<1>4. judged \in [Workers -> Rows \cup {None}] /\ asked \in [Workers -> Asking \cup Answers]
  BY DEF DatabaseTypeOK, JudgedType, CallType
<1>5. \A w \in Workers : \A a : Answer(w, a) => \A v \in Workers \ {w} : asked'[v] = asked[v]
  BY <1>4 DEF Answer
<1>6. CASE \E build \in Builds : Open(build)
  BY <1>3, <1>6 DEF Open, workVars
<1>7. CASE Vacuum \/ \E t \in Locals : FileChanges(t)
  BY <1>3, <1>7 DEF Vacuum, workVars, FileChanges
<1>8. CASE Crash
  BY <1>3, <1>8 DEF Crash
<1>9. CASE \E w \in Workers : (\E t \in Tracks : Measure(w, t)) \/ NewRecord(w) \/ Begin(w) \/ Execute(w)
  BY <1>3, <1>9 DEF Measure, NewRecord, Begin, Execute, workVars
<1>10. ASSUME NEW w \in Workers, Ask(w) PROVE FromScans
  <2>1. judged' = judged /\ asked[w].op \notin Calls
    BY <1>10 DEF Ask, Waiting
  <2>2. judged[w] = None
    BY <1>1, <2>1 DEF Calls
  <2>3. \A v \in Workers \ {w} : asked'[v] = asked[v]
    BY <1>4, <1>10, AskType
  <2> QED BY <1>3, <2>1, <2>2, <2>3
<1>11. ASSUME NEW w \in Workers, Upsert(w) \/ Commit(w) \/ Delete(w) \/ Outdated(w)
       PROVE  FromScans
  <2>1. judged' = judged /\ \A v \in Workers \ {w} : asked'[v] = asked[v]
    BY <1>5, <1>11 DEF Upsert, Commit, Delete, Outdated, workVars
  <2>2. asked[w].op # "fresh"
    BY <1>11, DatabaseAssumption DEF Upsert, Commit, Delete, Outdated, Waiting, LockInv, Putting, SettingAlbum
  <2> QED BY <1>1, <1>3, <2>1, <2>2
<1>12. ASSUME NEW w \in Workers, Fail(w) \/ Get(w)
       PROVE  FromScans
  <2>1. judged' = [judged EXCEPT ![w] = None] /\ \A v \in Workers \ {w} : asked'[v] = asked[v]
    BY <1>5, <1>12 DEF Fail, Get
  <2> QED BY <1>3, <1>4, <2>1
<1>13. ASSUME NEW w \in Workers, Judge(w)
       PROVE  FromScans
  <2>1. CASE /\ Answer(w, Found(None)) /\ UNCHANGED judged
    BY <1>3, <1>5, <1>13, <2>1 DEF Judge
  <2>2. CASE /\ judged' = [judged EXCEPT ![w] = disk.rows[asked[w].track]] /\ UNCHANGED asked
    <3>1. \A v \in Workers \ {w} : judged'[v] = judged[v]
      BY <1>4, <2>2
    <3>2. CASE NeedsScan(asked[w].track, disk.rows[asked[w].track])
      BY <1>3, <1>5, <1>13, <3>2 DEF Judge
    <3>3. CASE ~NeedsScan(asked[w].track, disk.rows[asked[w].track])
      BY <1>4, <1>13, <2>2, <3>1, <3>3 DEF Judge, Judges
    <3> QED BY <3>2, <3>3
  <2> QED BY <1>13, <2>1, <2>2 DEF Judge
<1> QED
  BY <1>6, <1>7, <1>8, <1>9, <1>10, <1>11, <1>12, <1>13 DEF DatabaseNext

\* Only a freshness check has a row under judgement.
LEMMA JudgedStep ==
  ASSUME DatabaseTypeOK, ProcessInv, LockInv, JudgedInv, DatabaseNext
  PROVE  JudgedInv'
<1>1. JudgedInv' <=> \A v \in Workers : judged'[v] # None =>
                        asked'[v].op = "fresh" /\ asked'[v].track \in Locals
  BY DEF JudgedInv, Waiting
<1>2. ASSUME NEW v \in Workers, Judges(v)
      PROVE  asked'[v].op = "fresh" /\ asked'[v].track \in Locals
  <2>1. asked[v].op = "fresh" /\ asked[v].track \in Tracks
    BY <1>2, WaitingFor DEF Judges, Judge, Waiting, AskingTrack, DatabaseTypeOK
  <2>2. asked'[v] = asked[v] /\ asked[v].track \notin Webs
    BY <1>2 DEF Judges, NeedsScan
  <2> QED BY <2>1, <2>2 DEF Tracks
<1>3. \A v \in Workers : judged[v] # None => asked[v].op = "fresh" /\ asked[v].track \in Locals
  BY DEF JudgedInv, Waiting
<1> QED BY <1>1, <1>2, <1>3, JudgedOrigins

-----------------------------------------------------------------------------
(* Where rows come from.                                                   *)

\* A set of natural numbers that is not empty has a least element.
LEMMA LeastOf ==
  ASSUME NEW S \in SUBSET Nat, S # {}
  PROVE  \E m \in S : \A k \in S : m <= k
<1>1. PICK m \in S : \A k \in S : ~(<<k, m>> \in OpToRel(<, Nat))
  BY NatLessThanWellFounded, WFMin
<1>2. \A k \in S : ~(k < m)
  BY <1>1 DEF OpToRel
<1> QED BY <1>2

\* Of some places in a list, one is the last.
LEMMA LastPlace ==
  ASSUME NEW n \in Nat, NEW P \in SUBSET (1 .. n), P # {}
  PROVE  \E m \in P : \A k \in P : k <= m
<1> DEFINE S == {n - k : k \in P}
<1>1. S \in SUBSET Nat /\ S # {}
  <2>1. \A k \in P : n - k \in Nat
    <3> SUFFICES ASSUME NEW k \in P PROVE n - k \in Nat
      OBVIOUS
    <3>1. k \in 1 .. n
      OBVIOUS
    <3> QED BY <3>1
  <2> QED BY <2>1
<1>2. PICK d \in S : \A e \in S : d <= e
  <2> HIDE DEF S
  <2> QED BY <1>1, LeastOf
<1>3. PICK m \in P : d = n - m
  BY <1>2
<1>4. \A k \in P : k <= m
  <2> SUFFICES ASSUME NEW k \in P PROVE k <= m
    OBVIOUS
  <2>1. n - k \in S
    OBVIOUS
  <2>2. n - m <= n - k
    BY <1>2, <1>3, <2>1
  <2>3. k \in 1 .. n /\ m \in 1 .. n
    OBVIOUS
  <2> HIDE DEF S
  <2> QED BY <2>2, <2>3
<1> QED BY <1>4

Places(items, t) == {i \in 1 .. Len(items) : items[i].track = t}

\* What a batch leaves of a track.
LEMMA BatchResult ==
  ASSUME NEW items \in Seq(Items), NEW before, NEW after,
         BatchOf(items, before, after, Len(items)), NEW t \in Tracks
  PROVE  /\ Places(items, t) = {} => after[t] = before[t]
         /\ \A m \in Places(items, t) :
              (\A k \in Places(items, t) : k <= m) => after[t] = items[m].row
         /\ Places(items, t) # {} =>
              \E m \in Places(items, t) : \A k \in Places(items, t) : k <= m
<1>1. Places(items, t) = {} => after[t] = before[t]
  BY DEF BatchOf, Places
<1>2. \A m \in Places(items, t) :
        (\A k \in Places(items, t) : k <= m) => after[t] = items[m].row
  BY DEF BatchOf, Places
<1>3. Places(items, t) # {} =>
        \E m \in Places(items, t) : \A k \in Places(items, t) : k <= m
  <2>1. Len(items) \in Nat /\ Places(items, t) \in SUBSET (1 .. Len(items))
    BY DEF Places
  <2> QED BY <2>1, LastPlace
<1> QED BY <1>1, <1>2, <1>3

\* What a step stores: nothing, a record a worker asked to store, or an album gain.
LEMMA RowOrigins ==
  ASSUME DatabaseTypeOK, ProcessInv, LockInv, TransactionInv, DatabaseNext, NEW t \in Tracks
  PROVE  \/ disk'.rows[t] \in {disk.rows[t], None}
         \/ \E w \in Workers : asked[w] \in Putting /\
              \E i \in 1 .. Len(asked[w].items) :
                asked[w].items[i].track = t /\ disk'.rows[t] = asked[w].items[i].row
         \/ /\ disk.rows[t] # None
            /\ \E gain : disk'.rows[t] = [disk.rows[t] EXCEPT !.album = gain]
<1>1. CASE UNCHANGED disk
  BY <1>1
<1>2. CASE (\E build \in Builds : Open(build)) \/ Vacuum
  <2>1. disk'.rows = disk.rows \/ disk'.rows = EmptyRows
    <3>1. CASE Vacuum
      BY <3>1 DEF Vacuum, DatabaseTypeOK, DiskType
    <3>2. ASSUME NEW build \in Builds, Open(build)
          PROVE  disk'.rows = disk.rows \/ disk'.rows = EmptyRows
      <4>1. disk'.rows = IF disk.schema = "legacy" THEN EmptyRows ELSE disk.rows
        BY <3>2 DEF Open
      <4> QED BY <4>1
    <3> QED BY <1>2, <3>1, <3>2
  <2> QED BY <2>1 DEF EmptyRows
<1>3. ASSUME NEW w \in Workers, Upsert(w)
      PROVE  \/ disk'.rows[t] = disk.rows[t]
             \/ /\ asked[w] \in Putting
                /\ \E i \in 1 .. Len(asked[w].items) :
                     asked[w].items[i].track = t /\ disk'.rows[t] = asked[w].items[i].row
  <2>1. asked[w] \in Putting /\ Len(asked[w].items) = 1
    BY <1>3, WaitingFor DEF Upsert, DatabaseTypeOK
  <2>2. disk'.rows = [disk.rows EXCEPT ![asked[w].items[1].track] = asked[w].items[1].row]
    BY <1>3 DEF Upsert, DatabaseTypeOK, DiskType
  <2>3. 1 \in 1 .. Len(asked[w].items)
    BY <2>1
  <2> QED BY <2>1, <2>2, <2>3 DEF DatabaseTypeOK, DiskType, RowMaps
<1>4. ASSUME NEW w \in Workers, Commit(w), asked[w] \in Putting
      PROVE  \/ disk'.rows[t] = disk.rows[t]
             \/ \E i \in 1 .. Len(asked[w].items) :
                  asked[w].items[i].track = t /\ disk'.rows[t] = asked[w].items[i].row
  <2>1. /\ BatchOf(asked[w].items, disk.rows, disk'.rows, Len(asked[w].items))
        /\ asked[w].items \in Seq(Items)
    BY <1>4, RequestParts DEF Commit, TransactionInv, DatabaseTypeOK, DiskType
  <2>2. Places(asked[w].items, t) \subseteq 1 .. Len(asked[w].items)
        /\ \A i \in Places(asked[w].items, t) : asked[w].items[i].track = t
    BY DEF Places
  <2> QED BY <2>1, <2>2, BatchResult
<1>5. ASSUME NEW w \in Workers, Commit(w), asked[w] \in SettingAlbum
      PROVE  \/ disk'.rows[t] = disk.rows[t]
             \/ /\ disk.rows[t] # None
                /\ \E gain : disk'.rows[t] = [disk.rows[t] EXCEPT !.album = gain]
  <2>1. AlbumOf(asked[w].tracks, asked[w].gain, disk.rows, disk'.rows, tx.done)
    BY <1>5 DEF Commit, TransactionInv, DatabaseTypeOK, DiskType
  <2> QED BY <2>1 DEF AlbumOf
<1>6. ASSUME NEW w \in Workers, Delete(w)
      PROVE  disk'.rows[t] \in {disk.rows[t], None}
  BY <1>6 DEF Delete, DatabaseTypeOK, DiskType, RowMaps
<1>7. \A w \in Workers : Commit(w) => asked[w] \in Putting \cup SettingAlbum
  BY DEF Commit, LockInv
<1>8. CASE \E w \in Workers :
             \/ (\E u \in Tracks : Measure(w, u)) \/ NewRecord(w) \/ Ask(w) \/ Begin(w)
             \/ Execute(w) \/ Fail(w) \/ Get(w) \/ Judge(w) \/ Outdated(w)
  BY <1>1, <1>8 DEF Measure, NewRecord, Ask, Begin, Execute, Fail, Get, Judge, Outdated, storeVars
<1>9. CASE Crash \/ \E u \in Locals : FileChanges(u)
  BY <1>1, <1>9 DEF Crash, FileChanges, storeVars
<1> QED
  BY <1>2, <1>3, <1>4, <1>5, <1>6, <1>7, <1>8, <1>9 DEF DatabaseNext

\* A process that starts or ends leaves no work behind.
LEMMA BuildStays ==
  ASSUME DatabaseTypeOK, ProcessInv, DatabaseNext
  PROVE  \/ process'.build = process.build
         \/ \A v \in Workers : /\ scanned'[v] = <<>> /\ asked'[v] \in Answers
                               /\ judged'[v] = None
<1>1. CASE \E build \in Builds : Open(build)
  BY <1>1 DEF Open, workVars, ProcessInv
<1>2. CASE Crash
  BY <1>2, AnswerTypes DEF Crash
<1>3. CASE Vacuum \/ \E u \in Locals : FileChanges(u)
  BY <1>3 DEF Vacuum, FileChanges, storeVars, DatabaseTypeOK, ProcessType
<1>4. ASSUME NEW w \in Workers,
             \/ (\E u \in Tracks : Measure(w, u)) \/ NewRecord(w) \/ Ask(w) \/ Begin(w)
             \/ Execute(w) \/ Fail(w) \/ Get(w) \/ Judge(w) \/ Outdated(w)
             \/ Upsert(w) \/ Commit(w) \/ Delete(w)
      PROVE  process'.build = process.build
  BY <1>4 DEF Measure, NewRecord, Ask, Begin, Execute, Fail, Get, Judge, Outdated, Upsert, Commit, Delete, storeVars, DatabaseTypeOK, ProcessType
<1> QED BY <1>1, <1>2, <1>3, <1>4 DEF DatabaseNext

\* The record a measurement ends with.
RecordOf(w) ==
  [track |-> measuring[w].track,
   row |-> [version |-> process.build, stamp |-> StampOf(measuring[w].track),
            content |-> measuring[w].content, album |-> NoGain, intact |-> TRUE,
            raced |-> measuring[w].track \in Locals
                        /\ files[measuring[w].track].content # measuring[w].content]]

\* A batch is emptied, or gains the record of the file just scanned.
LEMMA ScanOrigins ==
  ASSUME DatabaseTypeOK, ProcessInv, DatabaseNext, NEW v \in Workers
  PROVE  \/ scanned'[v] \in {scanned[v], <<>>}
         \/ NewRecord(v) /\ scanned'[v] = Append(scanned[v], RecordOf(v))
<1> USE DEF DatabaseTypeOK, ScanType
<1>1. CASE UNCHANGED scanned
  BY <1>1
<1>2. CASE Crash
  BY <1>2 DEF Crash
<1>3. ASSUME NEW w \in Workers, NewRecord(w)
      PROVE  \/ scanned'[v] = scanned[v]
             \/ NewRecord(v) /\ scanned'[v] = Append(scanned[v], RecordOf(v))
  <2>1. scanned' = [scanned EXCEPT ![w] = Append(scanned[w], RecordOf(w))]
    BY <1>3 DEF NewRecord, RecordOf
  <2> QED BY <1>3, <2>1
<1>4. CASE \E w \in Workers : Ask(w)
  BY <1>4, AskType
<1>5. CASE (\E build \in Builds : Open(build)) \/ Vacuum \/ \E u \in Locals : FileChanges(u)
  BY <1>1, <1>5 DEF Open, Vacuum, FileChanges, workVars
<1>6. CASE \E w \in Workers :
             \/ (\E u \in Tracks : Measure(w, u)) \/ Begin(w)
             \/ Execute(w) \/ Fail(w) \/ Get(w) \/ Judge(w) \/ Outdated(w)
             \/ Upsert(w) \/ Commit(w) \/ Delete(w)
  BY <1>1, <1>6 DEF Measure, Begin, Execute, Fail, Get, Judge, Outdated, Upsert, Commit, Delete, workVars
<1> QED BY <1>2, <1>3, <1>4, <1>5, <1>6 DEF DatabaseNext

\* A worker asks to store what it has scanned.
LEMMA PutOrigins ==
  ASSUME DatabaseTypeOK, DatabaseNext, NEW v \in Workers, asked'[v] \in Putting
  PROVE  \/ asked'[v] = asked[v]
         \/ asked'[v].items = scanned[v]
<1>1. \A w \in Workers : \A a \in Answers : Answer(w, a) => asked'[v] = asked[v]
  <2> SUFFICES ASSUME NEW w \in Workers, NEW a \in Answers, Answer(w, a), w = v
               PROVE  FALSE
    BY DEF Answer, DatabaseTypeOK, CallType
  <2>1. asked'[v] = a
    BY AnswerKeepsType DEF DatabaseTypeOK
  <2>2. a.op \notin Calls
    BY Kinds
  <2> QED BY <2>1, <2>2 DEF Putting, Calls
<1>2. CASE Crash
  BY <1>2, AnswerTypes DEF Crash, Putting, Idle
<1>3. CASE \E w \in Workers : Ask(w)
  <2>1. PICK w \in Workers : Ask(w)
    BY <1>3
  <2> QED BY <2>1, AskType DEF DatabaseTypeOK, CallType
<1>4. CASE \E w \in Workers : Upsert(w) \/ Commit(w) \/ Fail(w) \/ Delete(w)
  BY <1>1, <1>4, AnswerTypes DEF Upsert, Commit, Fail, Delete
<1>5. ASSUME NEW w \in Workers, Get(w) PROVE asked'[v] = asked[v]
  <2>1. asked[w].track \in Tracks
    BY <1>5, WaitingFor DEF Get, AskingTrack, DatabaseTypeOK
  <2>2. Found(disk.rows[asked[w].track]) \in Answers
    BY <2>1, AnswerTypes DEF DatabaseTypeOK, DiskType, RowMaps
  <2> QED BY <1>1, <1>5, <2>2, AnswerTypes DEF Get
<1>6. ASSUME NEW w \in Workers, Judge(w) PROVE asked'[v] = asked[v]
  BY <1>1, <1>6, AnswerTypes DEF Judge
<1>7. ASSUME NEW w \in Workers, Outdated(w) PROVE asked'[v] = asked[v]
  <2> DEFINE stale == {t \in Tracks : /\ disk.rows[t] # None
                                      /\ disk.rows[t].version # process.build \/ t \in Webs}
  <2>1. Listed(stale) \in Answers
    BY AnswerTypes
  <2>2. \E a \in Answers : Answer(w, a)
    BY <1>7, <2>1, AnswerTypes DEF Outdated
  <2> QED BY <1>1, <2>2
<1>8. CASE \/ \E build \in Builds : Open(build)
           \/ Vacuum \/ \E t \in Locals : FileChanges(t)
           \/ \E w \in Workers : (\E t \in Tracks : Measure(w, t)) \/ NewRecord(w)
                                 \/ Begin(w) \/ Execute(w)
  BY <1>8 DEF Open, Vacuum, FileChanges, Measure, NewRecord, Begin, Execute, workVars
<1> QED BY <1>2, <1>3, <1>4, <1>5, <1>6, <1>7, <1>8 DEF DatabaseNext

-----------------------------------------------------------------------------
(* The work of a build, and what rows are vouched for.                     *)

\* Every batch and every `put` under way carries the version of the running build.
LEMMA VersionStep ==
  ASSUME DatabaseTypeOK, ProcessInv, LockInv, JudgedInv, TransactionInv, VersionInv,
         DatabaseNext
  PROVE  VersionInv'
<1> SUFFICES ASSUME NEW v \in Workers
             PROVE  /\ \A i \in 1 .. Len(scanned'[v]) : scanned'[v][i].row.version = process'.build
                    /\ asked'[v] \in Putting =>
                         \A i \in 1 .. Len(asked'[v].items) :
                           asked'[v].items[i].row.version = process'.build
                    /\ judged'[v] # None /\ disk'.rows[asked'[v].track] # None =>
                         disk'.rows[asked'[v].track].version = process'.build
  BY DEF VersionInv
<1>1. CASE \A u \in Workers : /\ scanned'[u] = <<>> /\ asked'[u] \in Answers
                              /\ judged'[u] = None
  <2>1. asked'[v] \notin Putting
    <3>1. asked'[v].op \notin Calls
      BY <1>1, Kinds
    <3> QED BY <3>1 DEF Putting, Calls
  <2>2. Len(scanned'[v]) = 0
    BY <1>1
  <2> QED BY <1>1, <2>1, <2>2
<1>2. CASE process'.build = process.build
  <2>1. \A i \in 1 .. Len(scanned'[v]) : scanned'[v][i].row.version = process'.build
    <3>1. CASE scanned'[v] = scanned[v] \/ scanned'[v] = <<>>
      BY <1>2, <3>1 DEF VersionInv
    <3>2. CASE scanned'[v] = Append(scanned[v], RecordOf(v))
      <4>1. RecordOf(v).row.version = process.build
        BY DEF RecordOf
      <4>2. scanned[v] \in Seq(Items)
        BY DEF DatabaseTypeOK, ScanType
      <4>3. \A i \in 1 .. Len(scanned[v]) : scanned[v][i].row.version = process.build
        BY DEF VersionInv
      <4>4. \A record : record.row.version = process.build =>
              \A i \in 1 .. Len(Append(scanned[v], record)) :
                Append(scanned[v], record)[i].row.version = process.build
        BY <4>2, <4>3
      <4> QED BY <1>2, <3>2, <4>1, <4>4
    <3> QED BY <3>1, <3>2, ScanOrigins
  <2>2. asked'[v] \in Putting =>
          \A i \in 1 .. Len(asked'[v].items) :
            asked'[v].items[i].row.version = process'.build
    BY <1>2, PutOrigins DEF VersionInv
  <2>3. ASSUME judged'[v] # None, disk'.rows[asked'[v].track] # None
        PROVE  disk'.rows[asked'[v].track].version = process'.build
    <3>1. CASE Judges(v)
      <4>1. asked'[v] = asked[v] /\ disk' = disk
        BY <3>1 DEF Judges, Judge, storeVars
      <4>2. disk.rows[asked[v].track].version = process.build
        BY <3>1 DEF Judges, NeedsScan
      <4> QED BY <1>2, <4>1, <4>2
    <3>2. CASE judged'[v] = judged[v] /\ asked'[v] = asked[v]
      <4>1. asked[v] \in AskingTrack
        BY <2>3, <3>2, WaitingFor DEF JudgedInv, DatabaseTypeOK
      <4> DEFINE t == asked[v].track
      <4>2. t \in Tracks
        BY <4>1 DEF AskingTrack
      <4>3. disk.rows[t] # None => disk.rows[t].version = process.build
        BY <2>3, <3>2 DEF VersionInv
      <4>4. disk.rows[t] # None => disk.rows[t] \in Rows
        BY <4>2 DEF DatabaseTypeOK, DiskType, RowMaps
      <4>5. disk'.rows[t] # None
        BY <2>3, <3>2
      <4>6. CASE disk'.rows[t] = disk.rows[t]
        BY <1>2, <3>2, <4>3, <4>5, <4>6
      <4>7. ASSUME NEW w \in Workers, asked[w] \in Putting,
                   NEW i \in 1 .. Len(asked[w].items), disk'.rows[t] = asked[w].items[i].row
            PROVE  disk'.rows[t].version = process.build
        BY <4>7 DEF VersionInv
      <4>8. ASSUME disk.rows[t] # None,
                   NEW gain, disk'.rows[t] = [disk.rows[t] EXCEPT !.album = gain]
            PROVE  disk'.rows[t].version = process.build
        BY <4>3, <4>4, <4>8 DEF Rows
      <4> HIDE DEF t
      <4>9. disk'.rows[t].version = process.build
        BY <1>2, <4>2, <4>3, <4>5, <4>7, <4>8, RowOrigins
      <4> QED BY <1>2, <3>2, <4>9 DEF t
    <3> QED BY <2>3, <3>1, <3>2, JudgedOrigins
  <2> QED BY <2>1, <2>2, <2>3
<1> QED BY <1>1, <1>2, BuildStays

\* The contents of a file succeed each other, and its stamp is not ahead of them.
LEMMA FilesGrow ==
  ASSUME DatabaseTypeOK, VouchInv, DatabaseNext, NEW t \in Locals
  PROVE  /\ files[t].content \in Nat /\ files'[t].content \in Nat
         /\ files[t].content <= files'[t].content
         /\ files'[t].stamp <= files'[t].content + 1
<1> USE DatabaseAssumption DEF DatabaseTypeOK, FilesType
<1>1. \A u \in Locals : /\ files[u].content \in Nat /\ files[u].stamp \in Nat
                        /\ files[u].stamp <= files[u].content + 1
  BY DEF VouchInv, Contents, Stamps
<1>2. CASE UNCHANGED files
  BY <1>1, <1>2
<1>3. ASSUME NEW u \in Locals, FileChanges(u)
      PROVE  /\ files'[t].content \in Nat
             /\ files[t].content <= files'[t].content
             /\ files'[t].stamp <= files'[t].content + 1
  <2>1. ASSUME NEW stamp \in {files[u].stamp, files[u].content + 2},
               files' = [files EXCEPT ![u].content = files[u].content + 1, ![u].stamp = stamp]
        PROVE  /\ files'[t].content \in Nat
               /\ files[t].content <= files'[t].content
               /\ files'[t].stamp <= files'[t].content + 1
    <3>1. t # u => files'[t] = files[t]
      BY <2>1
    <3>2. files'[u].content = files[u].content + 1 /\ files'[u].stamp = stamp
      BY <2>1
    <3>3. stamp <= files[u].content + 2
      BY <1>1
    <3> QED BY <1>1, <3>1, <3>2, <3>3
  <2>2. CASE files' = [files EXCEPT ![u].readable = FALSE]
    <3>1. files'[t].content = files[t].content /\ files'[t].stamp = files[t].stamp
      BY <2>2
    <3> QED BY <1>1, <3>1
  <2> QED BY <1>3, <2>1, <2>2 DEF FileChanges
<1>4. CASE (\E build \in Builds : Open(build)) \/ Vacuum \/ Crash
  BY <1>2, <1>4 DEF Open, Vacuum, Crash, workVars
<1>5. CASE \E w \in Workers :
             \/ (\E u \in Tracks : Measure(w, u)) \/ NewRecord(w) \/ Ask(w) \/ Begin(w)
             \/ Execute(w) \/ Fail(w) \/ Get(w) \/ Judge(w) \/ Outdated(w)
             \/ Upsert(w) \/ Commit(w) \/ Delete(w)
  BY <1>2, <1>5 DEF Measure, NewRecord, Ask, Begin, Execute, Fail, Get, Judge, Outdated, Upsert, Commit, Delete, workVars
<1> QED BY <1>1, <1>3, <1>4, <1>5 DEF DatabaseNext

\* Every step keeps rows about contents their files have had, with stamps no newer.
LEMMA VouchStep ==
  ASSUME DatabaseTypeOK, ProcessInv, LockInv, TransactionInv, VouchInv, DatabaseNext
  PROVE  VouchInv'
<1>1. ASSUME NEW t, NEW row \in Rows, Vouched(files, t, row)
      PROVE  Vouched(files', t, row)
  <2>1. row.content \in Nat
    BY DatabaseAssumption DEF Rows, Contents
  <2> QED BY <1>1, <2>1, FilesGrow DEF Vouched
<1>2. \A t \in Locals : files'[t].stamp <= files'[t].content + 1
  BY FilesGrow
<1>3. \A w \in Workers : asked[w] \in Putting =>
        \A i \in 1 .. Len(asked[w].items) :
          /\ asked[w].items[i].row \in Rows
          /\ Vouched(files, asked[w].items[i].track, asked[w].items[i].row)
  BY RequestParts DEF VouchInv
<1>4. ASSUME NEW t \in Tracks, disk'.rows[t] # None
      PROVE  Vouched(files', t, disk'.rows[t])
  <2>1. disk.rows[t] # None => disk.rows[t] \in Rows /\ Vouched(files, t, disk.rows[t])
    BY DEF VouchInv, DatabaseTypeOK, DiskType, RowMaps
  <2>2. disk'.rows[t] \in Rows
    BY <1>4, TypeStep DEF DatabaseTypeOK, DiskType, RowMaps
  <2>3. Vouched(files, t, disk'.rows[t])
    <3>1. CASE disk'.rows[t] \in {disk.rows[t], None}
      BY <1>4, <2>1, <3>1
    <3>2. ASSUME NEW w \in Workers, asked[w] \in Putting, NEW i \in 1 .. Len(asked[w].items),
                 asked[w].items[i].track = t, disk'.rows[t] = asked[w].items[i].row
          PROVE  Vouched(files, t, disk'.rows[t])
      BY <1>3, <3>2
    <3>3. ASSUME disk.rows[t] # None,
                 NEW gain, disk'.rows[t] = [disk.rows[t] EXCEPT !.album = gain]
          PROVE  Vouched(files, t, disk'.rows[t])
      <4>1. /\ disk'.rows[t].raced = disk.rows[t].raced
            /\ disk'.rows[t].content = disk.rows[t].content
            /\ disk'.rows[t].stamp = disk.rows[t].stamp
        BY <2>1, <3>3 DEF Rows
      <4> QED BY <2>1, <3>3, <4>1 DEF Vouched
    <3> QED BY <3>1, <3>2, <3>3, RowOrigins
  <2> QED BY <1>1, <2>2, <2>3
<1>5. ASSUME NEW w \in Workers, NEW i \in 1 .. Len(scanned'[w])
      PROVE  Vouched(files', scanned'[w][i].track, scanned'[w][i].row)
  <2>1. \A j \in 1 .. Len(scanned[w]) :
          scanned[w][j].row \in Rows /\ Vouched(files, scanned[w][j].track, scanned[w][j].row)
    <3>1. scanned[w] \in Seq(Items)
      BY DEF DatabaseTypeOK, ScanType
    <3>2. \A j \in 1 .. Len(scanned[w]) : scanned[w][j] \in Items
      BY <3>1
    <3> QED BY <3>2 DEF Items, VouchInv
  <2>2. CASE scanned'[w] = scanned[w]
    <3>1. Vouched(files, scanned[w][i].track, scanned[w][i].row) /\ scanned[w][i].row \in Rows
      BY <2>1, <2>2
    <3> QED BY <1>1, <2>2, <3>1
  <2>3. CASE NewRecord(w) /\ scanned'[w] = Append(scanned[w], RecordOf(w))
    <3>1. files' = files /\ measuring[w] # None
      BY <2>3 DEF NewRecord
    <3>2. Vouched(files, RecordOf(w).track, RecordOf(w).row)
      <4> SUFFICES ASSUME RecordOf(w).track \in Locals, ~RecordOf(w).row.raced
                   PROVE  /\ RecordOf(w).row.content <= files[RecordOf(w).track].content
                          /\ RecordOf(w).row.stamp <= RecordOf(w).row.content + 1
        BY DEF Vouched
      <4> DEFINE t == measuring[w].track
      <4>1. t \in Locals /\ RecordOf(w).track = t
        BY DEF RecordOf
      <4>2. RecordOf(w).row.content = files[t].content
        BY <4>1 DEF RecordOf
      <4>3. RecordOf(w).row.stamp = StampOf(t)
        BY DEF RecordOf
      <4>4. files[t].content \in Nat /\ files[t].stamp \in Nat
        BY <4>1, DatabaseAssumption DEF DatabaseTypeOK, FilesType, Contents, Stamps
      <4>5. files[t].stamp <= files[t].content + 1
        BY <4>1 DEF VouchInv
      <4>6. StampOf(t) \in {files[t].stamp, 0}
        BY DEF StampOf, NoStamp
      <4> HIDE DEF t
      <4> QED BY <4>1, <4>2, <4>3, <4>4, <4>5, <4>6
    <3>3. scanned[w] \in Seq(Items)
      BY DEF DatabaseTypeOK, ScanType
    <3>4. \A record : \A k \in 1 .. Len(Append(scanned[w], record)) :
            \/ Append(scanned[w], record)[k] = record
            \/ k \in 1 .. Len(scanned[w]) /\ Append(scanned[w], record)[k] = scanned[w][k]
      BY <3>3
    <3>5. \/ scanned'[w][i] = RecordOf(w)
          \/ i \in 1 .. Len(scanned[w]) /\ scanned'[w][i] = scanned[w][i]
      BY <2>3, <3>4
    <3>6. Vouched(files, scanned'[w][i].track, scanned'[w][i].row)
      BY <2>1, <3>2, <3>5
    <3> QED BY <3>1, <3>6
  <2>4. CASE scanned'[w] = <<>>
    BY <2>4
  <2> QED BY <2>2, <2>3, <2>4, ScanOrigins
<1>6. ASSUME NEW w \in Workers, asked'[w] \in Putting, NEW i \in 1 .. Len(asked'[w].items)
      PROVE  Vouched(files', asked'[w].items[i].track, asked'[w].items[i].row)
  <2>1. /\ asked'[w].items[i].row \in Rows
        /\ Vouched(files, asked'[w].items[i].track, asked'[w].items[i].row)
    <3>1. CASE asked'[w] = asked[w]
      BY <1>3, <1>6, <3>1
    <3>2. CASE asked'[w].items = scanned[w]
      <4>1. scanned[w] \in Seq(Items)
        BY DEF DatabaseTypeOK, ScanType
      <4>2. scanned[w][i] \in Items
        BY <1>6, <3>2, <4>1
      <4> QED BY <1>6, <3>2, <4>2 DEF Items, VouchInv
    <3> QED BY <1>6, <3>1, <3>2, PutOrigins
  <2> QED BY <1>1, <2>1
<1> QED BY <1>2, <1>4, <1>5, <1>6 DEF VouchInv

-----------------------------------------------------------------------------
(* The theorems.                                                           *)

\* The invariant holds at the start.
LEMMA DatabaseInvInit == DatabaseInit => DatabaseIInv
<1> SUFFICES ASSUME DatabaseInit PROVE DatabaseIInv
  OBVIOUS
<1>1. DatabaseTypeOK
  BY TypeInit
<1>2. \A w \in Workers : asked[w] \notin Putting /\ judged[w] = None /\ Len(scanned[w]) = 0
  BY DEF DatabaseInit, Idle, Putting
<1>3. VersionInv
  <2> SUFFICES ASSUME NEW w \in Workers
               PROVE  \A i \in 1 .. Len(scanned[w]) : scanned[w][i].row.version = process.build
    BY <1>2 DEF VersionInv
  <2>1. 1 .. Len(scanned[w]) = {}
    BY <1>2
  <2> QED BY <2>1
<1>4. \A t \in Tracks : disk.rows[t] # None => Vouched(files, t, disk.rows[t])
  <2> SUFFICES ASSUME NEW t \in Tracks, disk.rows[t] # None, t \in Locals
               PROVE  Vouched(files, t, disk.rows[t])
    BY DEF Vouched
  <2>1. disk.rows[t] \in OldRows
    BY DEF DatabaseInit
  <2>2. disk.rows[t].content = 0 /\ disk.rows[t].stamp = 1
    BY <2>1 DEF OldRows
  <2>3. files[t].content = 0
    BY DEF DatabaseInit
  <2> QED BY <2>2, <2>3 DEF Vouched
<1>5. \A t \in Locals : files[t].stamp <= files[t].content + 1
  BY DEF DatabaseInit
<1>6. VouchInv
  BY <1>2, <1>4, <1>5 DEF VouchInv
<1> QED BY <1>1, <1>3, <1>6, ControlInit DEF DatabaseIInv

\* Every step keeps the invariant.
LEMMA DatabaseInvStep == DatabaseIInv /\ [DatabaseNext]_databaseVars => DatabaseIInv'
<1> SUFFICES ASSUME DatabaseIInv, [DatabaseNext]_databaseVars PROVE DatabaseIInv'
  OBVIOUS
<1> USE DEF DatabaseIInv
<1>1. CASE DatabaseNext
  BY <1>1, TypeStep, ProcessStep, LockStep, JudgedStep, VersionStep, VouchStep
<1>2. CASE UNCHANGED databaseVars
  <2> USE <1>2 DEF databaseVars
  <2>1. DatabaseTypeOK'
    BY DEF DatabaseTypeOK, DiskType, ProcessType, TransactionType, CallType, JudgedType, ScanType, FilesType
  <2>2. ProcessInv' /\ LockInv' /\ JudgedInv' /\ TransactionInv'
    BY DEF ProcessInv, EmptyRows, LockInv, JudgedInv, Waiting, TransactionInv, BatchOf, AlbumOf
  <2>3. VersionInv'
    BY DEF VersionInv
  <2>4. VouchInv'
    BY DEF VouchInv, Vouched
  <2> QED BY <2>1, <2>2, <2>3, <2>4
<1> QED BY <1>1, <1>2

\* The invariant holds in every reachable state of the database.
LEMMA DatabaseInvariant == DatabaseSpec => []DatabaseIInv
  BY DatabaseInvInit, DatabaseInvStep, PTL DEF DatabaseSpec

\* The variables range over what DatabaseTypeOK says, in every reachable state: no
\* statement of a transaction, crash or call of another worker leaves a row, a
\* request or an answer of another form (loudness_db.rs:377-903).
THEOREM DatabaseTypes == DatabaseSpec => []DatabaseTypeOK
<1>1. DatabaseIInv => DatabaseTypeOK
  BY DEF DatabaseIInv
<1> QED BY <1>1, DatabaseInvariant, PTL

\* A row in the database describes its file as far as its stamp can tell.
LEMMA RowsDescribe ==
  ASSUME DatabaseTypeOK, VouchInv, NEW t \in Locals, disk.rows[t] # None,
         disk.rows[t].version = process.build
  PROVE  Describes(t, disk.rows[t])
<1> DEFINE row == disk.rows[t]
<1>1. t \in Tracks
  BY DEF Tracks
<1>2. row \in Rows /\ Vouched(files, t, row)
  BY <1>1 DEF VouchInv, DatabaseTypeOK, DiskType, RowMaps
<1>3. /\ row.content \in Nat /\ row.stamp \in Nat
      /\ files[t].content \in Nat /\ files[t].stamp \in Nat
  BY <1>2, DatabaseAssumption DEF Rows, Contents, Stamps, DatabaseTypeOK, FilesType
<1>4. row.raced \/ (row.content <= files[t].content /\ row.stamp <= row.content + 1)
  BY <1>2 DEF Vouched
<1>5. row.version = process.build
  OBVIOUS
<1> HIDE DEF row
<1>6. Describes(t, row)
  BY <1>3, <1>4, <1>5 DEF Describes
<1> QED BY <1>6 DEF row

\* A row that is found fresh passed the check of its version and of its stamp, and the
\* one that is returned comes from the database as well.
LEMMA FreshStep ==
  ASSUME DatabaseIInv, DatabaseNext, NEW w \in Workers
  PROVE  /\ judged[w] = None /\ judged'[w] # None =>
              /\ judged'[w].stamp = files[asked[w].track].stamp
              /\ Describes(asked[w].track, judged'[w])
         /\ judged[w] # None /\ asked'[w].op = "found" /\ asked'[w].row # None =>
              Describes(asked[w].track, asked'[w].row)
<1> USE DEF DatabaseIInv
<1>1. ASSUME judged[w] = None, judged'[w] # None
      PROVE  /\ judged'[w].stamp = files[asked[w].track].stamp
             /\ Describes(asked[w].track, judged'[w])
  <2> DEFINE t == asked[w].track
             row == judged'[w]
  <2>1. Judges(w) /\ row = disk.rows[t]
    BY <1>1, JudgedOrigins DEF Judges
  <2>2. t \in Tracks
    BY <2>1, WaitingFor DEF Judges, Judge, AskingTrack, DatabaseTypeOK
  <2>3. /\ t \in Locals /\ files[t].stamp = row.stamp /\ row # None
        /\ row.version = process.build
    BY <2>1, <2>2 DEF Judges, NeedsScan, Tracks
  <2>4. Describes(t, row)
    BY <2>1, <2>3, RowsDescribe
  <2> QED BY <2>3, <2>4
<1>2. ASSUME judged[w] # None, asked'[w].op = "found", asked'[w].row # None
      PROVE  Describes(asked[w].track, asked'[w].row)
  <2>1. asked[w].op = "fresh" /\ asked[w] \in AskingTrack
    BY <1>2, WaitingFor DEF JudgedInv, Waiting, DatabaseTypeOK
  <2>2. asked'[w] # asked[w]
    BY <1>2, <2>1
  <2>3. asked \in [Workers -> Asking \cup Answers]
    BY DEF DatabaseTypeOK, CallType
  <2>4. \A v \in Workers : \A a : Answer(v, a) => v = w /\ asked'[w] = a
    BY <2>2, <2>3 DEF Answer
  <2>5. CASE \E v \in Workers : Get(v)
    <3>1. /\ asked'[w] \in {Refused, Found(disk.rows[asked[w].track])}
          /\ asked'[w] # Refused
      BY <1>2, <2>4, <2>5 DEF Get, Refused
    <3>2. asked'[w].row = disk.rows[asked[w].track]
      BY <3>1 DEF Found
    <3>3. asked[w].track \in Locals
      BY <1>2 DEF JudgedInv
    <3>4. disk.rows[asked[w].track].version = process.build
      BY <1>2, <3>2 DEF VersionInv
    <3> QED BY <1>2, <3>2, <3>3, <3>4, RowsDescribe
  <2>6. ASSUME NEW v \in Workers, Judge(v) PROVE FALSE
    <3>1. v = w
      BY <2>2, <2>4, <2>6 DEF Judge
    <3> QED BY <1>2, <2>6, <3>1 DEF Judge
  <2>7. \A v \in Workers : ~Upsert(v) /\ ~Commit(v) /\ ~Fail(v)
    BY <1>2, <2>4 DEF Upsert, Commit, Fail, Done, Refused
  <2>8. \A v \in Workers : ~Delete(v) /\ ~Outdated(v)
    BY <1>2, <2>1, <2>4 DEF Delete, Outdated, Waiting
  <2>9. \A v \in Workers : ~Ask(v)
    <3> SUFFICES ASSUME NEW v \in Workers, Ask(v) PROVE FALSE
      OBVIOUS
    <3>1. asked' = [asked EXCEPT ![v] = asked'[v]] /\ asked[v].op \notin Calls
      BY AskType DEF Ask, Waiting
    <3>2. v = w
      BY <2>2, <2>3, <3>1
    <3> QED BY <2>1, <3>1, <3>2 DEF Calls
  <2>10. CASE Crash
    BY <1>2, <2>10 DEF Crash, Idle
  <2>11. CASE \/ \E build \in Builds : Open(build)
              \/ Vacuum \/ \E t \in Locals : FileChanges(t)
              \/ \E v \in Workers : (\E t \in Tracks : Measure(v, t)) \/ NewRecord(v)
                                    \/ Begin(v) \/ Execute(v)
    BY <2>2, <2>11 DEF Open, Vacuum, FileChanges, Measure, NewRecord, Begin, Execute, workVars
  <2> QED BY <2>5, <2>6, <2>7, <2>8, <2>9, <2>10, <2>11 DEF DatabaseNext
<1> QED BY <1>1, <1>2

\* Both the row `get_fresh` judges and the row its second query returns were measured
\* by this build, and either describes what the file holds if it has the stamp of the
\* file, unless the file was written while it was measured or twice within the
\* resolution of its stamp (loudness_db.rs:656-670).
THEOREM FreshRowsAreVouched == DatabaseSpec => FreshIsVouched
<1>1. ASSUME DatabaseIInv, [DatabaseNext]_databaseVars
      PROVE  [\A w \in Workers :
                /\ judged[w] = None /\ judged'[w] # None =>
                     /\ judged'[w].stamp = files[asked[w].track].stamp
                     /\ Describes(asked[w].track, judged'[w])
                /\ judged[w] # None /\ asked'[w].op = "found" /\ asked'[w].row # None =>
                     Describes(asked[w].track, asked'[w].row)]_databaseVars
  BY <1>1, FreshStep
<1> QED BY <1>1, DatabaseInvariant, PTL DEF DatabaseSpec, FreshIsVouched

-----------------------------------------------------------------------------
(* The database implements the cache.                                      *)

CacheNow == IF disk.schema = "current" THEN disk.rows ELSE EmptyRows

\* The requests of the cache.
LEMMA RequestsAre == Cache!Requests = Asking
  BY DEF Cache!Requests, Asking, Putting, SettingAlbum, AskingTrack, AskingAll, Items

\* A worker whose call may go on sees the file with its schema.
LEMMA CurrentFile ==
  ASSUME DatabaseIInv, Free \/ lock # None
  PROVE  disk.schema = "current" /\ CacheNow = disk.rows /\ process.state = "up"
  BY DEF DatabaseIInv, ProcessInv, Free, CacheNow

\* A batch written statement by statement stores, for each track, its last record.
LEMMA StoresPut ==
  ASSUME NEW items \in Seq(Items), NEW before \in RowMaps, NEW after \in RowMaps,
         BatchOf(items, before, after, Len(items))
  PROVE  after = [t \in Tracks |->
                    IF {i \in DOMAIN items : items[i].track = t} = {} THEN before[t]
                    ELSE items[Cache!Max({i \in DOMAIN items : items[i].track = t})].row]
<1>1. \A t \in Tracks : {i \in DOMAIN items : items[i].track = t} = Places(items, t)
  BY DEF Places
<1>2. ASSUME NEW t \in Tracks, Places(items, t) # {}
      PROVE  after[t] = items[Cache!Max(Places(items, t))].row
  <2>1. PICK m \in Places(items, t) : \A k \in Places(items, t) : k <= m
    BY <1>2, BatchResult
  <2>2. \A k \in Places(items, t) : k \in Nat
    BY DEF Places
  <2>3. \E n \in Places(items, t) : \A k \in Places(items, t) : n >= k
    BY <2>1, <2>2
  <2> DEFINE last == Cache!Max(Places(items, t))
  <2>4. last \in Places(items, t) /\ \A k \in Places(items, t) : last >= k
    BY <2>3 DEF Cache!Max
  <2> HIDE DEF last
  <2>5. \A k \in Places(items, t) : k <= last
    BY <2>2, <2>4
  <2>6. after[t] = items[last].row
    BY <2>4, <2>5, BatchResult
  <2> QED BY <2>6 DEF last
<1>3. \A t \in Tracks : Places(items, t) = {} => after[t] = before[t]
  BY BatchResult
<1> QED BY <1>1, <1>2, <1>3 DEF RowMaps

\* An empty database is an empty cache.
LEMMA CacheStart == DatabaseInit => Cache!CacheInit
<1> SUFFICES ASSUME DatabaseInit PROVE Cache!CacheInit
  OBVIOUS
<1>1. disk.rows \in RowMaps /\ EmptyRows \in RowMaps
  BY TypeInit DEF DatabaseTypeOK, DiskType, EmptyRows, RowMaps
<1>2. asked = [w \in Workers |-> Idle] /\ Idle = Cache!Idle
  BY DEF DatabaseInit, Idle, Cache!Idle
<1>3. CacheNow \in RowMaps
  BY <1>1 DEF CacheNow
<1> QED BY <1>2, <1>3 DEF Cache!CacheInit, RowMaps, CacheNow

\* Every step of the database is a step of the cache, or none of its business.
LEMMA CacheStep ==
  ASSUME DatabaseIInv, DatabaseNext
  PROVE  Cache!CacheNext \/ UNCHANGED <<CacheNow, asked>>
<1> USE DEF DatabaseIInv
<1>1. /\ DatabaseTypeOK' /\ ProcessInv'
      /\ disk \in [schema : {"legacy", "current", "none"}, rows : RowMaps, residue : BOOLEAN]
      /\ asked \in [Workers -> Asking \cup Answers]
  BY TypeStep, ProcessStep DEF DatabaseTypeOK, DiskType, CallType
<1>2. ASSUME disk' = disk PROVE CacheNow' = CacheNow
  BY <1>2 DEF CacheNow, EmptyRows
<1>3. CASE (\E build \in Builds : Open(build)) \/ Vacuum
  <2>1. CASE Vacuum
    <3>1. disk'.rows = disk.rows /\ disk'.schema = disk.schema /\ asked' = asked
      BY <1>1, <2>1 DEF Vacuum, workVars
    <3> QED BY <3>1 DEF CacheNow, EmptyRows
  <2>2. ASSUME NEW build \in Builds, Open(build)
        PROVE  UNCHANGED <<CacheNow, asked>>
    <3>1. /\ disk'.schema = "current" /\ asked' = asked
          /\ disk'.rows = IF disk.schema = "legacy" THEN EmptyRows ELSE disk.rows
      BY <2>2 DEF Open, workVars
    <3>2. disk'.rows = CacheNow
      BY <1>1, <3>1 DEF CacheNow, ProcessInv
    <3> QED BY <3>1, <3>2 DEF CacheNow
  <2> QED BY <1>3, <2>1, <2>2
<1>4. CASE \/ \E t \in Locals : FileChanges(t)
           \/ \E w \in Workers :
                \/ (\E t \in Tracks : Measure(w, t)) \/ NewRecord(w)
                \/ Begin(w) \/ Execute(w)
  BY <1>2, <1>4 DEF FileChanges, Measure, NewRecord, Begin, Execute, storeVars, workVars
<1>5. CASE Crash
  <2>1. asked' = [w \in Workers |-> Cache!Idle] /\ CacheNow' = CacheNow
    BY <1>2, <1>5 DEF Crash, Idle, Cache!Idle
  <2> QED BY <2>1 DEF Cache!CacheNext, Cache!Crash, CacheNow
<1>6. \A w \in Workers : \A a : Answer(w, a) <=> Cache!Answer(w, a)
  BY DEF Answer, Cache!Answer
<1>7. Done = Cache!Done /\ Refused = Cache!Refused
      /\ \A x : Found(x) = Cache!Found(x) /\ Listed(x) = Cache!Listed(x)
  BY DEF Done, Refused, Found, Listed, Cache!Done, Cache!Refused, Cache!Found, Cache!Listed
<1>8. ASSUME NEW w \in Workers, Ask(w) PROVE Cache!CacheNext
  <2>1. /\ asked' = [asked EXCEPT ![w] = asked'[w]] /\ asked'[w] \in Asking
        /\ disk' = disk /\ asked[w] \notin Asking
    <3>1. asked[w].op \notin Calls
      BY <1>8 DEF Ask, Waiting
    <3>2. asked[w] \notin Asking
      BY <3>1 DEF Asking, Putting, SettingAlbum, AskingTrack, AskingAll, Calls
    <3> QED BY <1>8, <3>2, AskType DEF Ask
  <2>2. Cache!Ask(w)
    BY <1>2, <2>1, RequestsAre DEF Cache!Ask, Cache!Answer, CacheNow
  <2> QED BY <2>2 DEF Cache!CacheNext
<1>9. ASSUME NEW w \in Workers, asked[w] \in Putting, Answer(w, Done),
             disk.schema = "current", disk'.schema = "current", disk'.rows \in RowMaps,
             BatchOf(asked[w].items, disk.rows, disk'.rows, Len(asked[w].items))
      PROVE  Cache!CacheNext
  <2>1. asked[w].items \in Seq(Items) /\ asked[w].op = "put"
    BY <1>9, RequestParts
  <2>2. CacheNow = disk.rows /\ CacheNow' = disk'.rows
    BY <1>9 DEF CacheNow
  <2>3. CacheNow' = [t \in Tracks |->
            IF {i \in DOMAIN asked[w].items : asked[w].items[i].track = t} = {} THEN CacheNow[t]
            ELSE asked[w].items[Cache!Max({i \in DOMAIN asked[w].items : asked[w].items[i].track = t})].row]
    BY <1>1, <1>9, <2>1, <2>2, StoresPut
  <2>4. Cache!Put(w)
    BY <1>6, <1>7, <1>9, <2>1, <2>3 DEF Cache!Put, CacheNow
  <2> QED BY <2>4 DEF Cache!CacheNext
<1>10. ASSUME NEW w \in Workers, Upsert(w) PROVE Cache!CacheNext
  <2>1. asked[w] \in Putting /\ Len(asked[w].items) = 1 /\ disk.schema = "current"
    BY <1>10, WaitingFor, CurrentFile DEF Upsert, DatabaseTypeOK
  <2>2. /\ disk'.rows = [disk.rows EXCEPT ![asked[w].items[1].track] = asked[w].items[1].row]
        /\ disk'.schema = "current" /\ disk'.rows \in RowMaps
    BY <1>1, <1>10, <2>1 DEF Upsert, DatabaseTypeOK, DiskType
  <2>3. asked[w].items[1].track \in Tracks
    BY <2>1, RequestParts
  <2>4. BatchOf(asked[w].items, disk.rows, disk'.rows, Len(asked[w].items))
    BY <1>1, <2>1, <2>2, <2>3 DEF BatchOf, RowMaps
  <2> QED BY <1>9, <1>10, <2>1, <2>2, <2>4 DEF Upsert
<1>11. ASSUME NEW w \in Workers, Commit(w) PROVE Cache!CacheNext
  <2>1. /\ asked[w] \in Putting \cup SettingAlbum
        /\ tx.done = Len(Statements(asked[w])) /\ tx.rows \in RowMaps
        /\ disk'.rows = tx.rows /\ disk'.schema = disk.schema /\ Answer(w, Done)
    BY <1>1, <1>11 DEF Commit, LockInv
  <2>2. disk.schema = "current"
    BY <1>11, CurrentFile, DatabaseAssumption DEF Commit
  <2>3. CASE asked[w] \in Putting
    <3>1. BatchOf(asked[w].items, disk.rows, disk'.rows, Len(asked[w].items))
      BY <1>11, <2>1, <2>3, RequestParts DEF Commit, TransactionInv
    <3> QED BY <1>9, <2>1, <2>2, <2>3, <3>1
  <2>4. CASE asked[w] \in SettingAlbum
    <3>1. asked[w].op = "album" /\ asked[w].tracks \in Seq(Tracks)
      BY <2>4, RequestParts
    <3>2. AlbumOf(asked[w].tracks, asked[w].gain, disk.rows, disk'.rows, Len(asked[w].tracks))
      BY <1>11, <2>1, <2>4, RequestParts DEF Commit, TransactionInv
    <3>3. CacheNow = disk.rows /\ CacheNow' = disk'.rows
      BY <2>1, <2>2 DEF CacheNow
    <3> DEFINE album == {asked[w].tracks[i] : i \in DOMAIN asked[w].tracks}
    <3>4. \A t \in Tracks : t \in album <=> \E i \in 1 .. Len(asked[w].tracks) : asked[w].tracks[i] = t
      BY <3>1
    <3>5. Cache!Held = {t \in Tracks : CacheNow[t] # None}
      BY DEF Cache!Held, CacheNow
    <3>6. \A t \in Tracks :
            disk'.rows[t] = IF t \in Cache!Held \cap album
                            THEN [CacheNow[t] EXCEPT !.album = asked[w].gain] ELSE CacheNow[t]
      <4> HIDE DEF album
      <4> QED BY <3>2, <3>3, <3>4, <3>5 DEF AlbumOf
    <3>7. CacheNow' = [t \in Tracks |-> IF t \in Cache!Held \cap album
                                        THEN [CacheNow[t] EXCEPT !.album = asked[w].gain]
                                        ELSE CacheNow[t]]
      <4> HIDE DEF album
      <4> QED BY <2>1, <3>3, <3>6 DEF RowMaps
    <3>8. Cache!SetAlbum(w)
      BY <1>6, <1>7, <2>1, <3>1, <3>7 DEF Cache!SetAlbum, CacheNow
    <3> QED BY <3>8 DEF Cache!CacheNext
  <2> QED BY <2>1, <2>3, <2>4
<1>12. ASSUME NEW w \in Workers, Fail(w) PROVE Cache!CacheNext
  <2>1. asked[w] \in Asking
    <3>1. CASE lock = w
      BY <3>1 DEF LockInv, Asking
    <3>2. CASE Waiting(w, Calls)
      BY <3>2, WaitingFor DEF DatabaseTypeOK
    <3> QED BY <1>12, <3>1, <3>2 DEF Fail
  <2>2. Cache!Refuse(w)
    BY <1>2, <1>6, <1>7, <1>12, <2>1, RequestsAre DEF Fail, Cache!Refuse, CacheNow
  <2> QED BY <2>2 DEF Cache!CacheNext
<1>13. ASSUME NEW w \in Workers, Delete(w) PROVE Cache!CacheNext
  <2>1. asked[w].op = "delete" /\ disk.schema = "current"
    BY <1>13, CurrentFile DEF Delete, Waiting
  <2>2. /\ disk'.rows = [disk.rows EXCEPT ![asked[w].track] = None]
        /\ disk'.schema = "current"
    BY <1>1, <1>13, <2>1 DEF Delete
  <2>3. CacheNow' = [CacheNow EXCEPT ![asked[w].track] = None]
    BY <2>1, <2>2 DEF CacheNow
  <2>4. Cache!Remove(w)
    BY <1>6, <1>7, <1>13, <2>1, <2>3 DEF Delete, Cache!Remove, CacheNow
  <2> QED BY <2>4 DEF Cache!CacheNext
<1>14. ASSUME NEW w \in Workers, Get(w) PROVE Cache!CacheNext
  <2>1. asked[w].op \in {"get", "fresh"} /\ CacheNow = disk.rows /\ disk' = disk
    BY <1>14, CurrentFile DEF Get, Waiting, storeVars
  <2>2. CASE Answer(w, Refused)
    <3>1. asked[w] \in Asking
      BY <1>14, WaitingFor DEF Get, DatabaseTypeOK, Asking
    <3>2. Cache!Refuse(w)
      BY <1>2, <1>6, <1>7, <2>1, <2>2, <3>1, RequestsAre DEF Cache!Refuse, CacheNow
    <3> QED BY <3>2 DEF Cache!CacheNext
  <2>3. CASE Answer(w, Found(disk.rows[asked[w].track]))
    <3>1. Cache!Answer(w, Cache!Found(CacheNow[asked[w].track])) /\ CacheNow' = CacheNow
      BY <1>2, <1>6, <1>7, <2>1, <2>3
    <3>2. Cache!Look(w)
      BY <2>1, <3>1 DEF Cache!Look, CacheNow
    <3> QED BY <3>2 DEF Cache!CacheNext
  <2> QED BY <1>14, <2>2, <2>3 DEF Get
<1>15. ASSUME NEW w \in Workers, Judge(w)
       PROVE  Cache!CacheNext \/ UNCHANGED <<CacheNow, asked>>
  <2>1. asked[w].op = "fresh" /\ disk' = disk
    BY <1>15 DEF Judge, Waiting, storeVars
  <2>2. CASE Answer(w, Found(None))
    <3>1. Cache!Look(w)
      BY <1>2, <1>6, <1>7, <2>1, <2>2 DEF Cache!Look, CacheNow
    <3> QED BY <3>1 DEF Cache!CacheNext
  <2>3. CASE UNCHANGED asked
    BY <1>2, <2>1, <2>3
  <2> QED BY <1>15, <2>2, <2>3 DEF Judge
<1>16. ASSUME NEW w \in Workers, Outdated(w) PROVE Cache!CacheNext
  <2> DEFINE stale == {t \in Tracks : /\ disk.rows[t] # None
                                      /\ disk.rows[t].version # process.build \/ t \in Webs}
  <2>1. asked[w].op = "outdated" /\ CacheNow = disk.rows /\ disk' = disk
    BY <1>16, CurrentFile DEF Outdated, Waiting, storeVars
  <2>2. Answer(w, Refused) \/ Answer(w, Listed(stale))
    BY <1>16 DEF Outdated
  <2>3. CASE Answer(w, Refused)
    <3>1. asked[w] \in Asking
      BY <1>16, WaitingFor DEF Outdated, DatabaseTypeOK, Asking
    <3>2. Cache!Refuse(w)
      BY <1>2, <1>6, <1>7, <2>1, <2>3, <3>1, RequestsAre DEF Cache!Refuse, CacheNow
    <3> QED BY <3>2 DEF Cache!CacheNext
  <2>4. CASE Answer(w, Listed(stale))
    <3>1. stale \in SUBSET Cache!Held
      BY <2>1 DEF Cache!Held, CacheNow
    <3>2. Cache!Answer(w, Cache!Listed(stale)) /\ CacheNow' = CacheNow
      BY <1>2, <1>6, <1>7, <2>1, <2>4
    <3> HIDE DEF stale
    <3>3. Cache!Look(w)
      BY <2>1, <3>1, <3>2 DEF Cache!Look, CacheNow
    <3> QED BY <3>3 DEF Cache!CacheNext
  <2> QED BY <2>2, <2>3, <2>4
<1> QED
  BY <1>3, <1>4, <1>5, <1>8, <1>10, <1>11, <1>12, <1>13, <1>14, <1>15, <1>16 DEF DatabaseNext

\* Every call on the database takes effect as a whole, at one moment, or, when it
\* answers an error or the process crashes, not at all: statement by statement
\* transactions, the two queries of `get_fresh` and a change of schema implement the
\* cache (loudness_db.rs:804-805).
THEOREM DatabaseImplementsCache == DatabaseSpec => ImplementsCache
<1>1. DatabaseIInv /\ [DatabaseNext]_databaseVars => [Cache!CacheNext]_<<CacheNow, asked>>
  <2>1. UNCHANGED databaseVars => UNCHANGED <<CacheNow, asked>>
    BY DEF databaseVars, CacheNow, EmptyRows
  <2> QED BY <2>1, CacheStep
<1>2. Cache!CacheSpec <=> Cache!CacheInit /\ [][Cache!CacheNext]_<<CacheNow, asked>>
  BY DEF Cache!CacheSpec, Cache!cacheVars, CacheNow
<1> QED BY <1>1, <1>2, CacheStart, DatabaseInvariant, PTL DEF DatabaseSpec, ImplementsCache

-----------------------------------------------------------------------------
(* Dynamic loudness.                                                       *)

\* A smoother that is not under way is where it is to be.
SmootherSound(s) ==
  /\ s = [current |-> s.current, target |-> s.target, active |-> s.active]
  /\ s.current \in Nat /\ s.target \in Nat /\ s.active \in BOOLEAN
  /\ ~s.active => s.current = s.target

\* A smoother that starts, or starts again, is settled.
LEMMA SmootherSettled ==
  ASSUME NEW v \in Nat
  PROVE  SmootherSound(SettledAt(v)) /\ SettledAt(v).current = v /\ SettledAt(v).target = v
BY DEF SettledAt, SmootherSound

\* A target changes where the smoother goes and not where it is.
LEMMA SmootherAimed ==
  ASSUME NEW s, SmootherSound(s), NEW t \in Nat
  PROVE  /\ SmootherSound(Aimed(s, t)) /\ Aimed(s, t).current = s.current /\ Aimed(s, t).target = t
         /\ Aimed(s, t).active \/ Aimed(s, t) = s
<1>1. CASE t = s.target
  BY <1>1 DEF Aimed, SmootherSound
<1>2. CASE t # s.target
  <2>1. Aimed(s, t) = [current |-> s.current, target |-> t, active |-> TRUE]
    BY <1>2 DEF Aimed, SmootherSound
  <2> QED BY <2>1 DEF SmootherSound
<1> QED BY <1>1, <1>2

\* A block takes a smoother at most half of the way, and to the target when two are left.
LEMMA SmootherMoves ==
  ASSUME NEW s, SmootherSound(s)
  PROVE  LET n == NextBlock(s)
         IN /\ SmootherSound(n) /\ n.target = s.target
            /\ Gradual(s.current, n.current, s.target, 2)
            /\ n.current = s.current => s.current = s.target
<1> DEFINE n == NextBlock(s)
           c == s.current
           t == s.target
<1>1. c \in Nat /\ t \in Nat /\ s.active \in BOOLEAN
      /\ s = [current |-> c, target |-> t, active |-> s.active]
  BY DEF SmootherSound
<1>2. CASE ~s.active
  <2>1. n = s /\ c = t
    BY <1>2 DEF NextBlock, SmootherSound
  <2> HIDE DEF c, t
  <2>2. Gradual(c, c, t, 2)
    BY <1>1, <2>1 DEF Gradual, Distance
  <2> HIDE DEF n
  <2> QED BY <2>1, <2>2 DEF c, t, n
<1>3. CASE s.active /\ Distance(c, t) <= 2
  <2>1. n = SettledAt(t)
    BY <1>3 DEF NextBlock
  <2> HIDE DEF c, t, n
  <2>2. n.current = t /\ n.target = t /\ SmootherSound(n)
    BY <1>1, <2>1, SmootherSettled
  <2>3. Gradual(c, t, t, 2)
    BY <1>1, <1>3 DEF Gradual, Distance
  <2> QED BY <2>2, <2>3 DEF c, t, n
<1>4. CASE s.active /\ ~(Distance(c, t) <= 2)
  <2> DEFINE h == (c + t) \div 2
  <2>1. n = [s EXCEPT !.current = h]
    BY <1>4 DEF NextBlock
  <2>2. n = [current |-> h, target |-> t, active |-> TRUE]
    <3> DEFINE going == s.active
    <3>1. s = [current |-> c, target |-> t, active |-> going]
      BY <1>1
    <3>2. going = TRUE
      BY <1>1, <1>4
    <3> HIDE DEF going, h, c, t, n
    <3> QED BY <2>1, <3>1, <3>2
  <2> HIDE DEF c, t, n
  <2>3. h \in Nat /\ 2 * h <= c + t /\ c + t <= 2 * h + 1
    BY <1>1
  <2> HIDE DEF h
  <2>4. Gradual(c, h, t, 2) /\ h # c
    BY <1>1, <1>4, <2>3 DEF Gradual, Distance
  <2>5. n.current = h /\ n.target = t /\ SmootherSound(n)
    BY <1>1, <2>2, <2>3 DEF SmootherSound
  <2> QED BY <2>4, <2>5 DEF c, t, n
<1> QED BY <1>2, <1>3, <1>4

\* A core has these fields.
Whole(b) ==
  b = [factor |-> b.factor, strength |-> b.strength, tuning |-> b.tuning, band |-> b.band,
       preGain |-> b.preGain, applied |-> b.applied, bandActive |-> b.bandActive]

\* What the band's coefficients apply follows where the band is.
BandFollows(b) ==
  /\ b.applied \in Int /\ b.applied >= -1 /\ b.bandActive \in BOOLEAN
  /\ b.applied >= 0 => /\ Distance(b.band.current, b.applied) < UpdateEpsilon
                       /\ b.bandActive <=> b.band.current # 0
  /\ b.applied = -1 => ~b.bandActive
BoostSound(b) ==
  /\ Whole(b)
  /\ b.factor \in Nat /\ b.strength \in Nat /\ b.tuning \in Tunings
  /\ SmootherSound(b.band) /\ SmootherSound(b.preGain)
  /\ b.band.target = b.factor * b.strength
  /\ BandFollows(b)

\* What multiplies a frame, as far as the band goes.
BandHeard(b) == IF b.bandActive THEN b.applied ELSE 0
\* Where the core is, apart from where it goes.
SamePlace(b, d) ==
  /\ d.band.current = b.band.current /\ d.preGain = b.preGain
  /\ d.applied = b.applied /\ d.bandActive = b.bandActive

\* Parameters and tunings move nothing by themselves.
LEMMA RefreshedSound ==
  ASSUME NEW b, BoostSound(b), NEW factor \in Nat, NEW strength \in Nat, NEW e,
         e = [factor |-> factor, strength |-> strength, tuning |-> b.tuning, band |-> b.band,
              preGain |-> b.preGain, applied |-> b.applied, bandActive |-> b.bandActive]
  PROVE  LET d == Refreshed(e)
         IN BoostSound(d) /\ SamePlace(b, d) /\ d.tuning = b.tuning
            /\ d.factor = factor /\ d.strength = strength
<1> DEFINE d == Refreshed(e)
           band == Aimed(b.band, factor * strength)
<1>1. factor * strength \in Nat
  OBVIOUS
<1>2. SmootherSound(band) /\ band.current = b.band.current /\ band.target = factor * strength
  BY <1>1, SmootherAimed DEF BoostSound
<1>3. d = [factor |-> factor, strength |-> strength, tuning |-> b.tuning, band |-> band,
           preGain |-> b.preGain, applied |-> b.applied, bandActive |-> b.bandActive]
  <2>1. d = [e EXCEPT !.band = Aimed(e.band, e.factor * e.strength)]
    BY DEF Refreshed
  <2>2. e.band = b.band /\ e.factor = factor /\ e.strength = strength
    OBVIOUS
  <2> HIDE DEF d
  <2>3. d = [e EXCEPT !.band = band]
    BY <2>1, <2>2
  <2> HIDE DEF band
  <2> QED BY <2>3
<1> HIDE DEF d, band
<1>4. /\ d.factor = factor /\ d.strength = strength /\ d.tuning = b.tuning /\ d.band = band
      /\ d.preGain = b.preGain /\ d.applied = b.applied /\ d.bandActive = b.bandActive
      /\ Whole(d)
  BY <1>3 DEF Whole
<1>5. SamePlace(b, d)
  BY <1>2, <1>4 DEF SamePlace
<1>6. BandFollows(d)
  BY <1>2, <1>4 DEF BoostSound, BandFollows
<1>7. BoostSound(d)
  BY <1>2, <1>4, <1>6 DEF BoostSound
<1> QED BY <1>4, <1>5, <1>7 DEF d

\* Replacing some of a core's fields leaves the others.
LEMMA PartOf ==
  ASSUME NEW b, Whole(b), NEW v
  PROVE  /\ [b EXCEPT !.factor = v] = [factor |-> v, strength |-> b.strength, tuning |-> b.tuning, band |-> b.band,
                                      preGain |-> b.preGain, applied |-> b.applied, bandActive |-> b.bandActive]
         /\ [b EXCEPT !.strength = v] = [factor |-> b.factor, strength |-> v, tuning |-> b.tuning, band |-> b.band,
                                      preGain |-> b.preGain, applied |-> b.applied, bandActive |-> b.bandActive]
         /\ [b EXCEPT !.tuning = v] = [factor |-> b.factor, strength |-> b.strength, tuning |-> v, band |-> b.band,
                                      preGain |-> b.preGain, applied |-> b.applied, bandActive |-> b.bandActive]
         /\ [b EXCEPT !.band = v] = [factor |-> b.factor, strength |-> b.strength, tuning |-> b.tuning, band |-> v,
                                      preGain |-> b.preGain, applied |-> b.applied, bandActive |-> b.bandActive]
         /\ [b EXCEPT !.preGain = v] = [factor |-> b.factor, strength |-> b.strength, tuning |-> b.tuning, band |-> b.band,
                                      preGain |-> v, applied |-> b.applied, bandActive |-> b.bandActive]
         /\ [b EXCEPT !.applied = v] = [factor |-> b.factor, strength |-> b.strength, tuning |-> b.tuning, band |-> b.band,
                                      preGain |-> b.preGain, applied |-> v, bandActive |-> b.bandActive]
         /\ [b EXCEPT !.bandActive = v] = [factor |-> b.factor, strength |-> b.strength, tuning |-> b.tuning, band |-> b.band,
                                      preGain |-> b.preGain, applied |-> b.applied, bandActive |-> v]
<1> DEFINE f == b.factor
           s == b.strength
           t == b.tuning
           n == b.band
           p == b.preGain
           a == b.applied
           x == b.bandActive
<1>1. b = [factor |-> f, strength |-> s, tuning |-> t, band |-> n, preGain |-> p, applied |-> a, bandActive |-> x]
  BY DEF Whole
<1> HIDE DEF f, s, t, n, p, a, x
<1>2. [b EXCEPT !.factor = v] = [factor |-> v, strength |-> s, tuning |-> t, band |-> n, preGain |-> p, applied |-> a, bandActive |-> x]
  BY <1>1
<1>3. [b EXCEPT !.strength = v] = [factor |-> f, strength |-> v, tuning |-> t, band |-> n, preGain |-> p, applied |-> a, bandActive |-> x]
  BY <1>1
<1>4. [b EXCEPT !.tuning = v] = [factor |-> f, strength |-> s, tuning |-> v, band |-> n, preGain |-> p, applied |-> a, bandActive |-> x]
  BY <1>1
<1>5. [b EXCEPT !.band = v] = [factor |-> f, strength |-> s, tuning |-> t, band |-> v, preGain |-> p, applied |-> a, bandActive |-> x]
  BY <1>1
<1>6. [b EXCEPT !.preGain = v] = [factor |-> f, strength |-> s, tuning |-> t, band |-> n, preGain |-> v, applied |-> a, bandActive |-> x]
  BY <1>1
<1>7. [b EXCEPT !.applied = v] = [factor |-> f, strength |-> s, tuning |-> t, band |-> n, preGain |-> p, applied |-> v, bandActive |-> x]
  BY <1>1
<1>8. [b EXCEPT !.bandActive = v] = [factor |-> f, strength |-> s, tuning |-> t, band |-> n, preGain |-> p, applied |-> a, bandActive |-> v]
  BY <1>1
<1> QED BY <1>2, <1>3, <1>4, <1>5, <1>6, <1>7, <1>8 DEF f, s, t, n, p, a, x

\* So does replacing two of them.
LEMMA PartsOf ==
  ASSUME NEW b, Whole(b), NEW v, NEW w
  PROVE  /\ [b EXCEPT !.band = v, !.preGain = w] = [factor |-> b.factor, strength |-> b.strength, tuning |-> b.tuning, band |-> v,
                                      preGain |-> w, applied |-> b.applied, bandActive |-> b.bandActive]
         /\ [b EXCEPT !.applied = v, !.bandActive = w] = [factor |-> b.factor, strength |-> b.strength, tuning |-> b.tuning, band |-> b.band,
                                      preGain |-> b.preGain, applied |-> v, bandActive |-> w]
<1>1. [b EXCEPT !.band = v, !.preGain = w] = [factor |-> b.factor, strength |-> b.strength, tuning |-> b.tuning, band |-> v,
                                      preGain |-> w, applied |-> b.applied, bandActive |-> b.bandActive]
  <2> DEFINE d == [b EXCEPT !.band = v]
  <2>1. d = [factor |-> b.factor, strength |-> b.strength, tuning |-> b.tuning, band |-> v,
                                      preGain |-> b.preGain, applied |-> b.applied, bandActive |-> b.bandActive]
    BY PartOf
  <2> HIDE DEF d
  <2>2. [d EXCEPT !.preGain = w] = [factor |-> b.factor, strength |-> b.strength, tuning |-> b.tuning, band |-> v,
                                      preGain |-> w, applied |-> b.applied, bandActive |-> b.bandActive]
    BY <2>1
  <2> QED BY <2>2 DEF d
<1>2. [b EXCEPT !.applied = v, !.bandActive = w] = [factor |-> b.factor, strength |-> b.strength, tuning |-> b.tuning, band |-> b.band,
                                      preGain |-> b.preGain, applied |-> v, bandActive |-> w]
  <2> DEFINE d == [b EXCEPT !.applied = v]
  <2>1. d = [factor |-> b.factor, strength |-> b.strength, tuning |-> b.tuning, band |-> b.band,
                                      preGain |-> b.preGain, applied |-> v, bandActive |-> b.bandActive]
    BY PartOf
  <2> HIDE DEF d
  <2>2. [d EXCEPT !.bandActive = w] = [factor |-> b.factor, strength |-> b.strength, tuning |-> b.tuning, band |-> b.band,
                                      preGain |-> b.preGain, applied |-> v, bandActive |-> w]
    BY <2>1
  <2> QED BY <2>2 DEF d
<1> QED BY <1>1, <1>2

\* Adopted parameters aim the band anew, and move nothing.
LEMMA ParamsSound ==
  ASSUME NEW b, BoostSound(b), NEW p \in LoudnessParams
  PROVE  BoostSound(WithParams(b, p)) /\ SamePlace(b, WithParams(b, p))
         /\ WithParams(b, p).tuning = b.tuning
<1> DEFINE v == Volumed(b, p.volume)
           factor == b.tuning.factor[p.volume]
<1>1. factor \in Nat /\ p.strength \in Nat
  BY DynamicAssumption DEF BoostSound
<1>2. BoostSound(v) /\ SamePlace(b, v) /\ v.tuning = b.tuning /\ v.strength = b.strength
  <2>1. CASE factor = b.factor
    <3>1. v = b
      BY <2>1 DEF Volumed
    <3> QED BY <3>1 DEF SamePlace
  <2>2. CASE factor # b.factor
    <3> DEFINE e == [b EXCEPT !.factor = factor]
    <3>1. v = Refreshed(e)
      BY <2>2 DEF Volumed
    <3>2. e = [factor |-> factor, strength |-> b.strength, tuning |-> b.tuning, band |-> b.band,
               preGain |-> b.preGain, applied |-> b.applied, bandActive |-> b.bandActive]
      <4>1. Whole(b)
        BY DEF BoostSound
      <4> HIDE DEF factor
      <4> QED BY <4>1, PartOf
    <3>3. b.strength \in Nat
      BY DEF BoostSound
    <3> HIDE DEF e, v, factor
    <3> QED BY <1>1, <3>1, <3>2, <3>3, RefreshedSound
  <2> QED BY <2>1, <2>2
<1> HIDE DEF v
<1> DEFINE d == Strengthened(v, p.strength)
<1>3. BoostSound(d) /\ SamePlace(v, d) /\ d.tuning = v.tuning
  <2>1. CASE p.strength = v.strength
    <3>1. d = v
      BY <2>1 DEF Strengthened
    <3> QED BY <1>2, <3>1 DEF SamePlace
  <2>2. CASE p.strength # v.strength
    <3> DEFINE e == [v EXCEPT !.strength = p.strength]
    <3>1. d = Refreshed(e)
      BY <2>2 DEF Strengthened
    <3>2. e = [factor |-> v.factor, strength |-> p.strength, tuning |-> v.tuning, band |-> v.band,
               preGain |-> v.preGain, applied |-> v.applied, bandActive |-> v.bandActive]
      <4>1. Whole(v)
        BY <1>2 DEF BoostSound
      <4> QED BY <4>1, PartOf
    <3>3. v.factor \in Nat
      BY <1>2 DEF BoostSound
    <3> HIDE DEF e, d
    <3> QED BY <1>1, <1>2, <3>1, <3>2, <3>3, RefreshedSound
  <2> QED BY <2>1, <2>2
<1> HIDE DEF d
<1>4. SamePlace(b, d)
  BY <1>2, <1>3 DEF SamePlace
<1> QED BY <1>2, <1>3, <1>4 DEF WithParams, v, d

\* An adopted tuning is only stored.
LEMMA TuningSound ==
  ASSUME NEW b, BoostSound(b), NEW t \in Tunings
  PROVE  BoostSound(WithTuning(b, t)) /\ SamePlace(b, WithTuning(b, t))
<1> DEFINE d == WithTuning(b, t)
<1>1. d = [factor |-> b.factor, strength |-> b.strength, tuning |-> t, band |-> b.band,
           preGain |-> b.preGain, applied |-> b.applied, bandActive |-> b.bandActive]
  <2>1. Whole(b)
    BY DEF BoostSound
  <2> QED BY <2>1, PartOf DEF WithTuning
<1> HIDE DEF d
<1>2. /\ d.factor = b.factor /\ d.strength = b.strength /\ d.tuning = t /\ d.band = b.band
      /\ d.preGain = b.preGain /\ d.applied = b.applied /\ d.bandActive = b.bandActive
      /\ Whole(d)
  BY <1>1 DEF Whole
<1>3. BoostSound(d) /\ SamePlace(b, d)
  BY <1>2 DEF BoostSound, BandFollows, SamePlace
<1> QED BY <1>3 DEF d

\* The band's coefficients, made again or kept, follow a gradual move of the band gradually.
LEMMA CoefficientsFollow ==
  ASSUME NEW a \in Int, a >= -1, NEW f \in BOOLEAN, NEW from \in Nat, NEW to \in Nat, NEW t \in Nat,
         a >= 0 => Distance(from, a) < UpdateEpsilon /\ (f <=> from # 0),
         a = -1 => ~f, Gradual(from, to, t, 2)
  PROVE  LET kept == a >= 0 /\ Distance(to, a) < UpdateEpsilon /\ f = (to # 0)
             first == IF f THEN a ELSE 0
             last == IF kept THEN first ELSE to
         IN (a = -1 /\ from # 0) \/ Gradual(first, last, t, UpdateEpsilon + 1)
<1>1. UpdateEpsilon \in Nat \ {0}
  BY DynamicAssumption
<1>2. CASE a = -1
  BY <1>1, <1>2 DEF Gradual, Distance
<1>3. CASE a >= 0 /\ f
  <2> DEFINE kept == a >= 0 /\ Distance(to, a) < UpdateEpsilon /\ f = (to # 0)
             last == IF kept THEN a ELSE to
  <2>1. Distance(from, a) < UpdateEpsilon /\ from # 0
    BY <1>3
  <2>2. Gradual(a, a, t, UpdateEpsilon + 1)
    BY <1>1, <1>3 DEF Gradual, Distance
  <2>3. ASSUME to = 0 \/ ~(Distance(to, a) < UpdateEpsilon)
        PROVE  Gradual(a, to, t, UpdateEpsilon + 1)
    <3>1. CASE from <= to /\ to <= t
      BY <1>1, <1>3, <2>1, <2>3, <3>1 DEF Gradual, Distance
    <3>2. CASE t <= to /\ to <= from
      BY <1>1, <1>3, <2>1, <2>3, <3>2 DEF Gradual, Distance
    <3> QED BY <3>1, <3>2 DEF Gradual
  <2>4. kept \/ to = 0 \/ ~(Distance(to, a) < UpdateEpsilon)
    BY <1>3
  <2>5. Gradual(a, last, t, UpdateEpsilon + 1)
    <3> HIDE DEF kept
    <3>1. CASE kept
      BY <2>2, <3>1
    <3>2. CASE ~kept
      BY <2>3, <2>4, <3>2
    <3> QED BY <3>1, <3>2
  <2> QED BY <1>3, <2>5
<1>4. CASE a >= 0 /\ ~f
  BY <1>1, <1>4 DEF Gradual, Distance
<1> QED BY <1>2, <1>3, <1>4

\* The coefficients of a core follow its band.
LEMMA BandAppliedSound ==
  ASSUME NEW b, BoostSound(b), NEW band, SmootherSound(band), band.target = b.band.target,
         NEW preGain, SmootherSound(preGain), NEW m,
         m = [factor |-> b.factor, strength |-> b.strength, tuning |-> b.tuning, band |-> band,
              preGain |-> preGain, applied |-> b.applied, bandActive |-> b.bandActive]
  PROVE  LET d == BandApplied(m, band.current)
             kept == b.applied >= 0 /\ Distance(band.current, b.applied) < UpdateEpsilon
                       /\ b.bandActive = (band.current # 0)
         IN /\ BoostSound(d) /\ d.band = band /\ d.preGain = preGain /\ d.applied >= 0
            /\ d.strength = b.strength /\ d.tuning = b.tuning
            /\ BandHeard(d) = IF kept THEN BandHeard(b) ELSE band.current
<1> DEFINE d == BandApplied(m, band.current)
           gain == band.current
           kept == b.applied >= 0 /\ Distance(gain, b.applied) < UpdateEpsilon
                     /\ b.bandActive = (gain # 0)
<1>1. /\ m.factor = b.factor /\ m.strength = b.strength /\ m.tuning = b.tuning /\ m.band = band
      /\ m.preGain = preGain /\ m.applied = b.applied /\ m.bandActive = b.bandActive /\ Whole(m)
  BY DEF Whole
<1>2. /\ b.applied \in Int /\ b.applied >= -1 /\ b.bandActive \in BOOLEAN
      /\ b.factor \in Nat /\ b.strength \in Nat /\ b.tuning \in Tunings
      /\ band.target = b.factor * b.strength
  BY DEF BoostSound, BandFollows
<1>3. gain \in Nat /\ UpdateEpsilon \in Nat \ {0}
  BY DynamicAssumption DEF SmootherSound
<1>4. CASE kept
  <2>1. d = m
    <3>1. m.applied >= 0 /\ Distance(gain, m.applied) < UpdateEpsilon /\ m.bandActive = (gain # 0)
      BY <1>1, <1>4, Zenon
    <3> QED BY <3>1, Zenon DEF BandApplied
  <2>2. BandFollows(m)
    <3>1. b.bandActive <=> gain # 0
      BY <1>4, Zenon
    <3>2. m.bandActive <=> m.band.current # 0
      BY <1>1, <3>1, Zenon
    <3>3. Distance(m.band.current, m.applied) < UpdateEpsilon /\ m.applied >= 0
      BY <1>1, <1>4, Zenon
    <3>4. m.applied \in Int /\ m.bandActive \in BOOLEAN
      BY <1>1, <1>2, Zenon
    <3>5. m.applied >= -1 /\ ~(m.applied = -1)
      BY <3>3, <3>4
    <3> QED BY <3>2, <3>3, <3>4, <3>5, Zenon DEF BandFollows
  <2>3. BoostSound(m)
    BY <1>1, <1>2, <2>2 DEF BoostSound
  <2>4. BandHeard(m) = BandHeard(b)
    BY <1>1 DEF BandHeard
  <2> QED BY <1>1, <1>4, <2>1, <2>3, <2>4
<1>5. CASE ~kept
  <2> DEFINE sounds == gain # 0
  <2>1. d = [m EXCEPT !.applied = gain, !.bandActive = sounds]
    BY <1>1, <1>5 DEF BandApplied
  <2>2. d = [factor |-> m.factor, strength |-> m.strength, tuning |-> m.tuning, band |-> m.band,
             preGain |-> m.preGain, applied |-> gain, bandActive |-> sounds]
    <3> HIDE DEF sounds, gain, d
    <3> QED BY <1>1, <2>1, PartsOf
  <2>3. sounds \in BOOLEAN /\ (sounds <=> gain # 0)
    OBVIOUS
  <2> HIDE DEF d, sounds, gain
  <2>4. /\ d.factor = b.factor /\ d.strength = b.strength /\ d.tuning = b.tuning /\ d.band = band
        /\ d.preGain = preGain /\ d.applied = gain /\ d.bandActive = sounds /\ Whole(d)
    BY <1>1, <2>2 DEF Whole
  <2>5. BandFollows(d)
    <3>1. Distance(gain, gain) < UpdateEpsilon
      BY <1>3 DEF Distance
    <3> QED BY <1>3, <2>3, <2>4, <3>1 DEF BandFollows, gain
  <2>6. BoostSound(d)
    BY <1>2, <2>4, <2>5 DEF BoostSound
  <2>7. BandHeard(d) = gain
    BY <1>3, <2>3, <2>4 DEF BandHeard
  <2> QED BY <1>3, <1>5, <2>4, <2>6, <2>7 DEF d, gain
<1> QED BY <1>4, <1>5

\* What a block that is heard makes of the core, and what is heard.
LEMMA ProcessedSound ==
  ASSUME NEW b, BoostSound(b)
  PROVE  LET d == Processed(b)
             h == Applied(b, d)
         IN /\ BoostSound(d) /\ d.band.target = b.band.target
            /\ d.applied = -1 => d.band.current = 0
            /\ PreGainTarget(d) = PreGainTarget(b)
            /\ h = [preGain |-> d.preGain.current, band |-> BandHeard(d)]
            /\ Gradual(b.preGain.current, h.preGain, PreGainTarget(d), 2)
            /\ (b.applied = -1 /\ b.band.current # 0)
               \/ Gradual(BandHeard(b), h.band, d.band.target, UpdateEpsilon + 1)
<1> DEFINE t == PreGainTarget(b)
           p == Aimed(b.preGain, t)
           aimed == [b EXCEPT !.preGain = p]
           after == [aimed EXCEPT !.band = NextBlock(aimed.band), !.preGain = NextBlock(aimed.preGain)]
           d == Processed(b)
           h == Applied(b, d)
<1>1. /\ Whole(b) /\ SmootherSound(b.band) /\ SmootherSound(b.preGain)
      /\ b.factor \in Nat /\ b.strength \in Nat /\ b.tuning \in Tunings
      /\ b.band.target = b.factor * b.strength /\ BandFollows(b)
      /\ b.applied \in Int /\ b.applied >= -1 /\ b.bandActive \in BOOLEAN
  BY DEF BoostSound, BandFollows
<1>2. t \in Nat /\ UnityGain \in Nat /\ (b.strength = 0 => t = UnityGain)
  BY <1>1, DynamicAssumption DEF PreGainTarget
<1>3. /\ SmootherSound(p) /\ p.current = b.preGain.current /\ p.target = t
      /\ p.active \/ p = b.preGain
  BY <1>1, <1>2, SmootherAimed
<1> HIDE DEF t, p
<1>4. aimed = [factor |-> b.factor, strength |-> b.strength, tuning |-> b.tuning, band |-> b.band,
               preGain |-> p, applied |-> b.applied, bandActive |-> b.bandActive]
  BY <1>1, PartOf
<1>5. /\ aimed.factor = b.factor /\ aimed.strength = b.strength /\ aimed.tuning = b.tuning
      /\ aimed.band = b.band /\ aimed.preGain = p /\ aimed.applied = b.applied
      /\ aimed.bandActive = b.bandActive /\ Whole(aimed)
  <2> HIDE DEF aimed
  <2> QED BY <1>4 DEF Whole
<1>6. CanBypass(aimed) <=> CanBypass(b)
  <2> HIDE DEF aimed
  <2> QED BY <1>5 DEF CanBypass
<1>7. d = IF CanBypass(b) /\ ~p.active THEN aimed ELSE BandApplied(after, after.band.current)
  <2>1. d = IF CanBypass(aimed) /\ ~aimed.preGain.active THEN aimed
            ELSE BandApplied(after, after.band.current)
    BY DEF Processed, t, p
  <2> HIDE DEF aimed, after, d
  <2> QED BY <1>5, <1>6, <2>1
<1>8. BoostSound(aimed)
  <2> HIDE DEF aimed
  <2>1. BandFollows(aimed)
    BY <1>1, <1>5 DEF BandFollows
  <2> QED BY <1>1, <1>3, <1>5, <2>1 DEF BoostSound
<1>9. PreGainTarget(b) = t
  BY DEF t
<1>10. CASE CanBypass(b) /\ ~p.active
  <2>1. d = aimed
    BY <1>7, <1>10
  <2> HIDE DEF aimed, d
  <2>2. p = b.preGain /\ p.current = t /\ t = UnityGain /\ b.strength = 0
    BY <1>2, <1>3, <1>10 DEF CanBypass, SmootherSound
  <2>3. b.band.current = 0 /\ b.band.target = 0 /\ BandHeard(b) = 0 /\ BandHeard(d) = 0
    <3>1. b.factor * b.strength = 0
      BY <1>1, <2>2
    <3> QED BY <1>1, <1>5, <1>10, <2>1, <3>1 DEF CanBypass, SmootherSound, BandHeard
  <2>4. h = [preGain |-> UnityGain, band |-> BandHeard(d)]
    BY <1>5, <1>10, <2>1, <2>2 DEF Applied, BandHeard
  <2>5. PreGainTarget(d) = t
    BY <1>5, <1>9, <2>1 DEF PreGainTarget
  <2>6. d.preGain.current = UnityGain /\ d.band = b.band
    BY <1>5, <2>1, <2>2
  <2>7. Gradual(UnityGain, UnityGain, UnityGain, 2) /\ Gradual(0, 0, 0, UpdateEpsilon + 1)
    BY <1>2, DynamicAssumption DEF Gradual, Distance
  <2> HIDE DEF h
  <2>8. h.preGain = UnityGain /\ h.band = 0
    BY <2>3, <2>4
  <2> QED BY <1>8, <1>9, <2>1, <2>2, <2>3, <2>4, <2>5, <2>6, <2>7, <2>8 DEF d, h
<1>11. CASE ~(CanBypass(b) /\ ~p.active)
  <2> DEFINE band == NextBlock(b.band)
             preGain == NextBlock(p)
             kept == b.applied >= 0 /\ Distance(band.current, b.applied) < UpdateEpsilon
                       /\ b.bandActive = (band.current # 0)
  <2>1. d = BandApplied(after, after.band.current)
    BY <1>7, <1>11
  <2>2. after = [factor |-> b.factor, strength |-> b.strength, tuning |-> b.tuning, band |-> band,
                 preGain |-> preGain, applied |-> b.applied, bandActive |-> b.bandActive]
    <3> HIDE DEF aimed
    <3> DEFINE banded == [aimed EXCEPT !.band = band]
    <3>1. after = [banded EXCEPT !.preGain = preGain]
      BY <1>5
    <3> HIDE DEF after, band, preGain
    <3>2. banded = [factor |-> b.factor, strength |-> b.strength, tuning |-> b.tuning,
                    band |-> band, preGain |-> p, applied |-> b.applied,
                    bandActive |-> b.bandActive]
      BY <1>4
    <3> HIDE DEF banded
    <3> QED BY <3>1, <3>2
  <2>3. /\ SmootherSound(band) /\ band.target = b.band.target
        /\ Gradual(b.band.current, band.current, b.band.target, 2)
    BY <1>1, SmootherMoves
  <2>4. /\ SmootherSound(preGain) /\ Gradual(p.current, preGain.current, t, 2)
        /\ preGain.current = p.current => p.current = t
    BY <1>3, SmootherMoves
  <2> HIDE DEF aimed, after, band, preGain, d
  <2>5. /\ BoostSound(d) /\ d.band = band /\ d.preGain = preGain /\ d.applied >= 0
        /\ d.strength = b.strength /\ d.tuning = b.tuning
        /\ BandHeard(d) = IF kept THEN BandHeard(b) ELSE band.current
    <3>1. after.band = band
      BY <2>2
    <3> QED BY <2>1, <2>2, <2>3, <2>4, <3>1, BandAppliedSound
  <2>6. PreGainTarget(d) = t
    BY <1>9, <2>5 DEF PreGainTarget
  <2>7. h = [preGain |-> d.preGain.current, band |-> BandHeard(d)]
    <3> DEFINE bypassed == CanBypass(b) /\ d.band = b.band /\ d.preGain.current = b.preGain.current
    <3>1. bypassed => d.preGain.current = UnityGain
      BY <1>2, <1>3, <2>4, <2>5 DEF CanBypass
    <3> QED BY <3>1 DEF Applied, BandHeard
  <2>8. (b.applied = -1 /\ b.band.current # 0)
          \/ Gradual(BandHeard(b), BandHeard(d), b.band.target, UpdateEpsilon + 1)
    <3>1. b.band.current \in Nat /\ band.current \in Nat /\ b.band.target \in Nat
      BY <1>1, <2>3 DEF SmootherSound
    <3>2. /\ b.applied >= 0 => Distance(b.band.current, b.applied) < UpdateEpsilon
                                /\ (b.bandActive <=> b.band.current # 0)
          /\ b.applied = -1 => ~b.bandActive
      BY <1>1 DEF BandFollows
    <3> DEFINE first == IF b.bandActive THEN b.applied ELSE 0
               last == IF kept THEN first ELSE band.current
    <3>3. (b.applied = -1 /\ b.band.current # 0) \/ Gradual(first, last, b.band.target, UpdateEpsilon + 1)
      BY <1>1, <2>3, <3>1, <3>2, CoefficientsFollow
    <3>4. BandHeard(b) = first
      BY DEF BandHeard
    <3>5. BandHeard(d) = last
      <4> HIDE DEF kept, first
      <4> QED BY <2>5, <3>4
    <3> QED BY <3>3, <3>4, <3>5
  <2> HIDE DEF h
  <2>9. h.preGain = d.preGain.current /\ h.band = BandHeard(d)
    BY <2>7
  <2> QED BY <1>3, <1>9, <2>3, <2>4, <2>5, <2>6, <2>7, <2>8, <2>9 DEF d, h
<1> QED BY <1>10, <1>11

\* The stage applies what its core says, unless it was silent.
DynamicSound ==
  /\ held = [params |-> held.params, phase |-> held.phase] /\ held.params \in LoudnessParams
  /\ BoostSound(boost)
  /\ heard # Silenced =>
       /\ heard = [preGain |-> boost.preGain.current, band |-> BandHeard(boost)]
       /\ boost.applied = -1 => boost.band.current = 0
StaysGradual ==
  heard # Silenced /\ heard' # Silenced =>
    /\ Gradual(heard.preGain, heard'.preGain, PreGainTarget(boost'), 2)
    /\ Gradual(heard.band, heard'.band, boost'.band.target, UpdateEpsilon + 1)

\* What is heard of a core stays heard of one in the same place.
LEMMA HeardStays ==
  ASSUME DynamicSound, NEW d, BoostSound(d), SamePlace(boost, d)
  PROVE  /\ heard # Silenced => /\ heard = [preGain |-> d.preGain.current, band |-> BandHeard(d)]
                                /\ d.applied = -1 => d.band.current = 0
         /\ heard # Silenced => /\ Gradual(heard.preGain, heard.preGain, PreGainTarget(d), 2)
                                /\ Gradual(heard.band, heard.band, d.band.target, UpdateEpsilon + 1)
<1>1. BandHeard(d) = BandHeard(boost)
  BY DEF SamePlace, BandHeard
<1>2. heard # Silenced => /\ heard = [preGain |-> d.preGain.current, band |-> BandHeard(d)]
                          /\ d.applied = -1 => d.band.current = 0
  BY <1>1 DEF DynamicSound, SamePlace
<1>3. /\ d.preGain.current \in Int /\ BandHeard(d) \in Int /\ d.band.target \in Int
      /\ PreGainTarget(d) \in Int /\ UpdateEpsilon \in Nat
  <2>1. PreGainTarget(d) \in Int /\ UpdateEpsilon \in Nat
    BY DynamicAssumption DEF BoostSound, PreGainTarget
  <2>2. d.preGain.current \in Int /\ d.band.target \in Int
    BY DEF BoostSound, SmootherSound
  <2>3. BandHeard(d) \in Int
    BY DEF BoostSound, BandFollows, BandHeard
  <2> QED BY <2>1, <2>2, <2>3
<1>4. \A x, t, slack \in Int : slack >= 0 => Gradual(x, x, t, slack)
  BY DEF Gradual, Distance
<1>5. heard # Silenced => heard.preGain = d.preGain.current /\ heard.band = BandHeard(d)
  BY <1>2
<1>6. UpdateEpsilon + 1 \in Int /\ UpdateEpsilon + 1 >= 0
  BY <1>3
<1> QED BY <1>2, <1>3, <1>4, <1>5, <1>6

\* A block, with whatever snapshots the stage finds.
LEMMA DynamicProcessSound ==
  ASSUME DynamicSound, NEW p \in LoudnessParams, NEW t \in Tunings, NEW newParams \in BOOLEAN,
         NEW newTuning \in BOOLEAN, NEW frames \in {0, 1},
         DynamicProcess(p, t, newParams, newTuning, frames)
  PROVE  DynamicSound' /\ StaysGradual
<1> DEFINE adopted == IF newParams THEN WithParams(boost, p) ELSE boost
           ready == IF newTuning THEN WithTuning(adopted, t) ELSE adopted
           works == p.enabled /\ frames > 0
<1>1. /\ held' = [held EXCEPT !.params = p]
      /\ boost' = IF works THEN Processed(ready) ELSE ready
      /\ heard' = IF ~p.enabled THEN Silenced
                  ELSE IF works THEN Applied(ready, boost') ELSE heard
  BY DEF DynamicProcess
<1>2. BoostSound(adopted) /\ SamePlace(boost, adopted)
  BY ParamsSound DEF DynamicSound, SamePlace
<1>3. BoostSound(ready) /\ SamePlace(boost, ready)
  <2> HIDE DEF adopted
  <2>1. CASE newTuning
    <3>1. BoostSound(ready) /\ SamePlace(adopted, ready)
      BY <1>2, <2>1, TuningSound
    <3> HIDE DEF ready
    <3> QED BY <1>2, <3>1 DEF SamePlace
  <2>2. CASE ~newTuning
    BY <1>2, <2>2
  <2> QED BY <2>1, <2>2
<1>4. held' = [params |-> p, phase |-> held.phase]
  BY <1>1 DEF DynamicSound
<1>5. /\ held' = [params |-> held'.params, phase |-> held'.phase] /\ held'.params \in LoudnessParams
  BY <1>4
<1> HIDE DEF ready
<1>6. CASE works
  <2>1. boost' = Processed(ready) /\ (heard' = Silenced \/ heard' = Applied(ready, boost'))
    BY <1>1, <1>6
  <2>2. /\ BoostSound(boost')
        /\ boost'.applied = -1 => boost'.band.current = 0
        /\ boost'.band.target = ready.band.target /\ PreGainTarget(boost') = PreGainTarget(ready)
        /\ Applied(ready, boost') = [preGain |-> boost'.preGain.current, band |-> BandHeard(boost')]
        /\ Gradual(ready.preGain.current, Applied(ready, boost').preGain, PreGainTarget(boost'), 2)
        /\ (ready.applied = -1 /\ ready.band.current # 0)
           \/ Gradual(BandHeard(ready), Applied(ready, boost').band, boost'.band.target, UpdateEpsilon + 1)
    BY <1>3, <2>1, ProcessedSound
  <2>3. StaysGradual
    <3> SUFFICES ASSUME heard # Silenced, heard' # Silenced PROVE StaysGradual
      BY DEF StaysGradual
    <3>1. heard = [preGain |-> ready.preGain.current, band |-> BandHeard(ready)]
          /\ (ready.applied = -1 => ready.band.current = 0)
      BY <1>3, HeardStays
    <3>2. heard.preGain = ready.preGain.current /\ heard.band = BandHeard(ready)
      BY <3>1
    <3>3. heard' = Applied(ready, boost')
      BY <2>1
    <3> QED BY <2>2, <3>1, <3>2, <3>3 DEF StaysGradual
  <2>4. DynamicSound'
    BY <1>5, <2>1, <2>2 DEF DynamicSound, BandHeard
  <2> QED BY <2>3, <2>4
<1>7. CASE ~works
  <2>1. boost' = ready /\ (heard' = Silenced \/ heard' = heard)
    BY <1>1, <1>7
  <2>2. StaysGradual
    BY <1>3, <2>1, HeardStays DEF StaysGradual
  <2>3. DynamicSound'
    <3>1. heard' # Silenced => /\ heard' = [preGain |-> boost'.preGain.current, band |-> BandHeard(boost')]
                               /\ boost'.applied = -1 => boost'.band.current = 0
      BY <1>3, <2>1, HeardStays
    <3> QED BY <1>3, <1>5, <2>1, <3>1 DEF DynamicSound, BandHeard
  <2> QED BY <2>2, <2>3
<1> QED BY <1>6, <1>7

\* A block of the drain.
LEMMA DynamicFinishSound ==
  ASSUME DynamicSound, NEW frames \in {0, 1}, DynamicFinish(frames)
  PROVE  DynamicSound' /\ StaysGradual
<1>1. PICK phase \in {"finished", "finishing"}, works \in BOOLEAN :
        /\ held' = [held EXCEPT !.phase = phase]
        /\ boost' = IF works THEN Processed(boost) ELSE boost
        /\ heard' = IF works THEN Applied(boost, boost') ELSE heard
  <2> DEFINE ends == held.phase = "finished" \/ (held.phase = "processing" /\ ~held.params.enabled)
             works == ~ends /\ frames > 0
             phase == IF ends THEN "finished" ELSE "finishing"
  <2>1. /\ held' = [held EXCEPT !.phase = phase]
        /\ boost' = IF works THEN Processed(boost) ELSE boost
        /\ heard' = IF works THEN Applied(boost, boost') ELSE heard
    BY DEF DynamicFinish
  <2>2. phase \in {"finished", "finishing"}
    OBVIOUS
  <2>3. CASE works
    BY <2>1, <2>2, <2>3
  <2>4. CASE ~works
    BY <2>1, <2>2, <2>4
  <2> QED BY <2>3, <2>4
<1>2. held' = [params |-> held.params, phase |-> phase] /\ held.params \in LoudnessParams
  BY <1>1 DEF DynamicSound
<1>3. held' = [params |-> held'.params, phase |-> held'.phase] /\ held'.params \in LoudnessParams
  BY <1>2
<1>4. BoostSound(boost)
  BY DEF DynamicSound
<1>5. CASE works
  <2>1. boost' = Processed(boost) /\ heard' = Applied(boost, boost')
    BY <1>1, <1>5
  <2>2. /\ BoostSound(boost')
        /\ boost'.applied = -1 => boost'.band.current = 0
        /\ heard' = [preGain |-> boost'.preGain.current, band |-> BandHeard(boost')]
        /\ Gradual(boost.preGain.current, heard'.preGain, PreGainTarget(boost'), 2)
        /\ (boost.applied = -1 /\ boost.band.current # 0)
           \/ Gradual(BandHeard(boost), heard'.band, boost'.band.target, UpdateEpsilon + 1)
    BY <1>4, <2>1, ProcessedSound
  <2>3. heard # Silenced => /\ heard.preGain = boost.preGain.current /\ heard.band = BandHeard(boost)
                            /\ boost.applied = -1 => boost.band.current = 0
    BY DEF DynamicSound
  <2>4. StaysGradual
    BY <2>2, <2>3 DEF StaysGradual
  <2> QED BY <1>3, <2>2, <2>4 DEF DynamicSound, BandHeard
<1>6. CASE ~works
  <2>1. boost' = boost /\ heard' = heard
    BY <1>1, <1>6
  <2>2. SamePlace(boost, boost)
    BY DEF SamePlace
  <2>3. StaysGradual
    BY <1>4, <2>1, <2>2, HeardStays DEF StaysGradual
  <2> QED BY <1>3, <2>1, <2>3 DEF DynamicSound, BandHeard
<1> QED BY <1>5, <1>6

\* Coefficients that are to be made again apply nothing.
LEMMA NothingFollows ==
  ASSUME NEW b, b.applied = -1, b.bandActive = FALSE
  PROVE  BandFollows(b)
<1>1. b.applied \in Int /\ b.applied >= -1 /\ ~(b.applied >= 0)
  OBVIOUS
<1>2. b.bandActive \in BOOLEAN /\ ~b.bandActive
  OBVIOUS
<1> QED BY <1>1, <1>2, Zenon DEF BandFollows

\* A reset silences the stage and starts the band again from nothing.
LEMMA DynamicResetSound ==
  ASSUME DynamicSound, DynamicReset
  PROVE  DynamicSound' /\ StaysGradual
<1> DEFINE target == PreGainTarget(boost)
           cleared == [boost EXCEPT !.factor = 0, !.band = SettledAt(0), !.applied = -1,
                                    !.bandActive = FALSE, !.preGain = SettledAt(target)]
<1>1. boost' = WithParams(cleared, held.params) /\ heard' = Silenced
      /\ held' = [held EXCEPT !.phase = "processing"]
  BY DEF DynamicReset
<1>2. Whole(boost) /\ boost.strength \in Nat /\ boost.tuning \in Tunings
  BY DEF DynamicSound, BoostSound
<1>3. target \in Nat
  BY <1>2, DynamicAssumption DEF PreGainTarget
<1> HIDE DEF target
<1>4. SmootherSound(SettledAt(0)) /\ SettledAt(0).target = 0 /\ SmootherSound(SettledAt(target))
  BY <1>3, SmootherSettled
<1>5. cleared = [factor |-> 0, strength |-> boost.strength, tuning |-> boost.tuning,
                 band |-> SettledAt(0), preGain |-> SettledAt(target), applied |-> -1,
                 bandActive |-> FALSE]
  <2> DEFINE b1 == [boost EXCEPT !.factor = 0]
             b2 == [b1 EXCEPT !.band = SettledAt(0)]
             b3 == [b2 EXCEPT !.applied = -1]
             b4 == [b3 EXCEPT !.bandActive = FALSE]
             b5 == [b4 EXCEPT !.preGain = SettledAt(target)]
  <2>1. b1 = [factor |-> 0, strength |-> boost.strength, tuning |-> boost.tuning,
              band |-> boost.band, preGain |-> boost.preGain, applied |-> boost.applied,
              bandActive |-> boost.bandActive]
    BY <1>2, PartOf
  <2> HIDE DEF b1
  <2>2. b2 = [factor |-> 0, strength |-> boost.strength, tuning |-> boost.tuning,
              band |-> SettledAt(0), preGain |-> boost.preGain, applied |-> boost.applied,
              bandActive |-> boost.bandActive]
    BY <2>1
  <2> HIDE DEF b2
  <2>3. b3 = [factor |-> 0, strength |-> boost.strength, tuning |-> boost.tuning,
              band |-> SettledAt(0), preGain |-> boost.preGain, applied |-> -1,
              bandActive |-> boost.bandActive]
    BY <2>2
  <2> HIDE DEF b3
  <2> DEFINE no == FALSE
             g == SettledAt(target)
  <2>4. b4 = [b3 EXCEPT !.bandActive = no]
    OBVIOUS
  <2>7. b5 = [b4 EXCEPT !.preGain = g]
    OBVIOUS
  <2> HIDE DEF b4, b5, no, g
  <2>5. b4 = [factor |-> 0, strength |-> boost.strength, tuning |-> boost.tuning,
              band |-> SettledAt(0), preGain |-> boost.preGain, applied |-> -1,
              bandActive |-> no]
    BY <2>3, <2>4
  <2>6. b5 = [factor |-> 0, strength |-> boost.strength, tuning |-> boost.tuning,
              band |-> SettledAt(0), preGain |-> g, applied |-> -1, bandActive |-> no]
    BY <2>5, <2>7
  <2> QED BY <2>6 DEF b1, b2, b3, b4, b5, no, g
<1> HIDE DEF cleared
<1>6. BoostSound(cleared)
  <2> DEFINE n == SettledAt(0)
             g == SettledAt(target)
  <2> HIDE DEF n, g
  <2>1. /\ cleared.factor = 0 /\ cleared.strength = boost.strength /\ cleared.tuning = boost.tuning
        /\ cleared.band = n /\ cleared.preGain = g /\ cleared.applied = -1
        /\ cleared.bandActive = FALSE /\ Whole(cleared)
    BY <1>5 DEF Whole, n, g
  <2>2. BandFollows(cleared)
    BY <2>1, NothingFollows
  <2>3. SmootherSound(n) /\ n.target = 0 /\ SmootherSound(g)
    BY <1>4 DEF n, g
  <2>4. 0 = 0 * boost.strength
    BY <1>2
  <2> QED BY <1>2, <2>1, <2>2, <2>3, <2>4 DEF BoostSound
<1>7. BoostSound(boost')
  BY <1>1, <1>6, ParamsSound DEF DynamicSound
<1>8. held' = [params |-> held.params, phase |-> "processing"] /\ held.params \in LoudnessParams
  BY <1>1 DEF DynamicSound
<1>9. held' = [params |-> held'.params, phase |-> held'.phase] /\ held'.params \in LoudnessParams
  BY <1>8
<1> QED BY <1>1, <1>7, <1>9 DEF DynamicSound, StaysGradual, BandHeard

\* Another rate makes the band's coefficients again where the band is.
LEMMA DynamicSetRateSound ==
  ASSUME DynamicSound, NEW another \in BOOLEAN, DynamicSetRate(another)
  PROVE  DynamicSound' /\ StaysGradual
<1>1. held' = [held EXCEPT !.phase = "processing"]
  BY DEF DynamicSetRate
<1>2. held' = [params |-> held.params, phase |-> "processing"] /\ held.params \in LoudnessParams
  BY <1>1 DEF DynamicSound
<1>3. held' = [params |-> held'.params, phase |-> held'.phase] /\ held'.params \in LoudnessParams
  BY <1>2
<1>4. BoostSound(boost)
  BY DEF DynamicSound
<1>5. CASE another
  <2> DEFINE cleared == [boost EXCEPT !.applied = -1, !.bandActive = FALSE]
  <2>1. boost' = BandApplied(cleared, boost.band.current) /\ heard' = Silenced
    BY <1>5 DEF DynamicSetRate
  <2>2. Whole(boost) /\ SmootherSound(boost.band) /\ SmootherSound(boost.preGain)
    BY <1>4 DEF BoostSound
  <2>3. cleared = [factor |-> boost.factor, strength |-> boost.strength, tuning |-> boost.tuning,
                   band |-> boost.band, preGain |-> boost.preGain, applied |-> -1,
                   bandActive |-> FALSE]
    BY <2>2, PartsOf
  <2> HIDE DEF cleared
  <2>4. /\ cleared.factor = boost.factor /\ cleared.strength = boost.strength
        /\ cleared.tuning = boost.tuning /\ cleared.band = boost.band
        /\ cleared.preGain = boost.preGain /\ cleared.applied = -1
        /\ cleared.bandActive = FALSE /\ Whole(cleared)
    BY <2>3 DEF Whole
  <2>5. BandFollows(cleared)
    BY <2>4, NothingFollows
  <2>6. BoostSound(cleared)
    BY <1>4, <2>4, <2>5 DEF BoostSound
  <2>7. BoostSound(BandApplied(cleared, boost.band.current))
    <3>1. cleared = [factor |-> cleared.factor, strength |-> cleared.strength,
                     tuning |-> cleared.tuning, band |-> boost.band, preGain |-> boost.preGain,
                     applied |-> cleared.applied, bandActive |-> cleared.bandActive]
      BY <2>4 DEF Whole
    <3> QED BY <2>2, <2>4, <2>6, <3>1, BandAppliedSound
  <2> QED BY <1>3, <2>1, <2>7 DEF DynamicSound, StaysGradual, BandHeard
<1>6. CASE ~another
  <2>1. boost' = boost /\ heard' = heard
    BY <1>6 DEF DynamicSetRate
  <2>2. SamePlace(boost, boost)
    BY DEF SamePlace
  <2>3. StaysGradual
    BY <1>4, <2>1, <2>2, HeardStays DEF StaysGradual
  <2> QED BY <1>3, <2>1, <2>3 DEF DynamicSound, BandHeard
<1> QED BY <1>5, <1>6

\* A new core is one that a reset could have left.
LEMMA DynamicStarts ==
  ASSUME DynamicInit
  PROVE  DynamicSound
<1>1. PICK p \in LoudnessParams, t \in Tunings :
        /\ held = [params |-> p, phase |-> "processing"]
        /\ boost = WithTuning(WithParams(NewCore, p), t)
        /\ heard = Silenced
  BY DEF DynamicInit
<1>2. BoostSound(NewCore)
  <2> DEFINE n == SettledAt(0)
             g == SettledAt(DefaultTuning.preGain)
  <2>1. DefaultTuning \in Tunings /\ DefaultTuning.preGain \in Nat
    BY DynamicAssumption
  <2>2. SmootherSound(n) /\ n.target = 0 /\ SmootherSound(g)
    BY <2>1, SmootherSettled
  <2>3. NewCore = [factor |-> 0, strength |-> 2, tuning |-> DefaultTuning, band |-> n,
                   preGain |-> g, applied |-> -1, bandActive |-> FALSE]
    BY DEF NewCore
  <2> HIDE DEF n, g
  <2>4. /\ NewCore.factor = 0 /\ NewCore.strength = 2 /\ NewCore.tuning = DefaultTuning
        /\ NewCore.band = n /\ NewCore.preGain = g /\ NewCore.applied = -1
        /\ NewCore.bandActive = FALSE /\ Whole(NewCore)
    BY <2>3 DEF Whole
  <2>5. BandFollows(NewCore)
    BY <2>4, NothingFollows
  <2> QED BY <2>1, <2>2, <2>4, <2>5 DEF BoostSound
<1>3. BoostSound(WithParams(NewCore, p))
  BY <1>2, ParamsSound
<1>4. BoostSound(boost)
  BY <1>1, <1>3, TuningSound
<1>5. held = [params |-> held.params, phase |-> held.phase] /\ held.params \in LoudnessParams
  BY <1>1
<1> QED BY <1>1, <1>4, <1>5 DEF DynamicSound

\* While the dynamic loudness stage runs, the headroom and the boost that multiply the
\* audio move by no more than half of what is left of their ramps, whatever is
\* published, in the drain and where the idle stage bypasses itself and wakes up
\* (dynamic_loudness.rs, `process_validated` and `can_bypass_for_zero_strength`).
THEOREM HeadroomGradual == DynamicSpec => HeadroomIsGradual
<1>1. DynamicInit => DynamicSound
  BY DynamicStarts
<1>2. DynamicSound /\ [DynamicNext]_dynamicVars => DynamicSound' /\ [StaysGradual]_dynamicVars
  <2>1. CASE DynamicNext
    <3> SUFFICES ASSUME DynamicSound, DynamicNext PROVE DynamicSound' /\ StaysGradual
      BY <2>1
    <3>1. ASSUME NEW p \in LoudnessParams, NEW t \in Tunings, NEW newParams \in BOOLEAN,
                 NEW newTuning \in BOOLEAN, NEW frames \in {0, 1},
                 DynamicProcess(p, t, newParams, newTuning, frames)
          PROVE  DynamicSound' /\ StaysGradual
      BY <3>1, DynamicProcessSound
    <3>2. CASE DynamicReset
      BY <3>2, DynamicResetSound
    <3>3. ASSUME NEW frames \in {0, 1}, DynamicFinish(frames)
          PROVE  DynamicSound' /\ StaysGradual
      BY <3>3, DynamicFinishSound
    <3>4. ASSUME NEW another \in BOOLEAN, DynamicSetRate(another)
          PROVE  DynamicSound' /\ StaysGradual
      BY <3>4, DynamicSetRateSound
    <3> QED BY <3>1, <3>2, <3>3, <3>4 DEF DynamicNext
  <2>2. CASE UNCHANGED dynamicVars
    BY <2>2 DEF dynamicVars, DynamicSound, BoostSound, BandFollows, BandHeard, SmootherSound, Whole
  <2> QED BY <2>1, <2>2
<1>3. StaysGradual <=>
        (heard # Silenced /\ heard' # Silenced =>
           /\ Gradual(heard.preGain, heard'.preGain, PreGainTarget(boost'), 2)
           /\ Gradual(heard.band, heard'.band, boost'.band.target, UpdateEpsilon + 1))
  BY DEF StaysGradual
<1> QED BY <1>1, <1>2, <1>3, PTL DEF DynamicSpec, HeadroomIsGradual

-----------------------------------------------------------------------------
(* Powers of two.                                                          *)

\* A set that contains 0 and, with a natural, the next one contains them all.
LEMMA SetInduction ==
  ASSUME NEW S, 0 \in S, \A n \in Nat : n \in S => n + 1 \in S
  PROVE  Nat \subseteq S
<1> SUFFICES ASSUME Nat \ S # {} PROVE FALSE
  OBVIOUS
<1>1. PICK n \in Nat \ S : \A m \in Nat \ S : n <= m
  <2>1. Nat \ S \in SUBSET Nat
    OBVIOUS
  <2> QED BY <2>1, LeastOf, Zenon
<1>2. n # 0 /\ n - 1 \in Nat
  BY <1>1
<1>3. n - 1 \in S
  BY <1>1, <1>2
<1> QED BY <1>1, <1>2, <1>3

\* `TwoTo` is what its definition says.
LEMMA TwoToExists ==
  TwoTo = [n \in 0..MaxGiven |-> IF n = 0 THEN 1 ELSE 2 * TwoTo[n - 1]]
<1> DEFINE Doubling(f, m) == f = [n \in 0..m |-> IF n = 0 THEN 1 ELSE 2 * f[n - 1]]
           Defined == {m \in Nat : \E f : Doubling(f, m)}
<1>1. 0 \in Defined
  <2>1. Doubling([n \in 0..0 |-> 1], 0)
    OBVIOUS
  <2> QED BY <2>1
<1>2. ASSUME NEW m \in Nat, m \in Defined
      PROVE  m + 1 \in Defined
  <2>1. PICK f : Doubling(f, m)
    BY <1>2
  <2> DEFINE g == [n \in 0..(m + 1) |-> IF n <= m THEN f[n] ELSE 2 * f[m]]
             h == [n \in 0..(m + 1) |-> IF n = 0 THEN 1 ELSE 2 * g[n - 1]]
  <2>2. ASSUME NEW n \in 0..(m + 1)
        PROVE  g[n] = IF n = 0 THEN 1 ELSE 2 * g[n - 1]
    <3>1. CASE n = 0
      BY <2>1, <3>1
    <3>2. CASE n # 0
      <4>1. n - 1 \in 0..m /\ g[n - 1] = f[n - 1]
        BY <3>2
      <4>2. CASE n <= m
        <5>1. n \in 0..m /\ g[n] = f[n]
          BY <4>2
        <5>2. f[n] = 2 * f[n - 1]
          BY <2>1, <3>2, <5>1
        <5> QED BY <3>2, <4>1, <5>1, <5>2
      <4>3. CASE n = m + 1
        BY <3>2, <4>1, <4>3
      <4> QED BY <4>2, <4>3
    <3> QED BY <3>1, <3>2
  <2>3. g = [n \in 0..(m + 1) |-> g[n]]
    OBVIOUS
  <2> HIDE DEF g
  <2>4. g = h
    BY <2>2, <2>3
  <2>5. Doubling(g, m + 1)
    BY <2>4
  <2> HIDE DEF Doubling
  <2>6. \E d : Doubling(d, m + 1)
    BY <2>5
  <2> QED BY <2>6
<1>3. Nat \subseteq Defined
  <2> HIDE DEF Defined
  <2> QED BY <1>1, <1>2, SetInduction
<1>4. \E f : Doubling(f, MaxGiven)
  BY <1>3, NormalizerAssumption
<1>5. TwoTo = CHOOSE f : Doubling(f, MaxGiven)
  BY DEF TwoTo
<1> HIDE DEF Doubling
<1>6. Doubling(TwoTo, MaxGiven)
  BY <1>4, <1>5
<1> QED BY <1>6 DEF Doubling

\* Powers of two are positive, and multiply as they should.
LEMMA PowersOfTwo ==
  /\ TwoTo[0] = 1
  /\ \A n \in 0..MaxGiven : TwoTo[n] \in Nat \ {0}
  /\ \A n \in 1..MaxGiven : TwoTo[n] = 2 * TwoTo[n - 1]
<1> DEFINE Fine == {n \in Nat : n <= MaxGiven => TwoTo[n] \in Nat \ {0}}
<1>1. MaxGiven \in Nat
  BY NormalizerAssumption
<1>2. TwoTo[0] = 1 /\ \A n \in 1..MaxGiven : TwoTo[n] = 2 * TwoTo[n - 1]
  BY <1>1, TwoToExists
<1>3. 0 \in Fine
  BY <1>2
<1>4. ASSUME NEW n \in Nat, n \in Fine PROVE n + 1 \in Fine
  <2>1. CASE n + 1 <= MaxGiven
    <3>1. n + 1 \in 1..MaxGiven /\ (n + 1) - 1 = n /\ n <= MaxGiven
      BY <1>1, <2>1
    <3>2. TwoTo[n + 1] = 2 * TwoTo[n] /\ TwoTo[n] \in Nat \ {0}
      BY <1>2, <1>4, <3>1
    <3> QED BY <3>2
  <2>2. CASE ~(n + 1 <= MaxGiven)
    BY <2>2
  <2> QED BY <2>1, <2>2
<1>5. Nat \subseteq Fine
  <2> HIDE DEF Fine
  <2> QED BY <1>3, <1>4, SetInduction
<1> QED BY <1>1, <1>2, <1>5

\* The power of a sum is the product of the powers.
LEMMA PowersMultiply ==
  \A a, b \in Nat : a + b <= MaxGiven => TwoTo[a + b] = TwoTo[a] * TwoTo[b]
<1> SUFFICES ASSUME NEW a \in Nat
             PROVE  \A b \in Nat : a + b <= MaxGiven => TwoTo[a + b] = TwoTo[a] * TwoTo[b]
  OBVIOUS
<1> DEFINE Fine == {b \in Nat : a + b <= MaxGiven => TwoTo[a + b] = TwoTo[a] * TwoTo[b]}
<1>1. MaxGiven \in Nat
  BY NormalizerAssumption
<1>2. 0 \in Fine
  <2>1. a <= MaxGiven => TwoTo[a] \in Nat
    BY <1>1, PowersOfTwo
  <2>2. a + 0 = a /\ TwoTo[0] = 1
    BY PowersOfTwo
  <2>3. a <= MaxGiven => TwoTo[a] = TwoTo[a] * 1
    BY <2>1
  <2> QED BY <2>2, <2>3
<1>3. ASSUME NEW b \in Nat, b \in Fine PROVE b + 1 \in Fine
  <2>1. CASE a + (b + 1) <= MaxGiven
    <3>1. /\ a + (b + 1) \in 1..MaxGiven /\ (a + (b + 1)) - 1 = a + b /\ a + b <= MaxGiven
          /\ b + 1 \in 1..MaxGiven /\ (b + 1) - 1 = b /\ a \in 0..MaxGiven /\ b \in 0..MaxGiven
      BY <1>1, <2>1
    <3> DEFINE ta == TwoTo[a]
               tb == TwoTo[b]
    <3>2. /\ TwoTo[a + (b + 1)] = 2 * TwoTo[a + b] /\ TwoTo[b + 1] = 2 * tb
          /\ TwoTo[a + b] = ta * tb /\ ta \in Nat /\ tb \in Nat
      BY <1>3, <3>1, PowersOfTwo
    <3> HIDE DEF ta, tb
    <3>3. 2 * (ta * tb) = ta * (2 * tb)
      BY <3>2
    <3> QED BY <3>2, <3>3 DEF ta
  <2>2. CASE ~(a + (b + 1) <= MaxGiven)
    BY <2>2
  <2> QED BY <2>1, <2>2
<1>4. Nat \subseteq Fine
  <2> HIDE DEF Fine
  <2> QED BY <1>2, <1>3, SetInduction
<1> QED BY <1>4

\* A multiple divides without a rest.
LEMMA ExactQuotient ==
  ASSUME NEW x \in Int, NEW d \in Nat \ {0}
  PROVE  (x * d) \div d = x
OBVIOUS

\* A gain without smoothing is at its target after a frame.
LEMMA GainJumps ==
  ASSUME NEW from, NEW target, NEW n \in Nat \ {0}
  PROVE  FrameByFrame(from, target, 0, n) = target
<1> DEFINE Going(f) == f = [i \in 0..n |-> IF i = 0 THEN from
                                           ELSE IF 0 = 0 THEN target ELSE (f[i - 1] + target) \div 2]
           gain == CHOOSE f : Going(f)
<1>1. Going([i \in 0..n |-> IF i = 0 THEN from ELSE target])
  OBVIOUS
<1>2. FrameByFrame(from, target, 0, n) = gain[n]
  BY DEF FrameByFrame
<1>3. Going(gain)
  <2> HIDE DEF Going
  <2> QED BY <1>1
<1> HIDE DEF gain
<1> QED BY <1>2, <1>3

\* A gain that halves in every frame what is left of a change.
LEMMA GainHalves ==
  ASSUME NEW k \in 0..MaxGiven, NEW n \in 0..k, NEW target \in Int, NEW q \in Int
  PROVE  FrameByFrame(target - q * TwoTo[k], target, 1, n) = target - q * TwoTo[k - n]
<1> DEFINE from == target - q * TwoTo[k]
           Going(f) == f = [i \in 0..n |-> IF i = 0 THEN from
                                           ELSE IF 1 = 0 THEN target ELSE (f[i - 1] + target) \div 2]
           gain == CHOOSE f : Going(f)
           left == [i \in 0..n |-> target - q * TwoTo[k - i]]
<1>1. /\ MaxGiven \in Nat /\ k \in Nat /\ n \in Nat /\ n <= k /\ k <= MaxGiven
      /\ \A i \in 0..n : k - i \in 0..MaxGiven /\ TwoTo[k - i] \in Nat /\ left[i] \in Int
  BY NormalizerAssumption, PowersOfTwo
<1>2. ASSUME NEW i \in 1..n PROVE left[i] = (left[i - 1] + target) \div 2
  <2> DEFINE rest == TwoTo[k - i]
             twice == TwoTo[k - (i - 1)]
  <2>1. i \in 0..n /\ i - 1 \in 0..n /\ k - (i - 1) \in 1..MaxGiven /\ (k - (i - 1)) - 1 = k - i
    BY <1>1
  <2>2. twice = 2 * rest /\ rest \in Nat
    BY <1>1, <2>1, PowersOfTwo
  <2>3. left[i] = target - q * rest /\ left[i - 1] = target - q * twice
    BY <2>1
  <2> HIDE DEF rest, twice, left
  <2>4. q * twice = 2 * (q * rest) /\ q * rest \in Int
    BY <2>2
  <2> DEFINE z == q * rest
  <2> HIDE DEF z
  <2>5. z \in Int /\ left[i] = target - z /\ left[i - 1] + target = 2 * (target - z)
    BY <2>3, <2>4 DEF z
  <2>6. (2 * (target - z)) \div 2 = target - z
    BY <2>5
  <2> QED BY <2>5, <2>6
<1>3. left[0] = from
  BY <1>1
<1>4. Going(left)
  <2> DEFINE again == [i \in 0..n |-> IF i = 0 THEN from
                                      ELSE IF 1 = 0 THEN target ELSE (left[i - 1] + target) \div 2]
  <2>1. left = [i \in 0..n |-> left[i]]
    OBVIOUS
  <2> HIDE DEF left, from
  <2>2. \A i \in 0..n : left[i] = IF i = 0 THEN from
                                  ELSE IF 1 = 0 THEN target ELSE (left[i - 1] + target) \div 2
    BY <1>1, <1>2, <1>3
  <2>3. left = again
    BY <2>1, <2>2
  <2> QED BY <2>3
<1>5. Going(gain)
  <2> HIDE DEF Going
  <2> QED BY <1>4
<1>6. FrameByFrame(from, target, 1, n) = gain[n]
  BY DEF FrameByFrame
<1> HIDE DEF gain
<1>7. gain[0] = from /\ \A i \in 1..n : gain[i] = (gain[i - 1] + target) \div 2
  <2> HIDE DEF from
  <2> QED BY <1>1, <1>5
<1> DEFINE Alike == {i \in Nat : i <= n => gain[i] = left[i]}
<1>8. Nat \subseteq Alike
  <2>1. 0 \in Alike
    BY <1>3, <1>7
  <2>2. ASSUME NEW i \in Nat, i \in Alike PROVE i + 1 \in Alike
    <3> HIDE DEF left
    <3>1. CASE i + 1 <= n
      <4>1. i + 1 \in 1..n /\ (i + 1) - 1 = i /\ i <= n
        BY <1>1, <3>1
      <4>2. gain[i + 1] = (gain[i] + target) \div 2 /\ left[i + 1] = (left[i] + target) \div 2
        BY <1>2, <1>7, <4>1
      <4> QED BY <2>2, <4>1, <4>2
    <3>2. CASE ~(i + 1 <= n)
      BY <3>2
    <3> QED BY <3>1, <3>2
  <2> HIDE DEF Alike
  <2> QED BY <2>1, <2>2, SetInduction
<1>9. left[n] = target - q * TwoTo[k - n]
  BY <1>1
<1>10. gain[n] = left[n]
  <2> HIDE DEF left
  <2> QED BY <1>1, <1>8
<1> QED BY <1>6, <1>9, <1>10

\* The closed form of a block and its frames one by one agree.
LEMMA BlockIsExact ==
  ASSUME NEW k \in 0..MaxGiven, NEW n \in 1..k, NEW target \in Int, NEW q \in Int,
         NEW coeff \in {0, 1}, NEW from, from = target - q * TwoTo[k]
  PROVE  LET to == target - Remaining(target - from, coeff, n)
         IN /\ to = FrameByFrame(from, target, coeff, n)
            /\ \E p \in Int : to = target - p * TwoTo[k - n]
<1> DEFINE to == target - Remaining(target - from, coeff, n)
<1>1. /\ MaxGiven \in Nat /\ k \in Nat /\ n \in Nat \ {0} /\ k - n \in Nat /\ n + (k - n) = k
      /\ n \in 0..k /\ k \in 0..MaxGiven /\ n \in 0..MaxGiven /\ k - n \in 0..MaxGiven
      /\ k <= MaxGiven
  BY NormalizerAssumption
<1>2. /\ TwoTo[k] \in Nat \ {0} /\ TwoTo[n] \in Nat \ {0} /\ TwoTo[k - n] \in Nat \ {0}
      /\ TwoTo[k] = TwoTo[n] * TwoTo[k - n]
  BY <1>1, PowersOfTwo, PowersMultiply
<1>3. CASE coeff = 0
  <2>1. to = target
    BY <1>3 DEF Remaining
  <2>2. FrameByFrame(from, target, coeff, n) = target
    BY <1>1, <1>3, GainJumps
  <2>3. target = target - 0 * TwoTo[k - n]
    BY <1>2
  <2> QED BY <2>1, <2>2, <2>3
<1>4. CASE coeff = 1
  <2> DEFINE a == TwoTo[n]
             b == TwoTo[k - n]
             c == TwoTo[k]
  <2>1. Remaining(target - from, coeff, n) = (target - from) \div a
    BY <1>4 DEF Remaining
  <2>2. a \in Nat \ {0} /\ b \in Nat /\ c \in Nat /\ c = a * b /\ from = target - q * c
    BY <1>2
  <2> HIDE DEF a, b, c
  <2>3. target - from = q * c /\ q * c = (q * b) * a /\ q * b \in Int
    BY <2>2
  <2>4. (target - from) \div a = q * b
    BY <2>2, <2>3, ExactQuotient
  <2>5. to = target - q * b
    BY <2>1, <2>4
  <2>6. FrameByFrame(target - q * c, target, 1, n) = target - q * b
    BY <1>1, GainHalves DEF b, c
  <2>7. to = FrameByFrame(from, target, coeff, n)
    BY <1>4, <2>2, <2>5, <2>6
  <2> HIDE DEF to
  <2> QED BY <2>5, <2>7 DEF b, to
<1> QED BY <1>3, <1>4

-----------------------------------------------------------------------------
(* The loudness normalizer.                                                *)

LoudnessFields == {"enabled", "mode", "target", "current", "coeff", "album", "preamp"}

\* The normalizer's records keep their fields.
NormalizerShape ==
  /\ DOMAIN loudness = LoudnessFields /\ DOMAIN settings = {"mode", "target"}
  /\ DOMAIN block = {"frames", "seen", "at"} /\ block.frames \in Nat
  /\ stores \in Nat

\* What a block may see of each field has what is there now, and the gain is where the
\* last normalized block left it.
GainFollows ==
  /\ loudness.current = applied.to
  /\ block # NoBlock =>
       /\ DOMAIN block.seen = LoudnessFields /\ block.seen.current = {loudness.current}
       /\ block.at \in Nat /\ block.at <= stores
       /\ stores = block.at => \A f \in LoudnessFields : block.seen[f] = {loudness[f]}

\* The frame that is due at a place of the line and what came after it.
DueAt(i) == LET due == given + i - LimiterDelay IN IF due > gap THEN due ELSE 0

\* While the stage runs, its line holds the last frames since the gap.
LineFollows ==
  /\ given \in Nat /\ gap \in Nat /\ gap <= given
  /\ line \in Seq(Nat) /\ Len(line) = LimiterDelay
  /\ running => \A i \in 1..LimiterDelay : line[i] = DueAt(i)

NormalizerSound == NormalizerShape /\ TrackGainIsKept /\ GainFollows /\ LineFollows

\* A call that neither processes nor clears.
QuietCall ==
  /\ NormalizerShape' /\ TrackGainIsKept'
  /\ block = NoBlock /\ stores' = stores + 1 /\ loudness'.current = loudness.current
  /\ UNCHANGED <<running, line, block, applied, sounded, given, gap>>

\* The target gain is another's, or stays.
TargetStays ==
  /\ DOMAIN loudness' = LoudnessFields /\ loudness'.current = loudness.current
  /\ steered' \/ (loudness'.target = loudness.target /\ ~steered)

\* A store changes one field.
LEMMA StoredField ==
  ASSUME NormalizerShape, NEW f \in LoudnessFields, NEW v, Stored(f, v)
  PROVE  /\ DOMAIN loudness' = LoudnessFields /\ loudness'[f] = v
         /\ \A g \in LoudnessFields : g # f => loudness'[g] = loudness[g]
BY DEF NormalizerShape, Stored

\* Such a call keeps what blocks and the line rest on.
LEMMA QuietIsSound ==
  ASSUME NormalizerSound, QuietCall
  PROVE  NormalizerSound' /\ GainIsContinued /\ NothingIsReplayed
<1>1. GainFollows'
  BY DEF QuietCall, GainFollows, NormalizerSound
<1>2. LineFollows'
  BY DEF QuietCall, LineFollows, NormalizerSound, DueAt
<1>3. GainIsContinued /\ NothingIsReplayed
  BY DEF QuietCall, GainIsContinued, BlockEnds, NothingIsReplayed
<1> QED BY <1>1, <1>2, <1>3 DEF QuietCall, NormalizerSound

\* The configuring calls are such calls, and so is the analysis.
LEMMA SetConfigQuiet ==
  ASSUME NormalizerSound, NEW enabled, NEW mode, NEW target, NEW coeff,
         SetConfig(enabled, mode, target, coeff)
  PROVE  QuietCall
<1>1. /\ block = NoBlock /\ stores' = stores + 1
      /\ UNCHANGED <<track, running, line, block, applied, sounded, given, gap>>
  BY DEF SetConfig, Owns, Counted
<1>2. CASE target = Broken
  <2>1. UNCHANGED <<loudness, settings, steered>>
    BY <1>2 DEF SetConfig
  <2> QED BY <1>1, <2>1 DEF QuietCall, NormalizerSound, NormalizerShape, TrackGainIsKept
<1>3. CASE target # Broken
  <2> DEFINE gain == TargetFor(target)
             l1 == [loudness EXCEPT !.enabled = enabled]
             l2 == [l1 EXCEPT !.mode = mode]
             l3 == [l2 EXCEPT !.coeff = coeff]
             l4 == [l3 EXCEPT !.target = gain]
  <2>1. settings' = [mode |-> mode, target |-> target] /\ loudness' = l4 /\ steered' = SteeredFor
    BY <1>3 DEF SetConfig
  <2>2. DOMAIN loudness' = LoudnessFields /\ loudness'.target = gain
        /\ loudness'.current = loudness.current
    <3> HIDE DEF gain
    <3>1. DOMAIN l1 = LoudnessFields /\ l1.current = loudness.current
      BY DEF NormalizerSound, NormalizerShape, LoudnessFields
    <3> HIDE DEF l1
    <3>2. DOMAIN l2 = LoudnessFields /\ l2.current = loudness.current
      BY <3>1 DEF LoudnessFields
    <3> HIDE DEF l2
    <3>3. DOMAIN l3 = LoudnessFields /\ l3.current = loudness.current
      BY <3>2 DEF LoudnessFields
    <3> HIDE DEF l3
    <3>4. DOMAIN l4 = LoudnessFields /\ l4.current = loudness.current /\ l4.target = gain
      BY <3>3 DEF LoudnessFields
    <3> QED BY <2>1, <3>4
  <2> HIDE DEF l4
  <2>3. DOMAIN settings' = {"mode", "target"} /\ settings'.target = target
    BY <2>1
  <2>4. NormalizerShape'
    BY <1>1, <2>2, <2>3 DEF NormalizerSound, NormalizerShape
  <2>5. TrackGainIsKept'
    BY <1>1, <2>1, <2>2, <2>3 DEF NormalizerSound, TrackGainIsKept, TargetFor, SteeredFor
  <2> QED BY <1>1, <2>2, <2>4, <2>5 DEF QuietCall
<1> QED BY <1>2, <1>3

\* A refused target leaves everything, another one is published.
LEMMA SetTargetQuiet ==
  ASSUME NormalizerSound, NEW target, SetTarget(target)
  PROVE  QuietCall
<1>1. /\ block = NoBlock /\ stores' = stores + 1
      /\ UNCHANGED <<track, running, line, block, applied, sounded, given, gap>>
  BY DEF SetTarget, Owns, Counted
<1>2. CASE target = Broken
  <2>1. UNCHANGED <<loudness, settings, steered>>
    BY <1>2 DEF SetTarget
  <2> QED BY <1>1, <2>1 DEF QuietCall, NormalizerSound, NormalizerShape, TrackGainIsKept
<1>3. CASE target # Broken
  <2>1. /\ settings' = [settings EXCEPT !.target = target]
        /\ Stored("target", TargetFor(target)) /\ steered' = SteeredFor
    BY <1>3 DEF SetTarget
  <2>2. DOMAIN loudness' = LoudnessFields /\ loudness'.target = TargetFor(target)
        /\ loudness'.current = loudness.current
    BY <2>1, StoredField DEF NormalizerSound, LoudnessFields
  <2>3. DOMAIN settings' = {"mode", "target"} /\ settings'.target = target
    BY <2>1 DEF NormalizerSound, NormalizerShape
  <2>4. NormalizerShape'
    BY <1>1, <2>2, <2>3 DEF NormalizerSound, NormalizerShape
  <2>5. TrackGainIsKept'
    BY <1>1, <2>1, <2>2, <2>3 DEF NormalizerSound, TrackGainIsKept, TargetFor, SteeredFor
  <2> QED BY <1>1, <2>2, <2>4, <2>5 DEF QuietCall
<1> QED BY <1>2, <1>3

\* A mode leaves the gains.
LEMMA SetModeQuiet ==
  ASSUME NormalizerSound, NEW mode, SetMode(mode)
  PROVE  QuietCall
<1>1. /\ block = NoBlock /\ stores' = stores + 1
      /\ UNCHANGED <<track, running, line, block, applied, sounded, given, gap, steered>>
      /\ settings' = [settings EXCEPT !.mode = mode] /\ Stored("mode", mode)
  BY DEF SetMode, Owns, Counted
<1>2. DOMAIN loudness' = LoudnessFields /\ loudness'.target = loudness.target
      /\ loudness'.current = loudness.current
  BY <1>1, StoredField DEF NormalizerSound, LoudnessFields
<1>3. DOMAIN settings' = {"mode", "target"} /\ settings'.target = settings.target
  BY <1>1 DEF NormalizerSound, NormalizerShape
<1>4. NormalizerShape' /\ TrackGainIsKept'
  BY <1>1, <1>2, <1>3 DEF NormalizerSound, NormalizerShape, TrackGainIsKept
<1> QED BY <1>1, <1>2, <1>4 DEF QuietCall

\* An analysed track's gain replaces what others stored.
LEMMA AnalyzeQuiet ==
  ASSUME NormalizerSound, NEW l, Analyze(l)
  PROVE  QuietCall
<1>1. /\ block = NoBlock /\ stores' = stores + 1 /\ track' = l /\ steered' = FALSE
      /\ UNCHANGED <<settings, running, line, block, applied, sounded, given, gap>>
      /\ Stored("target", IF l = Silent THEN 0 ELSE (settings.target - l) * Exact)
  BY DEF Analyze, Owns, Counted
<1>2. DOMAIN loudness' = LoudnessFields /\ loudness'.current = loudness.current
      /\ loudness'.target = IF l = Silent THEN 0 ELSE (settings.target - l) * Exact
  BY <1>1, StoredField DEF NormalizerSound, LoudnessFields
<1>3. NormalizerShape' /\ TrackGainIsKept'
  BY <1>1, <1>2 DEF NormalizerSound, NormalizerShape, TrackGainIsKept
<1> QED BY <1>1, <1>2, <1>3 DEF QuietCall

\* A store neither begins nor ends a block.
LEMMA StoreKeepsBlock ==
  ASSUME NormalizerSound, StoreShared
  PROVE  block = NoBlock <=> block' = NoBlock
<1>1. block' = [block EXCEPT !.seen = [f \in DOMAIN @ |-> @[f] \cup {loudness'[f]}]]
  BY DEF StoreShared
<1>2. NoBlock.seen = <<>> /\ DOMAIN NoBlock.seen = {}
  BY DEF NoBlock
<1>3. CASE block = NoBlock
  <2>1. block' = [NoBlock EXCEPT !.seen = [f \in DOMAIN NoBlock.seen |-> NoBlock.seen[f] \cup {loudness'[f]}]]
    BY <1>1, <1>3
  <2>2. [f \in DOMAIN NoBlock.seen |-> NoBlock.seen[f] \cup {loudness'[f]}] = <<>>
    BY <1>2
  <2>3. block' = NoBlock
    BY <2>1, <2>2 DEF NoBlock
  <2> QED BY <1>3, <2>3
<1>4. CASE block # NoBlock
  <2>1. DOMAIN block.seen = LoudnessFields
    BY <1>4 DEF NormalizerSound, GainFollows
  <2>2. block'.seen = [f \in DOMAIN block.seen |-> block.seen[f] \cup {loudness'[f]}]
    BY <1>1 DEF NormalizerSound, NormalizerShape
  <2>3. "current" \in DOMAIN block'.seen
    BY <2>1, <2>2 DEF LoudnessFields
  <2>4. block' # NoBlock
    BY <1>2, <2>3
  <2> QED BY <1>4, <2>4
<1> QED BY <1>3, <1>4

\* A store leaves the gain where it is, and the block may see it.
LEMMA StoreSharedSound ==
  ASSUME NormalizerSound, StoreShared
  PROVE  NormalizerSound' /\ GainIsContinued /\ NothingIsReplayed
<1>1. /\ stores' = stores + 1
      /\ block' = [block EXCEPT !.seen = [f \in DOMAIN @ |-> @[f] \cup {loudness'[f]}]]
      /\ UNCHANGED <<settings, track, running, line, applied, sounded, given, gap>>
  BY DEF StoreShared, Counted
<1>2. TargetStays
  <2>1. ASSUME NEW f \in LoudnessFields \ {"current", "target"}, NEW v, Stored(f, v),
               UNCHANGED steered
        PROVE  TargetStays
    BY <2>1, StoredField DEF NormalizerSound, LoudnessFields, TargetStays
  <2>2. ASSUME NEW v, Stored("target", v), steered'
        PROVE  TargetStays
    BY <2>2, StoredField DEF NormalizerSound, LoudnessFields, TargetStays
  <2>3. CASE UNCHANGED <<loudness, steered>>
    BY <2>3 DEF NormalizerSound, NormalizerShape, TargetStays
  <2>4. ASSUME NEW f \in {"target", "album", "preamp"}, NEW v, Stored(f, v),
               steered' = (steered \/ f = "target")
        PROVE  TargetStays
    <3>1. CASE f = "target"
      BY <2>2, <2>4, <3>1
    <3>2. CASE f # "target"
      <4>1. f \in LoudnessFields
        BY <2>4 DEF LoudnessFields
      <4>2. DOMAIN loudness' = LoudnessFields /\ loudness'.current = loudness.current
            /\ loudness'.target = loudness.target
        BY <2>4, <3>2, <4>1, StoredField DEF NormalizerSound, LoudnessFields, TargetStays
      <4>3. steered' \/ ~steered
        BY <2>4, <3>2
      <4> QED BY <4>2, <4>3 DEF TargetStays
    <3> QED BY <3>1, <3>2
  <2> QED BY <2>1, <2>3, <2>4 DEF StoreShared, LoudnessFields
<1>3. DOMAIN block' = {"frames", "seen", "at"} /\ block'.frames = block.frames
      /\ block'.at = block.at
      /\ block'.seen = [f \in DOMAIN block.seen |-> block.seen[f] \cup {loudness'[f]}]
  BY <1>1 DEF NormalizerSound, NormalizerShape
<1>4. NormalizerShape'
  BY <1>1, <1>2, <1>3 DEF NormalizerSound, NormalizerShape, TargetStays
<1>5. TrackGainIsKept'
  BY <1>1, <1>2 DEF NormalizerSound, TrackGainIsKept, TargetStays
<1>6. CASE block = NoBlock
  <2>1. block' = NoBlock
    BY <1>6, StoreKeepsBlock
  <2>2. GainFollows'
    BY <1>1, <1>2, <2>1 DEF NormalizerSound, GainFollows, TargetStays
  <2>3. GainIsContinued
    BY <1>6 DEF GainIsContinued, BlockEnds
  <2> QED BY <1>1, <1>4, <1>5, <2>2, <2>3
        DEF NormalizerSound, LineFollows, DueAt, NothingIsReplayed
<1>7. CASE block # NoBlock
  <2>1. /\ DOMAIN block.seen = LoudnessFields /\ block.seen.current = {loudness.current}
        /\ block.at \in Nat /\ block.at <= stores /\ stores \in Nat
        /\ loudness.current = applied.to
    BY <1>7 DEF NormalizerSound, GainFollows, NormalizerShape
  <2>2. block'.seen.current = {loudness'.current} /\ DOMAIN block'.seen = LoudnessFields
    BY <1>2, <1>3, <2>1 DEF LoudnessFields, TargetStays
  <2>3. stores' # block'.at /\ block'.at \in Nat /\ block'.at <= stores'
    BY <1>1, <1>3, <2>1
  <2>4. GainFollows'
    BY <1>1, <1>2, <2>1, <2>2, <2>3 DEF GainFollows, TargetStays
  <2>5. block' # NoBlock
    BY <1>7, StoreKeepsBlock
  <2>6. GainIsContinued
    BY <2>5 DEF GainIsContinued, BlockEnds
  <2> QED BY <1>1, <1>4, <1>5, <2>4, <2>6
        DEF NormalizerSound, LineFollows, DueAt, NothingIsReplayed
<1> QED BY <1>6, <1>7

\* An empty line is silent, and nothing is due behind the gap.
LEMMA EmptyLine ==
  /\ Empty \in Seq(Nat) /\ Len(Empty) = LimiterDelay
  /\ \A i \in 1..LimiterDelay : Empty[i] = 0
BY NormalizerAssumption DEF Empty

\* A line that is cleared where the gap is holds what is due: silence.
LEMMA ClearedLine ==
  ASSUME given \in Nat, line' = Empty, given' = given, gap' = given
  PROVE  LineFollows'
<1>1. LimiterDelay \in Nat
  BY NormalizerAssumption
<1>2. \A i \in 1..LimiterDelay : (DueAt(i))' = 0
  BY <1>1 DEF DueAt
<1> QED BY <1>2, EmptyLine DEF LineFollows

\* A reset starts the gain and the line again.
LEMMA NormalizerResetSound ==
  ASSUME NormalizerSound, NormalizerReset
  PROVE  NormalizerSound' /\ GainIsContinued /\ NothingIsReplayed
<1>1. /\ block = NoBlock /\ stores' = stores + 1
      /\ loudness' = [loudness EXCEPT !.target = 0, !.current = 0]
      /\ track' = Silent /\ line' = Empty /\ applied' = Unapplied /\ gap' = given
      /\ UNCHANGED <<settings, running, block, sounded, given>>
  BY DEF NormalizerReset, Owns, Counted
<1>2. DOMAIN loudness' = LoudnessFields /\ loudness'.current = 0
  <2> DEFINE l1 == [loudness EXCEPT !.target = 0]
  <2>1. DOMAIN l1 = LoudnessFields /\ loudness' = [l1 EXCEPT !.current = 0]
    BY <1>1 DEF NormalizerSound, NormalizerShape
  <2> HIDE DEF l1
  <2> QED BY <2>1 DEF LoudnessFields
<1>3. NormalizerShape' /\ TrackGainIsKept'
  BY <1>1, <1>2 DEF NormalizerSound, NormalizerShape, TrackGainIsKept
<1>4. GainFollows'
  BY <1>1, <1>2 DEF GainFollows, Unapplied
<1>5. LineFollows'
  BY <1>1, ClearedLine DEF NormalizerSound, LineFollows
<1>6. GainIsContinued /\ NothingIsReplayed
  BY <1>1 DEF GainIsContinued, BlockEnds, NothingIsReplayed
<1> QED BY <1>3, <1>4, <1>5, <1>6 DEF NormalizerSound

\* A bypass passes the block on and leaves a gap; a block that is normalized begins with
\* what is published.
LEMMA StartBlockSound ==
  ASSUME NormalizerSound, NEW n \in NormalizerBlocks, StartBlock(n)
  PROVE  NormalizerSound' /\ GainIsContinued /\ NothingIsReplayed
<1>1. /\ block = NoBlock /\ running' = loudness.enabled
      /\ UNCHANGED <<settings, track, applied, stores>>
      /\ n \in Nat /\ given \in Nat /\ gap \in Nat /\ gap <= given /\ stores \in Nat
      /\ line \in Seq(Nat) /\ Len(line) = LimiterDelay
  BY NormalizerAssumption DEF StartBlock, Owns, NormalizerSound, LineFollows, NormalizerShape
<1>2. GainIsContinued
  BY <1>1 DEF GainIsContinued, BlockEnds
<1>3. CASE ~loudness.enabled
  <2>1. /\ sounded' = Frames(n) /\ given' = given + n /\ gap' = given + n
        /\ UNCHANGED <<loudness, line, block, steered>>
    BY <1>3 DEF StartBlock
  <2>2. NormalizerShape' /\ TrackGainIsKept' /\ GainFollows'
    BY <1>1, <2>1 DEF NormalizerSound, NormalizerShape, TrackGainIsKept, GainFollows
  <2>3. LineFollows'
    BY <1>1, <1>3, <2>1 DEF LineFollows
  <2>4. NothingIsReplayed
    BY <1>1, <1>3 DEF NothingIsReplayed
  <2> QED BY <1>2, <2>2, <2>3, <2>4 DEF NormalizerSound
<1>4. CASE loudness.enabled
  <2>1. /\ line' = Rearmed /\ gap' = IF running THEN gap ELSE given
        /\ UNCHANGED <<given, sounded>>
    BY <1>4 DEF StartBlock
  <2>2. LineFollows'
    <3>1. CASE running
      BY <1>1, <2>1, <3>1 DEF NormalizerSound, LineFollows, DueAt, Rearmed
    <3>2. CASE ~running
      BY <1>1, <2>1, <3>2, ClearedLine DEF Rearmed
    <3> QED BY <3>1, <3>2
  <2>3. NothingIsReplayed
    BY <2>1 DEF NothingIsReplayed
  <2>4. CASE n = 0
    <3>1. UNCHANGED <<loudness, block, steered>>
      BY <1>4, <2>4 DEF StartBlock
    <3>2. NormalizerShape' /\ TrackGainIsKept' /\ GainFollows'
      BY <1>1, <3>1 DEF NormalizerSound, NormalizerShape, TrackGainIsKept, GainFollows
    <3> QED BY <1>2, <2>2, <2>3, <3>2 DEF NormalizerSound
  <2>5. CASE n # 0
    <3>1. /\ \/ UNCHANGED <<loudness, steered>>
             \/ /\ steered' = TRUE
                /\ \E l \in Loudnesses : Stored("target", Bounded(settings.target - l) * Exact)
          /\ block' = [frames |-> n, seen |-> [f \in DOMAIN loudness |-> {loudness'[f]}],
                       at |-> stores]
      BY <1>4, <2>5 DEF StartBlock
    <3>2. TargetStays
      <4>1. CASE UNCHANGED <<loudness, steered>>
        BY <4>1 DEF NormalizerSound, NormalizerShape, TargetStays
      <4>2. ASSUME NEW v, Stored("target", v), steered'
            PROVE  TargetStays
        BY <4>2, StoredField DEF NormalizerSound, LoudnessFields, TargetStays
      <4> QED BY <3>1, <4>1, <4>2
    <3>3. /\ DOMAIN block' = {"frames", "seen", "at"} /\ block'.frames = n /\ block'.at = stores
          /\ DOMAIN block'.seen = LoudnessFields
          /\ \A f \in LoudnessFields : block'.seen[f] = {loudness'[f]}
      BY <3>1 DEF NormalizerSound, NormalizerShape
    <3>4. NormalizerShape' /\ TrackGainIsKept'
      BY <1>1, <3>2, <3>3 DEF NormalizerSound, NormalizerShape, TrackGainIsKept, TargetStays
    <3>5. GainFollows'
      <4>1. "current" \in LoudnessFields
        BY DEF LoudnessFields
      <4>2. block'.seen.current = {loudness'.current}
        BY <3>3, <4>1
      <4> QED BY <1>1, <3>2, <3>3, <4>2 DEF NormalizerSound, GainFollows, TargetStays
    <3> QED BY <1>2, <2>2, <2>3, <3>4, <3>5 DEF NormalizerSound
  <2> QED BY <2>4, <2>5
<1>5. loudness.enabled \/ ~loudness.enabled
  OBVIOUS
<1> QED BY <1>3, <1>4, <1>5

\* The line before a block and the block's frames, one after the other.
LEMMA LineAndFrames ==
  ASSUME LineFollows, running, NEW n \in Nat
  PROVE  LET all == line \o Frames(n)
         IN /\ all \in Seq(Nat) /\ Len(all) = LimiterDelay + n
            /\ \A i \in 1..(LimiterDelay + n) : all[i] = DueAt(i)
<1> DEFINE fs == Frames(n)
           all == line \o fs
<1>1. /\ line \in Seq(Nat) /\ Len(line) = LimiterDelay /\ LimiterDelay \in Nat
      /\ given \in Nat /\ gap \in Nat /\ gap <= given
      /\ \A i \in 1..LimiterDelay : line[i] = DueAt(i)
  BY NormalizerAssumption DEF LineFollows
<1>2. fs \in Seq(Nat) /\ Len(fs) = n /\ \A i \in 1..n : fs[i] = given + i
  BY <1>1 DEF Frames
<1> HIDE DEF fs
<1>3. /\ all \in Seq(Nat) /\ Len(all) = LimiterDelay + n
      /\ \A i \in 1..(LimiterDelay + n) :
           all[i] = IF i <= LimiterDelay THEN line[i] ELSE fs[i - LimiterDelay]
  <2>1. /\ all \in Seq(Nat) /\ Len(all) = Len(line) + Len(fs)
        /\ \A i \in 1..(Len(line) + Len(fs)) :
             all[i] = IF i <= Len(line) THEN line[i] ELSE fs[i - Len(line)]
    BY <1>1, <1>2, ConcatProperties
  <2> HIDE DEF all
  <2> QED BY <1>1, <1>2, <2>1
<1> HIDE DEF all
<1>4. ASSUME NEW i \in 1..(LimiterDelay + n) PROVE all[i] = DueAt(i)
  <2>3. i \in 1..LimiterDelay \/ i > LimiterDelay
    BY <1>1
  <2>1. CASE i \in 1..LimiterDelay
    BY <1>1, <1>3, <2>1
  <2>2. CASE i > LimiterDelay
    <3>1. i - LimiterDelay \in 1..n /\ ~(i <= LimiterDelay)
      BY <1>1, <2>2
    <3>2. all[i] = given + (i - LimiterDelay)
      BY <1>2, <1>3, <3>1
    <3>3. DueAt(i) = given + (i - LimiterDelay)
      BY <1>1, <3>1 DEF DueAt
    <3> QED BY <3>2, <3>3
  <2> QED BY <2>1, <2>2, <2>3
<1> QED BY <1>3, <1>4 DEF fs, all

\* What follows the first frames of a sequence.
LEMMA RestOfLine ==
  ASSUME NEW S, NEW s \in Seq(S), NEW d \in Nat, NEW n \in Nat, Len(s) = d + n
  PROVE  /\ SubSeq(s, n + 1, n + d) \in Seq(S) /\ Len(SubSeq(s, n + 1, n + d)) = d
         /\ \A i \in 1..d : SubSeq(s, n + 1, n + d)[i] = s[n + i]
<1> DEFINE r == SubSeq(s, n + 1, n + d)
<1>1. r \in Seq(S)
  <2>1. \A i \in (n + 1)..(n + d) : s[i] \in S
    OBVIOUS
  <2> QED BY <2>1, SubSeqProperties
<1>2. Len(r) = d
  BY SubSeqProperties
<1>3. \A i \in 1..d : r[i] = s[n + i]
  <2> TAKE i \in 1..d
  <2>1. SubSeq(s, n + 1, n + d)[i] = s[(n + 1) + i - 1]
    BY SubSeqProperties
  <2> QED BY <2>1
<1> QED BY <1>1, <1>2, <1>3

\* A block that ends takes the gain up where it was, and what leaves the line was due.
LEMMA EndBlockSound ==
  ASSUME NormalizerSound, EndBlock
  PROVE  NormalizerSound' /\ GainIsContinued /\ NothingIsReplayed
<1>1. PICK seen \in Views(block.seen) :
        LET n == block.frames
            to == Effective(seen) - Remaining(Effective(seen) - seen.current, seen.coeff, n)
            all == line \o Frames(n)
        IN /\ IF seen.enabled
              THEN /\ Stored("current", to)
                   /\ applied' = [from |-> seen.current, to |-> to, target |-> Effective(seen),
                                  coeff |-> seen.coeff, frames |-> n]
              ELSE UNCHANGED <<loudness, applied>>
           /\ sounded' = SubSeq(all, 1, n) /\ line' = SubSeq(all, n + 1, n + LimiterDelay)
           /\ given' = given + n
  BY DEF EndBlock
<1> DEFINE n == block.frames
           to == Effective(seen) - Remaining(Effective(seen) - seen.current, seen.coeff, n)
           all == line \o Frames(n)
<1>2. /\ block # NoBlock /\ block' = NoBlock
      /\ UNCHANGED <<settings, track, running, gap, stores, steered>>
  BY DEF EndBlock
<1>3. /\ seen.enabled \in block.seen.enabled /\ seen.mode \in block.seen.mode
      /\ seen.target \in block.seen.target /\ seen.current \in block.seen.current
      /\ seen.album \in block.seen.album /\ seen.preamp \in block.seen.preamp
  BY DEF Views
<1>4. /\ loudness.current = applied.to /\ block.seen.current = {loudness.current}
      /\ stores = block.at => \A f \in LoudnessFields : block.seen[f] = {loudness[f]}
  BY <1>2 DEF NormalizerSound, GainFollows
<1>5. seen.current = applied.to
  BY <1>3, <1>4
<1>6. stores = block.at => Effective(seen) = Effective(loudness)
  <2> SUFFICES ASSUME stores = block.at PROVE Effective(seen) = Effective(loudness)
    OBVIOUS
  <2>1. \A f \in LoudnessFields : block.seen[f] = {loudness[f]}
    BY <1>4
  <2>2. /\ block.seen.mode = {loudness.mode} /\ block.seen.target = {loudness.target}
        /\ block.seen.album = {loudness.album} /\ block.seen.preamp = {loudness.preamp}
    BY <2>1 DEF LoudnessFields
  <2>3. /\ seen.mode = loudness.mode /\ seen.target = loudness.target
        /\ seen.album = loudness.album /\ seen.preamp = loudness.preamp
    BY <1>3, <2>2
  <2> QED BY <2>3 DEF Effective
<1>7. /\ DOMAIN loudness' = LoudnessFields /\ loudness'.target = loudness.target
      /\ loudness'.current = applied'.to
      /\ \/ applied' = applied /\ ~seen.enabled
         \/ applied'.from = seen.current /\ applied'.target = Effective(seen)
  <2>1. CASE seen.enabled
    <3>1. /\ Stored("current", to)
          /\ applied' = [from |-> seen.current, to |-> to, target |-> Effective(seen),
                         coeff |-> seen.coeff, frames |-> n]
      BY <1>1, <2>1
    <3> HIDE DEF to, n
    <3>2. applied'.to = to /\ applied'.from = seen.current /\ applied'.target = Effective(seen)
      BY <3>1
    <3>3. DOMAIN loudness' = LoudnessFields /\ loudness'.target = loudness.target
          /\ loudness'.current = to
      BY <3>1, StoredField DEF NormalizerSound, LoudnessFields
    <3> QED BY <3>2, <3>3
  <2>2. CASE ~seen.enabled
    <3>1. UNCHANGED <<loudness, applied>>
      BY <1>1, <2>2
    <3> QED BY <1>4, <2>2, <3>1 DEF NormalizerSound, NormalizerShape
  <2>3. seen.enabled \/ ~seen.enabled
    OBVIOUS
  <2> QED BY <2>1, <2>2, <2>3
<1>8. NormalizerShape' /\ TrackGainIsKept'
  BY <1>2, <1>7 DEF NormalizerSound, NormalizerShape, TrackGainIsKept, NoBlock
<1>9. GainFollows'
  BY <1>2, <1>7 DEF GainFollows
<1>10. GainIsContinued
  <2> SUFFICES ASSUME applied' # applied \/ block.seen.enabled = {TRUE}
               PROVE  /\ applied'.from = applied.to
                      /\ stores = block.at => applied'.target = Effective(loudness)
    BY DEF GainIsContinued, BlockEnds
  <2>1. applied' # applied \/ seen.enabled
    <3>1. CASE block.seen.enabled = {TRUE}
      <4>1. seen.enabled = TRUE
        BY <1>3, <3>1
      <4> QED BY <4>1
    <3> QED BY <3>1
  <2>2. applied'.from = seen.current /\ applied'.target = Effective(seen)
    BY <1>7, <2>1
  <2> QED BY <1>5, <1>6, <2>2
<1>11. n \in Nat /\ LimiterDelay \in Nat /\ given \in Nat /\ gap \in Nat /\ gap <= given
  BY NormalizerAssumption DEF NormalizerSound, NormalizerShape, LineFollows
<1>12. sounded' = SubSeq(all, 1, n) /\ line' = SubSeq(all, n + 1, n + LimiterDelay)
       /\ given' = given + n
  BY <1>1
<1>13. all \in Seq(Nat) /\ Len(all) = LimiterDelay + n
  <2>1. line \in Seq(Nat) /\ Len(line) = LimiterDelay
    BY DEF NormalizerSound, LineFollows
  <2> DEFINE fs == Frames(n)
  <2>2. fs \in Seq(Nat) /\ Len(fs) = n
    BY <1>11 DEF Frames
  <2> HIDE DEF fs, n
  <2>3. line \o fs \in Seq(Nat) /\ Len(line \o fs) = LimiterDelay + n
    BY <1>11, <2>1, <2>2, ConcatProperties
  <2> QED BY <2>3 DEF fs
<1>14. running => \A i \in 1..(LimiterDelay + n) : all[i] = DueAt(i)
  BY <1>11, LineAndFrames DEF NormalizerSound
<1> HIDE DEF all, n
<1>15. LineFollows'
  <2>1. line' \in Seq(Nat) /\ Len(line') = LimiterDelay
        /\ \A i \in 1..LimiterDelay : line'[i] = all[n + i]
    <3> DEFINE rest == SubSeq(all, n + 1, n + LimiterDelay)
    <3>1. rest \in Seq(Nat) /\ Len(rest) = LimiterDelay
          /\ \A i \in 1..LimiterDelay : rest[i] = all[n + i]
      BY <1>11, <1>13, RestOfLine
    <3>2. line' = rest
      BY <1>12
    <3> HIDE DEF rest
    <3> QED BY <3>1, <3>2
  <2>2. ASSUME running', NEW i \in 1..LimiterDelay PROVE line'[i] = (DueAt(i))'
    <3>1. all[n + i] = DueAt(n + i)
      BY <1>2, <1>11, <1>14, <2>2
    <3>2. DueAt(n + i) = (DueAt(i))'
      BY <1>2, <1>11, <1>12 DEF DueAt
    <3> QED BY <2>1, <3>1, <3>2
  <2>3. given' \in Nat /\ gap' \in Nat /\ gap' <= given'
    BY <1>2, <1>11, <1>12
  <2> QED BY <2>1, <2>2, <2>3 DEF LineFollows
<1>16. NothingIsReplayed
  <2>1. DOMAIN sounded' = 1..n /\ \A i \in 1..n : sounded'[i] = all[i]
    BY <1>11, <1>12, <1>13
  <2>2. ASSUME running', NEW i \in DOMAIN sounded'
        PROVE  LET due == given + i - LimiterDelay
               IN sounded'[i] = IF due > gap' THEN due ELSE 0
    <3>1. i \in 1..(LimiterDelay + n) /\ sounded'[i] = all[i]
      BY <1>11, <2>1
    <3>2. sounded'[i] = DueAt(i)
      BY <1>2, <1>14, <2>2, <3>1
    <3> QED BY <1>2, <3>2 DEF DueAt
  <2> QED BY <2>2 DEF NothingIsReplayed
<1> QED BY <1>8, <1>9, <1>10, <1>15, <1>16 DEF NormalizerSound

\* The first line is silent and nothing is due.
LEMMA NormalizerStarts ==
  ASSUME NormalizerInit
  PROVE  NormalizerSound
<1>1. /\ DOMAIN loudness = LoudnessFields /\ loudness.current = 0
      /\ DOMAIN settings = {"mode", "target"} /\ track = Silent /\ line = Empty
      /\ block = NoBlock /\ applied = Unapplied /\ given = 0 /\ gap = 0 /\ stores = 0
  BY DEF NormalizerInit, LoudnessFields
<1>2. NormalizerShape /\ TrackGainIsKept /\ GainFollows
  BY <1>1 DEF NormalizerShape, TrackGainIsKept, GainFollows, NoBlock, Unapplied
<1>3. LineFollows
  <2>1. LimiterDelay \in Nat
    BY NormalizerAssumption
  <2>2. \A i \in 1..LimiterDelay : DueAt(i) = 0
    BY <1>1, <2>1 DEF DueAt
  <2> QED BY <1>1, <2>2, EmptyLine DEF LineFollows
<1> QED BY <1>2, <1>3 DEF NormalizerSound

-----------------------------------------------------------------------------
(* The gain of a block, frame by frame.                                    *)

Multiples(k) == {q * TwoTo[k] : q \in Int}

\* The gains that add up to a target are multiples of Exact.
FieldsExact(l) ==
  /\ l.coeff \in {0, 1}
  /\ l.target \in Multiples(MaxGiven) /\ l.album \in Multiples(MaxGiven)
  /\ l.preamp \in Multiples(MaxGiven)

\* The gain in effect is as exact as the frames to come need it, and so is what a block
\* may see.
ExactSound ==
  /\ settings.target \in Int /\ track \in Int
  /\ FieldsExact(loudness)
  /\ given <= MaxGiven /\ loudness.current \in Multiples(MaxGiven - given)
  /\ block # NoBlock =>
       /\ block.frames \in 1..(MaxGiven - given)
       /\ block.seen.coeff \subseteq {0, 1}
       /\ \A f \in {"target", "album", "preamp"} : block.seen[f] \subseteq Multiples(MaxGiven)

\* Multiples add up, and those of a power are those of a lower one.
LEMMA MultiplesAdd ==
  ASSUME NEW k \in 0..MaxGiven
  PROVE  /\ Multiples(k) \subseteq Int /\ 0 \in Multiples(k)
         /\ \A x, y \in Multiples(k) : x + y \in Multiples(k) /\ x - y \in Multiples(k)
<1> DEFINE p == TwoTo[k]
<1>1. p \in Int
  BY PowersOfTwo
<1> HIDE DEF p
<1>2. Multiples(k) = {q * p : q \in Int}
  BY DEF Multiples, p
<1>3. \A q \in Int : q * p \in Int
  BY <1>1
<1>4. 0 = 0 * p
  BY <1>1
<1>5. ASSUME NEW x \in Multiples(k), NEW y \in Multiples(k)
      PROVE  x + y \in Multiples(k) /\ x - y \in Multiples(k)
  <2>1. PICK q \in Int : x = q * p
    BY <1>2
  <2>2. PICK r \in Int : y = r * p
    BY <1>2
  <2>3. x + y = (q + r) * p /\ x - y = (q - r) * p /\ q + r \in Int /\ q - r \in Int
    BY <1>1, <2>1, <2>2
  <2> QED BY <1>2, <2>3
<1> QED BY <1>2, <1>3, <1>4, <1>5

\* A finer grid holds a coarser one.
LEMMA MultiplesFiner ==
  ASSUME NEW k \in 0..MaxGiven, NEW j \in 0..k
  PROVE  Multiples(k) \subseteq Multiples(j)
<1>1. MaxGiven \in Nat /\ k - j \in Nat /\ j \in Nat /\ (k - j) + j = k /\ k <= MaxGiven
      /\ k - j \in 0..MaxGiven /\ j \in 0..MaxGiven
  BY NormalizerAssumption
<1> DEFINE a == TwoTo[k - j]
           b == TwoTo[j]
<1>2. TwoTo[k] = a * b /\ a \in Int /\ b \in Int
  BY <1>1, PowersOfTwo, PowersMultiply
<1> HIDE DEF a, b
<1>3. ASSUME NEW x \in Multiples(k) PROVE x \in Multiples(j)
  <2>1. PICK q \in Int : x = q * TwoTo[k]
    BY DEF Multiples
  <2>2. x = (q * a) * b /\ q * a \in Int
    BY <1>2, <2>1
  <2> QED BY <2>2 DEF Multiples, b
<1> QED BY <1>3

\* A whole gain is one of the multiples.
LEMMA ExactMultiples ==
  ASSUME NEW g \in Int
  PROVE  g * Exact \in Multiples(MaxGiven)
BY DEF Exact, Multiples

\* A store of a gain, a switch or a mode leaves the gains exact.
LEMMA StoredExact ==
  ASSUME NormalizerShape, FieldsExact(loudness), NEW f \in LoudnessFields \ {"current"}, NEW v,
         Stored(f, v), f = "coeff" => v \in {0, 1},
         f \in {"target", "album", "preamp"} => v \in Multiples(MaxGiven)
  PROVE  FieldsExact(loudness') /\ loudness'.current = loudness.current
<1>1. \A g \in LoudnessFields : loudness'[g] = IF g = f THEN v ELSE loudness[g]
  BY StoredField
<1>2. /\ loudness'.coeff = IF "coeff" = f THEN v ELSE loudness.coeff
      /\ loudness'.target = IF "target" = f THEN v ELSE loudness.target
      /\ loudness'.album = IF "album" = f THEN v ELSE loudness.album
      /\ loudness'.preamp = IF "preamp" = f THEN v ELSE loudness.preamp
      /\ loudness'.current = loudness.current
  BY <1>1 DEF LoudnessFields
<1>3. loudness'.coeff \in {0, 1}
  BY <1>2 DEF FieldsExact
<1>4. loudness'.target \in Multiples(MaxGiven)
  BY <1>2 DEF FieldsExact
<1>5. loudness'.album \in Multiples(MaxGiven)
  BY <1>2 DEF FieldsExact
<1>6. loudness'.preamp \in Multiples(MaxGiven)
  BY <1>2 DEF FieldsExact
<1> QED BY <1>2, <1>3, <1>4, <1>5, <1>6 DEF FieldsExact

\* The owner's calls that process nothing leave it so.
LEMMA QuietIsExact ==
  ASSUME ExactSound, QuietCall, settings'.target \in Int, track' \in Int, FieldsExact(loudness')
  PROVE  ExactSound' /\ GainIsExact
BY DEF ExactSound, QuietCall, GainIsExact, BlockEnds

\* What the constants are.
LEMMA NormalizerTypes ==
  /\ Targets \subseteq Int /\ Loudnesses \subseteq Int /\ StoredGains \subseteq Int
  /\ Silent \in Int /\ MaxGiven \in Nat /\ StreamingMost \in Nat /\ NormalizerBlocks \subseteq Nat
BY NormalizerAssumption DEF Silent

\* The gain that a configured target publishes.
LEMMA TargetForExact ==
  ASSUME ExactSound, NEW target \in Int
  PROVE  TargetFor(target) \in Multiples(MaxGiven)
<1>1. target - track \in Int
  BY DEF ExactSound
<1>2. (target - track) * Exact \in Multiples(MaxGiven)
  BY <1>1, ExactMultiples
<1> QED BY <1>2 DEF TargetFor, ExactSound, FieldsExact

\* The configuring calls, one by one.
LEMMA SetConfigExact ==
  ASSUME NormalizerSound, ExactSound, NEW enabled, NEW mode, NEW target \in Targets \cup {Broken},
         NEW coeff \in {0, 1}, SetConfig(enabled, mode, target, coeff)
  PROVE  ExactSound' /\ GainIsExact
<1>1. QuietCall
  BY SetConfigQuiet
<1>2. track' = track /\ track \in Int
  BY DEF SetConfig, ExactSound
<1>3. CASE target = Broken
  <2>1. UNCHANGED <<loudness, settings, steered>>
    BY <1>3 DEF SetConfig
  <2> QED BY <1>1, <1>2, <2>1, QuietIsExact DEF ExactSound
<1>4. CASE target # Broken
  <2> DEFINE gain == TargetFor(target)
             l1 == [loudness EXCEPT !.enabled = enabled]
             l2 == [l1 EXCEPT !.mode = mode]
             l3 == [l2 EXCEPT !.coeff = coeff]
             l4 == [l3 EXCEPT !.target = gain]
  <2>1. settings' = [mode |-> mode, target |-> target] /\ loudness' = l4
    BY <1>4 DEF SetConfig
  <2>2. settings'.target = target /\ target \in Int
    BY <1>4, <2>1, NormalizerTypes
  <2>3. gain \in Multiples(MaxGiven)
    BY <2>2, TargetForExact
  <2> HIDE DEF gain
  <2>4. loudness'.coeff = coeff /\ loudness'.target = gain /\ loudness'.album = loudness.album
        /\ loudness'.preamp = loudness.preamp
    <3>1. DOMAIN l1 = LoudnessFields /\ l1.album = loudness.album /\ l1.preamp = loudness.preamp
      BY DEF NormalizerSound, NormalizerShape, LoudnessFields
    <3> HIDE DEF l1
    <3>2. DOMAIN l2 = LoudnessFields /\ l2.album = loudness.album /\ l2.preamp = loudness.preamp
      BY <3>1 DEF LoudnessFields
    <3> HIDE DEF l2
    <3>3. /\ DOMAIN l3 = LoudnessFields /\ l3.album = loudness.album
          /\ l3.preamp = loudness.preamp /\ l3.coeff = coeff
      BY <3>2 DEF LoudnessFields
    <3> HIDE DEF l3
    <3> QED BY <2>1, <3>3 DEF LoudnessFields
  <2> HIDE DEF l4
  <2>5. FieldsExact(loudness')
    BY <2>3, <2>4 DEF ExactSound, FieldsExact
  <2> QED BY <1>1, <1>2, <2>2, <2>5, QuietIsExact
<1> QED BY <1>3, <1>4

\* Likewise for the target alone.
LEMMA SetTargetExact ==
  ASSUME NormalizerSound, ExactSound, NEW target \in Targets \cup {Broken}, SetTarget(target)
  PROVE  ExactSound' /\ GainIsExact
<1>1. QuietCall
  BY SetTargetQuiet
<1>2. track' = track /\ track \in Int
  BY DEF SetTarget, ExactSound
<1>3. CASE target = Broken
  <2>1. UNCHANGED <<loudness, settings, steered>>
    BY <1>3 DEF SetTarget
  <2> QED BY <1>1, <1>2, <2>1, QuietIsExact DEF ExactSound
<1>4. CASE target # Broken
  <2>1. settings' = [settings EXCEPT !.target = target] /\ Stored("target", TargetFor(target))
    BY <1>4 DEF SetTarget
  <2>2. settings'.target = target /\ target \in Int
    BY <1>4, <2>1, NormalizerTypes DEF NormalizerSound, NormalizerShape
  <2>3. TargetFor(target) \in Multiples(MaxGiven)
    BY <2>2, TargetForExact
  <2>4. FieldsExact(loudness')
    BY <2>1, <2>3, StoredExact DEF NormalizerSound, ExactSound, LoudnessFields
  <2> QED BY <1>1, <1>2, <2>2, <2>4, QuietIsExact
<1> QED BY <1>3, <1>4

\* The mode changes no gain.
LEMMA SetModeExact ==
  ASSUME NormalizerSound, ExactSound, NEW mode, SetMode(mode)
  PROVE  ExactSound' /\ GainIsExact
<1>1. QuietCall
  BY SetModeQuiet
<1>2. track' = track /\ settings' = [settings EXCEPT !.mode = mode] /\ Stored("mode", mode)
  BY DEF SetMode
<1>3. settings'.target = settings.target
  BY <1>2 DEF NormalizerSound, NormalizerShape
<1>4. FieldsExact(loudness')
  BY <1>2, StoredExact DEF NormalizerSound, ExactSound, LoudnessFields
<1> QED BY <1>1, <1>2, <1>3, <1>4, QuietIsExact DEF ExactSound

\* An analysed track's gain is a whole one.
LEMMA AnalyzeExact ==
  ASSUME NormalizerSound, ExactSound, NEW l \in Loudnesses \cup {Silent}, Analyze(l)
  PROVE  ExactSound' /\ GainIsExact
<1>1. QuietCall
  BY AnalyzeQuiet
<1> DEFINE gain == IF l = Silent THEN 0 ELSE (settings.target - l) * Exact
<1>2. track' = l /\ settings' = settings /\ Stored("target", gain)
  BY DEF Analyze
<1>3. l \in Int /\ settings.target - l \in Int /\ settings.target \in Int
  <2>1. l \in Int
    BY NormalizerTypes
  <2>2. settings.target \in Int
    BY DEF ExactSound
  <2> QED BY <2>1, <2>2
<1>4. gain \in Multiples(MaxGiven)
  <2>1. 0 \in Multiples(MaxGiven)
    BY MultiplesAdd, NormalizerTypes
  <2>2. (settings.target - l) * Exact \in Multiples(MaxGiven)
    BY <1>3, ExactMultiples
  <2> QED BY <2>1, <2>2
<1> HIDE DEF gain
<1>5. FieldsExact(loudness')
  BY <1>2, <1>4, StoredExact DEF NormalizerSound, ExactSound, LoudnessFields
<1> QED BY <1>1, <1>2, <1>3, <1>5, QuietIsExact

\* What other threads store are whole gains, and the block may see them.
LEMMA StoreSharedExact ==
  ASSUME NormalizerSound, ExactSound, StoreShared
  PROVE  ExactSound' /\ GainIsExact
<1>1. /\ block' = [block EXCEPT !.seen = [f \in DOMAIN @ |-> @[f] \cup {loudness'[f]}]]
      /\ UNCHANGED <<settings, track, given>>
  BY DEF StoreShared, Counted
<1>2. FieldsExact(loudness') /\ loudness'.current = loudness.current
  <2>1. CASE UNCHANGED <<loudness, steered>>
    BY <2>1 DEF ExactSound
  <2>2. ASSUME NEW f \in {"enabled", "mode"}, NEW v, Stored(f, v)
        PROVE  FieldsExact(loudness') /\ loudness'.current = loudness.current
    BY <2>2, StoredExact DEF NormalizerSound, ExactSound, LoudnessFields
  <2>3. ASSUME NEW c \in {0, 1}, Stored("coeff", c)
        PROVE  FieldsExact(loudness') /\ loudness'.current = loudness.current
    BY <2>3, StoredExact DEF NormalizerSound, ExactSound, LoudnessFields
  <2>4. ASSUME NEW f \in {"target", "album", "preamp"}, NEW g \in StoredGains, Stored(f, g * Exact)
        PROVE  FieldsExact(loudness') /\ loudness'.current = loudness.current
    <3>1. g * Exact \in Multiples(MaxGiven)
      BY ExactMultiples, NormalizerTypes
    <3> HIDE DEF FieldsExact
    <3>2. f \in LoudnessFields \ {"current"} /\ f # "coeff"
      BY DEF LoudnessFields
    <3> QED BY <2>4, <3>1, <3>2, StoredExact DEF NormalizerSound, ExactSound
  <2> QED BY <2>1, <2>2, <2>3, <2>4 DEF StoreShared
<1>3. /\ block'.frames = block.frames
      /\ block'.seen = [f \in DOMAIN block.seen |-> block.seen[f] \cup {loudness'[f]}]
  BY <1>1 DEF NormalizerSound, NormalizerShape
<1>4. CASE block = NoBlock
  <2>1. block' = NoBlock
    BY <1>4, StoreKeepsBlock
  <2> QED BY <1>1, <1>2, <1>4, <2>1 DEF ExactSound, GainIsExact, BlockEnds
<1>5. CASE block # NoBlock
  <2>1. /\ DOMAIN block.seen = LoudnessFields /\ block.seen.coeff \subseteq {0, 1}
        /\ \A f \in {"target", "album", "preamp"} : block.seen[f] \subseteq Multiples(MaxGiven)
        /\ block.frames \in 1..(MaxGiven - given)
    BY <1>5 DEF NormalizerSound, GainFollows, ExactSound
  <2>2. \A f \in LoudnessFields : block'.seen[f] = block.seen[f] \cup {loudness'[f]}
    BY <1>3, <2>1
  <2>3. block'.seen.coeff \subseteq {0, 1}
    <3>1. block'.seen.coeff = block.seen.coeff \cup {loudness'.coeff}
      BY <2>2 DEF LoudnessFields
    <3> QED BY <1>2, <2>1, <3>1 DEF FieldsExact
  <2>4. ASSUME NEW f \in {"target", "album", "preamp"}
        PROVE  block'.seen[f] \subseteq Multiples(MaxGiven)
    <3>1. block'.seen[f] = block.seen[f] \cup {loudness'[f]}
      BY <2>2 DEF LoudnessFields
    <3>2. loudness'[f] \in Multiples(MaxGiven)
      BY <1>2 DEF FieldsExact
    <3> QED BY <2>1, <3>1, <3>2
  <2>5. block' # NoBlock
    BY <1>5, StoreKeepsBlock
  <2>6. ExactSound'
    BY <1>1, <1>2, <1>3, <2>1, <2>3, <2>4 DEF ExactSound
  <2> QED BY <2>5, <2>6 DEF GainIsExact, BlockEnds
<1> QED BY <1>4, <1>5

\* A reset leaves nothing of a gain.
LEMMA NormalizerResetExact ==
  ASSUME NormalizerSound, ExactSound, NormalizerReset
  PROVE  ExactSound' /\ GainIsExact
<1>1. /\ block = NoBlock /\ loudness' = [loudness EXCEPT !.target = 0, !.current = 0]
      /\ track' = Silent /\ UNCHANGED <<settings, block, given>>
  BY DEF NormalizerReset, Owns
<1>2. /\ loudness'.target = 0 /\ loudness'.current = 0 /\ loudness'.coeff = loudness.coeff
      /\ loudness'.album = loudness.album /\ loudness'.preamp = loudness.preamp
  <2> DEFINE l1 == [loudness EXCEPT !.target = 0]
  <2>1. /\ DOMAIN l1 = LoudnessFields /\ loudness' = [l1 EXCEPT !.current = 0]
        /\ l1.target = 0 /\ l1.coeff = loudness.coeff /\ l1.album = loudness.album
        /\ l1.preamp = loudness.preamp
    BY <1>1 DEF NormalizerSound, NormalizerShape, LoudnessFields
  <2> HIDE DEF l1
  <2> QED BY <2>1 DEF LoudnessFields
<1>3. given \in Nat /\ given <= MaxGiven /\ MaxGiven \in Nat
  BY NormalizerTypes DEF NormalizerSound, LineFollows, ExactSound
<1>4. 0 \in Multiples(MaxGiven) /\ 0 \in Multiples(MaxGiven - given)
  <2>1. MaxGiven \in 0..MaxGiven /\ MaxGiven - given \in 0..MaxGiven
    BY <1>3
  <2> QED BY <2>1, MultiplesAdd
<1>5. FieldsExact(loudness')
  BY <1>2, <1>4 DEF ExactSound, FieldsExact
<1> QED BY <1>1, <1>2, <1>4, <1>5, NormalizerTypes DEF ExactSound, GainIsExact, BlockEnds

\* A bypassed block needs less exactness, and a block fits into what is left of it.
LEMMA StartBlockExact ==
  ASSUME NormalizerSound, ExactSound, NEW n \in NormalizerBlocks, StartBlock(n)
  PROVE  ExactSound' /\ GainIsExact
<1>1. /\ block = NoBlock /\ given + n <= MaxGiven /\ UNCHANGED <<settings, track>>
      /\ n \in Nat /\ given \in Nat /\ MaxGiven \in Nat
  BY NormalizerTypes DEF StartBlock, Owns, NormalizerSound, LineFollows
<1>2. GainIsExact
  BY <1>1 DEF GainIsExact, BlockEnds
<1>3. CASE ~loudness.enabled
  <2>1. given' = given + n /\ UNCHANGED <<loudness, block>>
    BY <1>3 DEF StartBlock
  <2>2. MaxGiven - given \in 0..MaxGiven /\ MaxGiven - given' \in 0..(MaxGiven - given)
    BY <1>1, <2>1
  <2>3. loudness.current \in Multiples(MaxGiven - given')
    BY <2>2, MultiplesFiner DEF ExactSound
  <2>4. given' <= MaxGiven
    BY <1>1, <2>1
  <2> QED BY <1>1, <1>2, <2>1, <2>3, <2>4 DEF ExactSound
<1>4. CASE loudness.enabled /\ n = 0
  <2>1. UNCHANGED <<loudness, block, given>>
    BY <1>4 DEF StartBlock
  <2> QED BY <1>1, <1>2, <2>1 DEF ExactSound
<1>5. CASE loudness.enabled /\ n # 0
  <2>1. /\ \/ UNCHANGED <<loudness, steered>>
           \/ \E l \in Loudnesses : Stored("target", Bounded(settings.target - l) * Exact)
        /\ block' = [frames |-> n, seen |-> [f \in DOMAIN loudness |-> {loudness'[f]}],
                     at |-> stores]
        /\ given' = given
    BY <1>5 DEF StartBlock
  <2>2. FieldsExact(loudness') /\ loudness'.current = loudness.current
    <3>1. CASE UNCHANGED <<loudness, steered>>
      BY <3>1 DEF ExactSound
    <3>2. ASSUME NEW l \in Loudnesses, Stored("target", Bounded(settings.target - l) * Exact)
          PROVE  FieldsExact(loudness') /\ loudness'.current = loudness.current
      <4>1. settings.target - l \in Int
        BY NormalizerTypes DEF ExactSound
      <4>2. Bounded(settings.target - l) \in Int
        BY <4>1, NormalizerTypes DEF Bounded
      <4>3. Bounded(settings.target - l) * Exact \in Multiples(MaxGiven)
        BY <4>2, ExactMultiples
      <4>4. "target" \in LoudnessFields \ {"current"}
        BY DEF LoudnessFields
      <4> HIDE DEF FieldsExact
      <4> QED BY <3>2, <4>3, <4>4, StoredExact DEF NormalizerSound, ExactSound
    <3> QED BY <2>1, <3>1, <3>2
  <2>3. block'.frames = n /\ \A f \in LoudnessFields : block'.seen[f] = {loudness'[f]}
    BY <2>1 DEF NormalizerSound, NormalizerShape
  <2>4. block'.frames \in 1..(MaxGiven - given')
    BY <1>1, <1>5, <2>1, <2>3
  <2>5. block'.seen.coeff = {loudness'.coeff} /\ block'.seen.target = {loudness'.target}
        /\ block'.seen.album = {loudness'.album} /\ block'.seen.preamp = {loudness'.preamp}
    BY <2>3 DEF LoudnessFields
  <2>6. /\ block'.seen.coeff \subseteq {0, 1}
        /\ block'.seen.target \subseteq Multiples(MaxGiven)
        /\ block'.seen.album \subseteq Multiples(MaxGiven)
        /\ block'.seen.preamp \subseteq Multiples(MaxGiven)
    BY <2>2, <2>5 DEF FieldsExact
  <2>7. \A f \in {"target", "album", "preamp"} : block'.seen[f] \subseteq Multiples(MaxGiven)
    BY <2>6
  <2> QED BY <1>1, <1>2, <2>1, <2>2, <2>4, <2>6, <2>7 DEF ExactSound
<1>6. loudness.enabled \/ ~loudness.enabled
  OBVIOUS
<1> QED BY <1>3, <1>4, <1>5, <1>6

\* A block uses up as many halves as it has frames.
LEMMA EndBlockExact ==
  ASSUME NormalizerSound, ExactSound, EndBlock
  PROVE  ExactSound' /\ GainIsExact
<1>1. PICK seen \in Views(block.seen) :
        LET n == block.frames
            to == Effective(seen) - Remaining(Effective(seen) - seen.current, seen.coeff, n)
        IN /\ IF seen.enabled
              THEN /\ Stored("current", to)
                   /\ applied' = [from |-> seen.current, to |-> to, target |-> Effective(seen),
                                  coeff |-> seen.coeff, frames |-> n]
              ELSE UNCHANGED <<loudness, applied>>
           /\ given' = given + n
  BY DEF EndBlock
<1> DEFINE n == block.frames
           target == Effective(seen)
           to == target - Remaining(target - seen.current, seen.coeff, n)
           k == MaxGiven - given
<1>2. /\ block # NoBlock /\ block' = NoBlock /\ UNCHANGED <<settings, track>>
  BY DEF EndBlock
<1>3. /\ seen.enabled \in block.seen.enabled /\ seen.current \in block.seen.current
      /\ seen.target \in block.seen.target /\ seen.album \in block.seen.album
      /\ seen.preamp \in block.seen.preamp /\ seen.coeff \in block.seen.coeff
  BY DEF Views
<1>4. /\ block.seen.current = {loudness.current} /\ n \in 1..k
      /\ block.seen.coeff \subseteq {0, 1} /\ loudness.current \in Multiples(k)
      /\ block.seen.target \subseteq Multiples(MaxGiven)
      /\ block.seen.album \subseteq Multiples(MaxGiven)
      /\ block.seen.preamp \subseteq Multiples(MaxGiven)
  BY <1>2 DEF NormalizerSound, GainFollows, ExactSound
<1>5. /\ MaxGiven \in Nat /\ given \in Nat /\ given <= MaxGiven /\ n \in Nat
      /\ k \in 0..MaxGiven /\ k - n \in 0..k /\ k - n \in 0..MaxGiven /\ MaxGiven \in 0..MaxGiven
      /\ given + n <= MaxGiven /\ MaxGiven - (given + n) = k - n /\ k \in 0..MaxGiven
  <2>1. MaxGiven \in Nat /\ given \in Nat /\ given <= MaxGiven
    BY NormalizerTypes DEF NormalizerSound, LineFollows, ExactSound
  <2>2. n \in 1..(MaxGiven - given)
    BY <1>4
  <2> HIDE DEF n
  <2> QED BY <2>1, <2>2
<1>6. seen.current = loudness.current /\ seen.coeff \in {0, 1} /\ given' = given + n
  BY <1>1, <1>3, <1>4
<1> HIDE DEF n, k
<1>7. target \in Multiples(MaxGiven)
  <2>1. /\ seen.target \in Multiples(MaxGiven) /\ seen.album \in Multiples(MaxGiven)
        /\ seen.preamp \in Multiples(MaxGiven)
    BY <1>3, <1>4
  <2> DEFINE base == IF seen.mode = "album" THEN seen.album ELSE seen.target
  <2>2. base \in Multiples(MaxGiven)
    BY <2>1
  <2>3. target = base + seen.preamp
    BY DEF Effective
  <2> HIDE DEF base, target
  <2> QED BY <1>5, <2>1, <2>2, <2>3, MultiplesAdd
<1> HIDE DEF target
<1>8. target \in Multiples(k) /\ target \in Multiples(k - n) /\ target \in Int
  BY <1>5, <1>7, MultiplesAdd, MultiplesFiner
<1>9. target - seen.current \in Multiples(k) /\ seen.current \in Int
  BY <1>4, <1>5, <1>6, <1>8, MultiplesAdd
<1>10. PICK q \in Int : target - seen.current = q * TwoTo[k]
  BY <1>9 DEF Multiples
<1>11. seen.current = target - q * TwoTo[k]
  <2>1. q * TwoTo[k] \in Int
    BY <1>5, PowersOfTwo
  <2> QED BY <1>8, <1>9, <1>10, <2>1
<1>12. /\ to = FrameByFrame(seen.current, target, seen.coeff, n)
       /\ \E p \in Int : to = target - p * TwoTo[k - n]
  <2>1. n \in 1..k /\ k \in 0..MaxGiven /\ target \in Int /\ seen.coeff \in {0, 1}
    BY <1>4, <1>5, <1>6, <1>8
  <2> DEFINE from == seen.current
             coeff == seen.coeff
  <2>2. from = target - q * TwoTo[k] /\ coeff \in {0, 1}
    BY <1>11, <2>1
  <2> HIDE DEF from, coeff
  <2>3. /\ target - Remaining(target - from, coeff, n) = FrameByFrame(from, target, coeff, n)
        /\ \E p \in Int : target - Remaining(target - from, coeff, n) = target - p * TwoTo[k - n]
    BY <2>1, <2>2, BlockIsExact
  <2> QED BY <2>3 DEF from, coeff
<1>13. to \in Multiples(k - n)
  <2> HIDE DEF to
  <2>1. PICK p \in Int : to = target - p * TwoTo[k - n]
    BY <1>12
  <2>2. p * TwoTo[k - n] \in Multiples(k - n)
    BY DEF Multiples
  <2> QED BY <1>5, <1>8, <2>1, <2>2, MultiplesAdd
<1>14. CASE seen.enabled
  <2>1. /\ Stored("current", to)
        /\ applied' = [from |-> seen.current, to |-> to, target |-> target,
                       coeff |-> seen.coeff, frames |-> n]
    BY <1>1, <1>14 DEF target, n
  <2> HIDE DEF to
  <2>2. \A g \in LoudnessFields : loudness'[g] = IF g = "current" THEN to ELSE loudness[g]
    BY <2>1, StoredField DEF NormalizerSound, LoudnessFields
  <2>3. /\ loudness'.current = to /\ loudness'.coeff = loudness.coeff
        /\ loudness'.target = loudness.target /\ loudness'.album = loudness.album
        /\ loudness'.preamp = loudness.preamp
    BY <2>2 DEF LoudnessFields
  <2>4. FieldsExact(loudness')
    BY <2>3 DEF ExactSound, FieldsExact
  <2>5. loudness'.current \in Multiples(MaxGiven - given') /\ given' <= MaxGiven
    BY <1>5, <1>6, <1>13, <2>3
  <2>6. ExactSound'
    BY <1>2, <2>4, <2>5 DEF ExactSound
  <2>7. /\ applied'.from = seen.current /\ applied'.to = to /\ applied'.target = target
        /\ applied'.coeff = seen.coeff /\ applied'.frames = n
    BY <2>1
  <2> QED BY <1>12, <2>6, <2>7 DEF GainIsExact
<1>15. CASE ~seen.enabled
  <2>1. UNCHANGED <<loudness, applied>>
    BY <1>1, <1>15
  <2>2. ~BlockEnds
    <3>1. ASSUME block.seen.enabled = {TRUE} PROVE FALSE
      <4>1. seen.enabled = TRUE
        BY <1>3, <3>1
      <4> QED BY <1>15, <4>1
    <3> QED BY <2>1, <3>1 DEF BlockEnds
  <2>3. loudness.current \in Multiples(k - n)
    BY <1>4, <1>5, MultiplesFiner
  <2>4. loudness'.current \in Multiples(MaxGiven - given') /\ given' <= MaxGiven
    BY <1>5, <1>6, <2>1, <2>3
  <2> QED BY <1>2, <2>1, <2>2, <2>4 DEF ExactSound, GainIsExact
<1> QED BY <1>14, <1>15

\* The first gains are whole.
LEMMA NormalizerStartsExact ==
  ASSUME NormalizerInit
  PROVE  ExactSound
<1>1. /\ settings.target \in Targets /\ track = Silent /\ given = 0 /\ block = NoBlock
      /\ loudness.coeff \in {0, 1} /\ loudness.target = 0 /\ loudness.current = 0
      /\ loudness.album = 0 /\ loudness.preamp = -Exact
  BY DEF NormalizerInit
<1>2. MaxGiven \in 0..MaxGiven /\ MaxGiven - 0 = MaxGiven
  BY NormalizerTypes
<1>3. 0 \in Multiples(MaxGiven)
  BY <1>2, MultiplesAdd
<1>4. -Exact \in Multiples(MaxGiven)
  <2>1. Exact \in Int
    BY <1>2, PowersOfTwo DEF Exact
  <2>2. -Exact = (-1) * Exact /\ -1 \in Int
    BY <2>1
  <2> QED BY <2>2, ExactMultiples
<1>5. FieldsExact(loudness)
  BY <1>1, <1>3, <1>4 DEF FieldsExact
<1>6. settings.target \in Int /\ track \in Int
  BY <1>1, NormalizerTypes
<1>7. given <= MaxGiven /\ loudness.current \in Multiples(MaxGiven - given)
  BY <1>1, <1>2, <1>3, NormalizerTypes
<1> QED BY <1>1, <1>5, <1>6, <1>7 DEF ExactSound

\* Whatever other threads store and however blocks, bypasses, resets and configurations
\* follow each other: a block's gain begins where the last one ended, comes where it would
\* have come frame by frame, and goes to what is published together when nothing was
\* stored meanwhile; the limiter's line gives its frames once, in time, and none from
\* before a gap; the analysed track's gain stays in force until another is stored
\* (normalizer.rs, `process`, `advance_gain`, `set_config`).
THEOREM NormalizerSeamless == NormalizerSpec => NormalizationIsSeamless
<1> DEFINE Sound == NormalizerSound /\ ExactSound
           Turned == GainIsContinued /\ GainIsExact /\ NothingIsReplayed
<1>1. NormalizerInit => Sound
  BY NormalizerStarts, NormalizerStartsExact
<1>2. Sound /\ [NormalizerNext]_normalizerVars => Sound' /\ [Turned]_normalizerVars
  <2>1. CASE NormalizerNext
    <3> SUFFICES ASSUME NormalizerSound, ExactSound
                 PROVE  /\ NormalizerSound' /\ GainIsContinued /\ NothingIsReplayed
                        /\ ExactSound' /\ GainIsExact
      OBVIOUS
    <3>1. CASE StoreShared
      BY <3>1, StoreSharedSound, StoreSharedExact
    <3>2. CASE NormalizerReset
      BY <3>2, NormalizerResetSound, NormalizerResetExact
    <3>3. CASE EndBlock
      BY <3>3, EndBlockSound, EndBlockExact
    <3>4. CASE \E e \in BOOLEAN, m \in NormalizerModes, t \in Targets \cup {Broken}, c \in {0, 1} :
                 SetConfig(e, m, t, c)
      BY <3>4, SetConfigQuiet, QuietIsSound, SetConfigExact
    <3>5. CASE \E t \in Targets \cup {Broken} : SetTarget(t)
      BY <3>5, SetTargetQuiet, QuietIsSound, SetTargetExact
    <3>6. CASE \E m \in NormalizerModes : SetMode(m)
      BY <3>6, SetModeQuiet, QuietIsSound, SetModeExact
    <3>7. CASE \E l \in Loudnesses \cup {Silent} : Analyze(l)
      BY <3>7, AnalyzeQuiet, QuietIsSound, AnalyzeExact
    <3>8. CASE \E n \in NormalizerBlocks : StartBlock(n)
      BY <3>8, StartBlockSound, StartBlockExact
    <3> QED BY <2>1, <3>1, <3>2, <3>3, <3>4, <3>5, <3>6, <3>7, <3>8 DEF NormalizerNext
  <2>2. CASE UNCHANGED normalizerVars
    <3>1. NormalizerSound => NormalizerSound'
      BY <2>2 DEF normalizerVars, NormalizerSound, NormalizerShape, TrackGainIsKept, GainFollows,
                  LineFollows, DueAt
    <3>2. ExactSound => ExactSound'
      BY <2>2 DEF normalizerVars, ExactSound
    <3> QED BY <2>2, <3>1, <3>2
  <2> QED BY <2>1, <2>2
<1>3. Sound => TrackGainIsKept
  BY DEF NormalizerSound
<1> HIDE DEF Sound
<1> QED BY <1>1, <1>2, <1>3, PTL DEF NormalizerSpec, NormalizationIsSeamless

\* Both stages that follow the loudness, for every tuning, volume, strength, gain and
\* order of blocks and calls: nothing that multiplies the audio steps.
THEOREM LevelGradual == DynamicSpec /\ NormalizerSpec => LoudnessIsGradual
BY HeadroomGradual, NormalizerSeamless DEF LoudnessIsGradual

-----------------------------------------------------------------------------
(* Ramps.                                                                  *)

Ramps == [current : Int, start : Int, target : Int, total : Nat \ {0}, step : Int, left : Nat]

\* A ratio rounds towards zero.
LEMMA RatioBounds ==
  ASSUME NEW n \in Int, NEW d \in Nat \ {0}
  PROVE  /\ Ratio(n, d) \in Int
         /\ n >= 0 => Ratio(n, d) >= 0 /\ d * Ratio(n, d) <= n
         /\ n <= 0 => Ratio(n, d) <= 0 /\ n <= d * Ratio(n, d)
<1>1. CASE n >= 0
  <2> DEFINE q == n \div d
  <2>1. q \in Nat /\ d * q <= n
    BY <1>1
  <2>2. Ratio(n, d) = q
    BY <1>1 DEF Ratio
  <2> HIDE DEF q
  <2>3. n <= 0 => q <= 0 /\ n <= d * q
    <3> SUFFICES ASSUME n = 0 PROVE q <= 0 /\ n <= d * q
      BY <1>1
    <3>1. d * q <= 0 /\ q <= d * q
      BY <2>1
    <3> QED BY <2>1, <3>1
  <2> QED BY <1>1, <2>1, <2>2, <2>3
<1>2. CASE n < 0
  <2> DEFINE q == (-n) \div d
  <2>1. q \in Nat /\ d * q <= -n
    BY <1>2
  <2>2. Ratio(n, d) = -q
    BY <1>2 DEF Ratio
  <2> HIDE DEF q
  <2>3. d * (-q) = -(d * q)
    BY <2>1
  <2> QED BY <1>2, <2>1, <2>2, <2>3
<1> QED BY <1>1, <1>2

\* Part of a distance is more with every frame, and never more than the distance.
LEMMA RatioGrows ==
  ASSUME NEW n \in Int, NEW d \in Nat \ {0}, NEW k \in 0..(d - 1)
  PROVE  /\ n >= 0 => Ratio(n * k, d) <= Ratio(n * (k + 1), d) /\ Ratio(n * (k + 1), d) <= n
         /\ n <= 0 => Ratio(n * (k + 1), d) <= Ratio(n * k, d) /\ n <= Ratio(n * (k + 1), d)
<1>1. ASSUME NEW x \in Nat, NEW y \in Nat, x <= y PROVE x \div d <= y \div d
  <2> DEFINE p == x \div d
             q == y \div d
  <2>1. p \in Nat /\ q \in Nat /\ d * p <= x /\ y < d * q + d
    OBVIOUS
  <2> HIDE DEF p, q
  <2> SUFFICES ASSUME q + 1 <= p PROVE FALSE
    BY <2>1 DEF p, q
  <2>2. d * (q + 1) <= d * p
    BY <2>1
  <2>3. d * (q + 1) = d * q + d
    BY <2>1
  <2> QED BY <1>1, <2>1, <2>2, <2>3
<1>2. ASSUME NEW m \in Nat
      PROVE  /\ m * k \in Nat /\ m * (k + 1) \in Nat
             /\ (m * k) \div d <= (m * (k + 1)) \div d /\ (m * (k + 1)) \div d <= m
  <2>1. m * k \in Nat /\ m * (k + 1) \in Nat /\ m * d \in Nat
    OBVIOUS
  <2>2. m * k <= m * (k + 1) /\ m * (k + 1) <= m * d
    OBVIOUS
  <2>3. (m * d) \div d = m
    BY ExactQuotient
  <2> QED BY <1>1, <2>1, <2>2, <2>3
<1>3. CASE n >= 0
  <2>1. n \in Nat
    BY <1>3
  <2>2. Ratio(n * k, d) = (n * k) \div d /\ Ratio(n * (k + 1), d) = (n * (k + 1)) \div d
    BY <1>2, <2>1 DEF Ratio
  <2>3. n <= 0 => n = 0 /\ n * k = 0 /\ n * (k + 1) = 0
    BY <2>1
  <2>4. 0 \div d = 0
    OBVIOUS
  <2> QED BY <1>2, <2>1, <2>2, <2>3, <2>4
<1>4. CASE n < 0
  <2> DEFINE m == -n
  <2>1. m \in Nat /\ n * k = -(m * k) /\ n * (k + 1) = -(m * (k + 1))
    BY <1>4
  <2>2. ASSUME NEW x \in Nat PROVE Ratio(-x, d) = -(x \div d)
    <3>1. CASE x = 0
      BY <3>1 DEF Ratio
    <3>2. CASE x # 0
      <4>1. -x < 0 /\ -(-x) = x
        BY <3>2
      <4> QED BY <4>1 DEF Ratio
    <3> QED BY <3>1, <3>2
  <2>3. /\ Ratio(n * k, d) = -((m * k) \div d)
        /\ Ratio(n * (k + 1), d) = -((m * (k + 1)) \div d)
    BY <1>2, <2>1, <2>2
  <2>4. /\ (m * k) \div d <= (m * (k + 1)) \div d /\ (m * (k + 1)) \div d <= m
        /\ (m * k) \div d \in Int /\ (m * (k + 1)) \div d \in Int
    BY <1>2, <2>1
  <2> QED BY <1>4, <2>3, <2>4
<1> QED BY <1>3, <1>4

\* A ramp of even steps does not pass its target.
StepsSound(r) ==
  /\ r \in Ramps
  /\ r.left = 0 => r.current = r.target
  /\ \/ r.step >= 0 /\ r.current + r.left * r.step <= r.target
     \/ r.step <= 0 /\ r.target <= r.current + r.left * r.step

\* A blend is where the frames gone have brought it.
BlendSound(r) ==
  /\ r \in Ramps /\ r.left <= r.total
  /\ r.left = 0 => r.current = r.target
  /\ r.left # 0 => r.current = r.start + Ratio((r.target - r.start) * (r.total - r.left), r.total)

\* A ramp that has not ended ends with the frames that remain of its length.
Ending(r, gone, length) == r.left = 0 \/ r.left + gone <= length

LEMMA AtSound ==
  ASSUME NEW v \in Int
  PROVE  StepsSound(At(v)) /\ BlendSound(At(v)) /\ At(v).target = v /\ At(v).current = v /\ At(v).left = 0
BY DEF At, StepsSound, BlendSound, Ramps

\* A ramp that is sent elsewhere starts where it is.
LEMMA RetargetedSound ==
  ASSUME NEW r \in Ramps, NEW t \in Int, NEW frames \in Nat \ {0}
  PROVE  LET q == Retargeted(r, t, frames)
         IN /\ StepsSound(r) => StepsSound(q)
            /\ BlendSound(r) => BlendSound(q)
            /\ q.target = t /\ q.current = r.current
            /\ q = r \/ q.left = frames
<1> DEFINE q == Retargeted(r, t, frames)
<1>1. CASE t = r.target
  BY <1>1 DEF Retargeted
<1>2. CASE t # r.target
  <2> DEFINE c == r.current
             s == Ratio(t - c, frames)
  <2>1. c \in Int /\ t - c \in Int
    BY DEF Ramps
  <2>2. /\ q.current = c /\ q.start = c /\ q.target = t /\ q.total = frames /\ q.step = s
        /\ q.left = frames
    BY <1>2 DEF Retargeted, Ramps
  <2>3. s \in Int /\ (t - c >= 0 => s >= 0 /\ frames * s <= t - c)
                  /\ (t - c <= 0 => s <= 0 /\ t - c <= frames * s)
    BY <2>1, RatioBounds
  <2> HIDE DEF s
  <2>4. q \in Ramps
    BY <1>2, <2>3 DEF Retargeted, Ramps, s
  <2>5. StepsSound(q)
    <3>1. frames * s \in Int
      BY <2>3
    <3> QED BY <2>1, <2>2, <2>3, <2>4, <3>1 DEF StepsSound
  <2>6. BlendSound(q)
    <3>1. (t - c) * (frames - frames) = 0
      BY <2>1
    <3>2. Ratio(0, frames) = 0
      BY RatioBounds
    <3> QED BY <2>1, <2>2, <2>4, <3>1, <3>2 DEF BlendSound
  <2> QED BY <2>2, <2>5, <2>6
<1> QED BY <1>1, <1>2

\* A frame changes two fields of a ramp.
LEMMA RampFields ==
  ASSUME NEW r \in Ramps, NEW k, NEW e
  PROVE  [r EXCEPT !.left = k, !.current = e]
         = [current |-> e, start |-> r.start, target |-> r.target, total |-> r.total,
            step |-> r.step, left |-> k]
<1> DEFINE c == r.current
           s == r.start
           t == r.target
           m == r.total
           p == r.step
           n == r.left
           d == [r EXCEPT !.left = k]
<1>1. r = [current |-> c, start |-> s, target |-> t, total |-> m, step |-> p, left |-> n]
  BY DEF Ramps
<1> HIDE DEF c, s, t, m, p, n
<1>2. d = [current |-> c, start |-> s, target |-> t, total |-> m, step |-> p, left |-> k]
  BY <1>1
<1> HIDE DEF d
<1>3. [d EXCEPT !.current = e]
        = [current |-> e, start |-> s, target |-> t, total |-> m, step |-> p, left |-> k]
  BY <1>2
<1> QED BY <1>3 DEF c, s, t, m, p, n, d

\* A step goes on to the target and not beyond it.
LEMMA SteppedSound ==
  ASSUME NEW r, StepsSound(r)
  PROVE  LET q == Stepped(r)
         IN /\ StepsSound(q) /\ q.target = r.target
            /\ OnTheWay(q.current, r.current, r.target)
            /\ q.left = IF r.left = 0 THEN 0 ELSE r.left - 1
<1> DEFINE q == Stepped(r)
           c == r.current
           t == r.target
           s == r.step
           n == r.left
<1>1. /\ r \in Ramps /\ c \in Int /\ t \in Int /\ s \in Int /\ n \in Nat
      /\ n = 0 => c = t
      /\ \/ s >= 0 /\ c + n * s <= t
         \/ s <= 0 /\ t <= c + n * s
  BY DEF StepsSound, Ramps
<1>2. CASE n = 0
  BY <1>1, <1>2 DEF Stepped, OnTheWay
<1>3. CASE n # 0
  <2> DEFINE e == IF n = 1 THEN t ELSE c + s
  <2>1. /\ q.current = e /\ q.target = t /\ q.step = s /\ q.left = n - 1 /\ q \in Ramps
    <3>2. q = [r EXCEPT !.left = n - 1, !.current = e]
      BY <1>3 DEF Stepped
    <3> HIDE DEF c, t, s, n, e, q
    <3>3. q = [current |-> e, start |-> r.start, target |-> t, total |-> r.total, step |-> s,
               left |-> n - 1]
      BY <1>1, <3>2, RampFields DEF c, t, s, n
    <3>4. e \in Int /\ n - 1 \in Nat
      BY <1>1, <1>3 DEF e
    <3>5. r.start \in Int /\ r.total \in Nat \ {0}
      BY <1>1 DEF Ramps
    <3> QED BY <1>1, <3>3, <3>4, <3>5 DEF Ramps
  <2> HIDE DEF q
  <2>2. n - 1 \in Nat /\ (n - 1) * s = n * s - s /\ n * s \in Int
    BY <1>1, <1>3
  <2>3. CASE n = 1
    <3>1. n * s = s /\ 0 * s = 0
      BY <1>1, <2>3
    <3>2. OnTheWay(t, c, t)
      BY <1>1 DEF OnTheWay
    <3> QED BY <1>1, <1>3, <2>1, <2>2, <2>3, <3>1, <3>2 DEF StepsSound, q
  <2>4. CASE n # 1
    <3>1. s >= 0 => s <= n * s
      BY <1>1, <1>3
    <3>2. s <= 0 => n * s <= s
      BY <1>1, <1>3
    <3>3. OnTheWay(c + s, c, t)
      BY <1>1, <2>2, <3>1, <3>2 DEF OnTheWay
    <3> QED BY <1>1, <1>3, <2>1, <2>2, <2>4, <3>3 DEF StepsSound, q
  <2> QED BY <2>3, <2>4
<1> QED BY <1>2, <1>3

\* So does a blend.
LEMMA BlendedSound ==
  ASSUME NEW r, BlendSound(r)
  PROVE  LET q == Blended(r)
         IN /\ BlendSound(q) /\ q.target = r.target
            /\ OnTheWay(q.current, r.current, r.target)
            /\ q.left = IF r.left = 0 THEN 0 ELSE r.left - 1
<1> DEFINE q == Blended(r)
           c == r.current
           t == r.target
           s == r.start
           n == r.left
           m == r.total
<1>1. /\ r \in Ramps /\ c \in Int /\ t \in Int /\ s \in Int /\ n \in Nat /\ m \in Nat \ {0}
      /\ n <= m /\ (n = 0 => c = t)
      /\ n # 0 => c = s + Ratio((t - s) * (m - n), m)
  BY DEF BlendSound, Ramps
<1>2. CASE n = 0
  BY <1>1, <1>2 DEF Blended, OnTheWay
<1>3. CASE n # 0
  <2> DEFINE d == t - s
             k == m - n
             x == Ratio(d * k, m)
             y == Ratio(d * (k + 1), m)
             e == IF n = 1 THEN t ELSE s + y
  <2>1. d \in Int /\ k \in 0..(m - 1) /\ k + 1 = m - n + 1 /\ m - (n - 1) = k + 1
    BY <1>1, <1>3
  <2>2. /\ d >= 0 => x <= y /\ y <= d
        /\ d <= 0 => y <= x /\ d <= y
    BY <1>1, <2>1, RatioGrows
  <2>3. x \in Int /\ y \in Int
    <3>1. d * k \in Int /\ d * (k + 1) \in Int
      BY <2>1
    <3> QED BY <1>1, <3>1, RatioBounds
  <2>4. /\ q.current = e /\ q.target = t /\ q.start = s /\ q.total = m /\ q.left = n - 1
        /\ q \in Ramps
    <3>2. q = [r EXCEPT !.left = n - 1, !.current = e]
      BY <1>3, <2>1 DEF Blended
    <3> HIDE DEF c, t, s, n, e, q, m
    <3>3. q = [current |-> e, start |-> s, target |-> t, total |-> m, step |-> r.step, left |-> n - 1]
      BY <1>1, <3>2, RampFields DEF c, t, s, n, m
    <3>4. e \in Int /\ n - 1 \in Nat
      BY <1>1, <1>3, <2>3 DEF e
    <3>5. r.step \in Int
      BY <1>1 DEF Ramps
    <3> QED BY <1>1, <3>3, <3>4, <3>5 DEF Ramps
  <2>5. c = s + x
    BY <1>1, <1>3
  <2> HIDE DEF q, x, y
  <2>6. OnTheWay(e, c, t)
    BY <1>1, <2>2, <2>3, <2>5 DEF OnTheWay
  <2>7. n # 1 => e = s + Ratio((t - s) * (m - (n - 1)), m)
    BY <2>1 DEF y
  <2> QED BY <1>1, <1>3, <2>1, <2>4, <2>6, <2>7 DEF BlendSound, q
<1> QED BY <1>2, <1>3

-----------------------------------------------------------------------------
(* The volume.                                                             *)

\* `Within` is what its definition says.
LEMMA WithinExists ==
  Within = [n \in 0..VolumeFrames |-> IF n <= 1 THEN n ELSE 2 * Within[n - 1]]
<1> DEFINE Widening(f, m) == f = [n \in 0..m |-> IF n <= 1 THEN n ELSE 2 * f[n - 1]]
           Defined == {m \in Nat : \E f : Widening(f, m)}
<1>1. 0 \in Defined
  <2>1. Widening([n \in 0..0 |-> 0], 0)
    OBVIOUS
  <2> QED BY <2>1
<1>2. ASSUME NEW m \in Nat, m \in Defined
      PROVE  m + 1 \in Defined
  <2>1. PICK f : Widening(f, m)
    BY <1>2
  <2> DEFINE g == [n \in 0..(m + 1) |-> IF n <= m THEN f[n] ELSE IF n <= 1 THEN n ELSE 2 * f[m]]
             h == [n \in 0..(m + 1) |-> IF n <= 1 THEN n ELSE 2 * g[n - 1]]
  <2>2. ASSUME NEW n \in 0..(m + 1)
        PROVE  g[n] = IF n <= 1 THEN n ELSE 2 * g[n - 1]
    <3>1. CASE n <= m
      <4>1. n \in 0..m /\ g[n] = f[n] /\ f[n] = IF n <= 1 THEN n ELSE 2 * f[n - 1]
        BY <2>1, <3>1
      <4>2. n > 1 => g[n - 1] = f[n - 1]
        BY <3>1
      <4> QED BY <4>1, <4>2
    <3>2. CASE n = m + 1
      <4>1. n > 1 => n - 1 \in 0..(m + 1) /\ g[n - 1] = f[m]
        BY <3>2
      <4> QED BY <3>2, <4>1
    <3> QED BY <3>1, <3>2
  <2>3. g = [n \in 0..(m + 1) |-> g[n]]
    OBVIOUS
  <2> HIDE DEF g
  <2>4. g = h
    BY <2>2, <2>3
  <2>5. Widening(g, m + 1)
    BY <2>4
  <2> HIDE DEF Widening
  <2>6. \E d : Widening(d, m + 1)
    BY <2>5
  <2> QED BY <2>6
<1>3. Nat \subseteq Defined
  <2> HIDE DEF Defined
  <2> QED BY <1>1, <1>2, SetInduction
<1>4. \E f : Widening(f, VolumeFrames)
  BY <1>3, SmoothAssumption
<1>5. Within = CHOOSE f : Widening(f, VolumeFrames)
  BY DEF Within
<1> HIDE DEF Widening
<1>6. Widening(Within, VolumeFrames)
  BY <1>4, <1>5
<1> QED BY <1>6 DEF Widening

\* Half of a distance is within a frame less.
LEMMA WithinHalves ==
  /\ Within[0] = 0
  /\ \A n \in 0..VolumeFrames : Within[n] \in Nat
  /\ \A n \in 1..VolumeFrames : Within[n] <= 1 \/ Within[n] = 2 * Within[n - 1]
<1> DEFINE Fine == {n \in Nat : n <= VolumeFrames => Within[n] \in Nat}
<1>1. VolumeFrames \in Nat
  BY SmoothAssumption
<1>2. /\ Within[0] = 0
      /\ \A n \in 1..VolumeFrames : Within[n] = IF n <= 1 THEN n ELSE 2 * Within[n - 1]
  BY <1>1, WithinExists
<1>3. 0 \in Fine
  BY <1>2
<1>4. ASSUME NEW n \in Nat, n \in Fine PROVE n + 1 \in Fine
  <2>1. CASE n + 1 <= VolumeFrames
    <3>1. n + 1 \in 1..VolumeFrames /\ (n + 1) - 1 = n /\ n <= VolumeFrames
      BY <1>1, <2>1
    <3>2. Within[n + 1] = (IF n + 1 <= 1 THEN n + 1 ELSE 2 * Within[n]) /\ Within[n] \in Nat
      BY <1>2, <1>4, <3>1
    <3> QED BY <3>2
  <2>2. CASE ~(n + 1 <= VolumeFrames)
    BY <2>2
  <2> QED BY <2>1, <2>2
<1>5. Nat \subseteq Fine
  <2> HIDE DEF Fine
  <2> QED BY <1>3, <1>4, SetInduction
<1>6. ASSUME NEW n \in 1..VolumeFrames PROVE Within[n] <= 1 \/ Within[n] = 2 * Within[n - 1]
  BY <1>2
<1> QED BY <1>1, <1>2, <1>5, <1>6

Fewer(n) == IF n = 0 THEN 0 ELSE n - 1

\* A frame takes the volume on its way, and so far that a frame less is enough.
LEMMA ApproachedSound ==
  ASSUME "volume" \in DOMAIN Wishes, NEW w \in Wishes["volume"],
         NEW gain \in 0..Within[VolumeFrames], NEW n \in 0..VolumeFrames,
         Magnitude(Goal(w) - gain) <= Within[n]
  PROVE  /\ Approached(gain, w) \in 0..Within[VolumeFrames]
         /\ OnTheWay(Approached(gain, w), gain, Goal(w))
         /\ Magnitude(Goal(w) - Approached(gain, w)) <= Within[Fewer(n)]
<1> DEFINE goal == Goal(w)
           next == Approached(gain, w)
           top == Within[VolumeFrames]
           reach == Within[n]
           less == Within[Fewer(n)]
<1>1. VolumeFrames \in Nat \ {0} /\ SettleEpsilon \in Nat \ {0}
  BY SmoothAssumption
<1>2. w.volume \in 0..top /\ w.muted \in BOOLEAN
  BY SmoothAssumption
<1>3. /\ top \in Nat /\ reach \in Nat /\ less \in Nat /\ gain \in 0..top
      /\ n = 0 => reach = 0 /\ less = 0
      /\ n # 0 => reach <= 1 \/ reach = 2 * less
  BY <1>1, WithinHalves DEF Fewer
<1>4. goal \in 0..top /\ goal = IF w.muted THEN 0 ELSE w.volume
  BY <1>2, <1>3 DEF Goal
<1>5. reach <= 1 \/ reach = 2 * less
  BY <1>3
<1>6. CASE w.muted
  <2>1. next = gain \div 2 /\ goal = 0
    BY <1>4, <1>6 DEF Approached
  <2>2. gain <= reach
    BY <1>3, <2>1 DEF Magnitude
  <2> HIDE DEF top, reach, less
  <2>3. gain \div 2 \in 0..top /\ gain \div 2 <= less
    BY <1>3, <1>5, <2>2
  <2>4. OnTheWay(gain \div 2, gain, 0)
    BY <1>3 DEF OnTheWay
  <2>5. Magnitude(0 - gain \div 2) = gain \div 2
    BY <1>3, <2>3 DEF Magnitude
  <2> QED BY <2>1, <2>3, <2>4, <2>5 DEF top, less
<1>7. CASE ~w.muted
  <2>1. goal = w.volume
    BY <1>4, <1>7
  <2> DEFINE far == Magnitude(goal - gain)
  <2>2. next = IF far <= SettleEpsilon THEN goal ELSE gain + Ratio(goal - gain, 2)
    BY <1>7, <2>1 DEF Approached
  <2> HIDE DEF next, top, reach, less, goal
  <2>3. CASE far <= SettleEpsilon
    <3>1. next = goal
      BY <2>2, <2>3
    <3>2. OnTheWay(goal, gain, goal) /\ Magnitude(goal - goal) = 0
      BY <1>3, <1>4 DEF OnTheWay, Magnitude
    <3> QED BY <1>3, <1>4, <3>1, <3>2 DEF next, top, less, goal
  <2>4. CASE ~(far <= SettleEpsilon)
    <3>1. next = gain + Ratio(goal - gain, 2)
      BY <2>2, <2>4
    <3>2. far <= reach /\ far > 1 /\ far \in Nat
      BY <1>1, <1>3, <1>4, <2>4 DEF Magnitude, goal, reach
    <3>3. reach = 2 * less
      BY <1>3, <1>5, <3>2
    <3>4. CASE goal >= gain
      <4>1. Ratio(goal - gain, 2) = (goal - gain) \div 2 /\ far = goal - gain
        BY <1>3, <1>4, <3>4 DEF Ratio, Magnitude
      <4> HIDE DEF far
      <4> DEFINE q == (goal - gain) \div 2
      <4>2. q \in Nat /\ 2 * q <= goal - gain /\ goal - gain < 2 * q + 2
        <5> DEFINE x == goal - gain
        <5>1. x \in Nat
          BY <1>3, <1>4, <3>4
        <5> HIDE DEF x
        <5>2. x \div 2 \in Nat /\ 2 * (x \div 2) <= x /\ x < 2 * (x \div 2) + 2
          BY ONLY <5>1
        <5> QED BY <5>2 DEF x
      <4> HIDE DEF q
      <4>3. next = gain + q
        BY <3>1, <4>1 DEF q
      <4>4. next \in 0..top /\ OnTheWay(next, gain, goal) /\ Magnitude(goal - next) <= less
        BY <1>3, <1>4, <3>2, <3>3, <4>1, <4>2, <4>3 DEF OnTheWay, Magnitude
      <4> QED BY <4>4 DEF next, top, less, goal
    <3>5. CASE goal < gain
      <4>1. Ratio(goal - gain, 2) = -((gain - goal) \div 2) /\ far = gain - goal
        BY <1>3, <1>4, <3>5 DEF Ratio, Magnitude
      <4> HIDE DEF far
      <4> DEFINE q == (gain - goal) \div 2
      <4>2. q \in Nat /\ 2 * q <= gain - goal /\ gain - goal < 2 * q + 2
        <5> DEFINE x == gain - goal
        <5>1. x \in Nat
          BY <1>3, <1>4, <3>5
        <5> HIDE DEF x
        <5>2. x \div 2 \in Nat /\ 2 * (x \div 2) <= x /\ x < 2 * (x \div 2) + 2
          BY ONLY <5>1
        <5> QED BY <5>2 DEF x
      <4> HIDE DEF q
      <4>3. next = gain - q
        BY <1>3, <3>1, <4>1, <4>2 DEF q
      <4>4. next \in 0..top /\ OnTheWay(next, gain, goal) /\ Magnitude(goal - next) <= less
        BY <1>3, <1>4, <3>2, <3>3, <4>1, <4>2, <4>3 DEF OnTheWay, Magnitude
      <4> QED BY <4>4 DEF next, top, less, goal
    <3> QED BY <1>3, <1>4, <3>4, <3>5
  <2> QED BY <2>3, <2>4
<1> QED BY <1>2, <1>6, <1>7

-----------------------------------------------------------------------------
(* The smoothed stages.                                                    *)

\* What a ramp knows, so many frames after it was last sent to a snapshot at a rate.
BankSound(r, w, rate, gone) ==
  /\ r = [bank |-> r.bank, target |-> r.target, left |-> r.left]
  /\ r.target = Bank(w, rate) /\ r.left \in Nat
  /\ r.left = 0 => r.bank = r.target
  /\ Ending(r, gone, FadeFrames)
MixSound(r, w, rate, gone) ==
  /\ r = [mix |-> r.mix, cutoff |-> r.cutoff]
  /\ StepsSound(r.mix) /\ r.mix.target = w.mix /\ Ending(r.mix, gone, RampFrames[rate])
  /\ BlendSound(r.cutoff) /\ r.cutoff.target = Design(w, rate)
  /\ Ending(r.cutoff, gone, RampFrames[rate])
GainSound(r, w, gone) ==
  /\ r = [gain |-> r.gain] /\ r.gain \in 0..Within[VolumeFrames]
  /\ Magnitude(Goal(w) - r.gain) <= Within[VolumeFrames - gone]

RampSound(r, w, rate, gone) ==
  /\ adapter.kind = "equalizer" => BankSound(r, w, rate, gone)
  /\ adapter.kind = "crossfeed" => MixSound(r, w, rate, gone)
  /\ adapter.kind = "volume" => GainSound(r, w, gone)

AdapterSound ==
  /\ adapter = [kind |-> adapter.kind, cached |-> adapter.cached, rate |-> adapter.rate,
                phase |-> adapter.phase]
  /\ adapter.kind \in DOMAIN Wishes /\ adapter.rate \in StageRates
  /\ wish \in Wishes[adapter.kind] /\ adapter.cached \in Wishes[adapter.kind]
  /\ moved \in 0..VolumeFrames

SmoothSound == AdapterSound /\ RampSound(ramp, adapter.cached, adapter.rate, moved)

\* One ramp is on its way from another to a snapshot.
Between(q, r, w, rate) ==
  /\ adapter.kind = "crossfeed" =>
       /\ OnTheWay(q.mix.current, r.mix.current, w.mix)
       /\ OnTheWay(q.cutoff.current, r.cutoff.current, Design(w, rate))
  /\ adapter.kind = "volume" => OnTheWay(q.gain, r.gain, Goal(w))

More(n) == IF n < MaxMoved THEN n + 1 ELSE n

\* The snapshots and rates are numbers.
LEMMA WishTypes ==
  ASSUME NEW kind \in DOMAIN Wishes, NEW w \in Wishes[kind], NEW rate \in StageRates
  PROVE  /\ kind \in {"equalizer", "crossfeed", "volume"}
         /\ kind = "crossfeed" => w.mix \in Int /\ Design(w, rate) \in Int
         /\ kind = "volume" => /\ Goal(w) \in 0..Within[VolumeFrames]
                               /\ w.volume \in 0..Within[VolumeFrames] /\ w.muted \in BOOLEAN
         /\ RampFrames[rate] \in Nat \ {0} /\ rate \in Nat
<1>1. /\ kind \in {"equalizer", "crossfeed", "volume"}
      /\ RampFrames[rate] \in Nat \ {0} /\ rate \in Nat
  BY SmoothAssumption
<1>2. kind = "crossfeed" => w.mix \in Int /\ w.cutoff \in Int
  BY SmoothAssumption
<1>3. kind = "crossfeed" => Design(w, rate) \in Int
  BY <1>1, <1>2 DEF Design
<1>4. kind = "volume" => w.volume \in 0..Within[VolumeFrames] /\ w.muted \in BOOLEAN
  BY SmoothAssumption
<1>5. Within[VolumeFrames] \in Nat
  BY WithinHalves, SmoothAssumption
<1> QED BY <1>1, <1>2, <1>3, <1>4, <1>5 DEF Goal

\* A ramp stays where it is on the way to anything.
LEMMA BetweenItself ==
  ASSUME AdapterSound, NEW w \in Wishes[adapter.kind], NEW rate \in StageRates, NEW gone,
         NEW r, RampSound(r, w, rate, gone), NEW q, NEW d \in Wishes[adapter.kind], NEW e \in StageRates,
         adapter.kind = "crossfeed" => q.mix.current = r.mix.current
                                       /\ q.cutoff.current = r.cutoff.current,
         adapter.kind = "volume" => q.gain = r.gain
  PROVE  Between(q, r, d, e)
<1>1. \A x, b \in Int : OnTheWay(x, x, b)
  BY DEF OnTheWay
<1>2. CASE adapter.kind = "crossfeed"
  <2>1. r.mix.current \in Int /\ r.cutoff.current \in Int
    BY <1>2 DEF RampSound, MixSound, StepsSound, BlendSound, Ramps
  <2>2. d.mix \in Int /\ Design(d, e) \in Int
    BY <1>2, WishTypes DEF AdapterSound
  <2> QED BY <1>1, <1>2, <2>1, <2>2 DEF Between
<1>3. CASE adapter.kind = "volume"
  <2>1. r.gain \in Int /\ Within[VolumeFrames] \in Nat
    BY <1>3, WithinHalves, SmoothAssumption DEF RampSound, GainSound
  <2>2. Goal(d) \in Int
    BY <1>3, <2>1, WishTypes DEF AdapterSound
  <2> QED BY <1>1, <1>3, <2>1, <2>2 DEF Between
<1> QED BY <1>2, <1>3 DEF Between

\* A frame brings a stage nearer, and counts.
LEMMA AdvancedSound ==
  ASSUME AdapterSound, NEW w \in Wishes[adapter.kind], NEW gone \in 0..VolumeFrames,
         NEW r, RampSound(r, w, adapter.rate, gone)
  PROVE  /\ RampSound(Advanced(r, w), w, adapter.rate, More(gone))
         /\ Between(Advanced(r, w), r, w, adapter.rate)
         /\ More(gone) \in 0..VolumeFrames /\ More(gone) # 0
<1> DEFINE q == Advanced(r, w)
           rate == adapter.rate
<1>1. /\ VolumeFrames \in Nat \ {0} /\ FadeFrames \in Nat /\ RampFrames[rate] \in Nat
      /\ adapter.kind \in {"equalizer", "crossfeed", "volume"}
  BY SmoothAssumption, WishTypes DEF AdapterSound
<1>2. /\ More(gone) \in 0..VolumeFrames /\ More(gone) # 0
      /\ VolumeFrames - More(gone) = Fewer(VolumeFrames - gone) /\ More(gone) <= gone + 1
  BY <1>1 DEF More, MaxMoved, Fewer
<1>3. CASE adapter.kind = "equalizer"
  <2>1. BankSound(r, w, rate, gone)
    BY <1>3 DEF RampSound
  <2>2. q = Crossfaded(r)
    BY <1>3 DEF Advanced
  <2> DEFINE b == r.bank
             t == r.target
             n == r.left
  <2>3. r = [bank |-> b, target |-> t, left |-> n] /\ n \in Nat
    BY <2>1 DEF BankSound
  <2>4. CASE n = 0
    <3>1. q = r
      BY <2>2, <2>4 DEF Crossfaded
    <3>2. BankSound(r, w, rate, More(gone))
      BY <2>1, <2>4 DEF BankSound, Ending
    <3> HIDE DEF q
    <3>3. BankSound(q, w, rate, More(gone))
      BY <3>1, <3>2
    <3> QED BY <1>2, <1>3, <3>3 DEF RampSound, Between, q
  <2>5. CASE n # 0
    <3> DEFINE e == IF n = 1 THEN t ELSE b
    <3>1. q = [r EXCEPT !.left = n - 1, !.bank = e]
      BY <2>2, <2>5 DEF Crossfaded
    <3> HIDE DEF b, t, n, e, q
    <3>2. q = [bank |-> e, target |-> t, left |-> n - 1]
      BY <2>3, <3>1
    <3>3. n + gone <= FadeFrames
      BY <2>1, <2>5 DEF BankSound, Ending, n
    <3>4. (n - 1) + More(gone) <= FadeFrames /\ n - 1 \in Nat
      BY <1>1, <1>2, <2>3, <2>5, <3>3
    <3>5. n - 1 = 0 => e = t
      BY <2>3 DEF e
    <3>6. t = Bank(w, rate)
      BY <2>1 DEF BankSound, t
    <3>7. BankSound(q, w, rate, More(gone))
      BY <3>2, <3>4, <3>5, <3>6 DEF BankSound, Ending
    <3> QED BY <1>2, <1>3, <3>7 DEF RampSound, Between, q
  <2> QED BY <1>2, <2>4, <2>5
<1>4. CASE adapter.kind = "crossfeed"
  <2>1. MixSound(r, w, rate, gone)
    BY <1>4 DEF RampSound
  <2> DEFINE m == Stepped(r.mix)
             c == Blended(r.cutoff)
  <2>2. q = [mix |-> m, cutoff |-> c]
    BY <1>4 DEF Advanced
  <2>3. /\ StepsSound(m) /\ m.target = w.mix /\ OnTheWay(m.current, r.mix.current, w.mix)
        /\ m.left = IF r.mix.left = 0 THEN 0 ELSE r.mix.left - 1
    BY <2>1, SteppedSound DEF MixSound
  <2>4. /\ BlendSound(c) /\ c.target = Design(w, rate)
        /\ OnTheWay(c.current, r.cutoff.current, Design(w, rate))
        /\ c.left = IF r.cutoff.left = 0 THEN 0 ELSE r.cutoff.left - 1
    BY <2>1, BlendedSound DEF MixSound
  <2>5. r.mix.left \in Nat /\ r.cutoff.left \in Nat
    BY <2>1 DEF MixSound, StepsSound, BlendSound, Ramps
  <2> HIDE DEF m, c, q
  <2>6. Ending(m, More(gone), RampFrames[rate]) /\ Ending(c, More(gone), RampFrames[rate])
    BY <1>1, <1>2, <2>1, <2>3, <2>4, <2>5 DEF MixSound, Ending
  <2>7. MixSound(q, w, rate, More(gone))
    BY <2>2, <2>3, <2>4, <2>6 DEF MixSound
  <2>8. Between(q, r, w, rate)
    BY <1>4, <2>2, <2>3, <2>4 DEF Between
  <2> QED BY <1>2, <1>4, <2>7, <2>8 DEF RampSound, q
<1>5. CASE adapter.kind = "volume"
  <2>1. GainSound(r, w, gone)
    BY <1>5 DEF RampSound
  <2>2. q = [gain |-> Approached(r.gain, w)]
    BY <1>5 DEF Advanced
  <2>3. VolumeFrames - gone \in 0..VolumeFrames
    BY <1>1
  <2>4. /\ Approached(r.gain, w) \in 0..Within[VolumeFrames]
        /\ OnTheWay(Approached(r.gain, w), r.gain, Goal(w))
        /\ Magnitude(Goal(w) - Approached(r.gain, w)) <= Within[Fewer(VolumeFrames - gone)]
    <3>1. "volume" \in DOMAIN Wishes /\ w \in Wishes["volume"]
      BY <1>5 DEF AdapterSound
    <3> QED BY <2>1, <2>3, <3>1, ApproachedSound DEF GainSound
  <2> HIDE DEF q
  <2>5. GainSound(q, w, More(gone))
    BY <1>2, <2>2, <2>4 DEF GainSound
  <2>6. Between(q, r, w, rate)
    BY <1>5, <2>2, <2>4 DEF Between
  <2> QED BY <1>2, <1>5, <2>5, <2>6 DEF RampSound, q
<1> QED BY <1>1, <1>3, <1>4, <1>5

\* A stage that has processed a ramp's worth of frames applies what it was sent to.
LEMMA RampsEnd ==
  ASSUME AdapterSound, NEW w \in Wishes[adapter.kind], NEW rate \in StageRates,
         NEW gone \in 0..VolumeFrames, NEW r, RampSound(r, w, rate, gone),
         gone >= FadeOf(adapter.kind, rate)
  PROVE  Applies(r, w, rate)
<1>1. /\ adapter.kind \in {"equalizer", "crossfeed", "volume"}
      /\ FadeFrames \in Nat \ {0} /\ RampFrames[rate] \in Nat \ {0} /\ VolumeFrames \in Nat \ {0}
  BY SmoothAssumption, WishTypes DEF AdapterSound
<1>2. CASE adapter.kind = "equalizer"
  BY <1>1, <1>2 DEF RampSound, BankSound, Ending, FadeOf, Applies
<1>3. CASE adapter.kind = "crossfeed"
  <2>1. MixSound(r, w, rate, gone) /\ gone >= RampFrames[rate]
    BY <1>3 DEF RampSound, FadeOf
  <2>2. r.mix.left \in Nat /\ r.cutoff.left \in Nat
    BY <2>1 DEF MixSound, StepsSound, BlendSound, Ramps
  <2>3. r.mix.left = 0 /\ r.cutoff.left = 0
    BY <1>1, <2>1, <2>2 DEF MixSound, Ending
  <2>4. r.mix.current = w.mix /\ r.cutoff.current = Design(w, rate)
    BY <2>1, <2>3 DEF MixSound, StepsSound, BlendSound
  <2> QED BY <1>3, <2>4 DEF Applies
<1>4. CASE adapter.kind = "volume"
  <2>1. GainSound(r, w, gone) /\ gone = VolumeFrames
    BY <1>1, <1>4 DEF RampSound, FadeOf
  <2>2. Magnitude(Goal(w) - r.gain) <= 0
    <3>1. VolumeFrames - gone = 0
      BY <1>1, <2>1
    <3> QED BY <2>1, <3>1, WithinHalves DEF GainSound
  <2>3. Goal(w) \in Int /\ r.gain \in Int
    <3>1. Within[VolumeFrames] \in Nat
      BY <1>1, WithinHalves
    <3> QED BY <1>4, <2>1, <3>1, WishTypes DEF AdapterSound, GainSound
  <2>4. r.gain = Goal(w)
    BY <2>2, <2>3 DEF Magnitude
  <2> QED BY <1>4, <2>4 DEF Applies
<1> QED BY <1>1, <1>2, <1>3, <1>4

\* A volume within its range is within all its frames of any goal.
LEMMA VolumeStarts ==
  ASSUME AdapterSound, adapter.kind = "volume", NEW w \in Wishes[adapter.kind],
         NEW r, r = [gain |-> r.gain], r.gain \in 0..Within[VolumeFrames]
  PROVE  GainSound(r, w, 0)
<1>1. Within[VolumeFrames] \in Nat /\ VolumeFrames - 0 = VolumeFrames
  BY WithinHalves, SmoothAssumption
<1>2. Goal(w) \in 0..Within[VolumeFrames]
  BY WishTypes DEF AdapterSound
<1>3. Magnitude(Goal(w) - r.gain) <= Within[VolumeFrames]
  BY <1>1, <1>2 DEF Magnitude
<1> QED BY <1>1, <1>3 DEF GainSound

\* An adopted snapshot sends the ramps elsewhere from where they are.
LEMMA AdoptedSound ==
  ASSUME SmoothSound, NEW w \in Wishes[adapter.kind]
  PROVE  LET before == IF adapter.kind = "equalizer" \/ w # adapter.cached THEN 0 ELSE moved
         IN /\ RampSound(Adopted(w), w, adapter.rate, before)
            /\ adapter.kind = "crossfeed" => /\ Adopted(w).mix.current = ramp.mix.current
                                             /\ Adopted(w).cutoff.current = ramp.cutoff.current
            /\ adapter.kind = "volume" => Adopted(w).gain = ramp.gain
<1> DEFINE q == Adopted(w)
           rate == adapter.rate
           cached == adapter.cached
           before == IF adapter.kind = "equalizer" \/ w # adapter.cached THEN 0 ELSE moved
<1>1. /\ adapter.kind \in {"equalizer", "crossfeed", "volume"} /\ AdapterSound
      /\ VolumeFrames \in Nat \ {0} /\ FadeFrames \in Nat \ {0} /\ RampFrames[rate] \in Nat \ {0}
      /\ moved \in 0..VolumeFrames /\ cached \in Wishes[adapter.kind]
  BY SmoothAssumption, WishTypes DEF AdapterSound, SmoothSound
<1>2. CASE adapter.kind = "equalizer"
  <2>1. BankSound(ramp, cached, rate, moved)
    BY <1>2 DEF RampSound, SmoothSound
  <2>2. q = [ramp EXCEPT !.target = Bank(w, rate), !.left = FadeFrames]
    BY <1>2 DEF Adopted, Retuned
  <2> DEFINE b == ramp.bank
             t == ramp.target
             n == ramp.left
             d == [ramp EXCEPT !.target = Bank(w, rate)]
  <2>3. ramp = [bank |-> b, target |-> t, left |-> n]
    BY <2>1 DEF BankSound
  <2> HIDE DEF b, t, n
  <2>4. d = [bank |-> b, target |-> Bank(w, rate), left |-> n]
    BY <2>3
  <2> HIDE DEF d
  <2>5. [d EXCEPT !.left = FadeFrames] = [bank |-> b, target |-> Bank(w, rate), left |-> FadeFrames]
    BY <2>4
  <2>6. q = [bank |-> b, target |-> Bank(w, rate), left |-> FadeFrames]
    BY <2>2, <2>5 DEF d
  <2> HIDE DEF q
  <2>7. BankSound(q, w, rate, 0)
    BY <1>1, <2>6 DEF BankSound, Ending
  <2> QED BY <1>2, <2>7 DEF RampSound, q
<1>3. CASE adapter.kind = "crossfeed"
  <2>1. MixSound(ramp, cached, rate, moved)
    BY <1>3 DEF RampSound, SmoothSound
  <2>2. /\ w.mix \in Int /\ Design(w, rate) \in Int
        /\ ramp.mix \in Ramps /\ ramp.cutoff \in Ramps
    BY <1>1, <1>3, <2>1, WishTypes DEF AdapterSound, MixSound, StepsSound, BlendSound
  <2> DEFINE m == Retargeted(ramp.mix, w.mix, RampFrames[rate])
             a == Retargeted(ramp.cutoff, Design(w, rate), RampFrames[rate])
             c == IF w.cutoff = cached.cutoff THEN ramp.cutoff ELSE a
  <2>3. q = [mix |-> m, cutoff |-> c]
    BY <1>3 DEF Adopted
  <2>4. /\ StepsSound(m) /\ m.target = w.mix /\ m.current = ramp.mix.current
        /\ m = ramp.mix \/ m.left = RampFrames[rate]
    BY <1>1, <2>1, <2>2, RetargetedSound DEF MixSound
  <2>5. /\ BlendSound(a) /\ a.target = Design(w, rate) /\ a.current = ramp.cutoff.current
        /\ a = ramp.cutoff \/ a.left = RampFrames[rate]
    BY <1>1, <2>1, <2>2, RetargetedSound DEF MixSound
  <2>6. w.cutoff = cached.cutoff => Design(w, rate) = Design(cached, rate)
    BY DEF Design
  <2> HIDE DEF m, a, q
  <2>7. /\ BlendSound(c) /\ c.target = Design(w, rate) /\ c.current = ramp.cutoff.current
        /\ c = ramp.cutoff \/ c.left = RampFrames[rate]
    BY <2>1, <2>5, <2>6 DEF MixSound
  <2> HIDE DEF c
  <2>8. Ending(m, before, RampFrames[rate]) /\ Ending(c, before, RampFrames[rate])
    <3>1. CASE w = cached
      <4>1. m = ramp.mix /\ before = moved
        BY <1>3, <2>1, <3>1 DEF m, Retargeted, MixSound
      <4>2. c = ramp.cutoff
        BY <3>1 DEF c
      <4> QED BY <2>1, <4>1, <4>2 DEF MixSound
    <3>2. CASE w # cached
      <4>1. before = 0
        BY <3>2
      <4>2. /\ ramp.mix.left \in Nat /\ ramp.cutoff.left \in Nat
            /\ Ending(ramp.mix, moved, RampFrames[rate]) /\ Ending(ramp.cutoff, moved, RampFrames[rate])
        BY <2>1, <2>2 DEF MixSound, Ramps
      <4> QED BY <1>1, <2>4, <2>7, <4>1, <4>2 DEF Ending
    <3> QED BY <3>1, <3>2
  <2>9. MixSound(q, w, rate, before)
    BY <2>3, <2>4, <2>7, <2>8 DEF MixSound
  <2> QED BY <1>3, <2>3, <2>4, <2>7, <2>9 DEF RampSound, q
<1>4. CASE adapter.kind = "volume"
  <2>1. GainSound(ramp, cached, moved) /\ q = ramp
    BY <1>4 DEF RampSound, SmoothSound, Adopted
  <2>2. GainSound(ramp, w, before)
    <3>1. CASE w = cached
      BY <1>4, <2>1, <3>1
    <3>2. CASE w # cached
      BY <1>1, <1>4, <2>1, <3>2, VolumeStarts DEF GainSound
    <3> QED BY <3>1, <3>2
  <2> HIDE DEF q
  <2> QED BY <1>4, <2>1, <2>2 DEF RampSound, q
<1> QED BY <1>1, <1>2, <1>3, <1>4

RampsGo ==
  KeepsOnTheWay /\ (moved' >= Arrived' => Applies(ramp', adapter'.cached, adapter'.rate))

\* What a step does to ramps and counts is what it is to keep.
LEMMA RampsFollow ==
  ASSUME AdapterSound, AdapterSound', adapter'.kind = adapter.kind,
         RampSound(ramp', adapter'.cached, adapter'.rate, moved'),
         \/ adapter.kind = "crossfeed" /\ adapter'.rate # adapter.rate
         \/ adapter.kind = "volume" /\ moved' = 0
         \/ Between(ramp', ramp, adapter'.cached, adapter.rate)
  PROVE  SmoothSound' /\ RampsGo
<1>1. SmoothSound'
  BY DEF SmoothSound, RampSound
<1>2. KeepsOnTheWay
  <2>1. adapter.kind \in {"equalizer", "crossfeed", "volume"}
    BY WishTypes DEF AdapterSound
  <2>2. CASE adapter.kind = "equalizer"
    BY <2>2 DEF KeepsOnTheWay
  <2>3. CASE adapter.kind = "crossfeed"
    BY <2>3 DEF KeepsOnTheWay, Between
  <2>4. CASE adapter.kind = "volume"
    BY <2>4 DEF KeepsOnTheWay, Between
  <2> QED BY <2>1, <2>2, <2>3, <2>4
<1>3. ASSUME moved' >= Arrived' PROVE Applies(ramp', adapter'.cached, adapter'.rate)
  <2>1. /\ adapter'.cached \in Wishes[adapter.kind] /\ adapter'.rate \in StageRates
        /\ moved' \in 0..VolumeFrames
    BY DEF AdapterSound
  <2>2. moved' >= FadeOf(adapter.kind, adapter'.rate)
    BY <1>3 DEF Arrived
  <2> QED BY <2>1, <2>2, RampsEnd
<1> QED BY <1>1, <1>2, <1>3 DEF RampsGo

\* Changing the fields of the adapter that change.
LEMMA AdapterFields ==
  ASSUME AdapterSound, NEW c, NEW r, NEW p
  PROVE  /\ [adapter EXCEPT !.cached = c]
            = [kind |-> adapter.kind, cached |-> c, rate |-> adapter.rate, phase |-> adapter.phase]
         /\ [adapter EXCEPT !.phase = p]
            = [kind |-> adapter.kind, cached |-> adapter.cached, rate |-> adapter.rate, phase |-> p]
         /\ [adapter EXCEPT !.phase = p, !.rate = r]
            = [kind |-> adapter.kind, cached |-> adapter.cached, rate |-> r, phase |-> p]
<1> DEFINE k == adapter.kind
           d == adapter.cached
           s == adapter.rate
           f == adapter.phase
           a == [adapter EXCEPT !.phase = p]
<1>1. adapter = [kind |-> k, cached |-> d, rate |-> s, phase |-> f]
  BY DEF AdapterSound
<1> HIDE DEF k, d, s, f
<1>2. [adapter EXCEPT !.cached = c] = [kind |-> k, cached |-> c, rate |-> s, phase |-> f]
  BY <1>1
<1>3. a = [kind |-> k, cached |-> d, rate |-> s, phase |-> p]
  BY <1>1
<1> HIDE DEF a
<1>4. [a EXCEPT !.rate = r] = [kind |-> k, cached |-> d, rate |-> r, phase |-> p]
  BY <1>3
<1> QED BY <1>2, <1>3, <1>4 DEF k, d, s, f, a

LEMMA SmoothStarts == SmoothInit => SmoothSound
<1> SUFFICES ASSUME SmoothInit PROVE SmoothSound
  OBVIOUS
<1>1. PICK kind \in DOMAIN Wishes, rate \in StageRates :
        /\ wish \in Wishes[kind]
        /\ adapter = [kind |-> kind, cached |-> wish, rate |-> rate, phase |-> "processing"]
        /\ ramp = Fresh(kind, wish, rate)
        /\ moved = IF kind = "volume" THEN 0 ELSE MaxMoved
  BY DEF SmoothInit
<1>2. VolumeFrames \in Nat \ {0} /\ Within[VolumeFrames] \in Nat
  BY WithinHalves, SmoothAssumption
<1>3. /\ adapter.kind = kind /\ adapter.cached = wish /\ adapter.rate = rate
      /\ moved \in 0..VolumeFrames /\ AdapterSound
  BY <1>1, <1>2 DEF AdapterSound, MaxMoved
<1>4. kind \in {"equalizer", "crossfeed", "volume"}
  BY <1>1, WishTypes
<1>5. CASE kind = "equalizer"
  BY <1>1, <1>3, <1>5 DEF SmoothSound, RampSound, Fresh, BankSound, Ending
<1>6. CASE kind = "crossfeed"
  <2>1. wish.mix \in Int /\ Design(wish, rate) \in Int
    BY <1>1, <1>6, WishTypes
  <2>2. ramp = [mix |-> At(wish.mix), cutoff |-> At(Design(wish, rate))]
    BY <1>1, <1>6 DEF Fresh
  <2>3. MixSound(ramp, wish, rate, moved)
    BY <2>1, <2>2, AtSound DEF MixSound, Ending
  <2> QED BY <1>3, <1>6, <2>3 DEF SmoothSound, RampSound
<1>7. CASE kind = "volume"
  <2>1. ramp = [gain |-> FullVolume] /\ moved = 0
    BY <1>1, <1>7 DEF Fresh
  <2>2. FullVolume \in 0..Within[VolumeFrames]
    BY <1>2, SmoothAssumption DEF FullVolume
  <2>3. GainSound(ramp, wish, 0)
    BY <1>1, <1>3, <1>7, <2>1, <2>2, VolumeStarts
  <2> QED BY <1>3, <1>7, <2>1, <2>3 DEF SmoothSound, RampSound
<1> QED BY <1>4, <1>5, <1>6, <1>7

LEMMA SmoothProcessSound ==
  ASSUME SmoothSound, NEW adopts \in BOOLEAN, NEW frames \in {0, 1}, NEW stereo \in BOOLEAN,
         SmoothProcess(adopts, frames, stereo)
  PROVE  SmoothSound' /\ RampsGo
<1> DEFINE now == IF adopts THEN wish ELSE adapter.cached
           r == IF adopts THEN Adopted(now) ELSE ramp
           before == IF adopts /\ (adapter.kind = "equalizer" \/ now # adapter.cached) THEN 0 ELSE moved
           works == frames = 1 /\ Works(now, stereo)
           kind == adapter.kind
           rate == adapter.rate
<1>1. /\ AdapterSound /\ now \in Wishes[kind] /\ adapter.cached \in Wishes[kind]
      /\ wish \in Wishes[kind] /\ rate \in StageRates /\ VolumeFrames \in Nat
      /\ moved \in 0..VolumeFrames /\ before \in 0..VolumeFrames
  BY SmoothAssumption DEF SmoothSound, AdapterSound
<1>2. /\ adapter' = [adapter EXCEPT !.cached = now] /\ wish' = wish
      /\ ramp' = IF works THEN Advanced(r, now) ELSE r
      /\ moved' = IF works /\ before < MaxMoved THEN before + 1 ELSE before
  BY DEF SmoothProcess
<1>3. /\ RampSound(r, now, rate, before)
      /\ kind = "crossfeed" => r.mix.current = ramp.mix.current /\ r.cutoff.current = ramp.cutoff.current
      /\ kind = "volume" => r.gain = ramp.gain
  <2>1. CASE adopts
    BY <1>1, <2>1, AdoptedSound
  <2>2. CASE ~adopts
    BY <2>2 DEF SmoothSound
  <2> QED BY <2>1, <2>2
<1> HIDE DEF now, r, before, works
<1>4. /\ adapter'.kind = kind /\ adapter'.cached = now /\ adapter'.rate = rate
      /\ adapter' = [kind |-> kind, cached |-> now, rate |-> rate, phase |-> adapter.phase]
  BY <1>1, <1>2, AdapterFields
<1>5. CASE works
  <2>1. ramp' = Advanced(r, now) /\ moved' = More(before)
    BY <1>2, <1>5 DEF More
  <2>2. /\ RampSound(ramp', now, rate, moved') /\ Between(ramp', r, now, rate)
        /\ moved' \in 0..VolumeFrames
    BY <1>1, <1>3, <2>1, AdvancedSound
  <2>3. Between(ramp', ramp, now, rate)
    BY <1>3, <2>2 DEF Between
  <2>4. AdapterSound'
    BY <1>1, <1>2, <1>4, <2>2 DEF AdapterSound
  <2> QED BY <1>1, <1>4, <2>2, <2>3, <2>4, RampsFollow
<1>6. CASE ~works
  <2>1. ramp' = r /\ moved' = before
    BY <1>2, <1>6
  <2>2. AdapterSound'
    BY <1>1, <1>2, <1>4, <2>1 DEF AdapterSound
  <2>3. Between(ramp', ramp, now, rate)
    BY <1>1, <1>3, <2>1, BetweenItself DEF SmoothSound
  <2> QED BY <1>1, <1>3, <1>4, <2>1, <2>2, <2>3, RampsFollow
<1> QED BY <1>5, <1>6

LEMMA SmoothFinishSound ==
  ASSUME SmoothSound, NEW frames \in {0, 1}, NEW stereo \in BOOLEAN, SmoothFinish(frames, stereo)
  PROVE  SmoothSound' /\ RampsGo
<1> DEFINE cached == adapter.cached
           kind == adapter.kind
           rate == adapter.rate
<1>1. /\ AdapterSound /\ cached \in Wishes[kind] /\ rate \in StageRates
      /\ moved \in 0..VolumeFrames /\ RampSound(ramp, cached, rate, moved)
  BY DEF SmoothSound, AdapterSound
<1>2. PICK p : adapter' = [adapter EXCEPT !.phase = p] /\ wish' = wish
  BY DEF SmoothFinish
<1>3. \/ ramp' = Advanced(ramp, cached) /\ moved' = More(moved)
      \/ ramp' = ramp /\ moved' = moved
  BY DEF SmoothFinish, More
<1>4. /\ adapter'.kind = kind /\ adapter'.cached = cached /\ adapter'.rate = rate
      /\ adapter' = [kind |-> kind, cached |-> cached, rate |-> rate, phase |-> p]
  BY <1>1, <1>2, AdapterFields
<1>5. /\ RampSound(ramp', cached, rate, moved') /\ Between(ramp', ramp, cached, rate)
      /\ moved' \in 0..VolumeFrames
  <2>1. CASE ramp' = Advanced(ramp, cached) /\ moved' = More(moved)
    BY <1>1, <2>1, AdvancedSound
  <2>2. CASE ramp' = ramp /\ moved' = moved
    BY <1>1, <2>2, BetweenItself
  <2> QED BY <1>3, <2>1, <2>2
<1>6. AdapterSound'
  BY <1>1, <1>2, <1>4, <1>5 DEF AdapterSound
<1> QED BY <1>1, <1>4, <1>5, <1>6, RampsFollow

\* A ramp that lands is where it was going.
LEMMA LandedSound ==
  ASSUME NEW r \in Ramps
  PROVE  /\ StepsSound(Landed(r)) /\ BlendSound(Landed(r)) /\ Landed(r).target = r.target
         /\ Landed(r).left = 0 /\ OnTheWay(Landed(r).current, r.current, r.target)
<1>1. r.target \in Int /\ r.current \in Int
  BY DEF Ramps
<1>2. OnTheWay(r.target, r.current, r.target)
  BY <1>1 DEF OnTheWay
<1> QED BY <1>1, <1>2, AtSound DEF Landed

LEMMA SmoothResetSound ==
  ASSUME SmoothSound, SmoothReset
  PROVE  SmoothSound' /\ RampsGo
<1> DEFINE cached == adapter.cached
           kind == adapter.kind
           rate == adapter.rate
<1>1. /\ AdapterSound /\ cached \in Wishes[kind] /\ rate \in StageRates
      /\ VolumeFrames \in Nat /\ RampSound(ramp, cached, rate, moved)
      /\ kind \in {"equalizer", "crossfeed", "volume"}
  BY SmoothAssumption, WishTypes DEF SmoothSound, AdapterSound
<1>2. /\ adapter' = [adapter EXCEPT !.phase = "processing"] /\ wish' = wish
      /\ moved' = IF kind = "volume" THEN 0 ELSE VolumeFrames
  BY DEF SmoothReset, MaxMoved
<1>3. /\ adapter'.kind = kind /\ adapter'.cached = cached /\ adapter'.rate = rate
      /\ adapter' = [kind |-> kind, cached |-> cached, rate |-> rate, phase |-> "processing"]
  BY <1>1, <1>2, AdapterFields
<1>4. AdapterSound'
  BY <1>1, <1>2, <1>3 DEF AdapterSound
<1>5. CASE kind = "equalizer"
  <2>1. ramp' = [ramp EXCEPT !.bank = ramp.target, !.left = 0]
    BY <1>5 DEF SmoothReset
  <2> DEFINE b == ramp.bank
             t == ramp.target
             n == ramp.left
             d == [ramp EXCEPT !.bank = t]
  <2>2. ramp = [bank |-> b, target |-> t, left |-> n] /\ t = Bank(cached, rate)
    BY <1>1, <1>5 DEF RampSound, BankSound
  <2>3. ramp' = [ramp EXCEPT !.bank = t, !.left = 0]
    BY <2>1
  <2> HIDE DEF b, t, n
  <2>4. d = [bank |-> t, target |-> t, left |-> n]
    BY <2>2
  <2> HIDE DEF d
  <2>5. [d EXCEPT !.left = 0] = [bank |-> t, target |-> t, left |-> 0]
    BY <2>4
  <2>6. ramp' = [bank |-> t, target |-> t, left |-> 0]
    BY <2>3, <2>5 DEF d
  <2>7. BankSound(ramp', cached, rate, moved')
    BY <2>2, <2>6 DEF BankSound, Ending
  <2> QED BY <1>1, <1>3, <1>4, <1>5, <2>7, RampsFollow DEF RampSound, Between
<1>6. CASE kind = "crossfeed"
  <2> DEFINE m == Landed(ramp.mix)
             c == Landed(ramp.cutoff)
  <2>1. ramp' = [mix |-> m, cutoff |-> c]
    BY <1>6 DEF SmoothReset
  <2>2. /\ ramp.mix \in Ramps /\ ramp.mix.target = cached.mix
        /\ ramp.cutoff \in Ramps /\ ramp.cutoff.target = Design(cached, rate)
    BY <1>1, <1>6 DEF RampSound, MixSound, StepsSound, BlendSound
  <2>3. /\ StepsSound(m) /\ m.target = cached.mix /\ m.left = 0
        /\ OnTheWay(m.current, ramp.mix.current, cached.mix)
        /\ BlendSound(c) /\ c.target = Design(cached, rate) /\ c.left = 0
        /\ OnTheWay(c.current, ramp.cutoff.current, Design(cached, rate))
    BY <2>2, LandedSound
  <2> HIDE DEF m, c
  <2>4. MixSound(ramp', cached, rate, moved')
    BY <2>1, <2>3 DEF MixSound, Ending
  <2>5. Between(ramp', ramp, cached, rate)
    BY <1>6, <2>1, <2>3 DEF Between
  <2>6. RampSound(ramp', cached, rate, moved')
    BY <1>6, <2>4 DEF RampSound
  <2> QED BY <1>1, <1>3, <1>4, <2>5, <2>6, RampsFollow
<1>7. CASE kind = "volume"
  <2>1. ramp' = [gain |-> cached.volume] /\ moved' = 0
    BY <1>2, <1>7 DEF SmoothReset
  <2>2. cached.volume \in 0..Within[VolumeFrames]
    BY <1>1, <1>7, WishTypes DEF AdapterSound
  <2>3. GainSound(ramp', cached, 0)
    BY <1>1, <1>7, <2>1, <2>2, VolumeStarts
  <2>4. RampSound(ramp', cached, rate, moved')
    BY <1>7, <2>1, <2>3 DEF RampSound
  <2> QED BY <1>1, <1>3, <1>4, <1>7, <2>1, <2>4, RampsFollow
<1> QED BY <1>1, <1>5, <1>6, <1>7

LEMMA SmoothSetRateSound ==
  ASSUME SmoothSound, NEW new \in StageRates, SmoothSetRate(new)
  PROVE  SmoothSound' /\ RampsGo
<1> DEFINE cached == adapter.cached
           kind == adapter.kind
           rate == adapter.rate
<1>1. /\ AdapterSound /\ cached \in Wishes[kind] /\ rate \in StageRates
      /\ VolumeFrames \in Nat /\ RampSound(ramp, cached, rate, moved)
      /\ kind \in {"equalizer", "crossfeed", "volume"} /\ moved \in 0..VolumeFrames
  BY SmoothAssumption, WishTypes DEF SmoothSound, AdapterSound
<1>2. /\ adapter' = [adapter EXCEPT !.phase = "processing", !.rate = new] /\ wish' = wish
      /\ moved' = IF kind = "volume" THEN moved ELSE VolumeFrames
  BY DEF SmoothSetRate, MaxMoved
<1>3. /\ adapter'.kind = kind /\ adapter'.cached = cached /\ adapter'.rate = new
      /\ adapter' = [kind |-> kind, cached |-> cached, rate |-> new, phase |-> "processing"]
  BY <1>1, <1>2, AdapterFields
<1>4. AdapterSound'
  <2>1. moved' \in 0..VolumeFrames
    BY <1>1, <1>2
  <2> QED BY <1>1, <1>2, <1>3, <2>1 DEF AdapterSound
<1>5. CASE kind = "equalizer"
  <2>1. ramp' = [bank |-> Bank(cached, new), target |-> Bank(cached, new), left |-> 0]
    BY <1>5 DEF SmoothSetRate, Fresh
  <2>2. BankSound(ramp', cached, new, moved')
    BY <2>1 DEF BankSound, Ending
  <2> QED BY <1>1, <1>3, <1>4, <1>5, <2>2, RampsFollow DEF RampSound, Between
<1>6. CASE kind = "crossfeed"
  <2> DEFINE m == Landed(ramp.mix)
             c == At(Design(cached, new))
  <2>1. ramp' = [mix |-> m, cutoff |-> c]
    BY <1>6 DEF SmoothSetRate
  <2>2. /\ ramp.mix \in Ramps /\ ramp.mix.target = cached.mix
        /\ ramp.cutoff \in Ramps /\ ramp.cutoff.target = Design(cached, rate)
        /\ Design(cached, new) \in Int
    BY <1>1, <1>6, WishTypes DEF AdapterSound, RampSound, MixSound, StepsSound, BlendSound
  <2>3. /\ StepsSound(m) /\ m.target = cached.mix /\ m.left = 0
        /\ OnTheWay(m.current, ramp.mix.current, cached.mix)
        /\ BlendSound(c) /\ c.target = Design(cached, new) /\ c.left = 0
        /\ c.current = Design(cached, new)
    BY <2>2, LandedSound, AtSound
  <2> HIDE DEF m, c
  <2>4. MixSound(ramp', cached, new, moved')
    BY <2>1, <2>3 DEF MixSound, Ending
  <2>5. RampSound(ramp', cached, new, moved')
    BY <1>6, <2>4 DEF RampSound
  <2>6. CASE new = rate
    <3>1. OnTheWay(c.current, ramp.cutoff.current, Design(cached, rate))
      <4>1. ramp.cutoff.current \in Int
        BY <2>2 DEF Ramps
      <4> QED BY <2>2, <2>3, <2>6, <4>1 DEF OnTheWay
    <3>2. Between(ramp', ramp, cached, rate)
      BY <1>6, <2>1, <2>3, <3>1 DEF Between
    <3> QED BY <1>1, <1>3, <1>4, <2>5, <3>2, RampsFollow
  <2>7. CASE new # rate
    BY <1>1, <1>3, <1>4, <1>6, <2>5, <2>7, RampsFollow
  <2> QED BY <2>6, <2>7
<1>7. CASE kind = "volume"
  <2>1. ramp' = ramp /\ moved' = moved
    BY <1>2, <1>7 DEF SmoothSetRate
  <2>2. RampSound(ramp', cached, new, moved')
    BY <1>1, <1>7, <2>1 DEF RampSound
  <2>3. Between(ramp', ramp, cached, rate)
    BY <1>1, <2>1, BetweenItself
  <2> QED BY <1>1, <1>3, <1>4, <2>2, <2>3, RampsFollow
<1> QED BY <1>1, <1>5, <1>6, <1>7

LEMMA SmoothPublishSound ==
  ASSUME SmoothSound, wish' \in Wishes[adapter.kind], UNCHANGED <<adapter, ramp, moved>>
  PROVE  SmoothSound' /\ RampsGo
<1>1. AdapterSound /\ AdapterSound'
  BY DEF SmoothSound, AdapterSound
<1>2. /\ adapter.cached \in Wishes[adapter.kind] /\ adapter.rate \in StageRates
      /\ RampSound(ramp, adapter.cached, adapter.rate, moved)
  BY DEF SmoothSound, AdapterSound
<1>3. Between(ramp', ramp, adapter'.cached, adapter.rate)
  BY <1>1, <1>2, BetweenItself
<1> QED BY <1>1, <1>2, <1>3, RampsFollow

\* Whatever is published, adopted, drained, bypassed or reset, and however ramps are sent
\* elsewhere on their way: equalizer, crossfeed and volume stay on the way to what they
\* adopted last, and apply exactly that once they have processed a ramp's worth of frames
\* (adapters.rs:220-235, crossfeed.rs:74-122, adapters.rs:1731-1735).
THEOREM RampsReach == SmoothSpec => RampsArrive
<1>1. SmoothInit => SmoothSound
  BY SmoothStarts
<1>2. SmoothSound /\ [SmoothNext]_smoothVars => SmoothSound' /\ RampsGo
  <2> SUFFICES ASSUME SmoothSound, [SmoothNext]_smoothVars PROVE SmoothSound' /\ RampsGo
    OBVIOUS
  <2>1. CASE SmoothPublish
    BY <2>1, SmoothPublishSound DEF SmoothPublish
  <2>2. CASE SmoothReset
    BY <2>2, SmoothResetSound
  <2>3. CASE \E adopts, stereo \in BOOLEAN, frames \in {0, 1} : SmoothProcess(adopts, frames, stereo)
    BY <2>3, SmoothProcessSound
  <2>4. CASE \E stereo \in BOOLEAN, frames \in {0, 1} : SmoothFinish(frames, stereo)
    BY <2>4, SmoothFinishSound
  <2>5. CASE \E rate \in StageRates : SmoothSetRate(rate)
    BY <2>5, SmoothSetRateSound
  <2>6. CASE UNCHANGED smoothVars
    <3>1. wish' \in Wishes[adapter.kind] /\ UNCHANGED <<adapter, ramp, moved>>
      BY <2>6 DEF smoothVars, SmoothSound, AdapterSound
    <3> QED BY <3>1, SmoothPublishSound
  <2> QED BY <2>1, <2>2, <2>3, <2>4, <2>5, <2>6 DEF SmoothNext
<1>3. SmoothSound /\ [SmoothNext]_smoothVars =>
        [KeepsOnTheWay /\ (moved' >= Arrived' => Applies(ramp', adapter'.cached, adapter'.rate))]_smoothVars
  BY <1>2 DEF RampsGo
<1> QED BY <1>1, <1>2, <1>3, PTL DEF SmoothSpec, RampsArrive

-----------------------------------------------------------------------------
(* The saturation core.                                                    *)

CoreParts == {"quality", "highpass", "rate", "hpf", "filter", "history", "lines", "index"}
Samples == [frame : Nat, after : Nat, high : BOOLEAN]

\* Input frame p, and the residual of sample k.
InputAt(list, p) == IF p > 0 THEN list[p] ELSE 0
DirectResidual(sample) == PointBetween(sample, sample, 0, 1)

\* A ring of that size that holds frame p, of the last ones up to n, at its place.
HoldsLast(cells, list, size, n) ==
  /\ DOMAIN cells = 0..size - 1
  /\ \A p \in n - size + 1..n : cells[(p - 1) % size] = InputAt(list, p)

\* The newest residual first: those of samples a + 1 to n, the first of which has no predecessor.
ResidualAt(list, a, n, q, i) ==
  LET k == n - ((i - 1) \div Ratios[q])
  IN IF k > a
     THEN PointBetween(list[IF k = a + 1 THEN k ELSE k - 1], list[k],
                       Ratios[q] - ((i - 1) % Ratios[q]), Ratios[q])
     ELSE NoResidual

\* A filter that was fed these samples.
Fed(filter, q, list, a, n) ==
  /\ DOMAIN filter = {"started", "previous", "index", "history"}
  /\ filter.started \in BOOLEAN /\ (filter.started <=> n > a) /\ (n > a => filter.previous = list[n])
  /\ filter.index \in 0..Taps[q] - 1 /\ DOMAIN filter.history = 0..2 * Taps[q] - 1
  /\ \A i \in 0..Taps[q] - 1 : filter.history[i] = filter.history[i + Taps[q]]
  /\ \A i \in 1..Taps[q] :
       filter.history[filter.index + i - 1] = ResidualAt(list, a, n, q, i)

\* A history of the last of these samples.
Retains(history, list) ==
  /\ DOMAIN history = {"ring", "next", "len"} /\ DOMAIN history.ring = 0..HistoryFrames - 1
  /\ history.next = Len(list) % HistoryFrames
  /\ history.len = IF Len(list) < HistoryFrames THEN Len(list) ELSE HistoryFrames
  /\ \A k \in Len(list) - history.len + 1..Len(list) :
       history.ring[(k - 1) % HistoryFrames] = list[k]

\* A delay line of the residuals of the samples that belong to the last inputs.
DelaysResiduals(cells, list, n) ==
  \A p \in n - LatencyFrames + 1..n :
    Len(list) - n + p > 0 =>
      cells[(p - 1) % LatencyFrames] = DirectResidual(list[Len(list) - n + p])

CoreTyped ==
  /\ DOMAIN core = CoreParts /\ core.quality \in CoreQualities /\ core.highpass \in BOOLEAN
  /\ core.hpf \in Nat /\ inputs \in Seq(Nat) /\ samples \in Seq(Samples)
  /\ Len(samples) <= Len(inputs)
  /\ ~core.highpass => \A k \in 1..Len(samples) :
                         samples[k] = Sample(inputs[Len(inputs) - Len(samples) + k])
LinesHold ==
  /\ core.index = Len(inputs) % LatencyFrames
  /\ DOMAIN core.lines = {"raw", "dry", "delta"} /\ DOMAIN core.lines.delta = 0..LatencyFrames - 1
  /\ HoldsLast(core.lines.raw, inputs, LatencyFrames, Len(inputs))
  /\ HoldsLast(core.lines.dry, inputs, LatencyFrames, Len(inputs))
ResidualsHold ==
  ~behind => IF Oversamples(core.quality)
             THEN Fed(core.filter, core.quality, samples, 0, Len(samples))
             ELSE DelaysResiduals(core.lines.delta, samples, Len(inputs))
EmittedHolds ==
  /\ emitted # Nothing => emitted.raw = InputAt(inputs, Age) /\ emitted.dry = InputAt(inputs, Age)
  /\ emitted.residual # <<>> /\ ~behind =>
       LET position == Len(samples) - LatencyFrames
       IN IF Oversamples(core.quality)
          THEN emitted.residual = [i \in 1..Taps[core.quality] |->
                                     ResidualAt(samples, 0, Len(samples), core.quality, i)]
          ELSE position > 0 => emitted.residual = <<DirectResidual(samples[position])>>

CoreInv == CoreTyped /\ LinesHold /\ Retains(core.history, samples) /\ ResidualsHold /\ EmittedHolds

SaturationSpec == CoreInit /\ [][CoreNext]_coreVars

\* Of two multiples the greater has the greater factor.
LEMMA FactorLess ==
  ASSUME NEW d \in Nat \ {0}, NEW x \in Int, NEW y \in Int, d * x < d * y
  PROVE  x < y
<1> SUFFICES ASSUME y <= x PROVE d * y <= d * x
  <2>1. d * x \in Int /\ d * y \in Int
    OBVIOUS
  <2> QED BY <2>1
<1>1. x - y \in Nat /\ d * (x - y) \in Nat
  OBVIOUS
<1>2. d * x = d * y + d * (x - y)
  OBVIOUS
<1>3. d * x \in Int /\ d * y \in Int
  OBVIOUS
<1> QED BY <1>1, <1>2, <1>3

\* The quotient of an integer, rounded down, and its remainder.
LEMMA Floor ==
  ASSUME NEW a \in Int, NEW d \in Nat \ {0}
  PROVE  /\ a \div d \in Int /\ a % d \in 0..d - 1
         /\ a = d * (a \div d) + (a % d)
OBVIOUS

LEMMA FloorIs ==
  ASSUME NEW d \in Nat \ {0}, NEW q \in Int, NEW r \in 0..d - 1, NEW a \in Int, a = d * q + r
  PROVE  a \div d = q /\ a % d = r
<1> DEFINE k == a \div d
           m == a % d
<1>1. k \in Int /\ m \in 0..d - 1 /\ a = d * k + m
  BY Floor
<1> HIDE DEF k, m
<1>2. d * k \in Int /\ d * q \in Int /\ d * (k + 1) = d * k + d /\ d * (q + 1) = d * q + d
  BY <1>1
<1>3. d * k < d * (q + 1) /\ d * q < d * (k + 1)
  BY <1>1, <1>2
<1>4. k < q + 1
  BY <1>1, <1>3, FactorLess
<1>5. q < k + 1
  BY <1>1, <1>3, FactorLess
<1>6. k = q
  BY <1>1, <1>4, <1>5
<1>7. m = r
  BY <1>1, <1>2, <1>6
<1> QED BY <1>6, <1>7 DEF k, m

\* Positions fewer than d apart have places of their own in a ring of d; a place moves on
\* with its position.
LEMMA PlacesApart ==
  ASSUME NEW d \in Nat \ {0}, NEW a \in Int, NEW b \in Int, a < b, b - a < d
  PROVE  a % d # b % d
<1> DEFINE x == a \div d
           y == b \div d
           r == a % d
           s == b % d
<1>1. x \in Int /\ y \in Int /\ r \in 0..d - 1 /\ s \in 0..d - 1 /\ a = d * x + r /\ b = d * y + s
  BY Floor
<1> HIDE DEF x, y, r, s
<1> SUFFICES ASSUME r = s PROVE FALSE
  BY DEF r, s
<1>2. d * x \in Int /\ d * y \in Int /\ d * (x + 1) = d * x + d
  BY <1>1
<1>3. d * x < d * y /\ d * y < d * (x + 1)
  BY <1>1, <1>2
<1>4. x < y
  BY <1>1, <1>3, FactorLess
<1>5. y < x + 1
  <2> DEFINE z == x + 1
  <2>1. z \in Int /\ d * y < d * z
    BY <1>1, <1>3
  <2> HIDE DEF z
  <2>2. y < z
    BY <1>1, <2>1, FactorLess
  <2> QED BY <2>2 DEF z
<1> QED BY <1>1, <1>4, <1>5

LEMMA PlaceAfter ==
  ASSUME NEW d \in Nat \ {0}, NEW a \in Int, NEW x \in Int
  PROVE  ((a % d) + x) % d = (a + x) % d
<1> DEFINE k == a \div d
           r == a % d
           e == r + x
           m == e \div d
           s == e % d
           q == k + m
           b == a + x
<1>1. k \in Int /\ r \in 0..d - 1 /\ a = d * k + r
  BY Floor
<1> HIDE DEF k, r
<1>2. e \in Int
  BY <1>1
<1> HIDE DEF e
<1>3. m \in Int /\ s \in 0..d - 1 /\ e = d * m + s
  BY <1>2, Floor
<1> HIDE DEF m, s
<1>4. q \in Int /\ b \in Int /\ b = d * q + s
  <2>1. d * k \in Int /\ d * m \in Int /\ d * (k + m) = d * k + d * m
    BY <1>1, <1>3
  <2> QED BY <1>1, <1>2, <1>3, <2>1 DEF e
<1> HIDE DEF q, b
<1>5. b % d = s
  BY <1>3, <1>4, FloorIs
<1> QED BY <1>5 DEF b, s, e, r

\* What is known of the constants.
LEMMA CoreSizes ==
  /\ LatencyFrames \in Nat \ {0} /\ HistoryFrames \in Nat \ {0} /\ HistoryFrames >= LatencyFrames
  /\ \A q \in CoreQualities :
       /\ Ratios[q] \in Nat \ {0} /\ Taps[q] \in Nat /\ (Oversamples(q) <=> Taps[q] # 0)
       /\ Taps[q] # 0 => /\ Taps[q] = 2 * Ratios[q] * LatencyFrames + 1
                         /\ (HistoryFrames - 1) * Ratios[q] >= Taps[q]
BY CoreAssumption DEF Oversamples

\* An entry of a ring that is overwritten.
Written(after, cells, i, v) ==
  /\ DOMAIN after = DOMAIN cells /\ after[i] = v
  /\ \A j \in DOMAIN cells : j # i => after[j] = cells[j]

LEMMA RingPlace ==
  ASSUME NEW size \in Nat \ {0}, NEW n \in Nat, NEW p \in n - size + 2..n + 1
  PROVE  /\ (p - 1) % size \in 0..size - 1 /\ (p = n + 1 => (p - 1) % size = n % size)
         /\ p # n + 1 => (p - 1) % size # n % size /\ p \in n - size + 1..n
<1>1. p \in Int /\ p - 1 \in Int
  OBVIOUS
<1>2. (p - 1) % size \in 0..size - 1
  BY <1>1
<1>3. p # n + 1 => (p - 1) % size # n % size
  <2> SUFFICES ASSUME p # n + 1 PROVE (p - 1) % size # n % size
    OBVIOUS
  <2> DEFINE x == p - 1
  <2>1. x \in Int /\ n \in Int /\ x < n /\ n - x < size
    OBVIOUS
  <2> HIDE DEF x
  <2>2. x % size # n % size
    BY <2>1, PlacesApart
  <2> QED BY <2>2 DEF x
<1> QED BY <1>1, <1>2, <1>3

\* The next frame of a stream in a delay line of the last ones.
LEMMA LineWrites ==
  ASSUME NEW size \in Nat \ {0}, NEW list \in Seq(Nat), NEW n, n = Len(list), NEW cells,
         HoldsLast(cells, list, size, n), NEW v \in Nat, NEW g, Written(g, cells, n % size, v)
  PROVE  HoldsLast(g, Append(list, v), size, n + 1)
<1> DEFINE longer == Append(list, v)
           m == n + 1
<1>1. n \in Nat /\ Len(longer) = m /\ m \in Nat /\ longer[m] = v
      /\ \A i \in 1..n : longer[i] = list[i]
  OBVIOUS
<1> HIDE DEF longer
<1>2. DOMAIN cells = 0..size - 1 /\ DOMAIN g = 0..size - 1
  BY DEF HoldsLast, Written
<1>3. ASSUME NEW p \in n - size + 2..n + 1 PROVE g[(p - 1) % size] = InputAt(longer, p)
  <2> DEFINE i == (p - 1) % size
  <2>1. /\ i \in 0..size - 1 /\ (p = n + 1 => i = n % size)
        /\ p # n + 1 => i # n % size /\ p \in n - size + 1..n
    BY <1>1, RingPlace
  <2>2. p # n + 1 => cells[i] = InputAt(list, p)
    BY <2>1 DEF HoldsLast
  <2> HIDE DEF i
  <2>3. CASE p = n + 1
    <3>1. g[i] = v
      BY <2>1, <2>3 DEF Written
    <3>2. InputAt(longer, p) = v
      BY <1>1, <2>3 DEF InputAt
    <3> QED BY <3>1, <3>2 DEF i
  <2>4. CASE p # n + 1
    <3>1. g[i] = cells[i]
      BY <1>2, <2>1, <2>4 DEF Written
    <3>2. InputAt(longer, p) = InputAt(list, p)
      <4>1. p \in Int /\ (p > 0 => p \in 1..n)
        BY <1>1, <2>1, <2>4
      <4> QED BY <1>1, <4>1 DEF InputAt
    <3> QED BY <2>2, <2>4, <3>1, <3>2 DEF i
  <2> QED BY <2>3, <2>4
<1>4. ASSUME NEW p \in m - size + 1..m PROVE g[(p - 1) % size] = InputAt(longer, p)
  <2>1. p \in n - size + 2..n + 1
    BY <1>1
  <2> QED BY <1>3, <2>1
<1> HIDE DEF m
<1>5. HoldsLast(g, longer, size, m)
  BY <1>2, <1>4 DEF HoldsLast
<1> QED BY <1>5 DEF longer, m

\* The residual of the next sample in the delay line.
LEMMA DelayWrites ==
  ASSUME NEW list \in Seq(Samples), NEW n \in Nat, NEW cells, DOMAIN cells = 0..LatencyFrames - 1,
         DelaysResiduals(cells, list, n), NEW s \in Samples, NEW g,
         Written(g, cells, n % LatencyFrames, DirectResidual(s))
  PROVE  DelaysResiduals(g, Append(list, s), n + 1)
<1> DEFINE longer == Append(list, s)
           m == n + 1
           k == Len(list)
           size == LatencyFrames
<1>1. k \in Nat /\ Len(longer) = k + 1 /\ longer[k + 1] = s /\ size \in Nat \ {0}
      /\ \A i \in 1..k : longer[i] = list[i]
  BY CoreSizes
<1> HIDE DEF longer, k
<1>2. ASSUME NEW p \in m - size + 1..m, k + 1 - m + p > 0
      PROVE  g[(p - 1) % size] = DirectResidual(longer[k + 1 - m + p])
  <2> DEFINE i == (p - 1) % size
             x == k + 1 - m + p
  <2>0. p \in n - size + 2..n + 1 /\ p \in Int
    BY <1>1
  <2>1. /\ i \in 0..size - 1 /\ (p = n + 1 => i = n % size)
        /\ p # n + 1 => i # n % size /\ p \in n - size + 1..n
    <3> HIDE DEF size
    <3> QED BY <1>1, <2>0, RingPlace
  <2>2. x = k - n + p /\ x \in Int /\ x > 0
    BY <1>1, <1>2, <2>0
  <2>3. p # n + 1 => cells[i] = DirectResidual(list[x])
    <3> SUFFICES ASSUME p # n + 1 PROVE cells[i] = DirectResidual(list[x])
      OBVIOUS
    <3>1. p \in n - LatencyFrames + 1..n /\ Len(list) - n + p > 0
      BY <2>1, <2>2 DEF k
    <3>2. cells[(p - 1) % LatencyFrames] = DirectResidual(list[Len(list) - n + p])
      BY <3>1 DEF DelaysResiduals
    <3> QED BY <2>2, <3>2 DEF k
  <2> HIDE DEF i
  <2>4. CASE p = n + 1
    <3>1. g[i] = DirectResidual(s)
      BY <2>1, <2>4 DEF Written
    <3>2. longer[x] = s
      BY <1>1, <2>2, <2>4
    <3> QED BY <3>1, <3>2 DEF i
  <2>5. CASE p # n + 1
    <3>1. g[i] = cells[i]
      BY <2>1, <2>5 DEF Written
    <3>2. longer[x] = list[x]
      <4>1. x \in 1..k
        BY <1>1, <2>1, <2>2, <2>5
      <4> QED BY <1>1, <4>1
    <3> QED BY <2>3, <2>5, <3>1, <3>2 DEF i
  <2> QED BY <2>4, <2>5
<1> HIDE DEF m
<1>3. DelaysResiduals(g, longer, m)
  <2>1. ASSUME NEW p \in m - LatencyFrames + 1..m, Len(longer) - m + p > 0
        PROVE  g[(p - 1) % LatencyFrames] = DirectResidual(longer[Len(longer) - m + p])
    <3>1. Len(longer) = k + 1 /\ k + 1 - m + p > 0 /\ k + 1 - m + p = Len(longer) - m + p
      BY <1>1, <2>1 DEF m
    <3> QED BY <1>2, <3>1
  <2> QED BY <2>1 DEF DelaysResiduals
<1> QED BY <1>3 DEF longer, m

\* The next sample in the history.
LEMMA HistoryWrites ==
  ASSUME NEW list \in Seq(Samples), NEW h, Retains(h, list), NEW s \in Samples
  PROVE  Retains(Recorded(h, s), Append(list, s))
<1> DEFINE longer == Append(list, s)
           n == Len(list)
           m == n + 1
           size == HistoryFrames
           g == [h.ring EXCEPT ![h.next] = s]
           len == IF h.len < HistoryFrames THEN h.len + 1 ELSE HistoryFrames
           r == Recorded(h, s)
<1>1. n \in Nat /\ Len(longer) = m /\ m \in Nat /\ longer[m] = s /\ size \in Nat \ {0}
      /\ \A i \in 1..n : longer[i] = list[i]
  BY CoreSizes
<1>2. /\ DOMAIN h.ring = 0..size - 1 /\ h.next = n % size
      /\ h.len = IF n < size THEN n ELSE size
      /\ \A k \in n - h.len + 1..n : h.ring[(k - 1) % size] = list[k]
  BY DEF Retains
<1>3. /\ DOMAIN r = {"ring", "next", "len"} /\ r.ring = g /\ r.next = (h.next + 1) % size
      /\ r.len = len
  BY DEF Recorded
<1> HIDE DEF longer, n, r, size
<1>4. len = (IF m < size THEN m ELSE size) /\ len \in 0..m /\ len <= size
  BY <1>1, <1>2 DEF size
<1>5. (h.next + 1) % size = m % size
  <2> DEFINE one == 1
  <2>1. n \in Int /\ one \in Int
    BY <1>1
  <2> HIDE DEF one
  <2>2. ((n % size) + one) % size = (n + one) % size
    BY <1>1, <2>1, PlaceAfter
  <2> QED BY <1>2, <2>2 DEF one
<1>6. n % size \in 0..size - 1
  BY <1>1
<1>7. Written(g, h.ring, n % size, s)
  BY <1>2, <1>6 DEF Written
<1> HIDE DEF g, len
<1>8. ASSUME NEW k \in m - len + 1..m PROVE g[(k - 1) % size] = longer[k]
  <2> DEFINE i == (k - 1) % size
  <2>0. k \in n - size + 2..n + 1 /\ k \in Int /\ k >= 1
    BY <1>1, <1>4
  <2>1. /\ i \in 0..size - 1 /\ (k = n + 1 => i = n % size)
        /\ k # n + 1 => i # n % size /\ k \in n - size + 1..n
    BY <1>1, <2>0, RingPlace
  <2>2. k # n + 1 => h.ring[i] = list[k] /\ k \in 1..n
    <3> SUFFICES ASSUME k # n + 1 PROVE k \in n - h.len + 1..n /\ k \in 1..n
      BY <1>2
    <3> QED BY <1>1, <1>2, <1>4, <2>0, <2>1
  <2> HIDE DEF i
  <2>3. CASE k = n + 1
    BY <1>1, <1>7, <2>1, <2>3 DEF Written, i
  <2>4. CASE k # n + 1
    BY <1>1, <1>2, <1>7, <2>1, <2>2, <2>4 DEF Written, i
  <2> QED BY <2>3, <2>4
<1>9. Retains(r, longer)
  BY <1>1, <1>2, <1>3, <1>4, <1>5, <1>7, <1>8 DEF Retains, Written, size
<1> QED BY <1>9 DEF r, longer

\* A filter's state, its window written twice, and what is pushed into it.
FilterShape(f, taps) ==
  /\ DOMAIN f = {"started", "previous", "index", "history"}
  /\ f.index \in 0..taps - 1 /\ DOMAIN f.history = 0..2 * taps - 1
  /\ \A i \in 0..taps - 1 : f.history[i] = f.history[i + taps]
Window(f, i) == f.history[f.index + i - 1]

LEMMA Pushing ==
  ASSUME NEW taps \in Nat \ {0}, NEW f, FilterShape(f, taps), NEW r
  PROVE  LET g == Pushed(f, r, taps)
         IN /\ FilterShape(g, taps) /\ g.started = f.started /\ g.previous = f.previous
            /\ Window(g, 1) = r /\ \A i \in 2..taps : Window(g, i) = Window(f, i - 1)
<1> DEFINE g == Pushed(f, r, taps)
           index == IF f.index = 0 THEN taps - 1 ELSE f.index - 1
           h == f.history
           twin == index + taps
<1>1. /\ f.index \in 0..taps - 1 /\ DOMAIN h = 0..2 * taps - 1 /\ index \in 0..taps - 1
      /\ \A i \in 0..taps - 1 : h[i] = h[i + taps]
  BY DEF FilterShape
<1>2. /\ DOMAIN g = {"started", "previous", "index", "history"} /\ g.index = index
      /\ g.started = f.started /\ g.previous = f.previous /\ DOMAIN g.history = DOMAIN h
      /\ \A i \in DOMAIN h : g.history[i] = IF i = index \/ i = twin THEN r ELSE h[i]
  <2>1. g = [f EXCEPT !.index = index, !.history[index] = r, !.history[twin] = r]
    BY DEF Pushed
  <2>2. DOMAIN f = {"started", "previous", "index", "history"}
    BY DEF FilterShape
  <2> HIDE DEF g, index, twin
  <2> QED BY <2>1, <2>2
<1> HIDE DEF g, index
<1>3. twin \in taps..2 * taps - 1 /\ twin \in DOMAIN h /\ index \in DOMAIN h
  BY <1>1
<1>4. ASSUME NEW i \in 0..taps - 1 PROVE g.history[i] = g.history[i + taps]
  <2>1. /\ i \in DOMAIN h /\ i + taps \in DOMAIN h /\ i # twin /\ i + taps # index
        /\ (i = index <=> i + taps = twin)
    BY <1>1, <1>3
  <2> HIDE DEF h, twin
  <2> QED BY <1>1, <1>2, <2>1
<1>5. Window(g, 1) = r
  <2>1. g.index + 1 - 1 = index
    BY <1>1, <1>2
  <2> QED BY <1>2, <1>3, <2>1 DEF Window
<1>6. ASSUME NEW i \in 2..taps PROVE Window(g, i) = Window(f, i - 1)
  <2> DEFINE x == index + i - 1
             y == f.index + (i - 1) - 1
  <2>1. /\ x \in DOMAIN h /\ x # index /\ x # twin
        /\ Window(g, i) = g.history[x] /\ Window(f, i - 1) = h[y] /\ y \in 0..2 * taps - 1
    BY <1>1, <1>2 DEF Window
  <2>2. g.history[x] = h[x]
    BY <1>2, <2>1
  <2>3. h[x] = h[y]
    <3>1. CASE f.index = 0
      <4>1. y \in 0..taps - 1 /\ x = y + taps
        BY <1>1, <3>1 DEF index
      <4> HIDE DEF x, y
      <4> QED BY <1>1, <4>1
    <3>2. CASE f.index # 0
      <4>2. index = f.index - 1
        BY <3>2 DEF index
      <4> DEFINE z == f.index
      <4>3. z \in Int
        BY <1>1
      <4> HIDE DEF z
      <4>4. index = z - 1
        BY <4>2 DEF z
      <4>1. x = y
        BY <4>3, <4>4 DEF z
      <4> QED BY <4>1
    <3> QED BY <3>1, <3>2
  <2> QED BY <2>1, <2>2, <2>3
<1>7. FilterShape(g, taps)
  BY <1>1, <1>2, <1>4 DEF FilterShape
<1> QED BY <1>2, <1>5, <1>6, <1>7 DEF g

\* The filter while the points of a sample are pushed, one by one.
PointOf(start, s, q, phase) == PointBetween(start.previous, s, phase, Ratios[q])
Phases(f, start, s, q, m) ==
  f = [phase \in 0..m |-> IF phase = 0 THEN start
                          ELSE Pushed(f[phase - 1], PointOf(start, s, q, phase), Taps[q])]

LEMMA PhasesExist ==
  ASSUME NEW start, NEW s, NEW q, NEW n \in Nat
  PROVE  \E f : Phases(f, start, s, q, n)
<1> DEFINE Defined == {m \in Nat : \E f : Phases(f, start, s, q, m)}
           Next(x, k) == Pushed(x, PointOf(start, s, q, k), Taps[q])
<1>1. 0 \in Defined
  <2>1. Phases([phase \in 0..0 |-> start], start, s, q, 0)
    BY DEF Phases
  <2> QED BY <2>1
<1>2. ASSUME NEW m \in Nat, m \in Defined PROVE m + 1 \in Defined
  <2>1. PICK f : Phases(f, start, s, q, m)
    BY <1>2
  <2>2. f = [k \in 0..m |-> IF k = 0 THEN start ELSE Next(f[k - 1], k)]
    BY <2>1 DEF Phases
  <2> DEFINE g == [k \in 0..(m + 1) |-> IF k <= m THEN f[k] ELSE Next(f[m], k)]
             h == [k \in 0..(m + 1) |-> IF k = 0 THEN start ELSE Next(g[k - 1], k)]
  <2> HIDE DEF Next
  <2>3. ASSUME NEW k \in 0..(m + 1) PROVE g[k] = h[k]
    <3>1. CASE k = 0
      BY <2>2, <3>1
    <3>2. CASE k # 0
      <4>1. k - 1 \in 0..m /\ g[k - 1] = f[k - 1] /\ h[k] = Next(f[k - 1], k)
        BY <3>2
      <4>2. CASE k <= m
        <5>1. k \in 0..m /\ g[k] = f[k]
          BY <4>2
        <5>2. f[k] = Next(f[k - 1], k)
          BY <2>2, <3>2, <5>1
        <5> QED BY <4>1, <5>1, <5>2
      <4>3. CASE k = m + 1
        BY <4>1, <4>3
      <4> QED BY <4>2, <4>3
    <3> QED BY <3>1, <3>2
  <2>4. g = h
    BY <2>3
  <2>5. Phases(g, start, s, q, m + 1)
    <3> HIDE DEF g
    <3> QED BY <2>4 DEF Phases, Next
  <2> HIDE DEF g
  <2>6. \E x : Phases(x, start, s, q, m + 1)
    BY <2>5
  <2> QED BY <2>6
<1> HIDE DEF Defined
<1>3. Nat \subseteq Defined
  BY <1>1, <1>2, SetInduction
<1> QED BY <1>3 DEF Defined

\* What the filter holds after some of the points.
Midway(g, start, s, q, m) ==
  /\ FilterShape(g, Taps[q]) /\ g.started = start.started /\ g.previous = start.previous
  /\ \A i \in 1..Taps[q] :
       Window(g, i) = IF i <= m THEN PointOf(start, s, q, m - i + 1) ELSE Window(start, i - m)

LEMMA PhasesPush ==
  ASSUME NEW start, NEW s, NEW q, NEW n \in Nat, Taps[q] \in Nat \ {0},
         FilterShape(start, Taps[q]), NEW f, Phases(f, start, s, q, n)
  PROVE  Midway(f[n], start, s, q, n)
<1> DEFINE Good == {m \in Nat : m <= n => Midway(f[m], start, s, q, m)}
           taps == Taps[q]
<1>1. 0 \in Good
  <2>1. f[0] = start
    BY DEF Phases
  <2>2. ASSUME NEW i \in 1..taps
        PROVE  Window(start, i) = IF i <= 0 THEN PointOf(start, s, q, 0 - i + 1) ELSE Window(start, i - 0)
    <3>1. ~(i <= 0) /\ i - 0 = i
      OBVIOUS
    <3> QED BY <3>1
  <2>3. Midway(f[0], start, s, q, 0)
    BY <2>1, <2>2 DEF Midway
  <2> QED BY <2>3
<1>2. ASSUME NEW m \in Nat, m \in Good PROVE m + 1 \in Good
  <2> SUFFICES ASSUME m + 1 <= n PROVE Midway(f[m + 1], start, s, q, m + 1)
    OBVIOUS
  <2> DEFINE k == m + 1
             r == PointOf(start, s, q, k)
             old == f[m]
             g == Pushed(old, r, taps)
  <2>1. f[k] = g
    <3>1. k \in 0..n /\ k # 0 /\ k - 1 = m
      OBVIOUS
    <3> QED BY <3>1 DEF Phases
  <2>2. Midway(old, start, s, q, m)
    BY <1>2
  <2> HIDE DEF old
  <2>3. /\ FilterShape(g, taps) /\ g.started = old.started /\ g.previous = old.previous
        /\ Window(g, 1) = r /\ \A i \in 2..taps : Window(g, i) = Window(old, i - 1)
    <3>1. FilterShape(old, taps) /\ taps \in Nat \ {0}
      BY <2>2 DEF Midway
    <3> HIDE DEF r, taps
    <3> QED BY <3>1, Pushing
  <2> HIDE DEF g
  <2>4. ASSUME NEW i \in 1..taps
        PROVE  Window(g, i) = IF i <= k THEN PointOf(start, s, q, k - i + 1) ELSE Window(start, i - k)
    <3>1. CASE i = 1
      <4>1. i <= k /\ k - i + 1 = k
        BY <3>1
      <4> QED BY <2>3, <3>1, <4>1
    <3>2. CASE i # 1
      <4>1. /\ i \in 2..taps /\ i - 1 \in 1..taps /\ (i - 1 <= m <=> i <= k)
            /\ m - (i - 1) + 1 = k - i + 1 /\ i - 1 - m = i - k
        BY <3>2
      <4>2. Window(old, i - 1) = IF i - 1 <= m THEN PointOf(start, s, q, m - (i - 1) + 1)
                                 ELSE Window(start, i - 1 - m)
        BY <2>2, <4>1 DEF Midway
      <4> HIDE DEF k
      <4> QED BY <2>3, <4>1, <4>2
    <3> QED BY <3>1, <3>2
  <2>5. g.started = start.started /\ g.previous = start.previous
    BY <2>2, <2>3 DEF Midway
  <2> HIDE DEF k
  <2>6. Midway(g, start, s, q, k)
    BY <2>3, <2>4, <2>5 DEF Midway
  <2> QED BY <2>1, <2>6 DEF k
<1> HIDE DEF Good
<1>3. Nat \subseteq Good
  BY <1>1, <1>2, SetInduction
<1> QED BY <1>3 DEF Good

\* A filter that takes a sample, from one that was fed the samples before.
LEMMA FedStarts ==
  ASSUME NEW q \in CoreQualities, Oversamples(q), NEW list, NEW a \in Nat
  PROVE  Fed(NewFilter(q), q, list, a, a) /\ FilterShape(NewFilter(q), Taps[q])
         /\ \A i \in 1..Taps[q] : Window(NewFilter(q), i) = NoResidual
<1> DEFINE f == NewFilter(q)
           t == Taps[q]
           h == [i \in 0..2 * t - 1 |-> NoResidual]
<1>1. t \in Nat \ {0} /\ Ratios[q] \in Nat \ {0}
  BY CoreSizes
<1>2. /\ DOMAIN f = {"started", "previous", "index", "history"} /\ f.started = FALSE
      /\ f.index = 0 /\ f.history = h
  BY DEF NewFilter
<1>3. DOMAIN h = 0..2 * t - 1 /\ \A i \in 0..2 * t - 1 : h[i] = NoResidual
  OBVIOUS
<1> HIDE DEF f, h, t
<1>4. /\ 0 \in 0..t - 1
      /\ \A i \in 0..t - 1 : i \in 0..2 * t - 1 /\ i + t \in 0..2 * t - 1
      /\ \A i \in 1..t : 0 + i - 1 \in 0..2 * t - 1
  BY <1>1
<1>5. \A i \in 0..t - 1 : h[i] = h[i + t]
  BY <1>3, <1>4
<1>6. \A i \in 1..t : h[0 + i - 1] = NoResidual
  BY <1>3, <1>4
<1>7. ASSUME NEW i \in 1..t PROVE ResidualAt(list, a, a, q, i) = NoResidual
  <2> DEFINE x == i - 1
             d == Ratios[q]
             y == x \div d
  <2>1. x \in Nat /\ d \in Nat \ {0}
    BY <1>1
  <2> HIDE DEF x, d
  <2>2. y \in Nat
    BY <2>1
  <2> HIDE DEF y
  <2>3. ~(a - y > a)
    BY <2>2
  <2> QED BY <2>3 DEF ResidualAt, y, x, d
<1>8. FilterShape(f, t)
  BY <1>2, <1>3, <1>4, <1>5 DEF FilterShape
<1>9. \A i \in 1..t : Window(f, i) = NoResidual
  BY <1>2, <1>6 DEF Window
<1>10. Fed(f, q, list, a, a)
  <2>1. f.started \in BOOLEAN /\ (f.started <=> a > a) /\ (a > a => f.previous = list[a])
    <3>1. ~(a > a)
      OBVIOUS
    <3> QED BY <1>2, <3>1
  <2>2. f.index \in 0..t - 1 /\ DOMAIN f.history = 0..2 * t - 1
    BY <1>2, <1>3, <1>4
  <2> QED BY <1>2, <1>5, <1>6, <1>7, <2>1, <2>2 DEF Fed, t
<1> QED BY <1>8, <1>9, <1>10 DEF f, t

LEMMA FedGrows ==
  ASSUME NEW q \in CoreQualities, Oversamples(q), NEW list, NEW longer, NEW a \in Nat, NEW n \in Nat,
         a <= n, NEW f, Fed(f, q, list, a, n), NEW s, longer[n + 1] = s,
         \A k \in a + 1..n : longer[k] = list[k]
  PROVE  Fed(Oversampled(f, s, q), q, longer, a, n + 1)
<1> DEFINE t == Taps[q]
           d == Ratios[q]
           m == n + 1
           start == IF f.started THEN f ELSE [NewFilter(q) EXCEPT !.started = TRUE, !.previous = s]
           last == IF n > a THEN list[n] ELSE s
           after == CHOOSE g : Phases(g, start, s, q, d)
           g == after[d]
           r == Oversampled(f, s, q)
<1>1. t \in Nat \ {0} /\ d \in Nat \ {0}
  BY CoreSizes
<1>2. /\ FilterShape(start, t) /\ start.started = TRUE /\ start.previous = last
      /\ \A i \in 1..t : Window(start, i) = ResidualAt(list, a, n, q, i)
  <2>1. CASE f.started
    <3>1. start = f /\ n > a /\ f.previous = list[n]
      BY <2>1 DEF Fed
    <3> QED BY <2>1, <3>1 DEF Fed, FilterShape, Window
  <2>2. CASE ~f.started
    <3> DEFINE x == NewFilter(q)
               y == [x EXCEPT !.started = TRUE, !.previous = s]
    <3>1. n = a /\ start = y
      <4>1. f.started <=> n > a
        BY DEF Fed
      <4>2. ~(n > a)
        BY <2>2, <4>1
      <4>3. n = a
        BY <4>2
      <4>4. start = y
        BY <2>2
      <4> QED BY <4>3, <4>4
    <3>2. FilterShape(x, t) /\ \A i \in 1..t : Window(x, i) = NoResidual
      BY FedStarts
    <3>3. Fed(x, q, list, a, a)
      BY FedStarts
    <3> HIDE DEF x
    <3>4. /\ DOMAIN y = {"started", "previous", "index", "history"} /\ y.started = TRUE
          /\ y.previous = s /\ y.index = x.index /\ y.history = x.history
      BY <3>2 DEF FilterShape
    <3> HIDE DEF y
    <3>5. FilterShape(y, t) /\ \A i \in 1..t : Window(y, i) = Window(x, i)
      BY <3>2, <3>4 DEF FilterShape, Window
    <3>6. \A i \in 1..t : Window(x, i) = ResidualAt(list, a, n, q, i)
      BY <3>1, <3>3 DEF Fed, Window
    <3> QED BY <3>1, <3>4, <3>5, <3>6
  <2> QED BY <2>1, <2>2
<1> HIDE DEF start
<1>3. Phases(after, start, s, q, d)
  BY <1>1, PhasesExist
<1>4. r = [g EXCEPT !.previous = s]
  BY DEF Oversampled, Phases, PointOf, start
<1> HIDE DEF after
<1>5. Midway(g, start, s, q, d)
  <2> HIDE DEF d
  <2> QED BY <1>1, <1>2, <1>3, PhasesPush
<1> HIDE DEF g, r
<1>6. /\ DOMAIN r = {"started", "previous", "index", "history"} /\ r.started = TRUE
      /\ r.previous = s /\ r.index = g.index /\ r.history = g.history
  BY <1>2, <1>4, <1>5 DEF Midway, FilterShape
<1>7. ASSUME NEW i \in 1..t PROVE Window(g, i) = ResidualAt(longer, a, m, q, i)
  <2>1. CASE i <= d
    <3> DEFINE x == i - 1
    <3>1. x \in 0..d - 1 /\ x = d * 0 + x /\ x \in Int /\ 0 \in Int
      BY <1>1, <2>1
    <3> HIDE DEF x
    <3>2. x \div d = 0 /\ x % d = x
      <4> DEFINE z == 0
      <4> HIDE DEF d, z
      <4>1. d \in Nat \ {0} /\ z \in Int /\ x \in 0..d - 1 /\ x \in Int /\ x = d * z + x
        BY <1>1, <3>1 DEF z
      <4>2. x \div d = z /\ x % d = x
        BY ONLY <4>1, FloorIs
      <4> QED BY <4>2 DEF z
    <3>3. ResidualAt(longer, a, m, q, i) = PointBetween(longer[IF m = a + 1 THEN m ELSE m - 1], longer[m], d - x, d)
      <4>1. m - 0 = m /\ m > a
        OBVIOUS
      <4> HIDE DEF m
      <4> QED BY <3>2, <4>1 DEF ResidualAt, x
    <3>4. longer[IF m = a + 1 THEN m ELSE m - 1] = last
      <4>1. CASE n = a
        BY <4>1
      <4>2. CASE n # a
        <5>1. n > a /\ n \in a + 1..n /\ ~(m = a + 1) /\ m - 1 = n
          BY <4>2
        <5> QED BY <5>1
      <4> QED BY <4>1, <4>2
    <3>5. Window(g, i) = PointBetween(last, s, d - i + 1, d)
      BY <1>2, <1>5, <2>1 DEF Midway, PointOf
    <3>6. d - i + 1 = d - x
      BY <1>1 DEF x
    <3> QED BY <3>3, <3>4, <3>5, <3>6
  <2>2. CASE i > d
    <3> DEFINE j == i - d
               x == j - 1
               k == x \div d
               e == x % d
               w == i - 1
               kk == k + 1
    <3>1. j \in 1..t /\ x \in Nat /\ ~(i <= d) /\ w = x + d /\ w \in Int
      BY <1>1, <2>2
    <3>2. k \in Int /\ k >= 0 /\ e \in 0..d - 1 /\ x = d * k + e
      <4> HIDE DEF x, d
      <4>1. x \in Int /\ x >= 0 /\ d \in Nat \ {0}
        BY <1>1, <3>1
      <4>2. x \div d \in Int /\ x % d \in 0..d - 1 /\ x = d * (x \div d) + (x % d)
        BY ONLY <4>1, Floor
      <4>3. x \div d >= 0
        BY ONLY <4>1
      <4> QED BY <4>2, <4>3
    <3>3. w = d * kk + e /\ kk \in Int
      <4> HIDE DEF x, k, e, w
      <4>1. d * (k + 1) = d * k + d /\ d * k \in Int
        BY <1>1, <3>2
      <4> QED BY <1>1, <3>1, <3>2, <4>1
    <3>4. w \div d = kk /\ w % d = e
      <4> HIDE DEF w, kk, e, d
      <4>1. d \in Nat \ {0} /\ kk \in Int /\ e \in 0..d - 1 /\ w \in Int /\ w = d * kk + e
        BY <1>1, <3>1, <3>2, <3>3
      <4> QED BY ONLY <4>1, FloorIs
    <3>5. Window(g, i) = ResidualAt(list, a, n, q, j)
      <4>1. Window(g, i) = Window(start, i - d)
        BY <1>5, <3>1 DEF Midway
      <4> QED BY <1>2, <3>1, <4>1
    <3> DEFINE p == n - k
    <3>6. m - kk = p /\ p \in Int /\ (p > a => p \in a + 1..n)
      <4> HIDE DEF k
      <4> QED BY <3>2
    <3>7. ResidualAt(longer, a, m, q, i)
            = IF p > a THEN PointBetween(longer[IF p = a + 1 THEN p ELSE p - 1], longer[p], d - e, d)
              ELSE NoResidual
      <4> HIDE DEF e, p, kk, m
      <4> QED BY <3>4, <3>6 DEF ResidualAt, w
    <3>8. ResidualAt(list, a, n, q, j)
            = IF p > a THEN PointBetween(list[IF p = a + 1 THEN p ELSE p - 1], list[p], d - e, d)
              ELSE NoResidual
      BY DEF ResidualAt
    <3> HIDE DEF p, e
    <3>9. p > a => /\ longer[p] = list[p]
                   /\ longer[IF p = a + 1 THEN p ELSE p - 1] = list[IF p = a + 1 THEN p ELSE p - 1]
      <4> SUFFICES ASSUME p > a
                   PROVE  /\ longer[p] = list[p]
                          /\ p # a + 1 => longer[p - 1] = list[p - 1]
        OBVIOUS
      <4>1. p \in a + 1..n /\ (p # a + 1 => p - 1 \in a + 1..n)
        BY <3>6
      <4> QED BY <4>1
    <3> QED BY <3>5, <3>7, <3>8, <3>9
  <2> QED BY <1>1, <2>1, <2>2
<1>8. m > a
  OBVIOUS
<1> HIDE DEF m
<1>9. Fed(r, q, longer, a, m)
  BY <1>5, <1>6, <1>7, <1>8 DEF Fed, Midway, FilterShape, Window, m
<1> QED BY <1>9 DEF r, m

\* The filter does not reach back to the first of so many samples.
LEMMA FedPrefix ==
  ASSUME NEW q \in CoreQualities, Oversamples(q), NEW list, NEW a \in Nat, NEW n \in Nat,
         n - a >= HistoryFrames, NEW f, Fed(f, q, list, a, n)
  PROVE  Fed(f, q, list, 0, n)
<1> DEFINE t == Taps[q]
           d == Ratios[q]
<1>1. /\ t \in Nat \ {0} /\ d \in Nat \ {0} /\ HistoryFrames \in Nat \ {0}
      /\ (HistoryFrames - 1) * d >= t
  BY CoreSizes
<1>2. ASSUME NEW i \in 1..t PROVE ResidualAt(list, a, n, q, i) = ResidualAt(list, 0, n, q, i)
  <2> DEFINE x == i - 1
             k == x \div d
             e == x % d
             z == HistoryFrames - 1
             p == n - k
  <2> HIDE DEF t, d
  <2>1. x \in Int /\ x >= 0 /\ x < t /\ z \in Int /\ d * z \in Int /\ d * z = (HistoryFrames - 1) * d
    BY <1>1
  <2> HIDE DEF x
  <2>2. k \in Int /\ e \in 0..d - 1 /\ x = d * k + e
    <3>1. x \div d \in Int /\ x % d \in 0..d - 1 /\ x = d * (x \div d) + (x % d)
      BY ONLY <1>1, <2>1, Floor
    <3> QED BY <3>1
  <2> HIDE DEF k, e, z
  <2>3. d * k < d * z
    <3>1. d * k \in Int /\ d * k <= x
      BY <1>1, <2>2
    <3> QED BY <1>1, <2>1, <3>1
  <2>4. k < z
    <3>1. d \in Nat \ {0} /\ k \in Int /\ z \in Int /\ d * k < d * z
      BY <1>1, <2>1, <2>2, <2>3
    <3> QED BY ONLY <3>1, FactorLess
  <2>5. p \in Int /\ p > a + 1 /\ p > 0 + 1
    BY <1>1, <2>2, <2>4 DEF z
  <2>6. p > a /\ p > 0 /\ p # a + 1 /\ p # 0 + 1
    BY <2>5
  <2>7. p = n - ((i - 1) \div Ratios[q])
    BY DEF k, x, d
  <2> HIDE DEF p
  <2> QED BY <2>6, <2>7 DEF ResidualAt
<1>3. n > a /\ n > 0
  BY <1>1
<1> QED BY <1>2, <1>3 DEF Fed

LEMMA ModIs ==
  ASSUME NEW a \in Int, NEW d \in Nat \ {0}
  PROVE  Mod(a, d) = a % d
<1> DEFINE r == a % d
           x == r + d
           z == 1
<1>1. r \in 0..d - 1
  BY Floor
<1> HIDE DEF r
<1>2. d \in Nat \ {0} /\ z \in Int /\ r \in 0..d - 1 /\ x \in Int /\ x = d * z + r
  BY <1>1
<1> HIDE DEF z, x
<1>3. x % d = r
  BY ONLY <1>2, FloorIs
<1> QED BY <1>3 DEF Mod, x, r

\* The retained samples, the oldest first.
LEMMA HistoryReads ==
  ASSUME NEW list \in Seq(Samples), NEW h, Retains(h, list), NEW j \in 0..h.len - 1
  PROVE  HistorySample(h, j) = list[Len(list) - h.len + j + 1]
<1> DEFINE n == Len(list)
           d == HistoryFrames
           y == j - h.len
           x == h.next - h.len + j
           k == n - h.len + j + 1
<1>1. n \in Nat /\ d \in Nat \ {0} /\ h.len \in Nat /\ h.len <= n /\ j \in Int /\ j >= 0 /\ j < h.len
  <2>1. n \in Nat /\ d \in Nat \ {0}
    BY CoreSizes
  <2>2. h.len = IF n < d THEN n ELSE d
    BY DEF Retains
  <2>3. h.len \in Nat /\ h.len <= n
    BY <2>1, <2>2
  <2> QED BY <2>1, <2>3
<1>2. h.next = n % d /\ h.next \in Int
  <2>1. n % d \in Int
    BY <1>1
  <2> QED BY <2>1 DEF Retains
<1>3. x \in Int /\ y \in Int /\ x = h.next + y /\ n + y = k - 1 /\ k \in n - h.len + 1..n
  BY <1>1, <1>2
<1> HIDE DEF x, y, k
<1>4. ((n % d) + y) % d = (n + y) % d
  <2>1. n \in Int
    BY <1>1
  <2> HIDE DEF n, d
  <2> QED BY ONLY <1>1, <1>3, <2>1, PlaceAfter
<1>5. x % d = (k - 1) % d
  BY <1>2, <1>3, <1>4
<1>6. Mod(x, d) = x % d
  <2> HIDE DEF d
  <2> QED BY ONLY <1>1, <1>3, ModIs
<1>7. h.ring[(k - 1) % d] = list[k]
  BY <1>3 DEF Retains
<1> QED BY <1>5, <1>6, <1>7 DEF HistorySample, x, k

\* A filter that is fed the retained samples, one by one.
Replay(f, h, q, m) ==
  f = [j \in 0..m |-> IF j = 0 THEN NewFilter(q) ELSE Oversampled(f[j - 1], HistorySample(h, j - 1), q)]

LEMMA ReplayExists ==
  ASSUME NEW h, NEW q, NEW n \in Nat
  PROVE  \E f : Replay(f, h, q, n)
<1> DEFINE Defined == {m \in Nat : \E f : Replay(f, h, q, m)}
           Next(x, k) == Oversampled(x, HistorySample(h, k - 1), q)
           start == NewFilter(q)
<1>1. 0 \in Defined
  <2>1. Replay([j \in 0..0 |-> NewFilter(q)], h, q, 0)
    BY DEF Replay
  <2> QED BY <2>1
<1>2. ASSUME NEW m \in Nat, m \in Defined PROVE m + 1 \in Defined
  <2>1. PICK f : Replay(f, h, q, m)
    BY <1>2
  <2>2. f = [k \in 0..m |-> IF k = 0 THEN start ELSE Next(f[k - 1], k)]
    BY <2>1 DEF Replay
  <2> DEFINE g == [k \in 0..(m + 1) |-> IF k <= m THEN f[k] ELSE Next(f[m], k)]
             w == [k \in 0..(m + 1) |-> IF k = 0 THEN start ELSE Next(g[k - 1], k)]
  <2> HIDE DEF Next, start
  <2>3. ASSUME NEW k \in 0..(m + 1) PROVE g[k] = w[k]
    <3>1. CASE k = 0
      BY <2>2, <3>1
    <3>2. CASE k # 0
      <4>1. k - 1 \in 0..m /\ g[k - 1] = f[k - 1] /\ w[k] = Next(f[k - 1], k)
        BY <3>2
      <4>2. CASE k <= m
        <5>1. k \in 0..m /\ g[k] = f[k]
          BY <4>2
        <5>2. f[k] = Next(f[k - 1], k)
          BY <2>2, <3>2, <5>1
        <5> QED BY <4>1, <5>1, <5>2
      <4>3. CASE k = m + 1
        BY <4>1, <4>3
      <4> QED BY <4>2, <4>3
    <3> QED BY <3>1, <3>2
  <2>4. g = w
    BY <2>3
  <2>5. Replay(g, h, q, m + 1)
    <3> HIDE DEF g
    <3> QED BY <2>4 DEF Replay, Next, start
  <2> HIDE DEF g
  <2>6. \E x : Replay(x, h, q, m + 1)
    BY <2>5
  <2> QED BY <2>6
<1> HIDE DEF Defined
<1>3. Nat \subseteq Defined
  BY <1>1, <1>2, SetInduction
<1> QED BY <1>3 DEF Defined

\* It is as if it had been fed all of them.
LEMMA ReplayFeeds ==
  ASSUME NEW q \in CoreQualities, Oversamples(q), NEW list \in Seq(Samples), NEW h, Retains(h, list),
         NEW f, Replay(f, h, q, HistoryFrames)
  PROVE  Fed(f[h.len], q, list, 0, Len(list))
<1> DEFINE n == Len(list)
           a == n - h.len
           Good == {j \in Nat : j <= h.len => Fed(f[j], q, list, a, a + j)}
<1>1. n \in Nat /\ HistoryFrames \in Nat \ {0} /\ h.len \in Nat /\ h.len <= HistoryFrames
      /\ a \in Nat /\ a + h.len = n /\ (a # 0 => h.len = HistoryFrames)
  <2>1. n \in Nat /\ HistoryFrames \in Nat \ {0}
    BY CoreSizes
  <2>2. h.len = IF n < HistoryFrames THEN n ELSE HistoryFrames
    BY DEF Retains
  <2> QED BY <2>1, <2>2
<1> HIDE DEF a
<1>2. 0 \in Good
  <2>1. f[0] = NewFilter(q)
    BY <1>1 DEF Replay
  <2>2. Fed(NewFilter(q), q, list, a, a)
    BY <1>1, FedStarts
  <2>3. a + 0 = a
    BY <1>1
  <2> QED BY <2>1, <2>2, <2>3
<1>3. ASSUME NEW j \in Nat, j \in Good PROVE j + 1 \in Good
  <2> SUFFICES ASSUME j + 1 <= h.len PROVE Fed(f[j + 1], q, list, a, a + (j + 1))
    OBVIOUS
  <2> DEFINE s == HistorySample(h, j)
             k == a + j
             g == f[j]
  <2>1. f[j + 1] = Oversampled(g, s, q)
    <3>1. j + 1 \in 0..HistoryFrames /\ j + 1 # 0 /\ (j + 1) - 1 = j
      BY <1>1
    <3> QED BY <3>1 DEF Replay
  <2>2. s = list[k + 1]
    <3>1. j \in 0..h.len - 1
      BY <1>1
    <3>2. HistorySample(h, j) = list[Len(list) - h.len + j + 1]
      BY <3>1, HistoryReads
    <3>3. Len(list) - h.len + j + 1 = k + 1
      BY <1>1 DEF a
    <3> QED BY <3>2, <3>3
  <2>3. Fed(g, q, list, a, k) /\ k \in Nat /\ a <= k
    BY <1>1, <1>3
  <2> HIDE DEF s, k, g
  <2>4. Fed(Oversampled(g, s, q), q, list, a, k + 1)
    BY <1>1, <2>2, <2>3, FedGrows
  <2>5. k + 1 = a + (j + 1)
    BY <1>1 DEF k
  <2> QED BY <2>1, <2>4, <2>5
<1> HIDE DEF Good
<1>4. Nat \subseteq Good
  BY <1>2, <1>3, SetInduction
<1>5. Fed(f[h.len], q, list, a, n)
  BY <1>1, <1>4 DEF Good
<1>6. CASE a = 0
  BY <1>5, <1>6
<1>7. CASE a # 0
  <2> HIDE DEF n
  <2>1. n - a >= HistoryFrames
    BY <1>1, <1>7
  <2> QED BY <1>1, <1>5, <2>1, FedPrefix DEF n
<1> QED BY <1>6, <1>7

\* The residuals of the retained samples, put back where the delay line had them.
SlotOf(c, retained, k) == Mod(c.index + LatencyFrames - retained + k, LatencyFrames)
RetainedOf(h) == IF h.len < LatencyFrames THEN h.len ELSE LatencyFrames
RebuiltDelay(c) ==
  [i \in 0..LatencyFrames - 1 |->
     IF \E k \in 0..RetainedOf(c.history) - 1 : SlotOf(c, RetainedOf(c.history), k) = i
     THEN DirectResidual(HistorySample(c.history, c.history.len - RetainedOf(c.history)
            + CHOOSE k \in 0..RetainedOf(c.history) - 1 : SlotOf(c, RetainedOf(c.history), k) = i))
     ELSE NoResidual]

LEMMA SlotIs ==
  ASSUME NEW c, NEW n \in Nat, c.index = n % LatencyFrames, NEW x \in 0..LatencyFrames, NEW k \in Nat
  PROVE  SlotOf(c, x, k) = (n - x + k) % LatencyFrames
<1> DEFINE d == LatencyFrames
           y == LatencyFrames - x + k
           e == c.index + LatencyFrames - x + k
           w == n - x + k
           z == w + d
           m == w \div d
           r == w % d
           mm == m + 1
<1>1. d \in Nat \ {0}
  BY CoreSizes
<1>2. c.index \in Int /\ x \in Int
  <2>1. n % d \in Int
    BY <1>1
  <2> QED BY <2>1
<1>3. y \in Int /\ e \in Int /\ w \in Int /\ z \in Int /\ e = c.index + y /\ z = n + y /\ z = w + d
  BY <1>1, <1>2
<1> HIDE DEF d, y, e, w, z
<1>4. Mod(e, d) = e % d
  BY ONLY <1>1, <1>3, ModIs
<1>5. e % d = z % d
  <2>1. n \in Int
    OBVIOUS
  <2>2. ((n % d) + y) % d = (n + y) % d
    BY ONLY <1>1, <1>3, <2>1, PlaceAfter
  <2> QED BY <1>3, <2>2 DEF d
<1>6. m \in Int /\ r \in 0..d - 1 /\ w = d * m + r
  <2>1. w \div d \in Int /\ w % d \in 0..d - 1 /\ w = d * (w \div d) + (w % d)
    BY ONLY <1>1, <1>3, Floor
  <2> QED BY <2>1
<1> HIDE DEF m, r
<1>7. mm \in Int /\ z = d * mm + r
  <2>1. d * (m + 1) = d * m + d /\ d * m \in Int
    BY <1>1, <1>6
  <2> QED BY <1>1, <1>3, <1>6, <2>1
<1> HIDE DEF mm
<1>8. z % d = r
  <2>1. d \in Nat \ {0} /\ mm \in Int /\ r \in 0..d - 1 /\ z \in Int /\ z = d * mm + r
    BY <1>1, <1>3, <1>6, <1>7
  <2> QED BY ONLY <2>1, FloorIs
<1> QED BY <1>4, <1>5, <1>8 DEF SlotOf, d, e, r, w

LEMMA DelayRebuilt ==
  ASSUME NEW list \in Seq(Samples), NEW n \in Nat, Len(list) <= n, NEW c,
         c.index = n % LatencyFrames, Retains(c.history, list)
  PROVE  DelaysResiduals(RebuiltDelay(c), list, n)
<1> DEFINE d == LatencyFrames
           h == c.history
           x == RetainedOf(h)
           m == Len(list)
           cells == RebuiltDelay(c)
<1>1. /\ d \in Nat \ {0} /\ m \in Nat /\ m <= n /\ h.len \in Nat /\ h.len <= m
      /\ x \in 0..d /\ x <= h.len /\ (x < d => x = m)
  <2>1. d \in Nat \ {0} /\ HistoryFrames \in Nat \ {0} /\ HistoryFrames >= d /\ m \in Nat
    BY CoreSizes
  <2>2. h.len = IF m < HistoryFrames THEN m ELSE HistoryFrames
    BY DEF Retains
  <2> HIDE DEF h, m, d
  <2>3. x = IF h.len < d THEN h.len ELSE d
    BY DEF RetainedOf, d
  <2> HIDE DEF x
  <2> QED BY <2>1, <2>2, <2>3 DEF m
<1>2. cells = [i \in 0..d - 1 |->
                IF \E k \in 0..x - 1 : SlotOf(c, x, k) = i
                THEN DirectResidual(HistorySample(h, h.len - x + CHOOSE k \in 0..x - 1 : SlotOf(c, x, k) = i))
                ELSE NoResidual]
  BY DEF RebuiltDelay
<1> HIDE DEF cells, x, h
<1>3. ASSUME NEW p \in n - d + 1..n, m - n + p > 0
      PROVE  cells[(p - 1) % d] = DirectResidual(list[m - n + p])
  <2> DEFINE k == p - 1 - n + x
             i == (p - 1) % d
  <2> HIDE DEF m, d
  <2>1. p \in Int /\ p > n - m /\ p > n - d /\ p <= n
    BY <1>1, <1>3
  <2>2. k \in 0..x - 1 /\ k \in Nat /\ k \in Int /\ n - x + k = p - 1
    BY <1>1, <2>1
  <2> HIDE DEF k
  <2>3. SlotOf(c, x, k) = i
    <3>1. SlotOf(c, x, k) = (n - x + k) % d
      BY <1>1, <2>2, SlotIs DEF d
    <3> QED BY <2>2, <3>1
  <2>4. i \in 0..d - 1
    <3> DEFINE y == p - 1
    <3>1. y \in Int
      BY <2>1
    <3> HIDE DEF y
    <3>2. y % d \in 0..d - 1
      BY ONLY <1>1, <3>1, Floor
    <3> QED BY <3>2 DEF y
  <2> HIDE DEF i
  <2> DEFINE w == CHOOSE j \in 0..x - 1 : SlotOf(c, x, j) = i
  <2>5. w \in 0..x - 1 /\ SlotOf(c, x, w) = i
    BY <2>2, <2>3
  <2> HIDE DEF w
  <2>6. w = k
    <3> DEFINE y == n - x + w
               z == n - x + k
    <3>1. w \in Nat /\ y \in Int /\ z \in Int /\ (y < z => z - y < d) /\ (z < y => y - z < d)
      BY <1>1, <2>2, <2>5
    <3>2. SlotOf(c, x, w) = y % d
      BY <1>1, <3>1, SlotIs DEF d
    <3>3. SlotOf(c, x, k) = z % d
      BY <1>1, <2>2, SlotIs DEF d
    <3> HIDE DEF y, z
    <3>4. y % d = z % d
      BY <2>3, <2>5, <3>2, <3>3
    <3>5. ~(y < z)
      BY <1>1, <3>1, <3>4, PlacesApart
    <3>6. ~(z < y)
      BY <1>1, <3>1, <3>4, PlacesApart
    <3>7. y = z
      BY <3>1, <3>5, <3>6
    <3> QED BY <1>1, <2>2, <3>1, <3>7 DEF y, z
  <2>7. cells[i] = DirectResidual(HistorySample(h, h.len - x + w))
    <3>1. \E j \in 0..x - 1 : SlotOf(c, x, j) = i
      BY <2>2, <2>3
    <3> QED BY <1>2, <2>4, <3>1 DEF w
  <2>8. HistorySample(h, h.len - x + k) = list[m - n + p]
    <3> DEFINE l == h.len
               j == l - x + k
    <3>0. l \in Int /\ x \in Int /\ x <= l /\ h.len = l
      BY <1>1
    <3> HIDE DEF l
    <3>1. j \in 0..h.len - 1 /\ m - h.len + j + 1 = m - n + p
      BY <1>1, <2>1, <2>2, <3>0
    <3>4. h.len - x + k = j
      BY <3>0
    <3> HIDE DEF j
    <3>2. HistorySample(h, j) = list[Len(list) - h.len + j + 1]
      BY <3>1, HistoryReads DEF h
    <3> QED BY <3>1, <3>2, <3>4 DEF m
  <2> QED BY <2>6, <2>7, <2>8 DEF i
<1> QED BY <1>3 DEF DelaysResiduals, cells

\* The nonlinear state of a quality, rebuilt from the history.
LEMMA Prepares ==
  ASSUME NEW c, DOMAIN c = CoreParts, c.quality \in CoreQualities,
         DOMAIN c.lines = {"raw", "dry", "delta"},
         NEW list \in Seq(Samples), NEW n \in Nat, Len(list) <= n,
         c.index = n % LatencyFrames, Retains(c.history, list)
  PROVE  LET r == Prepared(c)
         IN /\ DOMAIN r = CoreParts /\ DOMAIN r.lines = {"raw", "dry", "delta"}
            /\ r.quality = c.quality /\ r.highpass = c.highpass /\ r.hpf = c.hpf
            /\ r.history = c.history /\ r.index = c.index
            /\ r.lines.raw = c.lines.raw /\ r.lines.dry = c.lines.dry
            /\ DOMAIN r.lines.delta = 0..LatencyFrames - 1
            /\ IF Oversamples(c.quality) THEN Fed(r.filter, c.quality, list, 0, Len(list))
               ELSE DelaysResiduals(r.lines.delta, list, n)
<1> DEFINE q == c.quality
           h == c.history
           f == CHOOSE g : Replay(g, h, q, HistoryFrames)
           filter == IF Oversamples(q) THEN f[h.len] ELSE NewFilter(q)
           delta == IF Oversamples(q) THEN Line(NoResidual) ELSE RebuiltDelay(c)
           r == Prepared(c)
<1>1. r = [c EXCEPT !.filter = filter, !.lines.delta = delta]
  <2>1. CASE Oversamples(q)
    <3>1. r = [c EXCEPT !.filter = f[h.len], !.lines.delta = Line(NoResidual)]
      BY <2>1 DEF Prepared, Replay
    <3> QED BY <2>1, <3>1
  <2>2. CASE ~Oversamples(q)
    <3>1. r = [c EXCEPT !.filter = NewFilter(q), !.lines.delta = RebuiltDelay(c)]
      BY <2>2 DEF Prepared, RebuiltDelay, RetainedOf, SlotOf, DirectResidual
    <3> QED BY <2>2, <3>1
  <2> QED BY <2>1, <2>2
<1>2. Replay(f, h, q, HistoryFrames)
  BY CoreSizes, ReplayExists
<1>3. IF Oversamples(q) THEN Fed(filter, q, list, 0, Len(list)) ELSE DelaysResiduals(delta, list, n)
  <2> HIDE DEF f
  <2>1. CASE Oversamples(q)
    <3>1. Fed(f[h.len], q, list, 0, Len(list))
      BY <1>2, <2>1, ReplayFeeds
    <3> QED BY <2>1, <3>1
  <2>2. CASE ~Oversamples(q)
    <3>1. DelaysResiduals(RebuiltDelay(c), list, n)
      BY DelayRebuilt
    <3> QED BY <2>2, <3>1
  <2> QED BY <2>1, <2>2
<1>4. DOMAIN delta = 0..LatencyFrames - 1
  BY DEF Line, RebuiltDelay
<1> HIDE DEF filter, delta, r
<1>5. /\ DOMAIN r = CoreParts /\ r.filter = filter /\ r.lines = [c.lines EXCEPT !.delta = delta]
      /\ r.quality = c.quality /\ r.highpass = c.highpass /\ r.hpf = c.hpf
      /\ r.history = c.history /\ r.index = c.index
  BY <1>1 DEF CoreParts
<1>6. /\ DOMAIN r.lines = {"raw", "dry", "delta"} /\ r.lines.delta = delta
      /\ r.lines.raw = c.lines.raw /\ r.lines.dry = c.lines.dry
  BY <1>5
<1> QED BY <1>3, <1>4, <1>5, <1>6 DEF r

\* A frame in the delay lines and the history.
Moved(r, frame, sample, residual) ==
  /\ DOMAIN r = CoreParts /\ r.quality = core.quality /\ r.highpass = core.highpass
  /\ r.hpf = (IF core.highpass THEN frame ELSE core.hpf)
  /\ r.index = (core.index + 1) % LatencyFrames /\ r.history = Recorded(core.history, sample)
  /\ DOMAIN r.lines = {"raw", "dry", "delta"}
  /\ Written(r.lines.raw, core.lines.raw, core.index, frame)
  /\ Written(r.lines.dry, core.lines.dry, core.index, frame)
  /\ Written(r.lines.delta, core.lines.delta, core.index, residual)

LEMMA Delays ==
  ASSUME CoreTyped, LinesHold, NEW frame, NEW sample, NEW residual
  PROVE  LET r == Delayed(frame, sample, residual)
         IN Moved(r, frame, sample, residual) /\ r.filter = core.filter
<1> DEFINE r == Delayed(frame, sample, residual)
           i == core.index
           hpf == IF core.highpass THEN frame ELSE core.hpf
           next == (i + 1) % LatencyFrames
           h == Recorded(core.history, sample)
           l == core.lines
           raw == [l.raw EXCEPT ![i] = frame]
           dry == [l.dry EXCEPT ![i] = frame]
           delta == [l.delta EXCEPT ![i] = residual]
<1>1. DOMAIN core = CoreParts
  BY DEF CoreTyped
<1>2. /\ DOMAIN l = {"raw", "dry", "delta"} /\ DOMAIN l.raw = 0..LatencyFrames - 1
      /\ DOMAIN l.dry = 0..LatencyFrames - 1 /\ DOMAIN l.delta = 0..LatencyFrames - 1
      /\ i \in 0..LatencyFrames - 1
  <2>1. i \in 0..LatencyFrames - 1
    <3>1. Len(inputs) \in Int /\ LatencyFrames \in Nat \ {0}
      BY CoreSizes DEF CoreTyped
    <3>2. Len(inputs) % LatencyFrames \in 0..LatencyFrames - 1
      BY <3>1
    <3> QED BY <3>2 DEF LinesHold
  <2> QED BY <2>1 DEF LinesHold, HoldsLast
<1>3. r = [core EXCEPT !.hpf = hpf, !.lines.raw[i] = frame, !.lines.dry[i] = frame,
                       !.lines.delta[i] = residual, !.index = next, !.history = h]
  BY DEF Delayed
<1> HIDE DEF r, hpf, next, h, i
<1>4. /\ DOMAIN r = CoreParts /\ r.quality = core.quality /\ r.highpass = core.highpass
      /\ r.hpf = hpf /\ r.index = next /\ r.history = h /\ r.filter = core.filter
  BY <1>1, <1>3 DEF CoreParts
<1>5. /\ DOMAIN r.lines = {"raw", "dry", "delta"}
      /\ r.lines.raw = raw /\ r.lines.dry = dry /\ r.lines.delta = delta
  BY <1>1, <1>2, <1>3 DEF CoreParts
<1>6. Written(raw, l.raw, i, frame) /\ Written(dry, l.dry, i, frame)
      /\ Written(delta, l.delta, i, residual)
  <2> HIDE DEF l
  <2> QED BY <1>2 DEF Written
<1> HIDE DEF raw, dry, delta
<1>7. Moved(r, frame, sample, residual)
  BY <1>4, <1>5, <1>6 DEF Moved, hpf, next, h, i
<1> QED BY <1>4, <1>7 DEF r

LEMMA Filters ==
  ASSUME NEW r, NEW frame, NEW sample, NEW residual, Moved(r, frame, sample, residual), NEW filter,
         NEW f, f = [r EXCEPT !.filter = filter]
  PROVE  Moved(f, frame, sample, residual) /\ f.filter = filter
<1>1. DOMAIN r = CoreParts
  BY DEF Moved
<1>2. /\ DOMAIN f = CoreParts /\ f.quality = r.quality /\ f.highpass = r.highpass
      /\ f.hpf = r.hpf /\ f.index = r.index /\ f.history = r.history /\ f.lines = r.lines
      /\ f.filter = filter
  BY <1>1 DEF CoreParts
<1> QED BY <1>2 DEF Moved

\* The oldest entry of a delay line is where the next one goes.
LEMMA Wraps ==
  ASSUME NEW n \in Int, NEW d \in Nat \ {0}
  PROVE  (n - d) % d = n % d
<1> DEFINE k == n \div d
           r == n % d
           kk == k - 1
           x == n - d
<1>1. k \in Int /\ r \in 0..d - 1 /\ n = d * k + r
  <2>1. n \div d \in Int /\ n % d \in 0..d - 1 /\ n = d * (n \div d) + (n % d)
    BY Floor
  <2> QED BY <2>1
<1> HIDE DEF k, r
<1>2. d * (k - 1) = d * k - d /\ d * k \in Int
  BY <1>1
<1>3. d \in Nat \ {0} /\ kk \in Int /\ r \in 0..d - 1 /\ x \in Int /\ x = d * kk + r
  BY <1>1, <1>2
<1> HIDE DEF kk, x
<1>4. x % d = r
  BY ONLY <1>3, FloorIs
<1> QED BY <1>4 DEF x, r

\* What leaves a delay line came LatencyFrames before what enters it.
LEMMA LineReads ==
  ASSUME NEW list \in Seq(Nat), NEW cells, HoldsLast(cells, list, LatencyFrames, Len(list)), NEW v \in Nat
  PROVE  cells[Len(list) % LatencyFrames] = InputAt(Append(list, v), Len(list) + 1 - LatencyFrames)
<1> DEFINE d == LatencyFrames
           n == Len(list)
           p == n + 1 - d
           longer == Append(list, v)
<1>1. d \in Nat \ {0} /\ n \in Nat /\ n \in Int
  BY CoreSizes
<1>2. \A i \in 1..n : longer[i] = list[i]
  OBVIOUS
<1> HIDE DEF n, longer
<1>3. p \in Int /\ p \in n - d + 1..n /\ p - 1 = n - d
  BY <1>1
<1>4. cells[(p - 1) % d] = InputAt(list, p)
  BY <1>3 DEF HoldsLast, n
<1>5. (n - d) % d = n % d
  <2> HIDE DEF d
  <2> QED BY ONLY <1>1, Wraps
<1>6. InputAt(list, p) = InputAt(longer, p)
  <2>1. p > 0 => p \in 1..n
    BY <1>1, <1>3
  <2> QED BY <1>2, <2>1 DEF InputAt
<1> HIDE DEF p
<1>7. cells[n % d] = InputAt(longer, p)
  BY <1>3, <1>4, <1>5, <1>6
<1> QED BY <1>7 DEF p, n, d, longer

LEMMA DelayReads ==
  ASSUME NEW list \in Seq(Samples), NEW n \in Nat, NEW cells, DelaysResiduals(cells, list, n),
         NEW s \in Samples, Len(list) + 1 - LatencyFrames > 0
  PROVE  cells[n % LatencyFrames] = DirectResidual(Append(list, s)[Len(list) + 1 - LatencyFrames])
<1> DEFINE d == LatencyFrames
           m == Len(list)
           p == n + 1 - d
           x == m + 1 - d
           longer == Append(list, s)
<1>1. d \in Nat \ {0} /\ m \in Nat /\ n \in Int
  BY CoreSizes
<1>2. \A i \in 1..m : longer[i] = list[i]
  OBVIOUS
<1> HIDE DEF m, longer
<1>3. p \in Int /\ p \in n - d + 1..n /\ p - 1 = n - d /\ m - n + p = x /\ x > 0 /\ x \in 1..m
  <2>1. x > 0
    BY DEF m
  <2> QED BY <1>1, <2>1
<1>4. cells[(p - 1) % d] = DirectResidual(list[x])
  <2>1. Len(list) - n + p > 0 /\ Len(list) - n + p = x
    BY <1>3 DEF m
  <2> HIDE DEF x, p
  <2>2. cells[(p - 1) % d] = DirectResidual(list[Len(list) - n + p])
    BY <1>3, <2>1 DEF DelaysResiduals
  <2> QED BY <2>1, <2>2
<1>5. (n - d) % d = n % d
  <2> HIDE DEF d
  <2> QED BY ONLY <1>1, Wraps
<1> HIDE DEF p, x
<1>6. cells[n % d] = DirectResidual(longer[x])
  BY <1>2, <1>3, <1>4, <1>5
<1> QED BY <1>6 DEF x, m, d, longer

\* After a frame; what its delay lines gave out.
LEMMA FrameHolds ==
  ASSUME CoreInv, NEW frame \in Nat, NEW sample \in Samples, NEW residual,
         ~core.highpass => sample = Sample(frame),
         Moved(core', frame, sample, residual),
         inputs' = Append(inputs, frame), samples' = Append(samples, sample)
  PROVE  /\ CoreTyped' /\ LinesHold' /\ Retains(core.history, samples)'
         /\ core.quality' = core.quality
         /\ core.lines.raw[core.index] = InputAt(inputs', Age')
         /\ core.lines.dry[core.index] = InputAt(inputs', Age')
<1> DEFINE n == Len(inputs)
           m == Len(samples)
           d == LatencyFrames
<1>1. /\ n \in Nat /\ m \in Nat /\ m <= n /\ d \in Nat \ {0} /\ Len(inputs') = n + 1
      /\ Len(samples') = m + 1 /\ inputs' \in Seq(Nat) /\ samples' \in Seq(Samples)
  BY CoreSizes DEF CoreInv, CoreTyped
<1>2. CoreTyped'
  <2>1. /\ DOMAIN core' = CoreParts /\ core.quality' \in CoreQualities /\ core.highpass' \in BOOLEAN
        /\ core.hpf' \in Nat /\ core.highpass' = core.highpass
    BY DEF CoreInv, CoreTyped, Moved
  <2>2. ASSUME ~core.highpass', NEW k \in 1..Len(samples')
        PROVE  samples'[k] = Sample(inputs'[Len(inputs') - Len(samples') + k])
    <3>0. ~core.highpass
      BY <2>1, <2>2
    <3>1. CASE k = m + 1
      <4>1. samples'[k] = sample /\ inputs'[n + 1] = frame
        BY <1>1, <3>1 DEF CoreInv, CoreTyped
      <4>2. Len(inputs') - Len(samples') + k = n + 1
        BY <1>1, <3>1
      <4> QED BY <3>0, <4>1, <4>2
    <3>2. CASE k # m + 1
      <4> DEFINE x == n - m + k
      <4>1. k \in 1..m /\ x \in 1..n /\ Len(inputs') - Len(samples') + k = x
        BY <1>1, <3>2
      <4>2. samples'[k] = samples[k] /\ inputs'[x] = inputs[x]
        BY <4>1 DEF CoreInv, CoreTyped
      <4>3. samples[k] = Sample(inputs[x])
        BY <3>0, <4>1 DEF CoreInv, CoreTyped
      <4> QED BY <4>1, <4>2, <4>3
    <3> QED BY <3>1, <3>2
  <2>3. Len(samples') <= Len(inputs')
    BY <1>1
  <2> QED BY <1>1, <2>1, <2>2, <2>3 DEF CoreTyped
<1>3. core.index = n % d
  BY DEF CoreInv, LinesHold
<1>4. core.index' = Len(inputs') % d
  <2> DEFINE one == 1
  <2>1. n \in Int /\ one \in Int
    BY <1>1
  <2> HIDE DEF n, d, one
  <2>2. ((n % d) + one) % d = (n + one) % d
    BY ONLY <1>1, <2>1, PlaceAfter
  <2>3. core.index' = (core.index + 1) % d
    BY DEF Moved, d
  <2> QED BY <1>1, <1>3, <2>2, <2>3 DEF one
<1>5. /\ HoldsLast(core.lines.raw, inputs, d, n) /\ HoldsLast(core.lines.dry, inputs, d, n)
      /\ inputs \in Seq(Nat) /\ DOMAIN core.lines.delta = 0..d - 1
  BY DEF CoreInv, LinesHold, CoreTyped
<1>6. /\ Written(core'.lines.raw, core.lines.raw, n % d, frame)
      /\ Written(core'.lines.dry, core.lines.dry, n % d, frame)
      /\ Written(core'.lines.delta, core.lines.delta, n % d, residual)
      /\ DOMAIN core'.lines = {"raw", "dry", "delta"}
  BY <1>3 DEF Moved
<1>7. HoldsLast(core'.lines.raw, inputs', d, n + 1)
  <2> HIDE DEF d
  <2> QED BY <1>1, <1>5, <1>6, LineWrites
<1>8. HoldsLast(core'.lines.dry, inputs', d, n + 1)
  <2> HIDE DEF d
  <2> QED BY <1>1, <1>5, <1>6, LineWrites
<1>9. LinesHold'
  <2>1. DOMAIN core'.lines.delta = 0..d - 1
    BY <1>5, <1>6 DEF Written
  <2> QED BY <1>1, <1>4, <1>6, <1>7, <1>8, <2>1 DEF LinesHold
<1>10. Retains(core.history, samples)'
  <2>1. Retains(core.history, samples) /\ samples \in Seq(Samples)
    BY DEF CoreInv, CoreTyped
  <2>2. core'.history = Recorded(core.history, sample)
    BY DEF Moved
  <2> QED BY <2>1, <2>2, HistoryWrites
<1>11. /\ core.lines.raw[core.index] = InputAt(inputs', Age')
       /\ core.lines.dry[core.index] = InputAt(inputs', Age')
  <2>1. Age' = n + 1 - d
    BY <1>1 DEF Age
  <2>2. /\ core.lines.raw[n % d] = InputAt(inputs', n + 1 - d)
        /\ core.lines.dry[n % d] = InputAt(inputs', n + 1 - d)
    BY <1>5, LineReads
  <2> QED BY <1>3, <2>1, <2>2
<1> QED BY <1>2, <1>9, <1>10, <1>11 DEF Moved

LEMMA SampleTyped ==
  ASSUME CoreInv, NEW frame \in NextFrames
  PROVE  /\ frame \in Nat /\ SampleOf(frame) \in Samples
         /\ ~core.highpass => SampleOf(frame) = Sample(frame)
<1>1. frame \in Nat
  <2>1. Len(inputs) + 1 \in Nat
    BY DEF CoreInv, CoreTyped
  <2> QED BY <2>1 DEF NextFrames
<1>2. core.hpf \in Nat
  BY DEF CoreInv, CoreTyped
<1> QED BY <1>1, <1>2 DEF SampleOf, Sample, Samples

LEMMA FrameStep == ASSUME CoreInv, ProcessFrame PROVE CoreInv'
<1>1. PICK frame \in NextFrames :
        LET sample == SampleOf(frame)
            filter == Oversampled(core.filter, sample, core.quality)
            lines == core.lines
        IN /\ IF Oversamples(core.quality)
              THEN /\ core' = [Delayed(frame, sample, lines.delta[core.index]) EXCEPT !.filter = filter]
                   /\ emitted' = [raw |-> lines.raw[core.index], dry |-> lines.dry[core.index],
                                  residual |-> Evaluated(filter, core.quality)]
              ELSE /\ core' = Delayed(frame, sample, PointBetween(sample, sample, 0, 1))
                   /\ emitted' = [raw |-> lines.raw[core.index], dry |-> lines.dry[core.index],
                                  residual |-> <<lines.delta[core.index]>>]
           /\ Advance(frame, sample) /\ UNCHANGED behind
  BY DEF ProcessFrame
<1> DEFINE sample == SampleOf(frame)
           q == core.quality
           filter == Oversampled(core.filter, sample, q)
           stored == core.lines.delta[core.index]
           residual == IF Oversamples(q) THEN stored ELSE DirectResidual(sample)
           out == IF Oversamples(q) THEN Evaluated(filter, q) ELSE <<stored>>
           n == Len(inputs)
           m == Len(samples)
<1>2. /\ frame \in Nat /\ sample \in Samples /\ (~core.highpass => sample = Sample(frame))
  BY SampleTyped
<1>3. /\ inputs' = Append(inputs, frame) /\ samples' = Append(samples, sample) /\ behind' = behind
      /\ emitted' = [raw |-> core.lines.raw[core.index], dry |-> core.lines.dry[core.index],
                     residual |-> out]
  BY <1>1 DEF Advance
<1>4. CoreTyped /\ LinesHold
  BY DEF CoreInv
<1>5. Moved(core', frame, sample, residual) /\ (Oversamples(q) => core'.filter = filter)
  <2>1. CASE Oversamples(q)
    <3>1. core' = [Delayed(frame, sample, stored) EXCEPT !.filter = filter]
      BY <1>1, <2>1
    <3> HIDE DEF sample, filter, stored, q
    <3> DEFINE r == Delayed(frame, sample, stored)
    <3>2. Moved(r, frame, sample, stored) /\ core' = [r EXCEPT !.filter = filter]
      BY <1>4, <3>1, Delays
    <3> HIDE DEF r
    <3>3. Moved(core', frame, sample, stored) /\ core'.filter = filter
      BY <3>2, Filters
    <3> QED BY <2>1, <3>3
  <2>2. CASE ~Oversamples(q)
    <3>1. core' = Delayed(frame, sample, DirectResidual(sample))
      BY <1>1, <2>2 DEF DirectResidual
    <3> HIDE DEF sample, filter, stored, q
    <3> QED BY <1>4, <2>2, <3>1, Delays
  <2> QED BY <2>1, <2>2
<1> HIDE DEF sample, residual
<1>6. /\ CoreTyped' /\ LinesHold' /\ Retains(core.history, samples)' /\ core.quality' = q
      /\ core.lines.raw[core.index] = InputAt(inputs', Age')
      /\ core.lines.dry[core.index] = InputAt(inputs', Age')
  BY <1>2, <1>3, <1>5, FrameHolds
<1>7. /\ n \in Nat /\ m \in Nat /\ q \in CoreQualities /\ samples \in Seq(Samples)
      /\ samples'[m + 1] = sample /\ Len(samples') = m + 1 /\ Len(inputs') = n + 1
      /\ \A k \in 1..m : samples'[k] = samples[k]
  BY <1>3, <1>4 DEF CoreTyped
<1>8. ASSUME ~behind, Oversamples(q)
      PROVE  /\ Fed(filter, q, samples', 0, m + 1)
             /\ Evaluated(filter, q) = [i \in 1..Taps[q] |-> ResidualAt(samples', 0, m + 1, q, i)]
  <2>1. Fed(core.filter, q, samples, 0, m)
    BY <1>8 DEF CoreInv, ResidualsHold
  <2>2. Fed(filter, q, samples', 0, m + 1)
    <3>1. 0 \in Nat /\ 0 <= m /\ \A k \in 0 + 1..m : samples'[k] = samples[k]
      BY <1>7
    <3> HIDE DEF m, q
    <3> QED BY <1>7, <1>8, <2>1, <3>1, FedGrows
  <2>3. Evaluated(filter, q) = [i \in 1..Taps[q] |-> filter.history[filter.index + i - 1]]
    BY DEF Evaluated
  <2>4. \A i \in 1..Taps[q] : filter.history[filter.index + i - 1] = ResidualAt(samples', 0, m + 1, q, i)
    BY <2>2 DEF Fed
  <2> QED BY <2>2, <2>3, <2>4
<1> HIDE DEF filter
<1>9. ASSUME ~behind, ~Oversamples(q)
      PROVE  /\ DelaysResiduals(core'.lines.delta, samples', n + 1)
             /\ m + 1 - LatencyFrames > 0 => stored = DirectResidual(samples'[m + 1 - LatencyFrames])
  <2>1. DelaysResiduals(core.lines.delta, samples, n)
    BY <1>9 DEF CoreInv, ResidualsHold
  <2>2. /\ DOMAIN core.lines.delta = 0..LatencyFrames - 1 /\ core.index = n % LatencyFrames
    BY <1>4 DEF LinesHold
  <2>3. Written(core'.lines.delta, core.lines.delta, n % LatencyFrames, DirectResidual(sample))
    BY <1>5, <1>9, <2>2 DEF Moved, residual
  <2>4. DelaysResiduals(core'.lines.delta, samples', n + 1)
    <3> HIDE DEF n, q
    <3> QED BY <1>2, <1>3, <1>7, <2>1, <2>2, <2>3, DelayWrites
  <2>5. ASSUME m + 1 - LatencyFrames > 0 PROVE stored = DirectResidual(samples'[m + 1 - LatencyFrames])
    <3>1. core.lines.delta[n % LatencyFrames]
            = DirectResidual(Append(samples, sample)[Len(samples) + 1 - LatencyFrames])
      BY <1>2, <1>7, <2>1, <2>5, DelayReads
    <3> QED BY <1>3, <2>2, <3>1
  <2> QED BY <2>4, <2>5
<1>10. ResidualsHold'
  <2> SUFFICES ASSUME ~behind'
               PROVE  IF Oversamples(core.quality') THEN Fed(core'.filter, core.quality', samples', 0, Len(samples'))
                      ELSE DelaysResiduals(core'.lines.delta, samples', Len(inputs'))
    BY DEF ResidualsHold
  <2> HIDE DEF q, n, m
  <2> QED BY <1>3, <1>5, <1>6, <1>7, <1>8, <1>9
<1>11. EmittedHolds'
  <2>1. /\ emitted'.raw = InputAt(inputs', Age') /\ emitted'.dry = InputAt(inputs', Age')
        /\ emitted'.residual = out
    BY <1>3, <1>6
  <2>2. ASSUME ~behind'
        PROVE  IF Oversamples(q)
               THEN out = [i \in 1..Taps[q] |-> ResidualAt(samples', 0, m + 1, q, i)]
               ELSE m + 1 - LatencyFrames > 0 => out = <<DirectResidual(samples'[m + 1 - LatencyFrames])>>
    <3>1. ~behind
      BY <1>3, <2>2
    <3>2. CASE Oversamples(q)
      BY <1>8, <3>1, <3>2
    <3>3. CASE ~Oversamples(q)
      <4> HIDE DEF stored
      <4> QED BY <1>9, <3>1, <3>3
    <3> QED BY <3>2, <3>3
  <2>3. (emitted # Nothing => emitted.raw = InputAt(inputs, Age) /\ emitted.dry = InputAt(inputs, Age))'
    BY <2>1
  <2> HIDE DEF out, q, m
  <2>4. ASSUME ~behind'
        PROVE  IF Oversamples(core.quality')
               THEN emitted'.residual = [i \in 1..Taps[core.quality'] |->
                                           ResidualAt(samples', 0, Len(samples'), core.quality', i)]
               ELSE Len(samples') - LatencyFrames > 0 =>
                      emitted'.residual = <<DirectResidual(samples'[Len(samples') - LatencyFrames])>>
    <3>1. CASE Oversamples(q)
      <4>1. out = [i \in 1..Taps[q] |-> ResidualAt(samples', 0, m + 1, q, i)]
        BY <2>2, <2>4, <3>1
      <4>2. [i \in 1..Taps[q] |-> ResidualAt(samples', 0, m + 1, q, i)]
              = [i \in 1..Taps[core.quality'] |->
                   ResidualAt(samples', 0, Len(samples'), core.quality', i)]
        BY <1>6, <1>7
      <4> QED BY <1>6, <2>1, <3>1, <4>1, <4>2
    <3>2. CASE ~Oversamples(q)
      <4> DEFINE x == m + 1 - LatencyFrames
      <4>1. x > 0 => out = <<DirectResidual(samples'[x])>>
        BY <2>2, <2>4, <3>2
      <4>2. Len(samples') - LatencyFrames = x
        BY <1>7, CoreSizes
      <4> HIDE DEF x
      <4>3. ~Oversamples(core.quality')
        BY <1>6, <3>2
      <4> QED BY <2>1, <4>1, <4>2, <4>3
    <3> QED BY <3>1, <3>2
  <2> QED BY <2>3, <2>4 DEF EmittedHolds
<1> QED BY <1>6, <1>10, <1>11 DEF CoreInv

LEMMA BypassFrameStep == ASSUME CoreInv, BypassFrame PROVE CoreInv'
<1>1. PICK frame \in NextFrames :
        LET sample == SampleOf(frame)
        IN /\ core' = Delayed(frame, sample, NoResidual)
           /\ emitted' = [Nothing EXCEPT !.raw = core.lines.raw[core.index],
                                         !.dry = core.lines.raw[core.index]]
           /\ Advance(frame, sample) /\ behind' = TRUE
  BY DEF BypassFrame
<1> DEFINE sample == SampleOf(frame)
<1>2. /\ frame \in Nat /\ sample \in Samples /\ (~core.highpass => sample = Sample(frame))
  BY SampleTyped
<1>3. inputs' = Append(inputs, frame) /\ samples' = Append(samples, sample)
  BY <1>1 DEF Advance
<1>4. CoreTyped /\ LinesHold
  BY DEF CoreInv
<1>5. Moved(core', frame, sample, NoResidual)
  <2>1. core' = Delayed(frame, sample, NoResidual)
    BY <1>1
  <2> HIDE DEF sample
  <2> QED BY <1>4, <2>1, Delays
<1> HIDE DEF sample
<1>6. /\ CoreTyped' /\ LinesHold' /\ Retains(core.history, samples)'
      /\ core.lines.raw[core.index] = InputAt(inputs', Age')
  BY <1>2, <1>3, <1>5, FrameHolds
<1>7. ResidualsHold' /\ EmittedHolds'
  BY <1>1, <1>6 DEF ResidualsHold, EmittedHolds, Nothing
<1> QED BY <1>6, <1>7 DEF CoreInv

LEMMA SetQualityStep == ASSUME CoreInv, SetQuality PROVE CoreInv'
<1>1. PICK q \in CoreQualities : core' = Prepared([core EXCEPT !.quality = q])
  BY DEF SetQuality
<1>2. /\ behind' = FALSE /\ emitted' = Nothing /\ inputs' = inputs /\ samples' = samples
  BY DEF SetQuality
<1> DEFINE c == [core EXCEPT !.quality = q]
           n == Len(inputs)
<1>3. CoreTyped /\ LinesHold /\ Retains(core.history, samples)
  BY DEF CoreInv
<1>4. /\ DOMAIN c = CoreParts /\ c.quality = q /\ c.highpass = core.highpass /\ c.hpf = core.hpf
      /\ c.history = core.history /\ c.index = core.index /\ c.lines = core.lines
  BY <1>3 DEF CoreTyped, CoreParts
<1>5. core' = Prepared(c)
  BY <1>1
<1> HIDE DEF c
<1>6. /\ samples \in Seq(Samples) /\ n \in Nat /\ Len(samples) <= n
      /\ DOMAIN c.lines = {"raw", "dry", "delta"} /\ c.index = n % LatencyFrames
      /\ Retains(c.history, samples) /\ c.quality \in CoreQualities
  BY <1>3, <1>4 DEF CoreTyped, LinesHold
<1> DEFINE r == Prepared(c)
<1>7. /\ DOMAIN r = CoreParts /\ DOMAIN r.lines = {"raw", "dry", "delta"}
      /\ r.quality = c.quality /\ r.highpass = c.highpass /\ r.hpf = c.hpf
      /\ r.history = c.history /\ r.index = c.index
      /\ r.lines.raw = c.lines.raw /\ r.lines.dry = c.lines.dry
      /\ DOMAIN r.lines.delta = 0..LatencyFrames - 1
      /\ IF Oversamples(c.quality) THEN Fed(r.filter, c.quality, samples, 0, Len(samples))
         ELSE DelaysResiduals(r.lines.delta, samples, n)
  <2> HIDE DEF n
  <2> QED BY <1>4, <1>6, Prepares
<1> HIDE DEF r
<1>8. core' = r
  BY <1>5 DEF r
<1>9. CoreTyped'
  BY <1>2, <1>3, <1>4, <1>7, <1>8 DEF CoreTyped
<1>10. LinesHold' /\ Retains(core.history, samples)'
  BY <1>2, <1>3, <1>4, <1>7, <1>8 DEF LinesHold
<1>11. ResidualsHold'
  BY <1>2, <1>4, <1>7, <1>8 DEF ResidualsHold
<1>12. EmittedHolds'
  BY <1>2 DEF EmittedHolds, Nothing
<1> QED BY <1>9, <1>10, <1>11, <1>12 DEF CoreInv

LEMMA NothingRetained == Retains(NewHistory, <<>>)
<1> DEFINE h == NewHistory
           size == HistoryFrames
           ring == [i \in 0..size - 1 |-> SilentSample]
           none == <<>>
<1>1. size \in Nat \ {0}
  BY CoreSizes
<1>2. DOMAIN h = {"ring", "next", "len"} /\ h.ring = ring /\ h.next = 0 /\ h.len = 0
  BY DEF NewHistory
<1>3. DOMAIN ring = 0..size - 1 /\ Len(none) = 0
  OBVIOUS
<1>4. 0 % size = 0 /\ 0 < size
  BY <1>1
<1> HIDE DEF h, ring, none
<1>5. 0 - h.len + 1..0 = {}
  BY <1>2
<1>6. Retains(h, none)
  BY <1>2, <1>3, <1>4, <1>5 DEF Retains, size
<1> QED BY <1>6 DEF h, none

LEMMA NothingDelayed ==
  ASSUME NEW cells, NEW n \in Nat
  PROVE  DelaysResiduals(cells, <<>>, n)
<1>1. LatencyFrames \in Nat
  BY CoreSizes
<1>2. ASSUME NEW p \in n - LatencyFrames + 1..n PROVE ~(Len(<<>>) - n + p > 0)
  <2>1. Len(<<>>) = 0
    OBVIOUS
  <2> QED BY <1>1, <2>1
<1> QED BY <1>2 DEF DelaysResiduals

LEMMA SetHighpassStep == ASSUME CoreInv, SetHighpassMode PROVE CoreInv'
<1>1. /\ core' = [core EXCEPT !.highpass = ~@, !.filter = NewFilter(core.quality), !.history = NewHistory]
      /\ samples' = <<>> /\ behind' = FALSE /\ emitted' = Nothing /\ inputs' = inputs
  BY DEF SetHighpassMode
<1>2. CoreTyped /\ LinesHold
  BY DEF CoreInv
<1> DEFINE h == NewHistory
           f == NewFilter(core.quality)
<1>3. /\ DOMAIN core' = CoreParts /\ core'.quality = core.quality /\ core'.highpass = ~core.highpass
      /\ core'.hpf = core.hpf /\ core'.filter = f
      /\ core'.history = h /\ core'.index = core.index /\ core'.lines = core.lines
  <2>1. DOMAIN core = CoreParts
    BY <1>2 DEF CoreTyped
  <2> HIDE DEF h, f
  <2>2. core' = [core EXCEPT !.highpass = ~@, !.filter = f, !.history = h]
    BY <1>1 DEF h, f
  <2> QED BY <2>1, <2>2 DEF CoreParts
<1>4. CoreTyped'
  <2>1. samples' \in Seq(Samples) /\ Len(samples') = 0 /\ Len(inputs) \in Nat
    BY <1>1, <1>2 DEF CoreTyped
  <2>2. core'.highpass \in BOOLEAN
    BY <1>3
  <2>3. 1..Len(samples') = {} /\ Len(samples') <= Len(inputs')
    BY <1>1, <2>1
  <2> HIDE DEF h, f
  <2>4. /\ DOMAIN core' = CoreParts /\ core'.quality \in CoreQualities /\ core'.hpf \in Nat
        /\ inputs' \in Seq(Nat)
    BY <1>1, <1>2, <1>3 DEF CoreTyped
  <2> QED BY <2>1, <2>2, <2>3, <2>4 DEF CoreTyped
<1>5. LinesHold'
  BY <1>1, <1>2, <1>3 DEF LinesHold
<1>6. Retains(core.history, samples)'
  BY <1>1, <1>3, NothingRetained
<1>7. ResidualsHold'
  <2>1. core.quality \in CoreQualities /\ Len(inputs) \in Nat
    BY <1>2 DEF CoreTyped
  <2>2. CASE Oversamples(core.quality)
    <3> DEFINE none == <<>>
    <3>1. Fed(f, core.quality, none, 0, 0) /\ Len(none) = 0
      BY <2>1, <2>2, FedStarts
    <3> HIDE DEF f, none
    <3>2. samples' = none
      BY <1>1 DEF none
    <3> QED BY <1>3, <2>2, <3>1, <3>2 DEF ResidualsHold
  <2>3. CASE ~Oversamples(core.quality)
    <3>1. DelaysResiduals(core.lines.delta, <<>>, Len(inputs))
      BY <2>1, NothingDelayed
    <3> QED BY <1>1, <1>3, <2>3, <3>1 DEF ResidualsHold
  <2> QED BY <2>2, <2>3
<1>8. EmittedHolds'
  BY <1>1 DEF EmittedHolds, Nothing
<1> QED BY <1>4, <1>5, <1>6, <1>7, <1>8 DEF CoreInv

\* A core without inputs.
LEMMA SilentHolds ==
  HoldsLast(Line(0), <<>>, LatencyFrames, 0) /\ 0 % LatencyFrames = 0
<1> DEFINE d == LatencyFrames
           cells == Line(0)
<1>1. d \in Nat \ {0}
  BY CoreSizes
<1>2. DOMAIN cells = 0..d - 1 /\ \A i \in 0..d - 1 : cells[i] = 0
  BY DEF Line
<1> HIDE DEF cells
<1>3. ASSUME NEW p \in 0 - d + 1..0 PROVE cells[(p - 1) % d] = InputAt(<<>>, p)
  <2> DEFINE x == p - 1
  <2>1. x \in Int /\ ~(p > 0)
    BY <1>1
  <2> HIDE DEF x, d
  <2>2. x % d \in 0..d - 1
    BY ONLY <1>1, <2>1, Floor
  <2> QED BY <1>2, <2>1, <2>2 DEF InputAt, x
<1>4. 0 % d = 0
  BY <1>1
<1> QED BY <1>2, <1>3, <1>4 DEF HoldsLast, cells

IsSilent ==
  /\ DOMAIN core = CoreParts /\ core.quality \in CoreQualities /\ core.highpass \in BOOLEAN
  /\ core.hpf = 0 /\ core.filter = NewFilter(core.quality) /\ core.history = NewHistory
  /\ core.lines = NewLines /\ core.index = 0 /\ emitted = Nothing /\ inputs = <<>> /\ samples = <<>>

LEMMA SilentCore == IsSilent => CoreInv
<1> SUFFICES ASSUME IsSilent PROVE CoreInv
  OBVIOUS
<1> USE DEF IsSilent
<1>1. Len(inputs) = 0 /\ Len(samples) = 0
  OBVIOUS
<1>2. CoreTyped
  <2>1. 1..Len(samples) = {} /\ Len(samples) <= Len(inputs) /\ core.hpf \in Nat
    BY <1>1
  <2>2. inputs \in Seq(Nat) /\ samples \in Seq(Samples)
    OBVIOUS
  <2> QED BY <2>1, <2>2 DEF CoreTyped
<1>3. LinesHold
  <2> DEFINE l == NewLines
             raw == Line(0)
             delta == Line(NoResidual)
  <2>1. DOMAIN l = {"raw", "dry", "delta"} /\ l.raw = raw /\ l.dry = raw /\ l.delta = delta
    BY DEF NewLines
  <2>2. DOMAIN delta = 0..LatencyFrames - 1
    BY DEF Line
  <2>3. HoldsLast(raw, <<>>, LatencyFrames, 0) /\ 0 % LatencyFrames = 0
    BY SilentHolds
  <2> HIDE DEF l, raw, delta
  <2>4. core.lines = l
    BY DEF l
  <2> QED BY <1>1, <2>1, <2>2, <2>3, <2>4 DEF LinesHold
<1>4. Retains(core.history, samples)
  BY NothingRetained
<1>5. ResidualsHold
  <2>1. CASE Oversamples(core.quality)
    <3> DEFINE none == <<>>
               f == NewFilter(core.quality)
    <3>1. Fed(f, core.quality, none, 0, 0) /\ Len(none) = 0
      BY <2>1, FedStarts
    <3>2. samples = none /\ core.filter = f
      OBVIOUS
    <3> HIDE DEF f, none
    <3> QED BY <2>1, <3>1, <3>2 DEF ResidualsHold
  <2>2. CASE ~Oversamples(core.quality)
    <3>1. DelaysResiduals(core.lines.delta, <<>>, 0)
      BY NothingDelayed
    <3> QED BY <1>1, <2>2, <3>1 DEF ResidualsHold
  <2> QED BY <2>1, <2>2
<1>6. EmittedHolds
  BY DEF EmittedHolds, Nothing
<1> QED BY <1>2, <1>3, <1>4, <1>5, <1>6 DEF CoreInv

LEMMA ResetCoreStep == ASSUME CoreInv, ResetCore PROVE CoreInv'
<1>1. PICK rate \in CoreRates : core' = Cleared([core EXCEPT !.rate = rate])
  BY DEF ResetCore
<1>2. emitted' = Nothing /\ inputs' = <<>> /\ samples' = <<>>
  BY DEF ResetCore
<1>3. DOMAIN core = CoreParts /\ core.quality \in CoreQualities /\ core.highpass \in BOOLEAN
  BY DEF CoreInv, CoreTyped
<1> DEFINE c == [core EXCEPT !.rate = rate]
           f == NewFilter(core.quality)
           h == NewHistory
           l == NewLines
<1>4. DOMAIN c = CoreParts /\ c.quality = core.quality /\ c.highpass = core.highpass
  BY <1>3 DEF CoreParts
<1> HIDE DEF c
<1>5. core' = [c EXCEPT !.hpf = 0, !.filter = f, !.history = h, !.lines = l, !.index = 0]
  BY <1>1, <1>4 DEF Cleared, c
<1> HIDE DEF f, h, l
<1>6. /\ DOMAIN core' = CoreParts /\ core'.quality = core.quality /\ core'.highpass = core.highpass
      /\ core'.hpf = 0 /\ core'.filter = f /\ core'.history = h /\ core'.lines = l /\ core'.index = 0
  BY <1>4, <1>5 DEF CoreParts
<1>7. IsSilent'
  BY <1>2, <1>3, <1>6 DEF IsSilent, f, h, l
<1>8. IsSilent' => CoreInv'
  BY SilentCore, PTL
<1> QED BY <1>7, <1>8

LEMMA SilentStart == CoreInit => CoreInv
<1> SUFFICES ASSUME CoreInit PROVE CoreInv
  OBVIOUS
<1>1. PICK q \in CoreQualities, high \in BOOLEAN, rate \in CoreRates :
        core = [quality |-> q, highpass |-> high, rate |-> rate, hpf |-> 0, filter |-> NewFilter(q),
                history |-> NewHistory, lines |-> NewLines, index |-> 0]
  BY DEF CoreInit
<1>2. IsSilent
  BY <1>1 DEF CoreInit, IsSilent, CoreParts
<1> QED BY <1>2, SilentCore

LEMMA CoreStep == CoreInv /\ [CoreNext]_coreVars => CoreInv'
<1> SUFFICES ASSUME CoreInv, [CoreNext]_coreVars PROVE CoreInv'
  OBVIOUS
<1>1. CASE ProcessFrame
  BY <1>1, FrameStep
<1>2. CASE BypassFrame
  BY <1>2, BypassFrameStep
<1>3. CASE SetQuality
  BY <1>3, SetQualityStep
<1>4. CASE SetHighpassMode
  BY <1>4, SetHighpassStep
<1>5. CASE ResetCore
  BY <1>5, ResetCoreStep
<1>6. CASE UNCHANGED coreVars
  BY <1>6 DEF coreVars, CoreInv, CoreTyped, LinesHold, HoldsLast, Retains, ResidualsHold, EmittedHolds,
              Age, InputAt, ResidualAt, Fed, DelaysResiduals
<1> QED BY <1>1, <1>2, <1>3, <1>4, <1>5, <1>6 DEF CoreNext

\* The sample of each residual that a running core would hold.
LEMMA RunningResiduals ==
  ASSUME CoreTyped, NEW q \in CoreQualities, NEW i \in Nat \ {0}
  PROVE  /\ Len(Running(q)) = Len(samples) * Ratios[q]
         /\ (IF i <= Len(Running(q)) THEN Running(q)[i] ELSE NoResidual)
              = ResidualAt(samples, 0, Len(samples), q, i)
<1> DEFINE m == Len(samples)
           d == Ratios[q]
           all == m * d
           Of(j) == LET k == m - ((j - 1) \div d)
                        phase == d - ((j - 1) % d)
                    IN PointBetween(samples[IF k = 1 THEN 1 ELSE k - 1], samples[k], phase, d)
           r == Running(q)
           x == i - 1
           y == x \div d
           e == x % d
           k == m - y
<1>1. m \in Nat /\ d \in Nat \ {0}
  BY CoreSizes DEF CoreTyped
<1>2. all \in Nat
  BY <1>1
<1>3. r = [j \in 1..all |-> Of(j)]
  BY DEF Running
<1>4. Len(r) = all
  <2> HIDE DEF r, Of, all
  <2>1. DOMAIN r = 1..all
    BY <1>3
  <2>2. r \in Seq({r[j] : j \in 1..all})
    BY <1>2, <1>3
  <2> QED BY <1>2, <2>1, <2>2
<1>5. x \in Int /\ x >= 0 /\ (i <= all <=> x < d * m)
  <2>1. d * m = all
    BY <1>1
  <2> HIDE DEF all
  <2> QED BY <1>2, <2>1
<1>6. y \in Int /\ e \in 0..d - 1 /\ x = d * y + e
  <2> HIDE DEF x, d
  <2>1. x \div d \in Int /\ x % d \in 0..d - 1 /\ x = d * (x \div d) + (x % d)
    BY ONLY <1>1, <1>5, Floor
  <2> QED BY <2>1
<1>7. i <= all <=> k > 0
  <2> HIDE DEF x, d, y, e, all
  <2>1. d * y \in Int /\ d * m \in Int
    BY <1>1, <1>6
  <2>2. ASSUME x < d * m PROVE y < m
    <3>1. d * y < d * m
      BY <1>6, <2>1, <2>2
    <3> QED BY <1>1, <1>6, <3>1, FactorLess
  <2>3. ASSUME y < m PROVE x < d * m
    <3> DEFINE z == m - y - 1
    <3>1. z \in Nat
      BY <1>1, <1>6, <2>3
    <3>2. d * z \in Nat
      BY <1>1, <3>1
    <3>3. d * m = d * y + d + d * z
      <4>1. m = y + 1 + z
        BY <1>1, <1>6
      <4> HIDE DEF z
      <4>2. d * (y + 1 + z) = d * y + d + d * z
        BY <1>1, <1>6, <3>1
      <4> QED BY <4>1, <4>2
    <3> HIDE DEF z
    <3> QED BY <1>1, <1>6, <2>1, <3>2, <3>3
  <2> QED BY <1>1, <1>5, <1>6, <2>2, <2>3
<1>8. ResidualAt(samples, 0, m, q, i)
        = IF k > 0 THEN PointBetween(samples[IF k = 1 THEN k ELSE k - 1], samples[k], d - e, d)
          ELSE NoResidual
  BY DEF ResidualAt
<1>9. ASSUME i <= all PROVE r[i] = PointBetween(samples[IF k = 1 THEN 1 ELSE k - 1], samples[k], d - e, d)
  <2>1. i \in 1..all
    BY <1>2, <1>9
  <2>2. r[i] = Of(i)
    <3> HIDE DEF Of, r, all
    <3> QED BY <1>3, <2>1
  <2> QED BY <2>2
<1> HIDE DEF k, e, r, all
<1> QED BY <1>4, <1>7, <1>8, <1>9 DEF r, all

LEMMA SwitchHolds == CoreInv => SwitchIsSeamless
<1> SUFFICES ASSUME CoreInv, emitted.residual # <<>>, ~behind
             PROVE  LET q == core.quality
                        whole == Running(q)
                        position == Len(samples) - LatencyFrames
                    IN IF Oversamples(q)
                       THEN emitted.residual =
                              [i \in 1..Taps[q] |-> IF i <= Len(whole) THEN whole[i] ELSE NoResidual]
                       ELSE position > 0 =>
                              emitted.residual = <<PointBetween(samples[position], samples[position], 0, 1)>>
  BY DEF SwitchIsSeamless
<1> DEFINE q == core.quality
           whole == Running(q)
<1>1. CoreTyped /\ EmittedHolds /\ q \in CoreQualities
  BY DEF CoreInv, CoreTyped
<1>2. CASE Oversamples(q)
  <2>1. emitted.residual = [i \in 1..Taps[q] |-> ResidualAt(samples, 0, Len(samples), q, i)]
    BY <1>1, <1>2 DEF EmittedHolds
  <2>2. ASSUME NEW i \in 1..Taps[q]
        PROVE  (IF i <= Len(whole) THEN whole[i] ELSE NoResidual)
                 = ResidualAt(samples, 0, Len(samples), q, i)
    <3>1. i \in Nat \ {0}
      BY <1>1, CoreSizes
    <3> HIDE DEF q
    <3> QED BY <1>1, <3>1, RunningResiduals
  <2> HIDE DEF whole, q
  <2>3. emitted.residual = [i \in 1..Taps[q] |-> IF i <= Len(whole) THEN whole[i] ELSE NoResidual]
    BY <2>1, <2>2
  <2> QED BY <1>2, <2>3 DEF whole, q
<1>3. CASE ~Oversamples(q)
  BY <1>1, <1>3 DEF EmittedHolds, DirectResidual
<1> QED BY <1>2, <1>3

LEMMA TimelineIsHeld == CoreInv => TimelineHolds
BY DEF CoreInv, EmittedHolds, TimelineHolds, InputAt

\* The tail of the filters, in frames.
LEMMA TailFrames ==
  ASSUME CoreTyped, ~core.highpass
  PROVE  /\ FiniteTail \in Nat /\ FiniteTail >= LatencyFrames
         /\ Oversamples(core.quality) => FiniteTail = 2 * LatencyFrames
<1> DEFINE q == core.quality
           d == Ratios[q]
           l == LatencyFrames
           two == 2 * l
           r == d - 1
           a == Taps[q] + Ratios[q] - 2
<1>1. l \in Nat \ {0} /\ d \in Nat \ {0} /\ q \in CoreQualities
  BY CoreSizes DEF CoreTyped
<1>2. CASE Oversamples(q)
  <2>1. Taps[q] = 2 * d * l + 1 /\ Taps[q] \in Nat
    BY <1>1, <1>2, CoreSizes
  <2> HIDE DEF d, l
  <2>2. d * (2 * l) = 2 * d * l /\ 2 * d * l \in Int
    BY <1>1
  <2>3. d \in Nat \ {0} /\ two \in Int /\ r \in 0..d - 1 /\ a \in Int /\ a = d * two + r
    BY <1>1, <2>1, <2>2 DEF d
  <2> HIDE DEF two, r, a
  <2>4. a \div d = two
    BY ONLY <2>3, FloorIs
  <2>5. FiniteTail = IF two > l THEN two ELSE l
    BY <1>2, <2>4 DEF FiniteTail, a, d, l
  <2> QED BY <1>1, <1>2, <2>5 DEF two, l
<1>3. CASE ~Oversamples(q)
  <2>1. FiniteTail = l
    BY <1>3 DEF FiniteTail
  <2> QED BY <1>1, <1>3, <2>1
<1> QED BY <1>2, <1>3

LEMMA TailHolds == CoreInv => TailIsEnough
<1> DEFINE n == Len(inputs)
           tail == FiniteTail
           q == core.quality
<1> SUFFICES ASSUME CoreInv, ~behind, ~core.highpass, n > tail, Len(samples) = n,
                    \A i \in n - tail..n : inputs[i] = 0
             PROVE  /\ emitted.raw = 0 /\ emitted.dry = 0
                    /\ \A i \in DOMAIN emitted.residual : emitted.residual[i] = NoResidual
  BY DEF TailIsEnough
<1>1. /\ CoreTyped /\ EmittedHolds /\ n \in Nat /\ q \in CoreQualities
      /\ LatencyFrames \in Nat \ {0} /\ Ratios[q] \in Nat \ {0} /\ Taps[q] \in Nat
  BY CoreSizes DEF CoreInv, CoreTyped
<1>2. tail \in Nat /\ tail >= LatencyFrames /\ (Oversamples(q) => tail = 2 * LatencyFrames)
  BY <1>1, TailFrames
<1> HIDE DEF tail
<1>3. ASSUME NEW k \in n - tail..n PROVE k \in 1..n /\ inputs[k] = 0 /\ samples[k] = SilentSample
  <2>1. k \in 1..n /\ inputs[k] = 0
    BY <1>1, <1>2
  <2>2. samples[k] = Sample(inputs[Len(inputs) - Len(samples) + k])
    BY <1>1, <2>1 DEF CoreTyped
  <2>3. Len(inputs) - Len(samples) + k = k
    BY <1>1, <2>1
  <2> QED BY <2>1, <2>2, <2>3 DEF SilentSample
<1>4. emitted.raw = 0 /\ emitted.dry = 0
  <2>1. CASE emitted = Nothing
    BY <2>1 DEF Nothing
  <2>2. CASE emitted # Nothing
    <3>1. Age = n - LatencyFrames
      BY DEF Age
    <3>2. InputAt(inputs, Age) = 0
      <4>1. Age > 0 => Age \in n - tail..n
        BY <1>1, <1>2, <3>1
      <4> QED BY <1>3, <4>1 DEF InputAt
    <3> QED BY <1>1, <2>2, <3>2 DEF EmittedHolds
  <2> QED BY <2>1, <2>2
<1>5. ASSUME NEW i \in DOMAIN emitted.residual PROVE emitted.residual[i] = NoResidual
  <2>1. emitted.residual # <<>>
    BY <1>5
  <2>2. CASE Oversamples(q)
    <3>1. emitted.residual = [j \in 1..Taps[q] |-> ResidualAt(samples, 0, Len(samples), q, j)]
      BY <1>1, <2>1, <2>2 DEF EmittedHolds
    <3>2. i \in 1..Taps[q] /\ emitted.residual[i] = ResidualAt(samples, 0, n, q, i)
      BY <1>5, <3>1
    <3> DEFINE d == Ratios[q]
               x == i - 1
               y == x \div d
               e == x % d
               k == n - y
               p == IF k = 1 THEN k ELSE k - 1
    <3>3. Taps[q] = 2 * d * LatencyFrames + 1
      BY <1>1, <2>2, CoreSizes
    <3>4. x \in Int /\ x >= 0 /\ x <= d * tail /\ d * tail \in Int
      <4>1. d * (2 * LatencyFrames) = 2 * d * LatencyFrames
        BY <1>1
      <4>2. d * tail = 2 * d * LatencyFrames
        BY <1>2, <2>2, <4>1
      <4> DEFINE most == d * tail
      <4>3. Taps[q] = most + 1
        BY <3>3, <4>2
      <4>4. most \in Int
        BY <1>1, <1>2
      <4> HIDE DEF most
      <4>5. x \in Int /\ x >= 0 /\ x <= most
        BY <3>2, <4>3, <4>4
      <4> QED BY <4>4, <4>5 DEF most
    <3> HIDE DEF x, d
    <3>0. d \in Nat \ {0}
      BY <1>1 DEF d
    <3>5. y \in Int /\ e \in 0..d - 1 /\ x = d * y + e
      <4>1. x \div d \in Int /\ x % d \in 0..d - 1 /\ x = d * (x \div d) + (x % d)
        BY ONLY <3>0, <3>4, Floor
      <4> QED BY <4>1
    <3>6. y >= 0
      BY <3>0, <3>4
    <3> HIDE DEF y, e
    <3>7. y <= tail /\ (y = tail => e = 0)
      <4>1. d * y \in Int
        BY <3>0, <3>5
      <4>2. ~(tail < y)
        <5> SUFFICES ASSUME tail < y PROVE FALSE
          OBVIOUS
        <5> DEFINE z == y - tail - 1
        <5>1. z \in Nat /\ y = tail + 1 + z
          BY <1>2, <3>5
        <5> HIDE DEF z
        <5>2. d * (tail + 1 + z) = d * tail + d + d * z /\ d * z \in Nat
          BY <1>2, <3>0, <5>1
        <5> QED BY <3>0, <3>4, <3>5, <5>1, <5>2
      <4>3. ASSUME y = tail PROVE e = 0
        BY <3>4, <3>5, <4>1, <4>3
      <4> QED BY <1>2, <3>5, <4>2, <4>3
    <3>8. k \in n - tail..n /\ k > 0 /\ (p \in n - tail..n \/ e = 0) /\ k \in Int
      BY <1>1, <1>2, <3>5, <3>6, <3>7
    <3>9. ResidualAt(samples, 0, n, q, i) = PointBetween(samples[p], samples[k], d - e, d)
      <4>1. k = n - ((i - 1) \div Ratios[q]) /\ e = (i - 1) % Ratios[q]
        BY DEF y, e, x, d
      <4> HIDE DEF k
      <4>2. k > 0 /\ 0 + 1 = 1
        BY <3>8
      <4> QED BY <4>1, <4>2 DEF ResidualAt, d
    <3> HIDE DEF k, p
    <3>10. samples[k] = SilentSample
      BY <1>3, <3>8
    <3>11. samples[p] = SilentSample \/ d - e = d
      BY <1>3, <3>0, <3>8
    <3>12. PointBetween(samples[p], samples[k], d - e, d) = <<SilentSample, SilentSample, 0>>
      BY <3>10, <3>11 DEF PointBetween
    <3>13. NoResidual = <<SilentSample, SilentSample, 0>>
      BY DEF NoResidual, PointBetween
    <3> QED BY <3>2, <3>9, <3>12, <3>13
  <2>3. CASE ~Oversamples(q)
    <3> DEFINE k == n - LatencyFrames
    <3>1. k \in n - tail..n /\ k > 0
      BY <1>1, <1>2
    <3>2. emitted.residual = <<DirectResidual(samples[k])>>
      BY <1>1, <2>1, <2>3, <3>1 DEF EmittedHolds
    <3>3. samples[k] = SilentSample
      BY <1>3, <3>1
    <3>4. DirectResidual(samples[k]) = NoResidual
      BY <3>3 DEF DirectResidual, NoResidual, PointBetween
    <3> HIDE DEF k
    <3> QED BY <1>5, <3>2, <3>4
  <2> QED BY <2>2, <2>3
<1> QED BY <1>4, <1>5

\* For any qualities, delay and history that fits them: a frame leaves the delay lines when it
\* is due, a switch of quality is not heard, and the declared tail is enough.
THEOREM CoreStaysSeamless == SaturationSpec => []CoreIsSeamless
<1>1. CoreInit => CoreInv
  BY SilentStart
<1>2. CoreInv /\ [CoreNext]_coreVars => CoreInv'
  BY CoreStep
<1>3. CoreInv => CoreIsSeamless
  BY SwitchHolds, TimelineIsHeld, TailHolds DEF CoreIsSeamless
<1> QED BY <1>1, <1>2, <1>3, PTL DEF SaturationSpec

=============================================================================

---------------------------- MODULE LoudnessCache ----------------------------
(***************************************************************************)
(* What the loudness database promises its callers: a cache of records, at  *)
(* most one per track, on which a call takes effect at once, at a moment    *)
(* between its start and its answer, or not at all if it answers an error.  *)
(* A crash loses the calls under way, whole, and no record.                 *)
(***************************************************************************)
EXTENDS Naturals, Sequences, FiniteSetsExt

CONSTANTS Workers, Tracks, Rows, NoRow, Gains

VARIABLES cache, call

cacheVars == <<cache, call>>

Requests ==
  [op : {"put"}, items : Seq([track : Tracks, row : Rows])]
    \cup [op : {"album"}, tracks : Seq(Tracks), gain : Gains]
    \cup [op : {"get", "fresh", "delete"}, track : Tracks]
    \cup {[op |-> "outdated"]}

Idle == [op |-> "idle"]
Done == [op |-> "ok"]
Refused == [op |-> "error"]
Found(row) == [op |-> "found", row |-> row]
Listed(tracks) == [op |-> "listed", tracks |-> tracks]

Held == {t \in Tracks : cache[t] # NoRow}

CacheInit == cache \in [Tracks -> {NoRow} \cup Rows] /\ call = [w \in Workers |-> Idle]

Answer(w, answer) == call' = [call EXCEPT ![w] = answer]

Ask(w) ==
  /\ call[w] \notin Requests /\ call'[w] \in Requests /\ Answer(w, call'[w])
  /\ UNCHANGED cache

\* The last record of a track in a batch counts.
Put(w) ==
  /\ call[w].op = "put"
  /\ LET items == call[w].items
         places(t) == {i \in DOMAIN items : items[i].track = t}
     IN cache' = [t \in Tracks |-> IF places(t) = {} THEN cache[t]
                                   ELSE items[Max(places(t))].row]
  /\ Answer(w, Done)

SetAlbum(w) ==
  /\ call[w].op = "album"
  /\ LET album == {call[w].tracks[i] : i \in DOMAIN call[w].tracks}
     IN cache' = [t \in Tracks |-> IF t \in Held \cap album
                                   THEN [cache[t] EXCEPT !.album = call[w].gain]
                                   ELSE cache[t]]
  /\ Answer(w, Done)

Remove(w) ==
  /\ call[w].op = "delete"
  /\ cache' = [cache EXCEPT ![call[w].track] = NoRow]
  /\ Answer(w, Done)

Look(w) ==
  /\ \/ call[w].op \in {"get", "fresh"} /\ Answer(w, Found(cache[call[w].track]))
     \/ call[w].op = "fresh" /\ Answer(w, Found(NoRow))
     \/ call[w].op = "outdated" /\ \E tracks \in SUBSET Held : Answer(w, Listed(tracks))
  /\ UNCHANGED cache

Refuse(w) == call[w] \in Requests /\ Answer(w, Refused) /\ UNCHANGED cache

Crash == call' = [w \in Workers |-> Idle] /\ UNCHANGED cache

CacheNext ==
  \/ Crash
  \/ \E w \in Workers :
       Ask(w) \/ Put(w) \/ SetAlbum(w) \/ Remove(w) \/ Look(w) \/ Refuse(w)

CacheSpec == CacheInit /\ [][CacheNext]_cacheVars

=============================================================================

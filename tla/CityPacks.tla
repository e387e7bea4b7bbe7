----------------------------- MODULE CityPacks -----------------------------
(***************************************************************************)
(* The pack of one city of the catalogue: the extract of the map, the      *)
(* index of places poi.sqlite, meta.json and its row in city_packs, with   *)
(* those who touch them: the worker, which searches (PlaceSearch) and      *)
(* works off jobs prepare_city_pack one at a time, and the OSRM pipeline,  *)
(* of the night or of a user's job, which holds a lock of its own.         *)
(* Source: search/osm/city_pack.py, search/osm/poi_index.py,               *)
(* search/osm/pbf_usable.py, search/osrm/prepare_job.py,                   *)
(* db/postgres/city_packs.py, scripts/build_poi_index.py,                  *)
(* scripts/city_pack_prepare.sh and scripts/city_pack_prepare_core.sh.     *)
(*                                                                         *)
(* A runner is one run of city_pack_prepare.sh; "job" belongs to the       *)
(* worker, "refresh" to the pipeline.  They share the files and nothing    *)
(* keeps them apart.  A file knows who is writing it, so that a file that  *)
(* was unlinked or renamed under its writer can be told from the new one.  *)
(***************************************************************************)
EXTENDS PlaceSearch

CONSTANT MaxDeaths

ASSUME CityPacksAssumption == MaxDeaths \in Nat

VARIABLES
    partial,     \* extract.partial.osm.pbf, which both runners write
    extract,     \* extract.osm.pbf
    poi,         \* poi.sqlite
    meta,        \* meta.json is there
    status,      \* status in city_packs, which only people read; a write of it that
                 \* fails is logged and left out here
    inFlight,    \* _PREPARE_IN_FLIGHT of the worker
    queued,      \* jobs prepare_city_pack of the city
    run,         \* where the script of a runner is
    deaths

fileVars == <<partial, extract, poi, meta, status, inFlight, queued, run, deaths>>
packsVars == <<searchVars, fileVars>>

Runners == {"job", "refresh"}
Writers == Runners \union {"nobody", "dead", "reader"}
Steps == {"off", "locate", "extract", "clear", "cut", "verify", "move", "index", "scan", "tables",
          "fill", "meta", "finish", "done", "failed", "badindex"}

NoFile == [there |-> FALSE, whole |-> FALSE, by |-> "nobody"]
NoIndex == [table |-> "none", rows |-> {}, by |-> "nobody"]

PacksTypeOK ==
    /\ SearchTypeOK
    /\ {partial, extract} \subseteq [there : BOOLEAN, whole : BOOLEAN, by : Writers]
    /\ poi \in [table : {"none", "bare", "made"}, rows : SUBSET Place, by : Writers]
    /\ meta \in BOOLEAN /\ inFlight \in BOOLEAN
    /\ status \in {"queued", "building", "ready", "failed"}
    /\ queued \in Nat
    /\ run \in [Runners -> Steps]
    /\ deaths \in 0..MaxDeaths

PacksInit ==
    /\ SearchInit
    /\ partial = NoFile /\ extract = NoFile
    /\ poi = NoIndex /\ meta = FALSE
    /\ status = "queued"      \* sync_city_pack_catalog
    /\ inFlight = FALSE /\ queued = 0
    /\ run = [r \in Runners |-> "off"]
    /\ deaths = 0

Indexed == {p \in Place : Indexable(p)}

PbfUsable(f) == f.there /\ f.whole

PackReady == poi.table # "none" /\ meta

(***************************************************************************)
(* The worker searches.                                                    *)
(***************************************************************************)

WorkerFree == stage = "idle" /\ run["job"] = "off"

Search ==
    /\ SearchStep
    /\ stage = "idle" => WorkerFree
    /\ UNCHANGED fileVars

\* Free mode: set_poi_source_policy(use_city_pack=False).
SearchWithoutPack == Goes("begun", "asking") /\ UNCHANGED fileVars

SearchSeesPack == PackReady /\ Goes("begun", "reading") /\ UNCHANGED fileVars

\* (mutant) the mark stays when the push fails
EnsurePackKeepsMark ==
    /\ ~PackReady
    /\ Goes("begun", "asking")
    /\ IF inFlight THEN UNCHANGED <<inFlight, queued, status>>
       ELSE \/ inFlight' = TRUE /\ status' = "queued" /\ queued' = queued + 1
            \/ inFlight' = TRUE /\ status' \in {status, "queued"} /\ UNCHANGED queued
    /\ UNCHANGED <<partial, extract, poi, meta, run, deaths>>

\* ensure_pack_async; the row or the push may fail.
EnsurePack ==
    /\ ~PackReady
    /\ Goes("begun", "asking")
    /\ IF inFlight THEN UNCHANGED <<inFlight, queued, status>>
       ELSE \/ inFlight' = TRUE /\ status' = "queued" /\ queued' = queued + 1
            \/ status' \in {status, "queued"} /\ UNCHANGED <<inFlight, queued>>
    /\ UNCHANGED <<partial, extract, poi, meta, run, deaths>>

\* The second look of query_city_poi, just before the file is opened.
SearchLooksAgain ==
    /\ IF PackReady THEN Goes("reading", "opening") ELSE ReadsRows("reading", {})
    /\ UNCHANGED fileVars

\* sqlite3.connect makes a file that is not there; without a table the query fails.
SearchOpens ==
    /\ IF poi.table = "made" THEN ReadsRows("opening", poi.rows) ELSE ReadFails
    /\ poi' = IF poi.table = "none"
              THEN [table |-> "bare", rows |-> {}, by |-> "reader"] ELSE poi
    /\ UNCHANGED <<partial, extract, meta, status, inFlight, queued, run, deaths>>

(***************************************************************************)
(* The script.                                                             *)
(***************************************************************************)

At(r, s) == run[r] = s
To(r, s) == run' = [run EXCEPT ![r] = s]

\* The writer of a file has gone, its work not done.
Leaves(f, r) == IF f.by = r THEN [f EXCEPT !.by = "dead"] ELSE f

\* A step without an effect on the files: Nominatim, fo_ensure.sh.
Locate(r) ==
    /\ At(r, "locate")
    /\ To(r, "extract") \/ To(r, "failed")
    /\ UNCHANGED <<partial, extract, poi, meta>>

CheckExtract(r) ==
    /\ At(r, "extract")
    /\ To(r, IF PbfUsable(extract) THEN "index" ELSE "clear")
    /\ UNCHANGED <<partial, extract, poi, meta>>

\* Both files are removed and osmium begins a new one.
StartCut(r) ==
    /\ At(r, "clear")
    /\ To(r, "cut")
    /\ partial' = [there |-> TRUE, whole |-> FALSE, by |-> r]
    /\ extract' = NoFile
    /\ UNCHANGED <<poi, meta>>

Closed(f, r, ok) == IF f.by = r THEN [f EXCEPT !.whole = ok, !.by = "nobody"] ELSE f

\* osmium ends: well, with a file that is no good, or with an error.
Cut(r) ==
    /\ At(r, "cut")
    /\ \/ To(r, "verify") /\ partial' = Closed(partial, r, TRUE) /\ extract' = Closed(extract, r, TRUE)
       \/ To(r, "verify") /\ partial' = Closed(partial, r, FALSE) /\ extract' = Closed(extract, r, FALSE)
       \/ To(r, "failed") /\ partial' = Closed(partial, r, FALSE) /\ extract' = Closed(extract, r, FALSE)
    /\ UNCHANGED <<poi, meta>>

Verify(r) ==
    /\ At(r, "verify")
    /\ IF PbfUsable(partial) THEN To(r, "move") /\ UNCHANGED partial
       ELSE To(r, "failed") /\ partial' = NoFile
    /\ UNCHANGED <<extract, poi, meta>>

Move(r) ==
    /\ At(r, "move")
    /\ IF partial.there THEN To(r, "index") /\ extract' = partial /\ partial' = NoFile
       ELSE To(r, "failed") /\ UNCHANGED <<extract, partial>>
    /\ UNCHANGED <<poi, meta>>

\* Only a missing file is built.
StartIndex(r) ==
    /\ At(r, "index")
    /\ IF poi.table # "none" THEN To(r, "meta")
       ELSE IF PbfUsable(extract) THEN To(r, "scan") ELSE To(r, "badindex")
    /\ UNCHANGED <<partial, extract, poi, meta>>

\* The extract is read, then the file is unlinked and made anew.
Scan(r) ==
    /\ At(r, "scan")
    /\ \/ To(r, "badindex") /\ UNCHANGED poi
       \/ To(r, "tables") /\ poi' = [table |-> "bare", rows |-> {}, by |-> r]
    /\ UNCHANGED <<partial, extract, meta>>

\* executescript, with a commit of its own; in an unlinked file it fails.
MakeTables(r) ==
    /\ At(r, "tables")
    /\ \/ poi.by = r /\ To(r, "fill") /\ poi' = [poi EXCEPT !.table = "made"]
       \/ To(r, "badindex") /\ poi' = Leaves(poi, r)
    /\ UNCHANGED <<partial, extract, meta>>

\* (mutant) no commit before the connection is closed
FillUncommitted(r) ==
    /\ At(r, "fill")
    /\ \/ /\ To(r, "meta")
          /\ poi' = IF poi.by = r THEN [poi EXCEPT !.by = "nobody"] ELSE poi
       \/ To(r, "badindex") /\ poi' = Leaves(poi, r)
    /\ UNCHANGED <<partial, extract, meta>>

\* The rows are committed together; a transaction begun before the file was
\* unlinked ends without an error.
Fill(r) ==
    /\ At(r, "fill")
    /\ \/ /\ To(r, "meta")
          /\ poi' = IF poi.by = r THEN [poi EXCEPT !.rows = Indexed, !.by = "nobody"] ELSE poi
       \/ To(r, "badindex") /\ poi' = Leaves(poi, r)
    /\ UNCHANGED <<partial, extract, meta>>

WriteMeta(r) ==
    /\ At(r, "meta")
    /\ To(r, "finish")
    /\ meta' = TRUE
    /\ UNCHANGED <<partial, extract, poi>>

\* meta.json again, which asks Nominatim again.
Finish(r) ==
    /\ At(r, "finish")
    /\ To(r, "done") \/ To(r, "failed")
    /\ UNCHANGED <<partial, extract, poi, meta>>

ScriptStep(r) ==
    /\ \/ Locate(r) \/ CheckExtract(r) \/ StartCut(r) \/ Cut(r) \/ Verify(r) \/ Move(r)
       \/ StartIndex(r) \/ Scan(r) \/ MakeTables(r) \/ Fill(r) \/ WriteMeta(r) \/ Finish(r)
    /\ UNCHANGED <<searchVars, status, inFlight, queued, deaths>>

(***************************************************************************)
(* The two who run it.                                                     *)
(***************************************************************************)

PopJob ==
    /\ WorkerFree
    /\ queued > 0
    /\ queued' = queued - 1
    /\ status' = "building"
    /\ To("job", "locate")
    /\ UNCHANGED <<searchVars, partial, extract, poi, meta, inFlight, deaths>>

\* (mutant) the mark is taken away only after a success
EndJobKeepsMark ==
    /\ run["job"] \in {"done", "failed", "badindex"}
    /\ To("job", "off")
    /\ status' = IF At("job", "done") THEN "ready" ELSE "failed"
    /\ inFlight' = (inFlight /\ ~At("job", "done"))
    /\ UNCHANGED <<searchVars, partial, extract, poi, meta, queued, deaths>>

\* run_pack_prepare_subprocess: the row, and finally the mark.
EndJob ==
    /\ run["job"] \in {"done", "failed", "badindex"}
    /\ To("job", "off")
    /\ status' = IF At("job", "done") THEN "ready" ELSE "failed"
    /\ inFlight' = FALSE
    /\ UNCHANGED <<searchVars, partial, extract, poi, meta, queued, deaths>>

StartRefresh ==
    /\ At("refresh", "off")
    /\ To("refresh", "locate")
    /\ UNCHANGED <<searchVars, partial, extract, poi, meta, status, inFlight, queued, deaths>>

\* After a failure _cleanup_failed_pack: an extract that is no good goes with the
\* index, and so does one from which the index could not be built, if the end of
\* the error's text still names the script (named).
EndRefresh ==
    /\ run["refresh"] \in {"done", "failed", "badindex"}
    /\ To("refresh", "off")
    /\ IF At("refresh", "done")
       THEN status' = "ready" /\ UNCHANGED <<partial, extract, poi>>
       ELSE /\ partial' = NoFile
            /\ \E named \in BOOLEAN :
                IF extract.there /\ (~PbfUsable(extract) \/ (named /\ At("refresh", "badindex")))
                THEN extract' = NoFile /\ poi' = NoIndex
                ELSE UNCHANGED <<extract, poi>>
            /\ UNCHANGED status
    /\ UNCHANGED <<searchVars, meta, inFlight, queued, deaths>>

\* The container with the worker and both scripts dies.
WorkerDies ==
    /\ deaths < MaxDeaths
    /\ deaths' = deaths + 1
    /\ Answers(NoAnswer)
    /\ centre' = "unknown"
    /\ inFlight' = FALSE
    /\ run' = [r \in Runners |-> "off"]
    /\ LET dies(f) == IF f.by \in Runners THEN [f EXCEPT !.by = "dead"] ELSE f
       IN  partial' = dies(partial) /\ extract' = dies(extract) /\ poi' = dies(poi)
    /\ UNCHANGED <<meta, status, queued>>

PacksNext ==
    \/ Search
    \/ SearchWithoutPack \/ SearchSeesPack \/ EnsurePack \/ SearchLooksAgain \/ SearchOpens
    \/ \E r \in Runners : ScriptStep(r)
    \/ PopJob \/ EndJob \/ StartRefresh \/ EndRefresh
    \/ WorkerDies

\* The worker goes on with what it does, scripts end, and the worker, which
\* serves searches first, comes to the jobs for packs again and again.
SearchOn == (stage # "idle" /\ Search) \/ SearchWithoutPack \/ SearchLooksAgain \/ SearchOpens

PacksSpec ==
    /\ PacksInit /\ [][PacksNext]_packsVars
    /\ WF_packsVars(SearchOn)
    /\ WF_packsVars(ScriptStep("job"))
    /\ WF_packsVars(EndJob)
    /\ SF_packsVars(PopJob)

(***************************************************************************)
(* Properties.                                                             *)
(***************************************************************************)

\* An index that can be searched has all its places, or its writer is at work
\* on it, or died over it, or a search made an empty file where there was none:
\* of the last two nothing in the code rids a ready pack (the file is there and
\* is not built again), which is why they are named here.
ReadyPackIsWhole ==
    PackReady =>
        \/ poi.rows = Indexed
        \/ poi.by \in {"dead", "reader"}
        \/ poi.by \in Runners /\ run[poi.by] \in {"tables", "fill"}

\* The worker holds back further jobs for the pack only while there is one:
\* the mark _PREPARE_IN_FLIGHT means a job that waits or is worked off.
InFlightHasJob == inFlight => queued > 0 \/ run["job"] # "off"

\* ... and it does not hold them back for ever.
MarksClear == inFlight ~> ~inFlight

=============================================================================

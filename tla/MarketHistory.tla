------------------------------ MODULE MarketHistory ------------------------------
(***************************************************************************)
(* The candle history of one (exchange, symbol, timeframe): the paginated  *)
(* downloader with retries and a checkpoint file (HistoricalIngestor), the *)
(* services that call it (DataDownloader, DataUpdater, DataRepair) and the *)
(* partitioned Parquet store they write.                                   *)
(*                                                                         *)
(* A candle is its open time, in steps of the timeframe. A process may die *)
(* at any await and between the partitions of a write; the checkpoint and  *)
(* the store survive it.                                                   *)
(***************************************************************************)
EXTENDS Integers, Sequences, FiniteSets, SequencesExt

CONSTANTS
  Listed,       \* the candles the exchange has: its history may have holes
  PageLimit,    \* page_limit
  SpanCapped,   \* the adapter truncates the range instead of the page (Coinbase)
  MaxRetries,   \* max_retries
  DayLength,    \* candles per partition
  Windows,      \* the <<start, end>> requests
  MaxCrashes    \* bound on the crashes of a behaviour

ASSUME HistoryAssumption ==
  /\ Listed \subseteq Nat \ {0} /\ IsFiniteSet(Listed)
  /\ PageLimit \in Nat \ {0} /\ MaxRetries \in Nat \ {0} /\ DayLength \in Nat \ {0}
  /\ SpanCapped \in BOOLEAN
  /\ Windows \subseteq (Nat \ {0}) \X (Nat \ {0})
  /\ MaxCrashes \in Nat

VARIABLES
  store,       \* the candles the partitions hold
  torn,        \* the partitions a crash left half written: reading them raises
  checkpoint,  \* the checkpoint file: NoCheckpoint or [cursor, window (ghost)]
  job,         \* the service call under way, or Idle
  outcome,     \* how the last call ended, or NoOutcome
  crashes      \* crashes so far

vars == <<store, torn, checkpoint, job, outcome, crashes>>

Idle == [kind |-> "idle"]
NoCheckpoint == [cursor |-> 0]
NoOutcome == [ok |-> FALSE]

Day(t) == (t - 1) \div DayLength
Between(S, a, b) == {t \in S : a <= t /\ t <= b}

-----------------------------------------------------------------------------
(* The exchange: one page of ``[start, end]``, oldest first. A capped adapter *)
(* asks for a span of PageLimit steps; the others for the first PageLimit.    *)

Page(cursor, end) ==
  IF SpanCapped
  THEN Between(Listed, cursor, Min({end, cursor + PageLimit}))
  ELSE LET all == Between(Listed, cursor, end) IN
       {t \in all : Cardinality(Between(all, cursor, t)) <= PageLimit}

MissingRangesInside(present, start, end) ==
  LET Absent(t) == start <= t /\ t <= end /\ t \notin present IN
  {r \in (start .. end) \X (start .. end) :
     /\ r[1] <= r[2] /\ \A t \in r[1] .. r[2] : Absent(t)
     /\ ~Absent(r[1] - 1) /\ r[2] + 1 \in present}

\* The maximal runs of [start, end] the frame misses, as find_missing_ranges.
MissingRanges(present, start, end) ==
  LET Absent(t) == start <= t /\ t <= end /\ t \notin present IN
  {r \in (start .. end) \X (start .. end) :
     /\ r[1] <= r[2] /\ \A t \in r[1] .. r[2] : Absent(t)
     /\ ~Absent(r[1] - 1) /\ ~Absent(r[2] + 1)}


-----------------------------------------------------------------------------

Init ==
  /\ store = {} /\ torn = {}
  /\ checkpoint = NoCheckpoint
  /\ job = Idle
  /\ outcome = NoOutcome
  /\ crashes = 0

\* A paged download of [start, end] from a cursor; gaps are what the repair has
\* left; ghosts: first is the cursor the call began at, suspect says that a page was
\* stale or that the cursor was another window's.
Fetching(kind, start, end, cursor, gaps) ==
  [kind |-> kind, phase |-> "fetch", start |-> start, end |-> end, cursor |-> cursor,
   first |-> cursor, resumed |-> FALSE, collected |-> {}, attempt |-> 1,
   gaps |-> gaps, window |-> <<start, end>>, suspect |-> FALSE]

Ended(j, ok) ==
  /\ job' = Idle
  /\ outcome' = [ok |-> ok, kind |-> j.kind, window |-> j.window, first |-> j.first,
                 resumed |-> j.resumed, suspect |-> j.suspect]

\* The gap after this one, or the end of the call.
NextGap(j) ==
  IF j.gaps = {} THEN Ended(j, TRUE)
  ELSE LET g == CHOOSE r \in j.gaps : \A q \in j.gaps : r[1] <= q[1] IN
       /\ job' = [Fetching(j.kind, g[1], g[2], g[1], j.gaps \ {g})
                    EXCEPT !.window = j.window, !.first = j.first, !.suspect = j.suspect]
       /\ UNCHANGED outcome

-----------------------------------------------------------------------------
(* The services. *)

\* download_candles: the checkpoint of the key is resumed, whatever its window was.
Download(w, resume) ==
  /\ job = Idle
  /\ LET found == resume /\ checkpoint # NoCheckpoint
         cursor == IF found THEN checkpoint.cursor ELSE w[1] IN
     job' = [Fetching("download", w[1], w[2], cursor, {})
               EXCEPT !.resumed = found, !.suspect = found /\ checkpoint.window # w]
  /\ outcome' = NoOutcome
  /\ UNCHANGED <<store, torn, checkpoint, crashes>>

\* update_candles: from the candle after the last one stored; no resume.
UpdateStart == Max(store) + 1

Update(end) ==
  /\ job = Idle
  /\ torn = {} /\ store # {}
  /\ LET start == UpdateStart IN
     IF start > end
     THEN Ended([Fetching("update", start, end, start, {}) EXCEPT !.window = <<start, end>>], TRUE)
     ELSE /\ job' = Fetching("update", start, end, start, {})
          /\ outcome' = NoOutcome
  /\ UNCHANGED <<store, torn, checkpoint, crashes>>

\* repair_candles: every missing range in turn, by an ingestor without checkpoints.
Repair(w) ==
  /\ job = Idle
  /\ torn = {}
  /\ LET gaps == MissingRanges(Between(store, w[1], w[2]), w[1], w[2])
         j == [Fetching("repair", w[1], w[2], w[1], gaps) EXCEPT !.window = w] IN
     IF gaps = {} THEN Ended(j, TRUE)
     ELSE LET g == CHOOSE r \in gaps : \A q \in gaps : r[1] <= q[1] IN
          /\ job' = [Fetching("repair", g[1], g[2], g[1], gaps \ {g})
                       EXCEPT !.window = w, !.first = w[1]]
          /\ outcome' = NoOutcome
  /\ UNCHANGED <<store, torn, checkpoint, crashes>>

-----------------------------------------------------------------------------
(* The download loop. *)

Checkpointed == job.kind # "repair"

\* A next cursor that does not advance is pushed past the cursor by the page's rows.
NextCursorAsGiven(last, rows) == last + 1
NextCursor(last, rows) ==
  IF last + 1 <= job.cursor THEN job.cursor + Max({1, rows}) ELSE last + 1

\* The loop is over: the checkpoint is removed before anything is written.
LoopEnds(j, collected) ==
  /\ checkpoint' = IF Checkpointed THEN NoCheckpoint ELSE checkpoint
  /\ IF collected = {} THEN NextGap(j)
     ELSE /\ job' = [j EXCEPT !.phase = "write", !.collected = collected]
          /\ UNCHANGED outcome
  /\ UNCHANGED <<store, torn, crashes>>

\* One page arrived: rows before the window are dropped, the cursor is saved.
Arrived(page, suspect) ==
  LET j == [job EXCEPT !.suspect = @ \/ suspect]
      kept == Between(page, job.start, job.end)
      collected == job.collected \cup kept
      last == Max(kept)
      next == NextCursor(last, Cardinality(kept)) IN
  IF kept = {} THEN LoopEnds(j, job.collected)
  ELSE IF (Cardinality(kept) < PageLimit /\ last >= job.end) \/ next > job.end
  THEN LoopEnds(j, collected)
  ELSE /\ job' = [j EXCEPT !.cursor = next, !.collected = collected, !.attempt = 1]
       /\ checkpoint' = IF Checkpointed
                        THEN [cursor |-> last + 1, window |-> job.window] ELSE checkpoint
       /\ UNCHANGED <<store, torn, outcome, crashes>>

InLoop == job # Idle /\ job.phase = "fetch"

\* A resumed cursor may already be past the end.
NothingToFetch == InLoop /\ job.cursor > job.end /\ LoopEnds(job, job.collected)

FetchPage == InLoop /\ job.cursor <= job.end /\ Arrived(Page(job.cursor, job.end), FALSE)

\* The non-advancing API the code guards against: the page of an earlier cursor.
FetchStalePage ==
  /\ InLoop /\ job.cursor <= job.end /\ job.cursor > job.start
  /\ Arrived(Page(job.start, job.end), TRUE)

CanRetryOnceMore(attempt) == attempt <= MaxRetries
CanRetry(attempt) == attempt < MaxRetries

\* A DataError: retried until the attempts run out, then raised to the caller.
FetchFails ==
  /\ InLoop /\ job.cursor <= job.end
  /\ IF CanRetry(job.attempt)
     THEN job' = [job EXCEPT !.attempt = @ + 1] /\ UNCHANGED outcome
     ELSE Ended(job, FALSE)
  /\ UNCHANGED <<store, torn, checkpoint, crashes>>

-----------------------------------------------------------------------------
(* write_frame: partition by partition, each merged with what the file holds. *)

Writing == job # Idle /\ job.phase = "write"
NextDay == Min({Day(t) : t \in job.collected})
OfDay(S, d) == {t \in S : Day(t) = d}

\* The partition is read back, merged and rewritten.
Replaced(rows) == {t \in store : \A r \in rows : Day(r) # Day(t)} \cup rows
Merged(rows) == store \cup rows

WritePartition ==
  /\ Writing
  /\ LET rows == OfDay(job.collected, NextDay)
         rest == job.collected \ rows IN
     IF NextDay \in torn
     THEN Ended(job, FALSE) /\ UNCHANGED store
     ELSE /\ store' = Merged(rows)
          /\ IF rest = {} THEN NextGap(job)
             ELSE job' = [job EXCEPT !.collected = rest] /\ UNCHANGED outcome
  /\ UNCHANGED <<torn, checkpoint, crashes>>

\* The process dies; in write_parquet it may leave the partition torn.
Crash ==
  /\ job # Idle /\ crashes < MaxCrashes
  /\ crashes' = crashes + 1
  /\ job' = Idle
  /\ outcome' = NoOutcome
  /\ \/ UNCHANGED <<store, torn>>
     \/ /\ Writing
        /\ torn' = torn \cup {NextDay}
        /\ store' = store \ OfDay(store, NextDay)
  /\ UNCHANGED checkpoint

Step == NothingToFetch \/ FetchPage \/ FetchStalePage \/ FetchFails \/ WritePartition

Next ==
  \/ \E w \in Windows, resume \in BOOLEAN : Download(w, resume)
  \/ \E w \in Windows : Update(w[2])
  \/ \E w \in Windows : Repair(w)
  \/ NothingToFetch \/ FetchPage \/ FetchStalePage \/ FetchFails
  \/ WritePartition
  \/ Crash

\* An awaited request answers or raises, and a write returns.
Spec == Init /\ [][Next]_vars /\ WF_vars(Step)

-----------------------------------------------------------------------------

\* What is stored was listed; torn partitions hold nothing that can be read; a
\* checkpoint points past a candle of its window's download.
HistoryTypeOK ==
  /\ store \subseteq Listed
  /\ \A t \in store : Day(t) \notin torn
  /\ checkpoint # NoCheckpoint =>
       /\ checkpoint.cursor - 1 \in Listed
       /\ checkpoint.window[1] < checkpoint.cursor
       /\ checkpoint.cursor <= checkpoint.window[2] + 1
  /\ InLoop => /\ job.attempt \in 1 .. MaxRetries
               /\ \A g \in job.gaps : job.end + 1 < g[1]
  /\ Writing => job.collected # {}

\* A call that returns without an error leaves in the store every listed candle of
\* its window, across retries, failed calls, crashes and gaps in between: a repair and
\* an update of the whole window, a download from the cursor it began at, unless that
\* cursor was a checkpoint of another window or a page was stale.
CallsCover ==
  outcome.ok = TRUE /\ ~outcome.suspect =>
    Between(Listed, outcome.first, outcome.window[2]) \subseteq store

\* A candle stored is never lost again, except with the partition a crash tears.
StoreOnlyGrows == [][torn' = torn => store \subseteq store']_vars

\* Every call returns or raises: pages that do not advance and requests that keep
\* failing do not hold it for ever.
CallsEnd == (job # Idle) ~> (job = Idle)

\* historical.py: "Paginate REST history with automatic retries and checkpoint resume."
\* A resumed download that returns has its window stored too. The pages before the
\* crash were never written, and the code skips them.
ResumeCovers ==
  outcome.ok = TRUE /\ ~outcome.suspect /\ outcome.resumed =>
    Between(Listed, outcome.window[1], outcome.window[2]) \subseteq store
=============================================================================

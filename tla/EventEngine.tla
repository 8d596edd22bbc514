----------------------------- MODULE EventEngine -----------------------------
(***************************************************************************)
(* The event loop of the backtester (backtesting/event_engine): a queue    *)
(* ordered by time, priority and insertion, recurring jobs, a clock, and   *)
(* the loop of EventDrivenEngine.run.  Handlers are the engine's           *)
(* environment here: each may submit events, schedule a job, invalidate    *)
(* the run, or raise.  BacktestRunner puts the pipeline in their place.    *)
(*                                                                         *)
(* One step is one turn of the while loop up to its batch, or one event    *)
(* of the batch with all its handlers; all of it is one thread.            *)
(***************************************************************************)
EXTENDS Integers, FiniteSets

CONSTANTS
    EventType,      \* the event types in use
    Priority,       \* EVENT_PRIORITY: lower runs earlier
    NumJobs,        \* recurring jobs, numbered in the order they are scheduled
    JobType,        \* the type of event that a job's factory makes
    Horizon,        \* instants are 0 .. Horizon
    MaxSubmit,      \* bound on the events put by hand, in all runs together
    MaxRuns,        \* bound on the calls of run
    Calls,          \* the arguments that callers pass to run
    NewJobs,        \* the jobs that callers and handlers schedule
    NoEvent, NoCap

Job == 1 .. NumJobs
NoJob == 0
Time == 0 .. Horizon

ASSUME EngineAssumption ==
    /\ Horizon \in Nat /\ MaxSubmit \in Nat /\ MaxRuns \in Nat /\ NumJobs \in Nat
    /\ Priority \in [EventType -> Nat]
    /\ JobType \in [Job -> EventType]
    /\ NoCap \notin Nat
    /\ Calls \subseteq [start : Time, end : Time, cap : Nat \cup {NoCap}, ticks : BOOLEAN]
    /\ NewJobs \subseteq [next : Time, interval : Nat \ {0}, end : Time, enabled : {TRUE}]

VARIABLES
    clock,          \* BacktestClock._now
    queue,          \* EventQueue._heap
    seq,            \* EventQueue._sequence
    batch,          \* what is left of the batch that run has drained
    engineState,    \* EventDrivenEngine._state
    jobs,           \* EventScheduler._jobs
    processed,      \* EventDrivenEngine._processed
    loop            \* the call of run in progress

VARIABLES           \* auxiliary
    submitted,      \* events put by hand so far
    runs,           \* calls of run so far
    last,           \* the event delivered last in this run, and seq when its batch was drained
    fired,          \* occurrences of jobs delivered so far
    due,            \* occurrences that the run in progress has to deliver
    clean           \* nothing happened in this run that may make it fail

engine == <<clock, queue, seq, batch, engineState, jobs, processed, loop>>
engineVars == <<engine, submitted, runs, last, fired, due, clean>>

-----------------------------------------------------------------------------
(* The queue.                                                              *)

Event == [ts : Nat, type : EventType, seq : Nat, job : Job \cup {NoJob}]

\* _QueueItem compares by timestamp, priority and sequence.
Before(e, f) ==
    \/ e.ts < f.ts
    \/ /\ e.ts = f.ts
       /\ \/ Priority[e.type] < Priority[f.type]
          \/ Priority[e.type] = Priority[f.type] /\ e.seq < f.seq

\* Mutant: insertion alone decides within one instant.
IsFirstInserted(e, events) ==
    e \in events /\ \A f \in events \ {e} : e.ts < f.ts \/ (e.ts = f.ts /\ e.seq < f.seq)

IsFirst(e, events) == e \in events /\ \A f \in events \ {e} : Before(e, f)

\* Mutant: everything up to the instant is drained, overdue events as well.
DrainUntil(events, t) == {e \in events : e.ts <= t}

\* drain_at pops as long as the head of the heap has exactly this timestamp.
DrainAt(events, t) ==
    IF \E e \in events : e.ts < t THEN {} ELSE {e \in events : e.ts = t}

-----------------------------------------------------------------------------
(* Recurring jobs.                                                         *)

ScheduledJob == [next : Nat, interval : Nat \ {0}, end : Nat, enabled : BOOLEAN]
Unscheduled == [next |-> 0, interval |-> 1, end |-> 0, enabled |-> FALSE]

\* Reference: the occurrences that a job owes in start .. end.
Owed(r, start, end) ==
    {t \in start .. end : /\ r.enabled /\ r.next <= t /\ t <= r.end
                          /\ (t - r.next) % r.interval = 0}

\* Mutant: the fast-forward stops at the last occurrence before the start.
FirstFromFloor(r, start) ==
    IF r.next >= start THEN r.next
    ELSE r.next + r.interval * ((start - r.next) \div r.interval)

\* seed_until fast-forwards a job to its first occurrence not before the start.
FirstFrom(r, start) ==
    LET t == r.next + r.interval * ((start - r.next) \div r.interval)
    IN  IF r.next >= start THEN r.next
        ELSE IF t < start THEN t + r.interval ELSE t

\* The loops of seed_until and enqueue_due: put what comes from an instant up to a
\* limit, and leave next_time at the first occurrence after it.
Count(r, from, until) ==
    LET limit == IF until < r.end THEN until ELSE r.end
    IN  IF ~r.enabled \/ from > limit THEN 0 ELSE 1 + (limit - from) \div r.interval
Emitted(r, from, until) == {from + r.interval * i : i \in 0 .. Count(r, from, until) - 1}
\* Mutant: next_time stays where it was.
AdvancedNot(r, from, until) == r
Advanced(r, from, until) ==
    LET next == from + r.interval * Count(r, from, until)
    IN  IF r.enabled THEN [r EXCEPT !.next = next, !.enabled = next <= r.end] ELSE r

\* Occurrences as events; jobs are gone through in the order they were scheduled.
JobEvents(times) ==
    UNION {{[ts |-> t, type |-> JobType[j], seq |-> seq + j - 1, job |-> j] : t \in times[j]} : j \in Job}

\* The numbers these puts take: as many as there are jobs, none if nothing is put.
Numbers(times) == IF \A j \in Job : times[j] = {} THEN 0 ELSE NumJobs

Seeds(start, end) == [j \in Job |-> Emitted(jobs[j], FirstFrom(jobs[j], start), end)]
SeededJobs(start, end) == [j \in Job |-> Advanced(jobs[j], FirstFrom(jobs[j], start), end)]
Dues(asof) == [j \in Job |-> Emitted(jobs[j], jobs[j].next, asof)]
DueJobs(asof) == [j \in Job |-> Advanced(jobs[j], jobs[j].next, asof)]

-----------------------------------------------------------------------------
(* run                                                                     *)

Loop == [active : BOOLEAN, end : Nat, cap : Nat \cup {NoCap}, ticks : BOOLEAN,
         capped : BOOLEAN,          \* auxiliary: max_events ended the run
         mark : Nat]                \* auxiliary: seq when the batch was drained

Stopped == [active |-> FALSE, end |-> 0, cap |-> NoCap, ticks |-> FALSE, capped |-> FALSE, mark |-> 0]

EngineInit ==
    /\ clock = 0
    /\ queue = {} /\ seq = 0 /\ batch = {}
    /\ engineState = "CREATED"
    /\ jobs = [j \in Job |-> Unscheduled]
    /\ processed = 0
    /\ loop = Stopped
    /\ submitted = 0 /\ runs = 0 /\ last = NoEvent /\ clean = TRUE
    /\ fired = [j \in Job |-> {}] /\ due = [j \in Job |-> {}]

\* submit, from outside of a run.
Submit(t, type) ==
    /\ ~loop.active
    /\ submitted < MaxSubmit
    /\ queue' = queue \cup {[ts |-> t, type |-> type, seq |-> seq, job |-> NoJob]}
    /\ seq' = seq + 1
    /\ submitted' = submitted + 1
    /\ UNCHANGED <<clock, batch, engineState, jobs, processed, loop, runs, last, fired, due, clean>>

\* A job is scheduled once.
Schedule(j, r) ==
    /\ ~loop.active
    /\ jobs[j] = Unscheduled
    /\ jobs' = [jobs EXCEPT ![j] = r]
    /\ UNCHANGED <<clock, queue, seq, batch, engineState, processed, loop, submitted, runs, last, fired, due, clean>>

\* run moves the clock to the start, back or forth; seeds the jobs; RUNNING, also
\* after a run that completed or failed.
Begin(start, end, cap, ticks) ==
    /\ ~loop.active
    /\ engineState # "INVALIDATED"
    /\ clock' = start
    /\ queue' = queue \cup JobEvents(Seeds(start, end))
    /\ seq' = seq + Numbers(Seeds(start, end))
    /\ jobs' = SeededJobs(start, end)
    /\ engineState' = "RUNNING"
    /\ loop' = [Stopped EXCEPT !.active = TRUE, !.end = end, !.cap = cap, !.ticks = ticks]
    /\ last' = NoEvent
    /\ due' = [j \in Job |-> Owed(jobs[j], start, end)]
    /\ clean' = \A e \in queue : e.ts >= start
    /\ runs < MaxRuns /\ runs' = runs + 1
    /\ UNCHANGED <<batch, processed, submitted, fired>>

\* An invalidated engine stays invalidated; only its clock moves.
BeginInvalidated(start) ==
    /\ ~loop.active
    /\ engineState = "INVALIDATED"
    /\ clock' = start
    /\ UNCHANGED <<queue, seq, batch, engineState, jobs, processed, loop, submitted, runs, last, fired, due, clean>>

AtTurn == loop.active /\ batch = {} /\ engineState = "RUNNING"
Capped == loop.cap # NoCap /\ processed >= loop.cap
Overdue == \E e \in queue : e.ts < clock
\* Mutant: the end of the run is exclusive.
ReadyBeforeEnd == \E e \in queue : e.ts < loop.end
Ready == \E e \in queue : e.ts <= loop.end

\* The loop is left by one of its breaks: the cap, no event up to the end, no idle tick.
Complete ==
    /\ AtTurn
    /\ \/ Capped
       \/ queue # {} /\ ~Ready
       \/ queue = {} /\ ~(loop.ticks /\ clock + 1 <= loop.end)
    /\ clock' = IF clock < loop.end THEN loop.end ELSE clock
    /\ engineState' = "COMPLETED"
    /\ loop' = [loop EXCEPT !.active = FALSE, !.capped = Capped]
    /\ UNCHANGED <<queue, seq, batch, jobs, processed, submitted, runs, last, fired, due, clean>>

\* An idle tick; the clock's step is one instant.
Tick ==
    /\ AtTurn /\ ~Capped
    /\ queue = {} /\ loop.ticks /\ clock + 1 <= loop.end
    /\ clock' = clock + 1
    /\ queue' = JobEvents(Dues(clock + 1))
    /\ seq' = seq + Numbers(Dues(clock + 1))
    /\ jobs' = DueJobs(clock + 1)
    /\ UNCHANGED <<batch, engineState, processed, loop, submitted, runs, last, fired, due, clean>>

\* Mutant: out-of-order events are not rejected, and the loop turns for ever.
OutOfOrderSpins ==
    /\ AtTurn /\ ~Capped /\ Ready /\ Overdue
    /\ UNCHANGED engineVars

\* LookaheadError: the head of the queue lies before the clock.
OutOfOrder ==
    /\ AtTurn /\ ~Capped /\ Ready /\ Overdue
    /\ engineState' = "FAILED"
    /\ loop' = [loop EXCEPT !.active = FALSE]
    /\ UNCHANGED <<clock, queue, seq, batch, jobs, processed, submitted, runs, last, fired, due, clean>>

\* The clock jumps to the next event, jobs due by then are put, and the instant is
\* drained; the batch is empty when a job was due before.
Drain ==
    /\ AtTurn /\ ~Capped /\ Ready /\ ~Overdue
    /\ \E e \in queue :
          LET events == queue \cup JobEvents(Dues(e.ts))
          IN  /\ IsFirst(e, queue)
              /\ clock' = e.ts
              /\ batch' = DrainAt(events, e.ts)
              /\ queue' = events \ batch'
              /\ jobs' = DueJobs(e.ts)
    /\ seq' = seq + Numbers(Dues(clock'))
    /\ loop' = [loop EXCEPT !.mark = seq']
    /\ UNCHANGED <<engineState, processed, submitted, runs, last, fired, due, clean>>

\* The event is the next one of the batch, and its handlers put these events.
Delivered(e, puts) ==
    /\ loop.active
    /\ engineState = "RUNNING"
    /\ IsFirst(e, batch)
    /\ queue' = queue \cup puts
    /\ seq' = seq + Cardinality(puts)
    /\ last' = [event |-> e, mark |-> loop.mark]
    /\ fired' = IF e.job = NoJob THEN fired ELSE [fired EXCEPT ![e.job] = @ \cup {e.ts}]
    /\ UNCHANGED <<clock, runs, due>>

Puts == {{}} \cup {{[ts |-> t, type |-> y, seq |-> seq, job |-> NoJob]} : t \in Time, y \in EventType}
ByHand(puts) ==
    /\ submitted + Cardinality(puts) <= MaxSubmit
    /\ submitted' = submitted + Cardinality(puts)

\* All handlers of the event return; one of them may have invalidated the run.
Deliver(e, puts, state) ==
    /\ Delivered(e, puts)
    /\ ByHand(puts)
    /\ batch' = batch \ {e}
    /\ engineState' = state
    /\ processed' = processed + 1
    /\ clean' = (clean /\ \A p \in puts : p.ts >= clock)
    /\ UNCHANGED <<jobs, loop>>

\* One of them schedules a job: what it owes before the next instant comes too late.
DeliverAndSchedule(e, j, r) ==
    /\ Delivered(e, {})
    /\ jobs[j] = Unscheduled
    /\ jobs' = [jobs EXCEPT ![j] = r]
    /\ batch' = batch \ {e}
    /\ processed' = processed + 1
    /\ clean' = FALSE
    /\ UNCHANGED <<engineState, loop, submitted>>

\* One of them raises, perhaps after it invalidated the run: FAILED either way, and what
\* is left of the batch is lost.
Raise(e, puts) ==
    /\ Delivered(e, puts)
    /\ ByHand(puts)
    /\ batch' = {}
    /\ engineState' = "FAILED"
    /\ loop' = [loop EXCEPT !.active = FALSE]
    /\ clean' = FALSE
    /\ UNCHANGED <<jobs, processed>>

\* Mutant: the rest of the batch is delivered first.
DropBatchLater ==
    /\ loop.active /\ engineState = "INVALIDATED"
    /\ IF batch = {}
       THEN loop' = [loop EXCEPT !.active = FALSE] /\ UNCHANGED <<batch, processed, last>>
       ELSE \E e \in batch :
               /\ IsFirst(e, batch) /\ last' = [event |-> e, mark |-> loop.mark] /\ batch' = batch \ {e}
               /\ processed' = processed + 1 /\ UNCHANGED loop
    /\ UNCHANGED <<clock, queue, seq, engineState, jobs, submitted, runs, fired, due, clean>>

\* Mutant: the loop only ends on a completed run.
DropBatchSpins ==
    /\ loop.active /\ engineState = "INVALIDATED"
    /\ batch' = {}
    /\ UNCHANGED <<clock, queue, seq, engineState, jobs, processed, loop, submitted, runs, last, fired, due, clean>>

\* An invalidated run drops the rest of its batch and returns.
DropBatch ==
    /\ loop.active /\ engineState = "INVALIDATED"
    /\ batch' = {}
    /\ loop' = [loop EXCEPT !.active = FALSE]
    /\ UNCHANGED <<clock, queue, seq, engineState, jobs, processed, submitted, runs, last, fired, due, clean>>

\* invalidate, from outside of a run.
Invalidate ==
    /\ ~loop.active
    /\ engineState' = "INVALIDATED"
    /\ UNCHANGED <<clock, queue, seq, batch, jobs, processed, loop, submitted, runs, last, fired, due, clean>>

-----------------------------------------------------------------------------
\* The steps of run.
LoopStep ==
    \/ Complete \/ Tick \/ OutOfOrder \/ Drain \/ DropBatch
    \/ \E e \in batch :
          \/ \E puts \in Puts :
                \/ \E state \in {"RUNNING", "INVALIDATED"} : Deliver(e, puts, state)
                \/ Raise(e, puts)
          \/ \E j \in Job, r \in NewJobs : DeliverAndSchedule(e, j, r)

EngineNext ==
    \/ LoopStep
    \/ \E t \in Time, y \in EventType : Submit(t, y)
    \/ \E j \in Job, r \in NewJobs : Schedule(j, r)
    \/ \E c \in Calls : Begin(c.start, c.end, c.cap, c.ticks)
    \/ \E c \in Calls : BeginInvalidated(c.start)
    \/ Invalidate

EngineSpec == EngineInit /\ [][EngineNext]_engineVars

\* run is a loop on its caller's thread, and handlers return.
FairEngineSpec == EngineSpec /\ WF_engineVars(LoopStep)

-----------------------------------------------------------------------------
(* What the engine promises.                                               *)

\* The engine's variables hold what its classes hold; a batch is of one instant.
EngineTypeOK ==
    /\ clock \in Nat
    /\ queue \subseteq Event /\ batch \subseteq Event
    /\ {seq, processed, submitted, runs} \subseteq Nat
    /\ engineState \in {"CREATED", "RUNNING", "COMPLETED", "FAILED", "INVALIDATED"}
    /\ jobs \in [Job -> ScheduledJob]
    /\ loop \in Loop
    /\ last \in [event : Event, mark : Nat] \cup {NoEvent}
    /\ fired \in [Job -> SUBSET Nat] /\ due \in [Job -> SUBSET Nat]
    /\ clean \in BOOLEAN
    /\ \A e \in batch : loop.active /\ e.ts = clock

\* Within a run events come in the order of time, then priority, then insertion; only
\* an event that was put when the batch of its instant was drained already comes after
\* events that it should precede (EventQueue, drain_at, _dispatch).
DeliveryOrder ==
    [][last' # last /\ last # NoEvent /\ last' # NoEvent =>
          \/ Before(last.event, last'.event)
          \/ last'.event.ts = last.event.ts /\ last'.event.seq >= last.mark]_engineVars

\* No occurrence of a job is ever queued or delivered twice, over any number of runs
\* that seed it again (seed_until, enqueue_due).
OccurrenceOnce ==
    \A e \in queue \cup batch : e.job # NoJob =>
        /\ e.ts \notin fired[e.job]
        /\ \A f \in queue \cup batch : f.job = e.job /\ f.ts = e.ts => f = e

\* A run that completes without its cap has delivered every event up to its end, the
\* end included, and every occurrence that its jobs owed when it began.
CompletedIsDrained ==
    [][engineState = "RUNNING" /\ engineState' = "COMPLETED" /\ ~loop'.capped =>
          /\ \A e \in queue' : e.ts > loop.end
          /\ \A j \in Job : due[j] \subseteq fired[j]]_engineVars

\* Once the run is invalidated no event is delivered, not the rest of the batch and not
\* by a later call of run.
NothingAfterInvalidation ==
    [][engineState = "INVALIDATED" => UNCHANGED <<last, processed, fired>>]_engineVars

\* A run fails only by what its handlers or callers did: raise, put an event into the
\* past, or schedule a job in the middle of it.
CleanRunsComplete == engineState = "FAILED" => ~clean

\* run returns, also when events lie in the past of its clock.
RunEnds == loop.active ~> ~loop.active

=============================================================================

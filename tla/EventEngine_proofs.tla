-------------------------- MODULE EventEngine_proofs --------------------------
(***************************************************************************)
(* Proofs about the event loop, for any events, priorities, jobs, calls    *)
(* and horizon: its types, that no occurrence of a job is queued or        *)
(* delivered twice, the order of delivery, that a run which completes has  *)
(* delivered what it owed, and what may make a run fail.                   *)
(***************************************************************************)
EXTENDS EventEngine, FoldFacts

-----------------------------------------------------------------------------
(* Arithmetic of occurrences.                                              *)

\* What a scheduled job puts: from is put if it is within the limit, and next_time moves
\* behind the limit.
LEMMA CountFacts ==
    ASSUME NEW r \in ScheduledJob, NEW from \in Nat, NEW until \in Nat
    PROVE  LET limit == IF until < r.end THEN until ELSE r.end
               n == Count(r, from, until)
           IN  /\ n \in Nat
               /\ n > 0 => r.enabled /\ from + r.interval * (n - 1) <= limit
               /\ r.enabled => from + r.interval * n > limit
<1> DEFINE limit == IF until < r.end THEN until ELSE r.end
           n == Count(r, from, until)
<1>1. r.interval \in Nat \ {0} /\ limit \in Nat /\ r.enabled \in BOOLEAN
  BY DEF ScheduledJob
<1>2. CASE ~r.enabled
  BY <1>1, <1>2 DEF Count
<1>3. CASE r.enabled /\ from > limit
  BY <1>1, <1>3, Scaled DEF Count
<1>4. CASE r.enabled /\ from <= limit
  <2> DEFINE q == (limit - from) \div r.interval
  <2>1. limit - from \in Nat
    BY <1>1, <1>4
  <2>2. q \in Nat /\ r.interval * q <= limit - from /\ limit - from < r.interval * q + r.interval
    BY <1>1, <2>1, Division
  <2>3. n = 1 + q
    BY <1>1, <1>4 DEF Count
  <2>4. r.interval * n = r.interval * 1 + r.interval * q /\ r.interval * 1 = r.interval
    BY <1>1, <2>2, <2>3, Scaled
  <2>5. n - 1 = q
    BY <2>2, <2>3
  <2> HIDE DEF q, n, limit
  <2>6. n \in Nat /\ n > 0 /\ r.interval * q \in Int
    BY <1>1, <2>2, <2>3
  <2>7. from + r.interval * (n - 1) <= limit /\ from + r.interval * n > limit
    BY <1>1, <2>1, <2>2, <2>4, <2>5, <2>6
  <2>8. QED
    BY <1>4, <2>6, <2>7 DEF n, limit
<1>5. QED
  BY <1>1, <1>2, <1>3, <1>4

\* The occurrences put are instants from from up to the limit, all before the new next_time,
\* and what is left to do of an enabled job lies behind the limit.
LEMMA EmittedFacts ==
    ASSUME NEW r \in ScheduledJob, NEW from \in Nat, NEW until \in Nat, r.next <= from
    PROVE  /\ Advanced(r, from, until) \in ScheduledJob
           /\ Advanced(r, from, until).next >= r.next
           /\ Advanced(r, from, until).enabled =>
                 r.enabled /\ Advanced(r, from, until).next > until
           /\ \A t \in Emitted(r, from, until) :
                 t \in Nat /\ t >= from /\ t <= until /\ t < Advanced(r, from, until).next
<1> DEFINE n == Count(r, from, until)
           b == r.interval
           limit == IF until < r.end THEN until ELSE r.end
<1>1. /\ b \in Nat \ {0} /\ r.next \in Nat /\ r.end \in Nat /\ r.enabled \in BOOLEAN
      /\ n \in Nat
      /\ n > 0 => r.enabled /\ from + b * (n - 1) <= limit
      /\ r.enabled => from + b * n > limit
  BY CountFacts DEF ScheduledJob
<1>2. b * n \in Nat
  BY <1>1
<1>3. /\ r.enabled => Advanced(r, from, until) =
                        [r EXCEPT !.next = from + b * n, !.enabled = from + b * n <= r.end]
      /\ ~r.enabled => Advanced(r, from, until) = r
  BY DEF Advanced
<1>4. ASSUME NEW t \in Emitted(r, from, until)
      PROVE  t \in Nat /\ t >= from /\ t <= until /\ r.enabled /\ t < from + b * n
  <2>1. PICK i \in 0 .. n - 1 : t = from + b * i
    BY DEF Emitted
  <2>2. n > 0 /\ i \in Nat /\ i <= n - 1
    BY <1>1, <2>1
  <2>3. b * i \in Int /\ b * i >= 0 /\ b * i <= b * (n - 1) /\ b * i < b * n
    <3>1. b * 0 <= b * i /\ b * i <= b * (n - 1) /\ b * i + b <= b * n /\ b * 0 = 0
      BY <1>1, <2>2, Scaled
    <3>2. b * i \in Int /\ b * n \in Int /\ b * (n - 1) \in Int
      BY <1>1, <2>2
    <3>3. QED
      BY <1>1, <3>1, <3>2
  <2> HIDE DEF n, b
  <2>4. QED
    BY <1>1, <1>2, <2>1, <2>2, <2>3
<1> HIDE DEF n, b
<1>5. CASE r.enabled
  <2> DEFINE again == (from + b * n <= r.end)
  <2>0. again \in BOOLEAN /\ from + b * n \in Nat
    BY <1>1, <1>2
  <2>1. Advanced(r, from, until) \in ScheduledJob
    <3> HIDE DEF again
    <3>1. Advanced(r, from, until) = [r EXCEPT !.next = from + b * n, !.enabled = again]
      BY <1>3, <1>5 DEF again
    <3>2. QED
      BY <2>0, <3>1 DEF ScheduledJob
  <2>2. /\ Advanced(r, from, until).next = from + b * n
        /\ Advanced(r, from, until).enabled => from + b * n <= r.end
    BY <1>3, <1>5 DEF ScheduledJob
  <2>3. from + b * n >= r.next
    BY <1>1, <1>2
  <2>4. from + b * n <= r.end => from + b * n > until
    BY <1>1, <1>2, <1>5
  <2>5. QED
    BY <1>4, <1>5, <2>1, <2>2, <2>3, <2>4
<1>6. CASE ~r.enabled
  BY <1>1, <1>3, <1>4, <1>6
<1>7. QED
  BY <1>1, <1>5, <1>6

\* seed_until goes to the first occurrence not before the start.
LEMMA FirstFromFacts ==
    ASSUME NEW r \in ScheduledJob, NEW start \in Nat
    PROVE  /\ FirstFrom(r, start) \in Nat
           /\ FirstFrom(r, start) >= r.next
           /\ FirstFrom(r, start) >= start
           /\ \E k \in Nat : /\ FirstFrom(r, start) = r.next + r.interval * k
                             /\ k > 0 => r.next + r.interval * (k - 1) < start
<1> DEFINE b == r.interval
           q == (start - r.next) \div b
<1>1. b \in Nat \ {0} /\ r.next \in Nat
  BY DEF ScheduledJob
<1>2. CASE r.next >= start
  <2>1. FirstFrom(r, start) = r.next /\ b * 0 = 0
    BY <1>1, <1>2, Scaled DEF FirstFrom
  <2>2. QED
    BY <1>1, <1>2, <2>1
<1>3. CASE r.next < start
  <2>1. start - r.next \in Nat
    BY <1>1, <1>3
  <2>2. q \in Nat /\ b * q <= start - r.next /\ start - r.next < b * q + b
    BY <1>1, <2>1, Division
  <2>3. b * (q + 1) = b * q + b * 1 /\ b * 1 = b /\ b * q \in Nat
    BY <1>1, <2>2, Scaled
  <2>4. FirstFrom(r, start) = IF r.next + b * q < start THEN r.next + b * q + b ELSE r.next + b * q
    BY <1>1, <1>3 DEF FirstFrom
  <2> HIDE DEF q, b
  <2>5. CASE r.next + b * q < start
    <3>1. q + 1 \in Nat /\ (q + 1) - 1 = q /\ FirstFrom(r, start) = r.next + b * (q + 1)
      BY <1>1, <2>2, <2>3, <2>4, <2>5
    <3>2. QED
      BY <1>1, <2>1, <2>2, <2>3, <2>5, <3>1 DEF b
  <2>6. CASE ~(r.next + b * q < start)
    <3>1. FirstFrom(r, start) = r.next + b * q /\ r.next + b * q = start
      BY <1>1, <2>1, <2>2, <2>3, <2>4, <2>6
    <3>2. q > 0 => b * (q - 1) \in Int /\ b * (q - 1) < b * q
      <4>1. q > 0 => b * (q - 1) + b <= b * q /\ b * (q - 1) \in Int
        BY <1>1, <2>2, Scaled
      <4>2. QED
        BY <1>1, <2>2, <2>3, <4>1
    <3>3. q > 0 => r.next + b * (q - 1) < start
      BY <1>1, <2>2, <2>3, <3>1, <3>2
    <3>4. FirstFrom(r, start) \in Nat /\ FirstFrom(r, start) >= r.next /\ FirstFrom(r, start) >= start
      BY <1>1, <2>3, <3>1
    <3>5. QED
      BY <2>2, <3>1, <3>3, <3>4 DEF b
  <2>7. QED
    BY <2>5, <2>6
<1>4. QED
  BY <1>1, <1>2, <1>3
\* What a job owes from a start on is what seed_until puts.
LEMMA OwedIsSeeded ==
    ASSUME NEW r \in ScheduledJob, NEW start \in Nat, NEW end \in Nat
    PROVE  Owed(r, start, end) \subseteq Emitted(r, FirstFrom(r, start), end)
<1> DEFINE b == r.interval
           from == FirstFrom(r, start)
           limit == IF end < r.end THEN end ELSE r.end
<1>1. b \in Nat \ {0} /\ r.next \in Nat /\ r.end \in Nat /\ r.enabled \in BOOLEAN
  BY DEF ScheduledJob
<1>2. SUFFICES ASSUME NEW t \in Owed(r, start, end)
               PROVE  t \in Emitted(r, from, end)
  OBVIOUS
<1>3. /\ t \in Nat /\ start <= t /\ t <= end /\ r.enabled /\ r.next <= t /\ t <= r.end
      /\ (t - r.next) % b = 0
  BY DEF Owed
<1>4. PICK k0 \in Nat : from = r.next + b * k0 /\ (k0 > 0 => r.next + b * (k0 - 1) < start)
  BY FirstFromFacts
<1>5. from \in Nat
  BY FirstFromFacts
<1>6. PICK k \in Nat : t = r.next + b * k
  <2>1. t - r.next \in Nat
    BY <1>1, <1>3
  <2>2. (t - r.next) \div b \in Nat /\ t - r.next = b * ((t - r.next) \div b)
    BY <1>1, <1>3, <2>1, SMTT(30)
  <2>3. QED
    BY <1>1, <1>3, <2>2
<1>7. k0 <= k
  <2>1. SUFFICES ASSUME k < k0 PROVE FALSE
    OBVIOUS
  <2>2. k0 > 0 /\ k <= k0 - 1 /\ k0 - 1 \in Int
    BY <2>1
  <2>3. b * k <= b * (k0 - 1) /\ b * k \in Int /\ b * (k0 - 1) \in Int
    BY <1>1, <2>2, Scaled
  <2> HIDE DEF b
  <2>4. QED
    BY <1>1, <1>3, <1>4, <1>6, <2>2, <2>3
<1> DEFINE i == k - k0
<1>8. i \in Nat /\ t = from + b * i
  <2>1. i \in Nat
    BY <1>7
  <2>2. b * k - b * k0 = b * i /\ b * k \in Int /\ b * k0 \in Int /\ b * i \in Int
    BY <1>1, Scaled
  <2> HIDE DEF i, b
  <2>3. QED
    BY <1>1, <1>4, <1>6, <2>1, <2>2
<1>9. limit \in Nat /\ from <= t /\ t <= limit
  <2>1. b * i >= 0
    BY <1>1, <1>8
  <2> HIDE DEF i, b
  <2>2. QED
    BY <1>1, <1>3, <1>5, <1>8, <2>1
<1>10. i <= (limit - from) \div b
  <2> DEFINE q == (limit - from) \div b
  <2>1. limit - from \in Nat /\ b * i <= limit - from
    BY <1>1, <1>5, <1>8, <1>9
  <2>2. q \in Nat /\ limit - from < b * q + b
    BY <1>1, <2>1, Division
  <2>3. q < i => b * q + b <= b * i
    BY <1>1, <1>8, <2>2, Scaled
  <2>4. b * i \in Int /\ b * q \in Int
    BY <1>1, <1>8, <2>2
  <2> HIDE DEF q, i, b
  <2>5. ~(q < i)
    BY <1>1, <1>5, <1>9, <2>1, <2>2, <2>3, <2>4
  <2>6. QED
    BY <1>8, <2>2, <2>5 DEF q
<1>11. Count(r, from, end) = 1 + (limit - from) \div b /\ (limit - from) \div b \in Nat
  <2>1. ~(from > limit) /\ limit - from \in Nat
    BY <1>3, <1>5, <1>9
  <2>2. (limit - from) \div b \in Nat
    BY <1>1, <2>1, Division
  <2>3. QED
    BY <1>3, <2>1, <2>2 DEF Count
<1>12. i \in 0 .. Count(r, from, end) - 1
  <2> HIDE DEF i
  <2>1. QED
    BY <1>8, <1>10, <1>11
<1>13. QED
  <2> HIDE DEF i
  <2>1. QED
    BY <1>8, <1>12 DEF Emitted

-----------------------------------------------------------------------------
(* Events of jobs.                                                         *)

\* An occurrence becomes one event, numbered from seq on and of the job's type.
LEMMA JobEventFacts ==
    ASSUME seq \in Nat, NEW times \in [Job -> SUBSET Nat], NEW e \in JobEvents(times)
    PROVE  /\ e \in Event /\ e.job \in Job /\ e.ts \in times[e.job] /\ e.seq >= seq
           /\ e = [ts |-> e.ts, type |-> JobType[e.job], seq |-> seq + e.job - 1, job |-> e.job]
<1>1. PICK j \in Job : e \in {[ts |-> t, type |-> JobType[j], seq |-> seq + j - 1, job |-> j] : t \in times[j]}
  BY DEF JobEvents
<1>2. PICK t \in times[j] : e = [ts |-> t, type |-> JobType[j], seq |-> seq + j - 1, job |-> j]
  BY <1>1
<1>3. t \in Nat /\ j \in Nat /\ j >= 1 /\ seq + j - 1 \in Nat /\ seq + j - 1 >= seq
  BY EngineAssumption DEF Job
<1>4. JobType[j] \in EventType
  BY EngineAssumption
<1>5. QED
  BY <1>2, <1>3, <1>4 DEF Event

\* Every occurrence has its event.
LEMMA JobEventExists ==
    ASSUME NEW times, NEW j \in Job, NEW t \in times[j]
    PROVE  \E e \in JobEvents(times) : e.job = j /\ e.ts = t
<1> DEFINE e == [ts |-> t, type |-> JobType[j], seq |-> seq + j - 1, job |-> j]
<1>1. e \in JobEvents(times)
  BY DEF JobEvents
<1>2. QED
  BY <1>1

\* What the seeds and the due occurrences are, and what they leave of the jobs.
LEMMA SeedFacts ==
    ASSUME jobs \in [Job -> ScheduledJob], NEW start \in Nat, NEW end \in Nat
    PROVE  /\ Seeds(start, end) \in [Job -> SUBSET Nat]
           /\ SeededJobs(start, end) \in [Job -> ScheduledJob]
           /\ \A j \in Job :
                 /\ SeededJobs(start, end)[j].next >= jobs[j].next
                 /\ SeededJobs(start, end)[j].enabled => SeededJobs(start, end)[j].next > end
                 /\ \A t \in Seeds(start, end)[j] :
                       t >= jobs[j].next /\ t >= start /\ t < SeededJobs(start, end)[j].next
<1>1. ASSUME NEW j \in Job
      PROVE  /\ Seeds(start, end)[j] \in SUBSET Nat
             /\ SeededJobs(start, end)[j] \in ScheduledJob
             /\ SeededJobs(start, end)[j].next >= jobs[j].next
             /\ SeededJobs(start, end)[j].enabled => SeededJobs(start, end)[j].next > end
             /\ \A t \in Seeds(start, end)[j] :
                   t >= jobs[j].next /\ t >= start /\ t < SeededJobs(start, end)[j].next
  <2> DEFINE r == jobs[j]
             from == FirstFrom(r, start)
  <2>1. r \in ScheduledJob /\ r.next \in Nat
    BY DEF ScheduledJob
  <2>2. from \in Nat /\ from >= r.next /\ from >= start
    BY <2>1, FirstFromFacts
  <2>3. /\ Seeds(start, end)[j] = Emitted(r, from, end)
        /\ SeededJobs(start, end)[j] = Advanced(r, from, end)
    BY DEF Seeds, SeededJobs
  <2> HIDE DEF r, from
  <2>4. /\ Advanced(r, from, end) \in ScheduledJob
        /\ Advanced(r, from, end).next >= r.next
        /\ Advanced(r, from, end).enabled => Advanced(r, from, end).next > end
        /\ \A t \in Emitted(r, from, end) : t \in Nat /\ t >= from /\ t < Advanced(r, from, end).next
    BY <2>1, <2>2, EmittedFacts
  <2>5. \A t \in Emitted(r, from, end) : t >= r.next /\ t >= start
    BY <2>1, <2>2, <2>4
  <2>6. QED
    BY <2>3, <2>4, <2>5 DEF r
<1>2. QED
  BY <1>1 DEF Seeds, SeededJobs

LEMMA DueFacts ==
    ASSUME jobs \in [Job -> ScheduledJob], NEW asof \in Nat
    PROVE  /\ Dues(asof) \in [Job -> SUBSET Nat]
           /\ DueJobs(asof) \in [Job -> ScheduledJob]
           /\ \A j \in Job :
                 /\ DueJobs(asof)[j].next >= jobs[j].next
                 /\ DueJobs(asof)[j].enabled => jobs[j].enabled
                 /\ \A t \in Dues(asof)[j] :
                       /\ t >= jobs[j].next /\ t <= asof /\ t < DueJobs(asof)[j].next
                       /\ jobs[j].enabled
<1>1. ASSUME NEW j \in Job
      PROVE  /\ Dues(asof)[j] \in SUBSET Nat
             /\ DueJobs(asof)[j] \in ScheduledJob
             /\ DueJobs(asof)[j].next >= jobs[j].next
             /\ DueJobs(asof)[j].enabled => jobs[j].enabled
             /\ \A t \in Dues(asof)[j] :
                   /\ t >= jobs[j].next /\ t <= asof /\ t < DueJobs(asof)[j].next
                   /\ jobs[j].enabled
  <2> DEFINE r == jobs[j]
  <2>1. r \in ScheduledJob /\ r.next \in Nat /\ r.next <= r.next
    BY DEF ScheduledJob
  <2>2. Dues(asof)[j] = Emitted(r, r.next, asof) /\ DueJobs(asof)[j] = Advanced(r, r.next, asof)
    BY DEF Dues, DueJobs
  <2> HIDE DEF r
  <2>3. /\ Advanced(r, r.next, asof) \in ScheduledJob
        /\ Advanced(r, r.next, asof).next >= r.next
        /\ Advanced(r, r.next, asof).enabled => r.enabled
        /\ \A t \in Emitted(r, r.next, asof) :
              t \in Nat /\ t >= r.next /\ t <= asof /\ t < Advanced(r, r.next, asof).next
    BY <2>1, EmittedFacts
  <2>4. Emitted(r, r.next, asof) # {} => r.enabled
    BY DEF Emitted, Count
  <2>5. QED
    BY <2>2, <2>3, <2>4 DEF r
<1>2. QED
  BY <1>1 DEF Dues, DueJobs
-----------------------------------------------------------------------------
(* Types.                                                                  *)

\* The instants, calls and jobs of the environment are of the engine's types.
LEMMA EnvironmentFacts ==
    /\ Time \subseteq Nat
    /\ \A c \in Calls : /\ c.start \in Nat /\ c.end \in Nat
                        /\ c.cap \in Nat \cup {NoCap} /\ c.ticks \in BOOLEAN
    /\ NewJobs \subseteq ScheduledJob
    /\ Unscheduled \in ScheduledJob /\ Stopped \in Loop
<1>1. Time \subseteq Nat
  BY EngineAssumption DEF Time
<1>2. \A c \in Calls : c \in [start : Time, end : Time, cap : Nat \cup {NoCap}, ticks : BOOLEAN]
  BY EngineAssumption
<1>3. \A r \in NewJobs : r \in [next : Time, interval : Nat \ {0}, end : Time, enabled : {TRUE}]
  BY EngineAssumption
<1>4. NewJobs \subseteq ScheduledJob
  BY <1>1, <1>3 DEF ScheduledJob
<1>5. Unscheduled \in ScheduledJob /\ Stopped \in Loop
  BY DEF Unscheduled, ScheduledJob, Stopped, Loop
<1>6. QED
  BY <1>1, <1>2, <1>4, <1>5

\* What one handler puts: nothing or one event of now, numbered seq.
LEMMA PutFacts ==
    ASSUME seq \in Nat, NEW puts \in Puts
    PROVE  /\ puts \subseteq Event
           /\ Cardinality(puts) \in Nat
           /\ \A p \in puts : p.job = NoJob /\ p.seq = seq
<1>1. CASE puts = {}
  BY <1>1, FS_EmptySet
<1>2. CASE puts # {}
  <2>1. PICK t \in Time, y \in EventType :
           puts = {[ts |-> t, type |-> y, seq |-> seq, job |-> NoJob]}
    BY <1>2 DEF Puts
  <2>2. t \in Nat
    BY EnvironmentFacts
  <2>3. Cardinality(puts) = 1
    BY <2>1, FS_Singleton
  <2>4. QED
    BY <2>1, <2>2, <2>3 DEF Event, NoJob
<1>3. QED
  BY <1>1, <1>2

LEMMA TypeInit == EngineInit => EngineTypeOK
<1> SUFFICES ASSUME EngineInit PROVE EngineTypeOK
  OBVIOUS
<1>1. loop \in Loop /\ jobs \in [Job -> ScheduledJob]
  BY EnvironmentFacts DEF EngineInit
<1>2. QED
  BY <1>1 DEF EngineInit, EngineTypeOK

\* The steps of run that deliver an event.
LEMMA TypeDelivered ==
    ASSUME EngineTypeOK, NEW e \in batch, NEW puts \in SUBSET Event,
           Cardinality(puts) \in Nat, Delivered(e, puts)
    PROVE  /\ queue' \subseteq Event /\ seq' \in Nat
           /\ last' \in [event : Event, mark : Nat]
           /\ fired' \in [Job -> SUBSET Nat] /\ due' \in [Job -> SUBSET Nat]
           /\ clock' \in Nat /\ runs' \in Nat
<1>1. e \in Event /\ seq \in Nat /\ loop.mark \in Nat /\ e.ts \in Nat /\ e.job \in Job \cup {NoJob}
  BY DEF EngineTypeOK, Event, Loop
<1>2. puts \subseteq Event /\ Cardinality(puts) \in Nat
  OBVIOUS
<1>3. fired' \in [Job -> SUBSET Nat]
  BY <1>1 DEF EngineTypeOK, Delivered
<1>4. last' \in [event : Event, mark : Nat]
  BY <1>1 DEF Delivered
<1>5. QED
  BY <1>1, <1>2, <1>3, <1>4 DEF EngineTypeOK, Delivered

LEMMA TypeStep ==
    ASSUME EngineTypeOK, [EngineNext]_engineVars
    PROVE  EngineTypeOK'
<1> USE DEF EngineTypeOK
<1>0. /\ clock \in Nat /\ seq \in Nat /\ processed \in Nat /\ submitted \in Nat /\ runs \in Nat
      /\ loop.end \in Nat /\ loop.mark \in Nat /\ loop.active \in BOOLEAN
      /\ loop.cap \in Nat \cup {NoCap} /\ loop.ticks \in BOOLEAN
      /\ \A ev \in queue \cup batch : ev.ts \in Nat
      /\ ~loop.active => batch = {}
  BY DEF Loop, Event
<1>1. CASE Complete
  <2>1. loop' \in Loop
    <3> DEFINE c == Capped
    <3>1. loop' = [loop EXCEPT !.active = FALSE, !.capped = c]
      BY <1>1 DEF Complete
    <3>2. c \in BOOLEAN
      BY <1>0 DEF Capped
    <3> HIDE DEF c
    <3>3. QED
      BY <3>1, <3>2 DEF Loop
  <2>2. QED
    BY <1>0, <1>1, <2>1 DEF Complete, AtTurn
<1>2. CASE Tick
  <2>1. /\ Dues(clock + 1) \in [Job -> SUBSET Nat] /\ DueJobs(clock + 1) \in [Job -> ScheduledJob]
        /\ Numbers(Dues(clock + 1)) \in Nat
    BY <1>0, DueFacts, EngineAssumption DEF Numbers
  <2>2. JobEvents(Dues(clock + 1)) \subseteq Event
    BY <1>0, <2>1, JobEventFacts
  <2>3. QED
    BY <1>0, <1>2, <2>1, <2>2 DEF Tick, AtTurn
<1>3. CASE OutOfOrder
  <2>1. loop' \in Loop
    BY <1>3 DEF OutOfOrder, Loop
  <2>2. QED
    BY <1>3, <2>1 DEF OutOfOrder, AtTurn
<1>4. CASE Drain
  <2>1. PICK e \in queue :
           /\ clock' = e.ts
           /\ batch' = DrainAt(queue \cup JobEvents(Dues(e.ts)), e.ts)
           /\ queue' = (queue \cup JobEvents(Dues(e.ts))) \ batch'
           /\ jobs' = DueJobs(e.ts)
           /\ seq' = seq + Numbers(Dues(e.ts))
    BY <1>4 DEF Drain
  <2>2. /\ Dues(e.ts) \in [Job -> SUBSET Nat] /\ DueJobs(e.ts) \in [Job -> ScheduledJob]
        /\ Numbers(Dues(e.ts)) \in Nat
    BY <1>0, DueFacts, EngineAssumption DEF Numbers
  <2>3. JobEvents(Dues(e.ts)) \subseteq Event
    BY <1>0, <2>2, JobEventFacts
  <2>4. seq' \in Nat /\ loop' \in Loop /\ loop'.active
    BY <1>0, <1>4, <2>1, <2>2 DEF Drain, AtTurn, Loop
  <2>5. batch' \subseteq queue \cup JobEvents(Dues(e.ts)) /\ \A f \in batch' : f.ts = clock'
    BY <2>1 DEF DrainAt
  <2>6. QED
    BY <1>0, <1>4, <2>1, <2>2, <2>3, <2>4, <2>5 DEF Drain
<1>5. CASE DropBatch
  <2>1. loop' \in Loop
    BY <1>5 DEF DropBatch, Loop
  <2>2. QED
    BY <1>5, <2>1 DEF DropBatch
<1>6. ASSUME NEW e \in batch, NEW puts \in Puts, NEW state \in {"RUNNING", "INVALIDATED"},
             Deliver(e, puts, state)
      PROVE  EngineTypeOK'
  <2>1. Delivered(e, puts)
    BY <1>6 DEF Deliver
  <2>2. /\ queue' \subseteq Event /\ seq' \in Nat
        /\ last' \in [event : Event, mark : Nat]
        /\ fired' \in [Job -> SUBSET Nat] /\ due' \in [Job -> SUBSET Nat]
        /\ clock' \in Nat /\ runs' \in Nat /\ clock' = clock
    BY <1>0, <2>1, PutFacts, TypeDelivered DEF Delivered
  <2>3. submitted' \in Nat
    BY <1>0, <1>6, PutFacts DEF Deliver, ByHand
  <2>4. clean' \in BOOLEAN
    BY <1>6 DEF Deliver
  <2>5. QED
    BY <1>0, <1>6, <2>2, <2>3, <2>4 DEF Deliver
<1>7. ASSUME NEW e \in batch, NEW puts \in Puts, Raise(e, puts)
      PROVE  EngineTypeOK'
  <2>1. Delivered(e, puts)
    BY <1>7 DEF Raise
  <2>2. /\ queue' \subseteq Event /\ seq' \in Nat
        /\ last' \in [event : Event, mark : Nat]
        /\ fired' \in [Job -> SUBSET Nat] /\ due' \in [Job -> SUBSET Nat]
        /\ clock' \in Nat /\ runs' \in Nat
    BY <1>0, <2>1, PutFacts, TypeDelivered
  <2>3. submitted' \in Nat
    BY <1>0, <1>7, PutFacts DEF Raise, ByHand
  <2>4. loop' \in Loop
    BY <1>7 DEF Raise, Loop
  <2>5. QED
    BY <1>0, <1>7, <2>2, <2>3, <2>4 DEF Raise
<1>8. ASSUME NEW e \in batch, NEW j \in Job, NEW r \in NewJobs, DeliverAndSchedule(e, j, r)
      PROVE  EngineTypeOK'
  <2>1. Delivered(e, {}) /\ {} \in SUBSET Event /\ Cardinality({}) \in Nat
    BY <1>8, FS_EmptySet DEF DeliverAndSchedule
  <2>2. /\ queue' \subseteq Event /\ seq' \in Nat
        /\ last' \in [event : Event, mark : Nat]
        /\ fired' \in [Job -> SUBSET Nat] /\ due' \in [Job -> SUBSET Nat]
        /\ clock' \in Nat /\ runs' \in Nat /\ clock' = clock
    BY <2>1, TypeDelivered DEF Delivered
  <2>3. jobs' \in [Job -> ScheduledJob]
    BY <1>8, EnvironmentFacts DEF DeliverAndSchedule
  <2>4. /\ batch' \subseteq Event /\ \A f \in batch' : loop'.active /\ f.ts = clock'
        /\ loop' \in Loop /\ submitted' \in Nat /\ processed' \in Nat
    BY <1>0, <1>8, <2>2 DEF DeliverAndSchedule
  <2>5. engineState' = engineState /\ clean' \in BOOLEAN
    BY <1>8 DEF DeliverAndSchedule
  <2>6. QED
    BY <2>2, <2>3, <2>4, <2>5
<1>9. ASSUME NEW t \in Time, NEW y \in EventType, Submit(t, y)
      PROVE  EngineTypeOK'
  <2>1. [ts |-> t, type |-> y, seq |-> seq, job |-> NoJob] \in Event
    BY <1>0, EnvironmentFacts DEF Event, NoJob
  <2>2. QED
    BY <1>0, <1>9, <2>1 DEF Submit
<1>10. ASSUME NEW j \in Job, NEW r \in NewJobs, Schedule(j, r)
       PROVE  EngineTypeOK'
  BY <1>10, EnvironmentFacts DEF Schedule
<1>11. ASSUME NEW c \in Calls, Begin(c.start, c.end, c.cap, c.ticks)
       PROVE  EngineTypeOK'
  <2>1. c.start \in Nat /\ c.end \in Nat /\ c.cap \in Nat \cup {NoCap} /\ c.ticks \in BOOLEAN
    BY EnvironmentFacts
  <2>2. /\ Seeds(c.start, c.end) \in [Job -> SUBSET Nat]
        /\ SeededJobs(c.start, c.end) \in [Job -> ScheduledJob]
        /\ Numbers(Seeds(c.start, c.end)) \in Nat
    BY <2>1, SeedFacts, EngineAssumption DEF Numbers
  <2>3. JobEvents(Seeds(c.start, c.end)) \subseteq Event
    BY <1>0, <2>2, JobEventFacts
  <2>4. loop' \in Loop
    BY <1>11, <2>1 DEF Begin, Stopped, Loop
  <2>5. clean' \in BOOLEAN
    BY <1>11 DEF Begin
  <2>6. due' \in [Job -> SUBSET Nat]
    <3>1. \A j \in Job : Owed(jobs[j], c.start, c.end) \in SUBSET Nat
      BY <2>1 DEF Owed
    <3>2. QED
      BY <1>11, <3>1 DEF Begin
  <2>7. batch' = {} /\ batch = {}
    BY <1>0, <1>11 DEF Begin
  <2>8. QED
    BY <1>0, <1>11, <2>1, <2>2, <2>3, <2>4, <2>5, <2>6, <2>7 DEF Begin
<1>12. ASSUME NEW c \in Calls, BeginInvalidated(c.start)
       PROVE  EngineTypeOK'
  <2>1. c.start \in Nat
    BY EnvironmentFacts
  <2>2. QED
    BY <1>0, <1>12, <2>1 DEF BeginInvalidated
<1>13. CASE Invalidate
  BY <1>13 DEF Invalidate
<1>14. CASE UNCHANGED engineVars
  BY <1>14 DEF engineVars, engine
<1>15. QED
  BY <1>1, <1>2, <1>3, <1>4, <1>5, <1>6, <1>7, <1>8, <1>9, <1>10, <1>11, <1>12, <1>13, <1>14
     DEF EngineNext, LoopStep

\* The event engine's variables keep their types, and a batch is of one instant and
\* left only within a run, whatever handlers and callers do (EventDrivenEngine).
THEOREM EngineTypes == EngineSpec => []EngineTypeOK
<1>1. QED
  BY TypeInit, TypeStep, PTL DEF EngineSpec
-----------------------------------------------------------------------------
(* Occurrences happen once.                                                *)

\* What is queued or was delivered of a job lies before its next_time, and an
\* occurrence has one event, in the queue or in the batch.
OccurrenceInv ==
    /\ \A e \in queue \cup batch : e.job # NoJob => e.ts < jobs[e.job].next /\ e.ts \notin fired[e.job]
    /\ \A e, f \in queue \cup batch : e.job # NoJob /\ f.job = e.job /\ f.ts = e.ts => f = e
    /\ \A e \in queue \cap batch : e.job = NoJob
    /\ \A j \in Job : \A t \in fired[j] : t < jobs[j].next

\* A step that puts occurrences from next_time on and moves next_time behind them.
LEMMA OccurrencesPut ==
    ASSUME EngineTypeOK, OccurrenceInv, NEW times \in [Job -> SUBSET Nat],
           jobs' \in [Job -> ScheduledJob], fired' = fired,
           \A j \in Job : /\ jobs'[j].next >= jobs[j].next
                          /\ \A t \in times[j] : t >= jobs[j].next /\ t < jobs'[j].next,
           queue' \cup batch' = queue \cup batch \cup JobEvents(times),
           queue' \cap batch' \subseteq queue \cap batch
    PROVE  OccurrenceInv'
<1>1. seq \in Nat /\ jobs \in [Job -> ScheduledJob] /\ fired \in [Job -> SUBSET Nat]
  BY DEF EngineTypeOK
<1>2. \A j \in Job : jobs[j].next \in Nat /\ jobs'[j].next \in Nat
  BY <1>1 DEF ScheduledJob
<1>3. \A e \in queue \cup batch : e.job \in Job \cup {NoJob} /\ e.ts \in Nat
  BY DEF EngineTypeOK, Event
<1>4. \A e \in JobEvents(times) :
         /\ e.job \in Job /\ e.ts \in times[e.job] /\ e.ts \in Nat
         /\ e = [ts |-> e.ts, type |-> JobType[e.job], seq |-> seq + e.job - 1, job |-> e.job]
  BY <1>1, JobEventFacts
<1>5. \A e \in JobEvents(times) : /\ e.ts >= jobs[e.job].next /\ e.ts < jobs'[e.job].next
                                 /\ e.ts \notin fired[e.job]
  <2>1. TAKE e \in JobEvents(times)
  <2>2. e.ts >= jobs[e.job].next /\ e.ts < jobs'[e.job].next
    BY <1>4
  <2>3. e.ts \notin fired[e.job]
    BY <1>2, <1>4, <2>2 DEF OccurrenceInv
  <2>4. QED
    BY <2>2, <2>3
<1>6. \A e \in queue' \cup batch' : e.job # NoJob => e.ts < jobs'[e.job].next /\ e.ts \notin fired[e.job]
  <2>1. TAKE e \in queue' \cup batch'
  <2>2. CASE e \in JobEvents(times)
    BY <1>5, <2>2
  <2>3. CASE e \in queue \cup batch
    BY <1>2, <1>3, <2>3 DEF OccurrenceInv
  <2>4. QED
    BY <2>2, <2>3
<1>7. \A e, f \in queue' \cup batch' : e.job # NoJob /\ f.job = e.job /\ f.ts = e.ts => f = e
  <2>1. TAKE e, f \in queue' \cup batch'
  <2>2. HAVE e.job # NoJob /\ f.job = e.job /\ f.ts = e.ts
  <2>3. CASE e \in JobEvents(times) /\ f \in JobEvents(times)
    BY <1>4, <2>2, <2>3
  <2>4. CASE e \in queue \cup batch /\ f \in queue \cup batch
    BY <2>2, <2>4 DEF OccurrenceInv
  <2>5. ASSUME NEW g \in queue \cup batch, NEW h \in JobEvents(times), g.job = h.job, g.ts = h.ts
        PROVE  FALSE
    <3>1. h.job # NoJob /\ h.job \in Job /\ h.ts >= jobs[h.job].next
      BY <1>4, <1>5 DEF NoJob, Job
    <3>2. g.ts < jobs[g.job].next /\ g.ts \in Nat
      BY <1>3, <2>5, <3>1 DEF OccurrenceInv
    <3>3. QED
      BY <1>2, <2>5, <3>1, <3>2
  <2>6. QED
    BY <2>2, <2>3, <2>4, <2>5
<1>8. \A j \in Job : \A t \in fired[j] : t < jobs'[j].next
  BY <1>1, <1>2 DEF OccurrenceInv
<1>9. QED
  BY <1>6, <1>7, <1>8 DEF OccurrenceInv

\* A step that delivers an event and puts others by hand.
LEMMA OccurrencesDelivered ==
    ASSUME EngineTypeOK, OccurrenceInv, NEW e \in batch, NEW puts \in Puts, Delivered(e, puts),
           batch' \subseteq batch \ {e}, jobs' = jobs
    PROVE  OccurrenceInv'
<1>1. /\ seq \in Nat /\ fired \in [Job -> SUBSET Nat] /\ queue' = queue \cup puts
      /\ e \in Event /\ e.job \in Job \cup {NoJob} /\ e.ts \in Nat
  BY DEF EngineTypeOK, Delivered, Event
<1>2. \A p \in puts : p.job = NoJob
  BY <1>1, PutFacts
<1>3. /\ e.job = NoJob => fired' = fired
      /\ e.job # NoJob => fired' = [fired EXCEPT ![e.job] = @ \cup {e.ts}]
  BY DEF Delivered
<1>4. \A j \in Job : \A t \in fired'[j] : t \in fired[j] \/ (e.job = j /\ e.job # NoJob /\ t = e.ts)
  BY <1>1, <1>3
<1>5. \A f \in queue' \cup batch' : f.job # NoJob => f \in queue \cup batch /\ f # e
  BY <1>1, <1>2 DEF OccurrenceInv
<1>6. \A f \in queue \cup batch : f.job \in Job \cup {NoJob}
  BY DEF EngineTypeOK, Event
<1>7. ASSUME NEW f \in queue' \cup batch', f.job # NoJob
      PROVE  f.ts < jobs[f.job].next /\ f.ts \notin fired'[f.job]
  <2>1. f \in queue \cup batch /\ f # e /\ f.job \in Job
    BY <1>5, <1>6, <1>7
  <2>2. f.ts < jobs[f.job].next /\ f.ts \notin fired[f.job]
    BY <1>7, <2>1 DEF OccurrenceInv
  <2>3. ~(f.job = e.job /\ f.ts = e.ts)
    BY <1>7, <2>1 DEF OccurrenceInv
  <2>4. QED
    BY <1>4, <2>1, <2>2, <2>3
<1>8. \A f, g \in queue' \cup batch' : f.job # NoJob /\ g.job = f.job /\ g.ts = f.ts => g = f
  BY <1>5 DEF OccurrenceInv
<1>9. \A f \in queue' \cap batch' : f.job = NoJob
  BY <1>1, <1>2 DEF OccurrenceInv
<1>10. \A j \in Job : \A t \in fired'[j] : t < jobs[j].next
  BY <1>4 DEF OccurrenceInv
<1>11. QED
  BY <1>7, <1>8, <1>9, <1>10 DEF OccurrenceInv

\* A step that schedules a job: nothing of it was ever put.
LEMMA OccurrencesScheduled ==
    ASSUME EngineTypeOK, OccurrenceInv, NEW j \in Job, NEW r \in NewJobs,
           jobs[j] = Unscheduled, jobs' = [jobs EXCEPT ![j] = r]
    PROVE  /\ \A e \in queue \cup batch : e.job # NoJob => e.job # j /\ e.ts < jobs'[e.job].next
           /\ \A i \in Job : \A t \in fired[i] : t < jobs'[i].next
<1>1. /\ jobs \in [Job -> ScheduledJob] /\ fired \in [Job -> SUBSET Nat]
      /\ \A e \in queue \cup batch : e.ts \in Nat /\ e.job \in Job \cup {NoJob}
  BY DEF EngineTypeOK, Event
<1>2. jobs[j].next = 0
  BY DEF Unscheduled
<1>3. \A e \in queue \cup batch : e.job # NoJob => e.job # j /\ e.ts < jobs[e.job].next
  BY <1>1, <1>2 DEF OccurrenceInv
<1>4. fired[j] = {}
  BY <1>1, <1>2 DEF OccurrenceInv
<1>5. QED
  BY <1>1, <1>3, <1>4 DEF OccurrenceInv

LEMMA OccurrenceStep ==
    ASSUME EngineTypeOK, EngineTypeOK', OccurrenceInv, [EngineNext]_engineVars
    PROVE  OccurrenceInv'
<1>0. /\ clock \in Nat /\ seq \in Nat /\ jobs \in [Job -> ScheduledJob]
      /\ jobs' \in [Job -> ScheduledJob] /\ fired \in [Job -> SUBSET Nat]
      /\ \A e \in queue \cup batch : e.ts \in Nat /\ e.job \in Job \cup {NoJob}
  BY DEF EngineTypeOK, Event
<1>1. CASE Complete \/ OutOfOrder \/ Invalidate \/ UNCHANGED engineVars
           \/ (\E c \in Calls : BeginInvalidated(c.start))
  BY <1>1 DEF Complete, OutOfOrder, Invalidate, engineVars, engine, BeginInvalidated, OccurrenceInv
<1>2. CASE Tick
  <2> DEFINE times == Dues(clock + 1)
  <2>1. /\ times \in [Job -> SUBSET Nat] /\ jobs' = DueJobs(clock + 1) /\ fired' = fired
        /\ batch = {} /\ batch' = {} /\ queue = {} /\ queue' = JobEvents(times)
    BY <1>0, <1>2, DueFacts DEF Tick, AtTurn
  <2>2. \A j \in Job : /\ jobs'[j].next >= jobs[j].next
                       /\ \A t \in times[j] : t >= jobs[j].next /\ t < jobs'[j].next
    BY <1>0, <2>1, DueFacts
  <2> HIDE DEF times
  <2>3. QED
    BY <1>0, <2>1, <2>2, OccurrencesPut
<1>3. CASE Drain
  <2>1. PICK e \in queue :
           /\ batch' = DrainAt(queue \cup JobEvents(Dues(e.ts)), e.ts)
           /\ queue' = (queue \cup JobEvents(Dues(e.ts))) \ batch'
           /\ jobs' = DueJobs(e.ts)
    BY <1>3 DEF Drain
  <2> DEFINE times == Dues(e.ts)
  <2>2. times \in [Job -> SUBSET Nat] /\ fired' = fired /\ batch = {}
    BY <1>0, <1>3, DueFacts DEF Drain, AtTurn
  <2>3. \A j \in Job : /\ jobs'[j].next >= jobs[j].next
                       /\ \A t \in times[j] : t >= jobs[j].next /\ t < jobs'[j].next
    BY <1>0, <2>1, DueFacts
  <2>4. batch' \subseteq queue \cup JobEvents(times)
    BY <2>1 DEF DrainAt
  <2>5. queue' = (queue \cup JobEvents(times)) \ batch'
    BY <2>1
  <2> HIDE DEF times
  <2>6. /\ queue' \cup batch' = queue \cup batch \cup JobEvents(times)
        /\ queue' \cap batch' \subseteq queue \cap batch
    BY <2>2, <2>4, <2>5
  <2>7. QED
    BY <1>0, <2>2, <2>3, <2>6, OccurrencesPut
<1>4. CASE DropBatch
  BY <1>4 DEF DropBatch, OccurrenceInv
<1>5. ASSUME NEW e \in batch, NEW puts \in Puts, NEW state, Deliver(e, puts, state) \/ Raise(e, puts)
      PROVE  OccurrenceInv'
  <2>1. Delivered(e, puts) /\ batch' \subseteq batch \ {e} /\ jobs' = jobs
    BY <1>5 DEF Deliver, Raise
  <2>2. QED
    BY <2>1, OccurrencesDelivered
<1>6. ASSUME NEW e \in batch, NEW j \in Job, NEW r \in NewJobs, DeliverAndSchedule(e, j, r)
      PROVE  OccurrenceInv'
  <2>1. /\ \A f \in queue \cup batch : f.job # NoJob => f.job # j /\ f.ts < jobs'[f.job].next
        /\ \A i \in Job : \A t \in fired[i] : t < jobs'[i].next
    BY <1>6, OccurrencesScheduled DEF DeliverAndSchedule
  <2>2. /\ queue' = queue /\ batch' = batch \ {e}
        /\ fired' = IF e.job = NoJob THEN fired ELSE [fired EXCEPT ![e.job] = @ \cup {e.ts}]
    BY <1>6 DEF DeliverAndSchedule, Delivered
  <2>3. \A i \in Job : \A t \in fired'[i] : t \in fired[i] \/ (e.job = i /\ e.job # NoJob /\ t = e.ts)
    BY <1>0, <2>2
  <2>4. \A i \in Job : \A t \in fired'[i] : t < jobs'[i].next
    BY <2>1, <2>3
  <2>5. ASSUME NEW f \in queue' \cup batch', f.job # NoJob
        PROVE  f.ts < jobs'[f.job].next /\ f.ts \notin fired'[f.job]
    <3>1. f \in queue \cup batch /\ f # e /\ f.job \in Job
      BY <1>0, <2>2, <2>5 DEF OccurrenceInv
    <3>2. ~(f.job = e.job /\ f.ts = e.ts) /\ f.ts \notin fired[f.job]
      BY <2>5, <3>1 DEF OccurrenceInv
    <3>3. QED
      BY <2>1, <2>3, <2>5, <3>1, <3>2
  <2>6. QED
    BY <2>2, <2>4, <2>5 DEF OccurrenceInv
<1>7. ASSUME NEW t \in Time, NEW y \in EventType, Submit(t, y)
      PROVE  OccurrenceInv'
  <2> DEFINE p == [ts |-> t, type |-> y, seq |-> seq, job |-> NoJob]
  <2>1. /\ p.job = NoJob /\ queue' = queue \cup {p} /\ batch' = batch
        /\ jobs' = jobs /\ fired' = fired
    BY <1>7 DEF Submit
  <2> HIDE DEF p
  <2>2. QED
    BY <2>1 DEF OccurrenceInv
<1>8. ASSUME NEW j \in Job, NEW r \in NewJobs, Schedule(j, r)
      PROVE  OccurrenceInv'
  <2>1. /\ \A f \in queue \cup batch : f.job # NoJob => f.job # j /\ f.ts < jobs'[f.job].next
        /\ \A i \in Job : \A t \in fired[i] : t < jobs'[i].next
    BY <1>8, OccurrencesScheduled DEF Schedule
  <2>2. QED
    BY <1>8, <2>1 DEF Schedule, OccurrenceInv
<1>9. ASSUME NEW c \in Calls, Begin(c.start, c.end, c.cap, c.ticks)
      PROVE  OccurrenceInv'
  <2> DEFINE times == Seeds(c.start, c.end)
  <2>0. c.start \in Nat /\ c.end \in Nat
    BY EnvironmentFacts
  <2>1. /\ times \in [Job -> SUBSET Nat] /\ jobs' = SeededJobs(c.start, c.end) /\ fired' = fired
        /\ batch' = batch /\ batch = {} /\ queue' = queue \cup JobEvents(times)
    BY <1>0, <1>9, <2>0, SeedFacts DEF Begin, EngineTypeOK
  <2>2. \A j \in Job : /\ jobs'[j].next >= jobs[j].next
                       /\ \A t \in times[j] : t >= jobs[j].next /\ t < jobs'[j].next
    BY <1>0, <2>0, <2>1, SeedFacts
  <2> HIDE DEF times
  <2>3. QED
    BY <1>0, <2>1, <2>2, OccurrencesPut
<1>10. QED
  BY <1>1, <1>2, <1>3, <1>4, <1>5, <1>6, <1>7, <1>8, <1>9 DEF EngineNext, LoopStep

\* No occurrence of a recurring job is queued or delivered twice, over any number of
\* runs that seed the job again (EventScheduler.seed_until and enqueue_due).
THEOREM OccurrencesAreUnique == EngineSpec => []OccurrenceOnce
<1>1. EngineInit => OccurrenceInv
  BY DEF EngineInit, OccurrenceInv
<1>2. OccurrenceInv => OccurrenceOnce
  BY DEF OccurrenceInv, OccurrenceOnce
<1>3. QED
  BY <1>1, <1>2, EngineTypes, OccurrenceStep, PTL DEF EngineSpec
-----------------------------------------------------------------------------
(* The order of delivery.                                                  *)

\* What may still come in this run after the event delivered last.
MayFollow(f) == Before(last.event, f) \/ (f.ts = last.event.ts /\ f.seq >= last.mark)

\* What is queued for the instant of the batch was put after it was drained, and what is
\* left may follow the last event.
DeliveryInv ==
    /\ loop.mark <= seq
    /\ batch # {} => \A f \in queue : f.ts = clock => f.seq >= loop.mark
    /\ loop.active /\ last # NoEvent =>
          /\ last.mark <= seq /\ last.event.ts <= clock
          /\ \A f \in queue : f.ts = last.event.ts => f.seq >= last.mark
          /\ \A f \in batch : MayFollow(f)

\* After a delivery everything left of the batch and of the queue may follow.
LEMMA DeliveredInv ==
    ASSUME EngineTypeOK, DeliveryInv, NEW e \in batch, NEW puts \in Puts, Delivered(e, puts),
           batch' \subseteq batch \ {e}, loop'.mark = loop.mark
    PROVE  DeliveryInv'
<1>1. /\ seq \in Nat /\ loop.mark \in Nat /\ e \in Event /\ e.ts = clock /\ clock \in Nat
      /\ queue \subseteq Event
      /\ \A f \in batch : f.ts = clock
  BY DEF EngineTypeOK, Loop
<1>2. /\ puts \subseteq Event /\ Cardinality(puts) \in Nat /\ \A p \in puts : p.seq = seq
  BY <1>1, PutFacts
<1>3. /\ queue' = queue \cup puts /\ seq' = seq + Cardinality(puts) /\ clock' = clock
      /\ last'.event = e /\ last'.mark = loop.mark /\ IsFirst(e, batch)
  BY DEF Delivered
<1>4. seq' \in Nat /\ loop.mark <= seq'
  BY <1>1, <1>2, <1>3 DEF DeliveryInv
<1>5. \A f \in queue' : f.ts = clock => f.seq >= loop.mark
  BY <1>1, <1>2, <1>3 DEF DeliveryInv
<1>6. \A f \in batch' : Before(e, f)
  BY <1>3 DEF IsFirst
<1>7. QED
  BY <1>1, <1>3, <1>4, <1>5, <1>6 DEF DeliveryInv, MayFollow, Before

LEMMA DeliveryStep ==
    ASSUME EngineTypeOK, EngineTypeOK', DeliveryInv, [EngineNext]_engineVars
    PROVE  DeliveryInv'
<1>0. /\ clock \in Nat /\ seq \in Nat /\ jobs \in [Job -> ScheduledJob]
      /\ loop.mark \in Nat /\ loop.end \in Nat
      /\ \A f \in queue : f.ts \in Nat /\ f.seq \in Nat
      /\ last # NoEvent => last.event.ts \in Nat /\ last.mark \in Nat
      /\ ~loop.active => batch = {}
  BY DEF EngineTypeOK, Event, Loop
<1>1. CASE Complete
  BY <1>0, <1>1 DEF Complete, AtTurn, DeliveryInv, EngineTypeOK, Loop
<1>2. CASE OutOfOrder \/ DropBatch
  BY <1>0, <1>2 DEF OutOfOrder, DropBatch, AtTurn, DeliveryInv, EngineTypeOK, Loop
<1>3. CASE Tick
  <2>0. clock + 1 \in Nat
    BY <1>0
  <2>1. /\ Dues(clock + 1) \in [Job -> SUBSET Nat] /\ Numbers(Dues(clock + 1)) \in Nat
    BY <1>0, <2>0, DueFacts, EngineAssumption DEF Numbers
  <2>2. /\ queue' = JobEvents(Dues(clock + 1)) /\ seq' = seq + Numbers(Dues(clock + 1))
        /\ clock' = clock + 1 /\ batch' = {} /\ loop' = loop /\ last' = last
    BY <1>3 DEF Tick, AtTurn
  <2>3. \A f \in queue' : f.seq >= seq /\ f.seq \in Nat
    BY <1>0, <2>1, <2>2, JobEventFacts DEF Event
  <2>4. QED
    BY <1>0, <2>1, <2>2, <2>3 DEF DeliveryInv
<1>4. CASE Drain
  <2>1. PICK e \in queue :
           /\ IsFirst(e, queue) /\ clock' = e.ts
           /\ batch' = DrainAt(queue \cup JobEvents(Dues(e.ts)), e.ts)
           /\ queue' = (queue \cup JobEvents(Dues(e.ts))) \ batch'
           /\ seq' = seq + Numbers(Dues(e.ts))
    BY <1>4 DEF Drain
  <2>2. /\ Dues(e.ts) \in [Job -> SUBSET Nat] /\ Numbers(Dues(e.ts)) \in Nat
        /\ e.ts \in Nat /\ e.ts >= clock
    BY <1>0, <1>4, DueFacts, EngineAssumption DEF Numbers, Drain, Overdue
  <2>3. \A f \in JobEvents(Dues(e.ts)) : f.seq >= seq /\ f.seq \in Nat
    BY <1>0, <2>2, JobEventFacts DEF Event
  <2>4. loop'.mark = seq' /\ loop'.active = loop.active /\ last' = last /\ seq' \in Nat /\ seq' >= seq
    BY <1>0, <1>4, <2>1, <2>2 DEF Drain, EngineTypeOK, Loop
  <2>5. batch' # {} => \A f \in queue' : f.ts # clock'
    BY <2>1 DEF DrainAt
  <2>6. \A f \in batch' : f.ts = clock' /\ f \in queue \cup JobEvents(Dues(e.ts))
    BY <2>1 DEF DrainAt
  <2>7. ASSUME loop.active, last # NoEvent
        PROVE  /\ last.mark <= seq' /\ last.event.ts <= clock'
               /\ \A f \in queue' : f.ts = last.event.ts => f.seq >= last.mark
               /\ \A f \in batch' : MayFollow(f)
    <3>1. /\ last.mark <= seq /\ last.event.ts <= clock
          /\ \A f \in queue : f.ts = last.event.ts => f.seq >= last.mark
          /\ last.event.ts \in Nat /\ last.mark \in Nat
      BY <1>0, <2>7 DEF DeliveryInv
    <3>2. last.mark <= seq' /\ last.event.ts <= clock'
      <4>1. seq \in Nat /\ clock \in Nat /\ clock' = e.ts
        BY <1>0, <2>1
      <4>2. last.mark <= seq'
        BY <2>4, <3>1, <4>1
      <4>3. last.event.ts <= clock'
        BY <2>2, <3>1, <4>1
      <4>4. QED
        BY <4>2, <4>3
    <3>3. \A f \in queue \cup JobEvents(Dues(e.ts)) : f.ts = last.event.ts => f.seq >= last.mark
      BY <1>0, <2>3, <3>1
    <3>4. \A f \in batch' : MayFollow(f)
      <4>1. TAKE f \in batch'
      <4>2. f.ts = e.ts /\ e.ts \in Nat /\ last.event.ts <= e.ts /\ last.event.ts \in Nat
        BY <2>1, <2>2, <2>6, <3>1, <3>2
      <4>3. f.ts = last.event.ts => f.seq >= last.mark
        BY <2>6, <3>3
      <4>4. QED
        BY <4>2, <4>3 DEF MayFollow, Before
    <3>5. QED
      BY <2>1, <3>2, <3>3, <3>4
  <2>8. QED
    BY <2>4, <2>5, <2>7 DEF DeliveryInv, MayFollow
<1>5. ASSUME NEW e \in batch, NEW puts \in Puts, NEW state, Deliver(e, puts, state) \/ Raise(e, puts)
      PROVE  DeliveryInv'
  <2>1. Delivered(e, puts) /\ batch' \subseteq batch \ {e} /\ loop'.mark = loop.mark
    BY <1>5 DEF Deliver, Raise, EngineTypeOK, Loop
  <2>2. QED
    BY <2>1, DeliveredInv
<1>6. ASSUME NEW e \in batch, NEW j \in Job, NEW r \in NewJobs, DeliverAndSchedule(e, j, r)
      PROVE  DeliveryInv'
  <2>1. Delivered(e, {}) /\ {} \in Puts /\ batch' \subseteq batch \ {e} /\ loop'.mark = loop.mark
    BY <1>6 DEF DeliverAndSchedule, Puts
  <2>2. QED
    BY <2>1, DeliveredInv
<1>7. ASSUME NEW t \in Time, NEW y \in EventType, Submit(t, y)
      PROVE  DeliveryInv'
  BY <1>0, <1>7 DEF Submit, DeliveryInv
<1>8. ASSUME NEW j \in Job, NEW r \in NewJobs, Schedule(j, r)
      PROVE  DeliveryInv'
  BY <1>8 DEF Schedule, DeliveryInv, MayFollow
<1>9. ASSUME NEW c \in Calls, Begin(c.start, c.end, c.cap, c.ticks)
      PROVE  DeliveryInv'
  <2>0. c.start \in Nat /\ c.end \in Nat
    BY EnvironmentFacts
  <2>1. Numbers(Seeds(c.start, c.end)) \in Nat
    BY EngineAssumption DEF Numbers
  <2>2. loop'.mark = 0 /\ last' = NoEvent /\ batch' = {} /\ seq' \in Nat
    BY <1>0, <1>9, <2>1 DEF Begin, Stopped
  <2>3. QED
    BY <2>2 DEF DeliveryInv
<1>10. ASSUME NEW c \in Calls, BeginInvalidated(c.start)
       PROVE  DeliveryInv'
  BY <1>0, <1>10 DEF BeginInvalidated, DeliveryInv
<1>11. CASE Invalidate
  BY <1>11 DEF Invalidate, DeliveryInv, MayFollow
<1>12. CASE UNCHANGED engineVars
  BY <1>12 DEF engineVars, engine, DeliveryInv, MayFollow
<1>13. QED
  BY <1>1, <1>2, <1>3, <1>4, <1>5, <1>6, <1>7, <1>8, <1>9, <1>10, <1>11, <1>12
     DEF EngineNext, LoopStep

\* Within a run events come in the order of time, priority and insertion, except those
\* put after their instant was drained (EventQueue, drain_at, _dispatch).
THEOREM EventsComeInOrder == EngineSpec => DeliveryOrder
<1> DEFINE InOrder == last' # last /\ last # NoEvent /\ last' # NoEvent =>
                         \/ Before(last.event, last'.event)
                         \/ last'.event.ts = last.event.ts /\ last'.event.seq >= last.mark
<1>1. EngineInit => DeliveryInv
  BY DEF EngineInit, DeliveryInv, Stopped
<1>2. ASSUME EngineTypeOK, DeliveryInv, [EngineNext]_engineVars
      PROVE  [InOrder]_engineVars
  <2>1. SUFFICES ASSUME EngineNext, last' # last, last # NoEvent, last' # NoEvent
                 PROVE  MayFollow(last'.event)
    BY <1>2 DEF MayFollow
  <2>2. ASSUME NEW e \in batch, NEW puts, Delivered(e, puts)
        PROVE  MayFollow(last'.event)
    BY <1>2, <2>1, <2>2 DEF DeliveryInv, Delivered
  <2>3. \E e \in batch : \E puts : Delivered(e, puts)
    <3>1. CASE \E e \in batch : \E puts \in Puts :
                  \/ \E state \in {"RUNNING", "INVALIDATED"} : Deliver(e, puts, state)
                  \/ Raise(e, puts)
      BY <3>1 DEF Deliver, Raise
    <3>2. CASE \E e \in batch : \E j \in Job, r \in NewJobs : DeliverAndSchedule(e, j, r)
      BY <3>2 DEF DeliverAndSchedule
    <3>3. CASE Complete \/ Tick \/ OutOfOrder \/ Drain \/ DropBatch
      BY <2>1, <3>3 DEF Complete, Tick, OutOfOrder, Drain, DropBatch
    <3>4. CASE \/ \E t \in Time, y \in EventType : Submit(t, y)
               \/ \E j \in Job, r \in NewJobs : Schedule(j, r)
               \/ \E c \in Calls : Begin(c.start, c.end, c.cap, c.ticks)
               \/ \E c \in Calls : BeginInvalidated(c.start)
               \/ Invalidate
      BY <2>1, <3>4 DEF Submit, Schedule, Begin, BeginInvalidated, Invalidate
    <3>5. QED
      BY <2>1, <3>1, <3>2, <3>3, <3>4 DEF EngineNext, LoopStep
  <2>4. QED
    BY <2>2, <2>3
<1>3. QED
  BY <1>1, <1>2, EngineTypes, DeliveryStep, PTL DEF EngineSpec, DeliveryOrder

-----------------------------------------------------------------------------
(* Nothing after the end.                                                  *)

\* After an invalidation no event is delivered or counted, not the rest of the batch
\* and not by a later call of run (invalidate, _dispatch, run).
THEOREM InvalidationIsFinal == EngineSpec => NothingAfterInvalidation
<1> DEFINE Quiet == engineState = "INVALIDATED" => UNCHANGED <<last, processed, fired>>
<1>1. ASSUME [EngineNext]_engineVars
      PROVE  [Quiet]_engineVars
  <2>1. SUFFICES ASSUME EngineNext, engineState = "INVALIDATED" PROVE UNCHANGED <<last, processed, fired>>
    BY <1>1
  <2>2. CASE LoopStep
    BY <2>1, <2>2 DEF LoopStep, Complete, Tick, OutOfOrder, Drain, DropBatch, AtTurn, Deliver, Raise,
                      DeliverAndSchedule, Delivered
  <2>3. CASE ~LoopStep
    BY <2>1, <2>3 DEF EngineNext, Submit, Schedule, Begin, BeginInvalidated, Invalidate
  <2>4. QED
    BY <2>2, <2>3
<1>2. QED
  BY <1>1, PTL DEF EngineSpec, NothingAfterInvalidation
-----------------------------------------------------------------------------
(* Completed runs.                                                         *)

\* Whatever the jobs owed when the run began was delivered or is still to come.
OwedInv ==
    loop.active /\ engineState = "RUNNING" =>
        \A j \in Job : \A t \in due[j] :
            /\ t <= loop.end
            /\ t \in fired[j] \/ \E e \in queue \cup batch : e.job = j /\ e.ts = t

\* A delivery moves the occurrence from the batch to what was delivered.
LEMMA OwedDelivered ==
    ASSUME EngineTypeOK, OwedInv, NEW e \in batch, NEW puts, Delivered(e, puts),
           batch' = batch \ {e}, loop' = loop
    PROVE  OwedInv'
<1>1. SUFFICES ASSUME NEW j \in Job, NEW t \in due[j]
               PROVE  /\ t <= loop.end
                      /\ t \in fired'[j] \/ \E f \in queue' \cup batch' : f.job = j /\ f.ts = t
  BY DEF OwedInv, Delivered
<1>2. /\ fired \in [Job -> SUBSET Nat] /\ e.job \in Job \cup {NoJob} /\ j # NoJob
      /\ fired' = IF e.job = NoJob THEN fired ELSE [fired EXCEPT ![e.job] = @ \cup {e.ts}]
      /\ queue \subseteq queue'
  BY DEF EngineTypeOK, Event, Delivered, Job, NoJob
<1>3. t <= loop.end /\ (t \in fired[j] \/ \E f \in queue \cup batch : f.job = j /\ f.ts = t)
  BY DEF OwedInv, Delivered
<1>4. fired[j] \subseteq fired'[j] /\ (e.job = j => e.ts \in fired'[j])
  BY <1>2
<1>5. QED
  BY <1>2, <1>3, <1>4

LEMMA OwedStep ==
    ASSUME EngineTypeOK, OwedInv, [EngineNext]_engineVars
    PROVE  OwedInv'
<1>0. /\ clock \in Nat /\ seq \in Nat /\ jobs \in [Job -> ScheduledJob]
      /\ loop \in Loop /\ batch \subseteq Event /\ queue \subseteq Event
      /\ \A e \in queue : e.ts \in Nat
      /\ ~loop.active => batch = {}
  BY DEF EngineTypeOK, Event
<1>1. CASE Complete \/ OutOfOrder \/ DropBatch \/ Invalidate
  BY <1>1 DEF Complete, OutOfOrder, DropBatch, Invalidate, OwedInv
<1>2. CASE Tick
  <2>1. queue = {} /\ batch = {} /\ UNCHANGED <<batch, engineState, loop, due, fired>>
    BY <1>2 DEF Tick, AtTurn
  <2>2. QED
    BY <2>1 DEF OwedInv
<1>3. CASE Drain
  <2>1. PICK e \in queue :
           /\ batch' = DrainAt(queue \cup JobEvents(Dues(e.ts)), e.ts)
           /\ queue' = (queue \cup JobEvents(Dues(e.ts))) \ batch'
    BY <1>3 DEF Drain
  <2>2. queue \cup batch \subseteq queue' \cup batch'
    BY <1>3, <2>1 DEF Drain, AtTurn
  <2>3. /\ loop'.active = loop.active /\ loop'.end = loop.end
        /\ UNCHANGED <<engineState, due, fired>>
    BY <1>0, <1>3 DEF Drain, Loop
  <2>4. QED
    BY <2>2, <2>3 DEF OwedInv
<1>4. ASSUME NEW e \in batch, NEW puts \in Puts, NEW state, Deliver(e, puts, state)
      PROVE  OwedInv'
  <2>1. Delivered(e, puts) /\ batch' = batch \ {e} /\ loop' = loop
    BY <1>4 DEF Deliver
  <2>2. QED
    BY <2>1, OwedDelivered
<1>5. ASSUME NEW e \in batch, NEW puts \in Puts, Raise(e, puts)
      PROVE  OwedInv'
  BY <1>5 DEF Raise, OwedInv
<1>6. ASSUME NEW e \in batch, NEW j \in Job, NEW r \in NewJobs, DeliverAndSchedule(e, j, r)
      PROVE  OwedInv'
  <2>1. Delivered(e, {}) /\ batch' = batch \ {e} /\ loop' = loop
    BY <1>6 DEF DeliverAndSchedule
  <2>2. QED
    BY <2>1, OwedDelivered
<1>7. CASE \/ \E t \in Time, y \in EventType : Submit(t, y)
           \/ \E j \in Job, r \in NewJobs : Schedule(j, r)
           \/ \E c \in Calls : BeginInvalidated(c.start)
  BY <1>7 DEF Submit, Schedule, BeginInvalidated, OwedInv
<1>8. ASSUME NEW c \in Calls, Begin(c.start, c.end, c.cap, c.ticks)
      PROVE  OwedInv'
  <2>0. c.start \in Nat /\ c.end \in Nat
    BY EnvironmentFacts
  <2>1. loop'.end = c.end /\ queue' = queue \cup JobEvents(Seeds(c.start, c.end))
    BY <1>8 DEF Begin, Stopped
  <2>2. ASSUME NEW j \in Job, NEW t \in due'[j]
        PROVE  t <= c.end /\ \E e \in queue' : e.job = j /\ e.ts = t
    <3>1. t \in Owed(jobs[j], c.start, c.end) /\ jobs[j] \in ScheduledJob
      BY <1>0, <1>8, <2>2 DEF Begin
    <3>2. t \in Seeds(c.start, c.end)[j]
      BY <2>0, <3>1, OwedIsSeeded DEF Seeds
    <3>3. t <= c.end
      BY <2>0, <3>1 DEF Owed
    <3>4. QED
      BY <2>1, <3>2, <3>3, JobEventExists
  <2>3. QED
    BY <2>1, <2>2 DEF OwedInv
<1>9. CASE UNCHANGED engineVars
  BY <1>9 DEF engineVars, engine, OwedInv
<1>10. QED
  BY <1>1, <1>2, <1>3, <1>4, <1>5, <1>6, <1>7, <1>8, <1>9 DEF EngineNext, LoopStep

\* A run that completes without its cap has delivered every event up to its end, and
\* every occurrence its jobs owed when it began (run, seed_until).
THEOREM CompletedRunsDelivered == EngineSpec => CompletedIsDrained
<1> DEFINE Drained == engineState = "RUNNING" /\ engineState' = "COMPLETED" /\ ~loop'.capped =>
                         /\ \A e \in queue' : e.ts > loop.end
                         /\ \A j \in Job : due[j] \subseteq fired[j]
<1>1. EngineInit => OwedInv
  BY DEF EngineInit, OwedInv, Stopped
<1>2. ASSUME EngineTypeOK, OwedInv, [EngineNext]_engineVars
      PROVE  [Drained]_engineVars
  <2>1. SUFFICES ASSUME EngineNext, engineState = "RUNNING", engineState' = "COMPLETED", ~loop'.capped
                 PROVE  /\ \A e \in queue' : e.ts > loop.end
                        /\ \A j \in Job : due[j] \subseteq fired[j]
    BY <1>2
  <2>2. Complete
    <3>1. CASE LoopStep
      BY <2>1, <3>1 DEF LoopStep, Tick, OutOfOrder, Drain, DropBatch, Deliver, Raise, DeliverAndSchedule
    <3>2. CASE ~LoopStep
      BY <2>1, <3>2 DEF EngineNext, Submit, Schedule, Begin, BeginInvalidated, Invalidate
    <3>3. QED
      BY <3>1, <3>2
  <2>3. /\ loop \in Loop /\ loop.end \in Nat /\ \A e \in queue : e.ts \in Nat
        /\ fired \in [Job -> SUBSET Nat] /\ due \in [Job -> SUBSET Nat]
    BY <1>2 DEF EngineTypeOK, Loop, Event
  <2>4. ~Capped
    <3> DEFINE c == Capped
    <3>1. loop' = [loop EXCEPT !.active = FALSE, !.capped = c]
      BY <2>2 DEF Complete
    <3> HIDE DEF c
    <3>2. loop'.capped = c
      BY <2>3, <3>1 DEF Loop
    <3>3. QED
      BY <2>1, <3>2 DEF c
  <2>5. /\ loop.active /\ batch = {} /\ queue' = queue
        /\ \A e \in queue : ~(e.ts <= loop.end)
    BY <2>2, <2>4 DEF Complete, AtTurn, Ready
  <2>6. \A e \in queue : e.ts > loop.end
    BY <2>3, <2>5
  <2>7. \A j \in Job : \A t \in due[j] : t \in fired[j]
    BY <1>2, <2>1, <2>5 DEF OwedInv
  <2>8. QED
    BY <2>5, <2>6, <2>7
<1>3. QED
  BY <1>1, <1>2, EngineTypes, OwedStep, PTL DEF EngineSpec, CompletedIsDrained

\* As long as nobody raises, puts into the past or schedules in the middle of a run,
\* nothing queued is overdue and no job has an occurrence left before the end.
CleanInv ==
    /\ engineState = "FAILED" => ~clean
    /\ loop.active /\ clean =>
          /\ \A e \in queue : e.ts >= clock
          /\ \A j \in Job : jobs[j].enabled => jobs[j].next > loop.end

\* Nothing becomes due in a clean run: its jobs were seeded up to the end.
LEMMA NothingDue ==
    ASSUME EngineTypeOK, CleanInv, loop.active, clean, NEW asof \in Nat, asof <= loop.end
    PROVE  /\ JobEvents(Dues(asof)) = {}
           /\ \A j \in Job : DueJobs(asof)[j].enabled => DueJobs(asof)[j].next > loop.end
<1>1. jobs \in [Job -> ScheduledJob] /\ loop.end \in Nat /\ seq \in Nat
  BY DEF EngineTypeOK, Loop
<1>2. \A j \in Job : jobs[j].next \in Nat /\ (jobs[j].enabled => jobs[j].next > loop.end)
  BY <1>1 DEF ScheduledJob, CleanInv
<1>3. /\ Dues(asof) \in [Job -> SUBSET Nat]
      /\ DueJobs(asof) \in [Job -> ScheduledJob]
      /\ \A j \in Job : DueJobs(asof)[j].next >= jobs[j].next
      /\ \A j \in Job : DueJobs(asof)[j].enabled => jobs[j].enabled
      /\ \A j \in Job : \A t \in Dues(asof)[j] : t >= jobs[j].next /\ t <= asof /\ jobs[j].enabled
  BY <1>1, DueFacts
<1>4. \A j \in Job : Dues(asof)[j] = {}
  BY <1>1, <1>2, <1>3
<1>5. JobEvents(Dues(asof)) = {}
  BY <1>4 DEF JobEvents
<1>6. \A j \in Job : DueJobs(asof)[j].next \in Nat
  BY <1>3 DEF ScheduledJob
<1>7. QED
  BY <1>1, <1>2, <1>3, <1>5, <1>6

LEMMA CleanStep ==
    ASSUME EngineTypeOK, CleanInv, [EngineNext]_engineVars
    PROVE  CleanInv'
<1>0. /\ clock \in Nat /\ seq \in Nat /\ jobs \in [Job -> ScheduledJob] /\ loop \in Loop
      /\ loop.end \in Nat /\ \A e \in queue : e.ts \in Nat
  BY DEF EngineTypeOK, Event, Loop
<1>1. CASE Complete \/ DropBatch \/ Invalidate
  BY <1>0, <1>1 DEF Complete, DropBatch, Invalidate, AtTurn, CleanInv, Loop
<1>2. CASE Tick
  <2>1. /\ loop.active /\ engineState' = "RUNNING" /\ clean' = clean /\ loop' = loop
        /\ clock + 1 <= loop.end /\ clock + 1 \in Nat /\ clock' = clock + 1
        /\ queue' = JobEvents(Dues(clock + 1)) /\ jobs' = DueJobs(clock + 1)
    BY <1>0, <1>2 DEF Tick, AtTurn
  <2>2. CASE clean
    BY <2>1, <2>2, NothingDue DEF CleanInv
  <2>3. CASE ~clean
    BY <2>1, <2>3 DEF CleanInv
  <2>4. QED
    BY <2>2, <2>3
<1>3. CASE OutOfOrder
  <2>1. ~clean
    BY <1>0, <1>3 DEF OutOfOrder, AtTurn, Overdue, CleanInv
  <2>2. ~clean'
    BY <1>3, <2>1 DEF OutOfOrder
  <2>3. QED
    BY <2>2 DEF CleanInv
<1>4. CASE Drain
  <2>1. PICK e \in queue :
           /\ IsFirst(e, queue) /\ clock' = e.ts
           /\ batch' = DrainAt(queue \cup JobEvents(Dues(e.ts)), e.ts)
           /\ queue' = (queue \cup JobEvents(Dues(e.ts))) \ batch'
           /\ jobs' = DueJobs(e.ts)
    BY <1>4 DEF Drain
  <2>2. /\ loop.active /\ engineState' = "RUNNING" /\ clean' = clean
        /\ loop'.end = loop.end /\ loop'.active = loop.active
    BY <1>0, <1>4 DEF Drain, AtTurn, Loop
  <2>3. \A f \in queue : f.ts >= e.ts
    BY <1>0, <2>1 DEF IsFirst, Before
  <2>4. e.ts <= loop.end /\ e.ts \in Nat
    BY <1>0, <1>4, <2>3 DEF Drain, Ready
  <2>5. CASE clean
    <3>1. /\ JobEvents(Dues(e.ts)) = {}
          /\ \A j \in Job : DueJobs(e.ts)[j].enabled => DueJobs(e.ts)[j].next > loop.end
      BY <2>2, <2>4, <2>5, NothingDue
    <3>2. \A f \in queue' : f.ts >= clock'
      BY <2>1, <2>3, <3>1
    <3>3. QED
      BY <2>1, <2>2, <3>1, <3>2 DEF CleanInv
  <2>6. CASE ~clean
    BY <2>2, <2>6 DEF CleanInv
  <2>7. QED
    BY <2>5, <2>6
<1>5. ASSUME NEW e \in batch, NEW puts \in Puts, NEW state \in {"RUNNING", "INVALIDATED"},
             Deliver(e, puts, state)
      PROVE  CleanInv'
  <2>1. /\ loop' = loop /\ jobs' = jobs /\ clock' = clock /\ engineState' # "FAILED"
        /\ queue' = queue \cup puts /\ loop.active
    BY <1>5 DEF Deliver, Delivered
  <2>2. clean' => clean /\ \A p \in puts : p.ts >= clock
    BY <1>5 DEF Deliver
  <2>3. QED
    BY <2>1, <2>2 DEF CleanInv
<1>6. ASSUME NEW e \in batch, NEW puts \in Puts, Raise(e, puts)
      PROVE  CleanInv'
  BY <1>6 DEF Raise, CleanInv
<1>7. ASSUME NEW e \in batch, NEW j \in Job, NEW r \in NewJobs, DeliverAndSchedule(e, j, r)
      PROVE  CleanInv'
  BY <1>7 DEF DeliverAndSchedule, CleanInv
<1>8. CASE \/ \E t \in Time, y \in EventType : Submit(t, y)
           \/ \E j \in Job, r \in NewJobs : Schedule(j, r)
           \/ \E c \in Calls : BeginInvalidated(c.start)
  BY <1>8 DEF Submit, Schedule, BeginInvalidated, CleanInv
<1>9. ASSUME NEW c \in Calls, Begin(c.start, c.end, c.cap, c.ticks)
      PROVE  CleanInv'
  <2> DEFINE times == Seeds(c.start, c.end)
  <2>0. c.start \in Nat /\ c.end \in Nat
    BY EnvironmentFacts
  <2>1. /\ engineState' = "RUNNING" /\ clock' = c.start /\ loop'.end = c.end
        /\ queue' = queue \cup JobEvents(times) /\ jobs' = SeededJobs(c.start, c.end)
        /\ clean' => \A e \in queue : e.ts >= c.start
    BY <1>9 DEF Begin, Stopped
  <2>2. /\ times \in [Job -> SUBSET Nat]
        /\ \A j \in Job : SeededJobs(c.start, c.end)[j].enabled => SeededJobs(c.start, c.end)[j].next > c.end
        /\ \A j \in Job : \A t \in times[j] : t >= c.start
    BY <1>0, <2>0, SeedFacts
  <2> HIDE DEF times
  <2>3. \A e \in JobEvents(times) : e.ts >= c.start
    BY <1>0, <2>2, JobEventFacts
  <2>4. QED
    BY <2>1, <2>2, <2>3 DEF CleanInv
<1>10. CASE UNCHANGED engineVars
  BY <1>10 DEF engineVars, engine, CleanInv
<1>11. QED
  BY <1>1, <1>2, <1>3, <1>4, <1>5, <1>6, <1>7, <1>8, <1>9, <1>10 DEF EngineNext, LoopStep

\* A run fails only by what handlers and callers did: raise, put an event into the
\* past, or schedule a job in the middle of it (run, LookaheadError).
THEOREM FailuresHaveCauses == EngineSpec => []CleanRunsComplete
<1>1. EngineInit => CleanInv
  BY DEF EngineInit, CleanInv, Stopped
<1>2. CleanInv => CleanRunsComplete
  BY DEF CleanInv, CleanRunsComplete
<1>3. QED
  BY <1>1, <1>2, EngineTypes, CleanStep, PTL DEF EngineSpec
=============================================================================

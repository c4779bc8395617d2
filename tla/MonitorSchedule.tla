-------------------------- MODULE MonitorSchedule --------------------------
(***************************************************************************)
(* When a target is observed: the cron slots of level2_monitor.yml, the    *)
(* planner (registry.py, plan_registry), the wait in the target's          *)
(* concurrency group, the recheck after it (recheck_due), and the stale    *)
(* gap that withholds the observation (stale.py, operations.py) until a    *)
(* Human's gap acknowledgement.                                            *)
(*                                                                         *)
(* Time is the cron slot number: slot s starts 1 + 4s hours and 17 minutes *)
(* after midnight, Japan time, of a Monday.  A slot may be dropped, may    *)
(* start so late that it plans beside a later one, and its job may wait    *)
(* for other jobs past later slots.  Of the checkpoint only last_success_at*)
(* and the stopped state matter here; MonitorRuntime has the rest.         *)
(***************************************************************************)
EXTENDS Integers, Sequences, FiniteSets, FiniteSetsExt

CONSTANTS
  RegistryDate,   \* event_date column of the registry row, as a day number
  AnnouncedDates, \* dates the calendar source may publish; day 0 is a Monday
  FirstSlot,      \* slot of the initialization, after the close of a business day
  LastSlot,       \* bound: the clock
  MaxFires,       \* bound: planner runs that start within one slot
  MaxWait,        \* bound: slots a job waits for the runner or its concurrency group
  MaxDispatches,  \* bound: Human dispatches
  MaxAcks         \* bound: gap acknowledgement rows

ASSUME CalendarAssumption ==
  FirstSlot \in Nat /\ LastSlot \in Nat /\ RegistryDate \in Int /\ AnnouncedDates \subseteq Int

VARIABLES
  slot,            \* the clock
  fires,           \* planner runs started within this slot
  announced,       \* date the calendar source publishes
  queue,           \* jobs of the concurrency group: the running one, a pending one
  last_success_at, \* slot of the last success in the committed checkpoint
  stop_threshold,  \* threshold the stale stop names in error_detail; 0: not stopped
  acks,            \* monitor_gap_acknowledgement rows
  dispatches,      \* Human dispatches so far
  day              \* observer: what happened on this Japan date and since the last success

vars == <<slot, fires, announced, queue, last_success_at, stop_threshold, acks,
          dispatches, day>>

-----------------------------------------------------------------------------
(***************************************************************************)
(* Clock arithmetic.  Minutes count from a Monday midnight UTC.            *)
(***************************************************************************)
NORMAL_DAY_HOUR == 17

JstHour(s) == 1 + 4 * (s % 6)
JstDate(s) == s \div 6
UtcMinute(s) == 7 * 1440 + 60 * (1 + 4 * s) + 17 - 9 * 60
UtcDate(s) == UtcMinute(s) \div 1440 - 7
IsBusinessDay(date) == date % 7 < 5

BusinessDaysUntil(start, end) ==
  Cardinality({date \in start + 1 .. end : IsBusinessDay(date)})

\* Minutes of business days among the first m: 7,200 of each week's 10,080,
\* the first ones.
BusinessMinutes(m) == 7200 * (m \div 10080) + Min({m % 10080, 7200})

\* Wall time between two slots in minutes, without UTC Saturdays and Sundays.
BusinessElapsed(from, to) == BusinessMinutes(UtcMinute(to)) - BusinessMinutes(UtcMinute(from))

-----------------------------------------------------------------------------
(***************************************************************************)
(* Dueness: the planner's rule and the recheck's.                          *)
(***************************************************************************)
EventWindowOpen(event_date, s) ==
  \/ JstDate(s) = event_date
  \/ JstDate(s) < event_date /\ BusinessDaysUntil(JstDate(s), event_date) <= 5

\* Fault: a success before the close counts for the day.
ObservedThatDay(success, s) == JstDate(success) = JstDate(s)

ObservedAfterTheClose(success, s) ==
  JstDate(success) = JstDate(s) /\ JstHour(success) >= NORMAL_DAY_HOUR

\* known: the planner could read the committed checkpoint.
IsDue(event_date, s, known, success) ==
  /\ IsBusinessDay(JstDate(s))
  /\ \/ EventWindowOpen(event_date, s)
     \/ ~known /\ JstHour(s) \in NORMAL_DAY_HOUR .. 20
     \/ known /\ ~ObservedAfterTheClose(success, s) /\ JstHour(s) >= NORMAL_DAY_HOUR

\* Fault: no recheck after the wait in the concurrency group.
NoRecheck(event_date, s, success) == TRUE

\* Only evidence of an observation after the close cancels a planned job.
RecheckDue(event_date, s, success) ==
  EventWindowOpen(event_date, s) \/ ~ObservedAfterTheClose(success, s)

\* The calendar's next date, the registry column when none is known.
PlannedEventDate(s, known) ==
  IF known /\ announced >= JstDate(s) THEN announced ELSE RegistryDate

-----------------------------------------------------------------------------
(***************************************************************************)
(* The stale gap.                                                          *)
(***************************************************************************)
\* Fault: a normal day's threshold shorter than two business days.
SHORT_THRESHOLD == 36 * 60

NORMAL_THRESHOLD == 60 * 60
EVENT_WINDOW_THRESHOLD == 24 * 60
EVENT_DAY_THRESHOLD == 12 * 60

\* The runner's clock is UTC, so the event day here is a UTC date.
Threshold(event_date, s) ==
  IF UtcDate(s) = event_date THEN EVENT_DAY_THRESHOLD
  ELSE IF UtcDate(s) < event_date /\ BusinessDaysUntil(UtcDate(s), event_date) <= 5
    THEN EVENT_WINDOW_THRESHOLD
  ELSE NORMAL_THRESHOLD

AckTails(rows) ==
  {k \in DOMAIN rows : \A j \in DOMAIN rows : rows[j].supersedes # k}

EligibleGapEnds(rows, s) ==
  {rows[k].gap_end : k \in {i \in AckTails(rows) :
     /\ rows[i].gap_end <= rows[i].acknowledged_at
     /\ rows[i].acknowledged_at <= s
     /\ rows[i].gap_end >= last_success_at}}

StaleReference(rows, s) == Max({last_success_at} \cup EligibleGapEnds(rows, s))

IsStale(rows, event_date, s) ==
  BusinessElapsed(StaleReference(rows, s), s) > Threshold(event_date, s)

\* A new row applies to a stale stop only, once per gap, and to the gap after
\* the last success.
NewAckOk(row) ==
  /\ stop_threshold # 0
  /\ row.gap_end >= row.gap_start
  /\ row.gap_end <= row.acknowledged_at
  /\ row.acknowledged_at <= slot
  /\ row.gap_end >= last_success_at
  /\ row.supersedes \in 0 .. Len(acks)
  /\ row.supersedes # 0 => row.supersedes \in AckTails(acks)
  /\ row.supersedes = 0 =>
       \A k \in DOMAIN acks :
         <<acks[k].gap_start, acks[k].gap_end>> # <<row.gap_start, row.gap_end>>

-----------------------------------------------------------------------------
(***************************************************************************)
(* Planner runs, dispatches and jobs.                                      *)
(***************************************************************************)
\* A job is [since, event_date, forced, ack]: the slot it was planned in, the date
\* its threshold uses, whether a Human dispatched it, and the acknowledgement row
\* it brings, if any.

\* A concurrency group keeps one running and one pending job: a newer job
\* cancels the pending one.
Enqueue(job) == IF Len(queue) < 2 THEN Append(queue, job) ELSE <<queue[1], job>>

\* A scheduled planner run.  Its state download may have failed.
Fire(known) ==
  /\ fires < MaxFires
  /\ fires' = fires + 1
  /\ LET event_date == PlannedEventDate(slot, known)
         due        == IsDue(event_date, slot, known, last_success_at)
     IN  /\ queue' = IF due
                       THEN Enqueue([since |-> slot, event_date |-> event_date,
                                     forced |-> FALSE, ack |-> <<>>])
                       ELSE queue
         /\ day' = [day EXCEPT
              !.planned = @ \/ (known /\ JstHour(slot) >= NORMAL_DAY_HOUR)]
  /\ UNCHANGED <<slot, announced, last_success_at, stop_threshold, acks, dispatches>>

\* A Human dispatches a live run, with or without an acknowledgement.  The
\* planner then reads no committed state: the registry column stands.
Dispatch(ack) ==
  /\ dispatches < MaxDispatches
  /\ dispatches' = dispatches + 1
  /\ queue' = Enqueue([since |-> slot, event_date |-> RegistryDate,
                         forced |-> TRUE, ack |-> ack])
  /\ UNCHANGED <<slot, fires, announced, last_success_at, stop_threshold, acks, day>>

JobEnds ==
  /\ queue' = Tail(queue)
  /\ UNCHANGED <<slot, fires, announced, dispatches>>

Troubled == day' = [day EXCEPT !.troubled = TRUE]

\* The runner is lost, or the state download or any step before the commit fails.
JobDies ==
  /\ queue # <<>>
  /\ JobEnds
  /\ Troubled
  /\ UNCHANGED <<last_success_at, stop_threshold, acks>>

\* The recheck found the day already observed.
JobSkips ==
  /\ queue # <<>>
  /\ ~Head(queue).forced
  /\ ~RecheckDue(Head(queue).event_date, slot, last_success_at)
  /\ JobEnds
  /\ UNCHANGED <<last_success_at, stop_threshold, acks, day>>

Admitted ==
  /\ queue # <<>>
  /\ Head(queue).forced \/ RecheckDue(Head(queue).event_date, slot, last_success_at)
  /\ \A k \in DOMAIN Head(queue).ack : NewAckOk(Head(queue).ack[k])

\* An acknowledgement the committed state does not admit fails the job.
JobRefusesAck ==
  /\ queue # <<>>
  /\ \E k \in DOMAIN Head(queue).ack : ~NewAckOk(Head(queue).ack[k])
  /\ JobEnds
  /\ Troubled
  /\ UNCHANGED <<last_success_at, stop_threshold, acks>>

\* Fault: the stop itself is recorded as the last success.
JobStopsAndRestartsTheGap ==
  /\ Admitted
  /\ IsStale(acks \o Head(queue).ack, Head(queue).event_date, slot)
  /\ stop_threshold' = Threshold(Head(queue).event_date, slot)
  /\ acks' = acks \o Head(queue).ack
  /\ last_success_at' = slot
  /\ JobEnds
  /\ Troubled

\* The stale gap withholds the observation: no source access.
JobStops ==
  /\ Admitted
  /\ IsStale(acks \o Head(queue).ack, Head(queue).event_date, slot)
  /\ stop_threshold' = Threshold(Head(queue).event_date, slot)
  /\ acks' = acks \o Head(queue).ack
  /\ JobEnds
  /\ Troubled
  /\ UNCHANGED last_success_at

\* The source is observed; success or a source error is committed.
JobObserves(succeeds) ==
  /\ Admitted
  /\ ~IsStale(acks \o Head(queue).ack, Head(queue).event_date, slot)
  /\ stop_threshold' = 0
  /\ acks' = acks \o Head(queue).ack
  /\ last_success_at' = IF succeeds THEN slot ELSE last_success_at
  /\ JobEnds
  /\ day' = [day EXCEPT
       !.troubled = @ \/ ~succeeds,
       !.requests = @ + IF /\ ~Head(queue).forced
                           /\ JstHour(slot) >= NORMAL_DAY_HOUR
                           /\ ~EventWindowOpen(Head(queue).event_date, slot)
                           /\ succeeds
                          THEN 1 ELSE 0,
       !.missed = IF succeeds THEN 0 ELSE @,
       !.moved  = @ /\ ~succeeds]

\* An opportunity this slot leaves behind: a window slot without a success, a
\* normal business day that ends without a success after the close.
MissedHere ==
  /\ IsBusinessDay(JstDate(slot))
  /\ IF EventWindowOpen(PlannedEventDate(slot, TRUE), slot)
       THEN last_success_at # slot
       ELSE slot % 6 = 5 /\ last_success_at < slot - 1

\* Jobs in the queue end before they have waited longer than MaxWait.
Tick ==
  /\ slot < LastSlot
  /\ \A k \in DOMAIN queue : queue[k].since + MaxWait > slot
  /\ slot' = slot + 1
  /\ fires' = 0
  /\ day' = [planned  |-> IF slot % 6 = 5 THEN FALSE ELSE day.planned,
             troubled |-> IF slot % 6 = 5 THEN FALSE ELSE day.troubled,
             requests |-> IF slot % 6 = 5 THEN 0 ELSE day.requests,
             missed   |-> Min({2, day.missed + IF MissedHere THEN 1 ELSE 0}),
             moved    |-> day.moved]
  /\ UNCHANGED <<announced, queue, last_success_at, stop_threshold, acks, dispatches>>

\* The company publishes or moves the date.
Announce ==
  /\ announced' \in AnnouncedDates \ {announced}
  /\ day' = [day EXCEPT !.moved = TRUE]
  /\ UNCHANGED <<slot, fires, queue, last_success_at, stop_threshold, acks, dispatches>>

-----------------------------------------------------------------------------
\* The target was just initialized.
Init ==
  /\ slot = FirstSlot
  /\ fires = 0
  /\ announced \in AnnouncedDates
  /\ queue = <<>>
  /\ last_success_at = FirstSlot
  /\ stop_threshold = 0
  /\ acks = <<>>
  /\ dispatches = 0
  /\ day = [planned |-> FALSE, troubled |-> FALSE, requests |-> 0, missed |-> 0,
             moved |-> FALSE]

\* The acknowledgements a Human writes: the whole gap, or its beginning.
HumanAcks ==
  IF stop_threshold = 0 \/ Len(acks) >= MaxAcks THEN {}
  ELSE [gap_start : {last_success_at}, gap_end : {last_success_at, slot},
        acknowledged_at : {slot}, supersedes : 0 .. Len(acks)]

Finished == slot = LastSlot /\ queue = <<>> /\ UNCHANGED vars

Next ==
  \/ \E known \in BOOLEAN : Fire(known)
  \/ Dispatch(<<>>)
  \/ \E row \in HumanAcks : Dispatch(<<row>>)
  \/ JobDies
  \/ JobSkips
  \/ JobRefusesAck
  \/ JobStops
  \/ \E succeeds \in BOOLEAN : JobObserves(succeeds)
  \/ Tick
  \/ Announce
  \/ Finished

Spec == Init /\ [][Next]_vars

-----------------------------------------------------------------------------
(***************************************************************************)
(* Properties.                                                             *)
(***************************************************************************)

\* However late slots plan and however jobs wait, a business day on which a
\* planner read the committed state after the close is observed after the
\* close once its jobs are done, unless one of them failed: neither a dropped
\* 17:17 slot, nor a success earlier that day, nor a newer job that cancels the
\* waiting one costs the day.
NoLostDay ==
  (/\ IsBusinessDay(JstDate(slot))
   /\ day.planned /\ ~day.troubled
   /\ queue = <<>>) => last_success_at >= 6 * JstDate(slot) + 4

\* On a normal day the schedule succeeds after the close at most once, even
\* when two planner runs both found the day unobserved.
OncePerNormalDay == day.requests <= 1

\* A stop needs two missed opportunities since the last success: one skipped
\* normal day, weekends not counted, or one skipped slot of the event window is
\* absorbed.  The exception is a date that was published or moved meanwhile.
StopNeedsTwoMisses ==
  [][stop_threshold = 0 /\ stop_threshold' # 0 => day.missed >= 2 \/ day.moved]_vars

\* One missed opportunity is always absorbed.
OneMissAbsorbed ==
  [][stop_threshold = 0 /\ stop_threshold' # 0 => day.missed >= 2]_vars

\* A stopped target is observed again only by an acknowledgement that reaches
\* beyond its last success and has not been superseded, or under a wider threshold
\* than the one it stopped under (the announcement has passed, or its date could
\* not be read).
StopHolds ==
  [][(/\ stop_threshold # 0 /\ stop_threshold' = 0
      /\ Threshold(Head(queue).event_date, slot) <= stop_threshold)
     => \E k \in AckTails(acks') : acks'[k].gap_end > last_success_at]_vars
=============================================================================

----------------------- MODULE MonitorScheduleProofs -----------------------
(***************************************************************************)
(* What the schedule promises for any calendar, any number of planner runs *)
(* and any waits: a normal day is observed at most once, a planned day is  *)
(* not lost, and a stale stop is left only through an acknowledgement or a *)
(* wider threshold.                                                        *)
(***************************************************************************)
EXTENDS MonitorSchedule, NaturalsInduction, WellFoundedInduction, TLAPS

-----------------------------------------------------------------------------
(***************************************************************************)
(* The inductive invariant.                                                *)
(***************************************************************************)
AckRow == [gap_start : Nat, gap_end : Nat, acknowledged_at : Nat, supersedes : Nat]

Job == [since : Nat, event_date : Int, forced : BOOLEAN, ack : Seq(AckRow)]

TypeInv ==
  /\ slot \in Nat
  /\ fires \in Nat
  /\ announced \in AnnouncedDates
  /\ queue \in Seq(Job) /\ Len(queue) <= 2
  /\ last_success_at \in Nat
  /\ stop_threshold \in Nat
  /\ acks \in Seq(AckRow)
  /\ dispatches \in Nat
  /\ day \in [planned : BOOLEAN, troubled : BOOLEAN, requests : Nat, missed : 0 .. 2,
              moved : BOOLEAN]

\* Nothing is planned or observed in the future.
ClockInv ==
  /\ last_success_at <= slot
  /\ \A k \in DOMAIN queue : queue[k].since <= slot

\* First slot of the Japan date that starts after the close.
CloseSlot(s) == 6 * JstDate(s) + 4

\* A request counted on this date was made after the close, and the checkpoint
\* still says so.
RequestInv ==
  /\ day.requests <= 1
  /\ day.requests = 1 => last_success_at >= CloseSlot(slot)

\* On a planned business day without trouble the observation after the close is
\* there, or a job planned after the close still waits to make it.
PlanInv ==
  (IsBusinessDay(JstDate(slot)) /\ day.planned /\ ~day.troubled) =>
    \/ last_success_at >= CloseSlot(slot)
    \/ \E k \in DOMAIN queue : queue[k].since >= CloseSlot(slot)

\* As long as a target is stopped, the gap since its last success is longer than
\* the threshold it stopped under.
StopInv ==
  stop_threshold # 0 => BusinessElapsed(last_success_at, slot) > stop_threshold

ScheduleInv == TypeInv /\ ClockInv /\ RequestInv /\ PlanInv /\ StopInv

-----------------------------------------------------------------------------
(***************************************************************************)
(* Clock arithmetic.                                                       *)
(***************************************************************************)
\* A Japan date has six slots, and those after the close are its last two.
LEMMA SlotsOfADay ==
  ASSUME NEW s \in Nat
  PROVE  /\ JstDate(s) \in Nat /\ CloseSlot(s) \in Nat
         /\ JstHour(s) >= NORMAL_DAY_HOUR <=> s >= CloseSlot(s)
         /\ s < CloseSlot(s) + 2
         /\ s % 6 # 5 => JstDate(s + 1) = JstDate(s)
BY DEF JstDate, JstHour, CloseSlot, NORMAL_DAY_HOUR

\* Among the successes of the past, those after today's close are the later ones.
LEMMA ObservedIsLater ==
  ASSUME NEW x \in Nat, NEW s \in Nat, x <= s
  PROVE  ObservedAfterTheClose(x, s) <=> x >= CloseSlot(s)
BY DEF ObservedAfterTheClose, JstDate, JstHour, CloseSlot, NORMAL_DAY_HOUR

\* The smaller of two numbers.
LEMMA MinOfTwo ==
  ASSUME NEW a \in Int, NEW b \in Int
  PROVE  (a <= b => Min({a, b}) = a) /\ (b <= a => Min({a, b}) = b)
BY DEF Min

\* Weeks and the minutes into them: a later moment has no fewer business minutes.
LEMMA WeeksGrow ==
  ASSUME NEW q \in Nat, NEW r \in Nat, NEW p \in Nat, NEW s \in Nat,
         NEW u \in Nat, NEW v \in Nat, r < 10080, s < 10080,
         10080 * q + r <= 10080 * p + s,
         u <= 7200, u <= r, v = s \/ v = 7200
  PROVE  7200 * q + u <= 7200 * p + v
<1>1. q <= p
  OBVIOUS
<1>2. CASE q = p
  BY <1>2
<1>3. CASE q < p
  BY <1>3
<1> QED
  BY <1>1, <1>2, <1>3

\* Business minutes only grow.
LEMMA MinutesGrow ==
  ASSUME NEW m \in Nat, NEW n \in Nat, m <= n
  PROVE  /\ BusinessMinutes(m) \in Int /\ BusinessMinutes(n) \in Int
         /\ BusinessMinutes(m) <= BusinessMinutes(n)
<1> DEFINE week(i)   == i \div 10080
           within(i) == i % 10080
           full(i)   == Min({within(i), 7200})
<1>1. \A i \in Nat : /\ week(i) \in Nat /\ within(i) \in Nat /\ within(i) < 10080
                     /\ i = 10080 * week(i) + within(i)
  OBVIOUS
<1>2. \A i \in Nat : BusinessMinutes(i) = 7200 * week(i) + full(i)
  BY DEF BusinessMinutes
<1>3. \A i \in Nat : /\ within(i) <= 7200 => full(i) = within(i)
                     /\ 7200 <= within(i) => full(i) = 7200
  <2> HIDE DEF week, within
  <2>1. TAKE i \in Nat
  <2>2. within(i) \in Int /\ 7200 \in Int
    BY <1>1
  <2>3. /\ within(i) <= 7200 => Min({within(i), 7200}) = within(i)
        /\ 7200 <= within(i) => Min({within(i), 7200}) = 7200
    BY <2>2, MinOfTwo
  <2> QED
    BY <2>3
<1> HIDE DEF week, within, full
<1>4. /\ week(m) \in Nat /\ within(m) \in Nat /\ within(m) < 10080
      /\ week(n) \in Nat /\ within(n) \in Nat /\ within(n) < 10080
      /\ 10080 * week(m) + within(m) <= 10080 * week(n) + within(n)
  BY <1>1
<1>5. /\ full(m) \in Nat /\ full(m) <= 7200 /\ full(m) <= within(m)
      /\ full(n) \in Nat /\ (full(n) = within(n) \/ full(n) = 7200)
  BY <1>3, <1>4
<1>6. 7200 * week(m) + full(m) <= 7200 * week(n) + full(n)
  BY <1>4, <1>5, WeeksGrow
<1> QED
  BY <1>2, <1>4, <1>5, <1>6

\* A gap is longer the earlier it starts and the later it ends.
LEMMA ElapsedGrows ==
  ASSUME NEW x \in Nat, NEW y \in Nat, NEW s \in Nat, NEW t \in Nat, x <= y, s <= t
  PROVE  /\ BusinessElapsed(x, s) \in Int /\ BusinessElapsed(y, s) \in Int
         /\ BusinessElapsed(x, t) \in Int
         /\ BusinessElapsed(y, s) <= BusinessElapsed(x, t)
<1>1. \A i \in Nat : UtcMinute(i) \in Nat
  BY DEF UtcMinute
<1>2. UtcMinute(x) <= UtcMinute(y) /\ UtcMinute(s) <= UtcMinute(t)
  BY DEF UtcMinute
<1>3. QED
  BY <1>1, <1>2, MinutesGrow DEF BusinessElapsed

\* Every bounded set of numbers with a member has a largest one.
LEMMA LargestExists ==
  ASSUME NEW S \in SUBSET Nat, NEW e \in S, NEW b \in Nat, \A x \in S : x <= b
  PROVE  Max(S) \in S /\ \A x \in S : x <= Max(S)
<1> DEFINE T == {i \in Nat : \A x \in S : x <= i}
<1>1. IsWellFoundedOn(OpToRel(<, Nat), Nat)
  BY NatLessThanWellFounded
<1>2. T \subseteq Nat /\ b \in T
  OBVIOUS
<1>3. PICK m \in T : \A y \in T : ~(<<y, m>> \in OpToRel(<, Nat))
  BY <1>1, <1>2, WFMin, Zenon
<1>4. m \in Nat /\ \A x \in S : x <= m
  OBVIOUS
<1>5. ASSUME m \notin S PROVE FALSE
  <2>1. \A x \in S : x \in Nat /\ x < m
    BY <1>4, <1>5
  <2>2. m - 1 \in T
    BY <1>4, <2>1
  <2>3. <<m - 1, m>> \in OpToRel(<, Nat)
    BY <1>4, <2>2 DEF OpToRel
  <2> QED
    BY <1>3, <2>2, <2>3
<1>6. m \in S /\ \A x \in S : m >= x
  BY <1>4, <1>5
<1>7. Max(S) \in S /\ \A x \in S : Max(S) >= x
  BY <1>6 DEF Max
<1> QED
  BY <1>4, <1>7

\* A gap is never measured from before the last success, and from exactly there
\* unless an acknowledgement reaches beyond it.
LEMMA ReferenceIsLater ==
  ASSUME TypeInv, NEW rows \in Seq(AckRow), NEW s \in Nat, last_success_at <= s
  PROVE  /\ StaleReference(rows, s) \in Nat
         /\ last_success_at <= StaleReference(rows, s)
         /\ (\A k \in AckTails(rows) : rows[k].gap_end <= last_success_at) =>
              StaleReference(rows, s) = last_success_at
<1> DEFINE S == {last_success_at} \cup EligibleGapEnds(rows, s)
<1>1. \A k \in DOMAIN rows : rows[k].gap_end \in Nat /\ rows[k].acknowledged_at \in Nat
  <2>1. \A k \in DOMAIN rows : rows[k] \in AckRow
    OBVIOUS
  <2> QED
    BY <2>1 DEF AckRow
<1>2. \A e \in EligibleGapEnds(rows, s) :
        \E k \in AckTails(rows) : /\ e = rows[k].gap_end
                                  /\ e \in Nat /\ e <= s /\ e >= last_success_at
  BY <1>1 DEF EligibleGapEnds, AckTails, TypeInv
<1>3. S \in SUBSET Nat /\ last_success_at \in S /\ \A x \in S : x <= s
  BY <1>2 DEF TypeInv
<1>4. Max(S) \in S /\ \A x \in S : x <= Max(S)
  BY <1>3, LargestExists
<1>5. StaleReference(rows, s) = Max(S)
  BY DEF StaleReference
<1>6. ASSUME \A k \in AckTails(rows) : rows[k].gap_end <= last_success_at
      PROVE  Max(S) = last_success_at
  <2>1. \A e \in EligibleGapEnds(rows, s) : e = last_success_at
    BY <1>2, <1>6 DEF TypeInv
  <2> QED
    BY <1>4, <2>1
<1> QED
  BY <1>3, <1>4, <1>5, <1>6 DEF TypeInv

\* The three thresholds are positive.
LEMMA ThresholdType ==
  ASSUME NEW d, NEW s
  PROVE  Threshold(d, s) \in Nat /\ Threshold(d, s) # 0
BY DEF Threshold, EVENT_DAY_THRESHOLD, EVENT_WINDOW_THRESHOLD, NORMAL_THRESHOLD

-----------------------------------------------------------------------------
(***************************************************************************)
(* The queue of a concurrency group.                                       *)
(***************************************************************************)
\* A planned job is in the queue, and the others in it were there before.
LEMMA EnqueueKeeps ==
  ASSUME NEW job \in Job, queue \in Seq(Job), Len(queue) <= 2
  PROVE  /\ Enqueue(job) \in Seq(Job) /\ Len(Enqueue(job)) <= 2
         /\ \E k \in DOMAIN Enqueue(job) : Enqueue(job)[k] = job
         /\ \A k \in DOMAIN Enqueue(job) :
              Enqueue(job)[k] = job \/ \E j \in DOMAIN queue : Enqueue(job)[k] = queue[j]
<1>1. CASE Len(queue) < 2
  <2>1. Enqueue(job) = Append(queue, job)
    BY <1>1 DEF Enqueue
  <2>2. Len(queue) + 1 \in DOMAIN Append(queue, job)
    OBVIOUS
  <2> QED
    BY <1>1, <2>1, <2>2
<1>2. CASE Len(queue) = 2
  <2>1. Enqueue(job) = <<queue[1], job>> /\ queue[1] \in Job
    BY <1>2 DEF Enqueue
  <2> QED
    BY <1>2, <2>1
<1>3. Len(queue) \in Nat
  OBVIOUS
<1> QED
  BY <1>1, <1>2, <1>3

\* A job that ends leaves the others.
LEMMA TailKeeps ==
  ASSUME queue \in Seq(Job), Len(queue) <= 2, queue # <<>>
  PROVE  /\ Tail(queue) \in Seq(Job) /\ Len(Tail(queue)) <= 2
         /\ Head(queue) \in Job /\ Head(queue) = queue[1] /\ 1 \in DOMAIN queue
         /\ \A k \in DOMAIN Tail(queue) :
              k + 1 \in DOMAIN queue /\ Tail(queue)[k] = queue[k + 1]
         /\ \A k \in DOMAIN queue :
              k = 1 \/ (k - 1 \in DOMAIN Tail(queue) /\ Tail(queue)[k - 1] = queue[k])
OBVIOUS
-----------------------------------------------------------------------------
(***************************************************************************)
(* The invariant is inductive.                                             *)
(***************************************************************************)
\* A target starts initialized in this slot, with no jobs.
LEMMA ScheduleInit == Init => ScheduleInv
<1> SUFFICES ASSUME Init PROVE ScheduleInv
  OBVIOUS
<1>1. TypeInv
  BY CalendarAssumption DEF Init, TypeInv
<1>2. ClockInv
  BY CalendarAssumption DEF Init, ClockInv
<1>3. RequestInv /\ PlanInv /\ StopInv
  BY DEF Init, RequestInv, PlanInv, StopInv
<1> QED
  BY <1>1, <1>2, <1>3 DEF ScheduleInv

\* The date a planner run uses is a day number.
LEMMA PlannedDateType ==
  ASSUME TypeInv, NEW s, NEW known
  PROVE  PlannedEventDate(s, known) \in Int
BY CalendarAssumption DEF TypeInv, PlannedEventDate

\* A queue with a new job in it, seen from the invariant: a job that is cancelled
\* for it was planned no later, so that the new one makes its observation too.
LEMMA NewJob ==
  ASSUME ScheduleInv, NEW job \in Job, job.since = slot
  PROVE  /\ Enqueue(job) \in Seq(Job) /\ Len(Enqueue(job)) <= 2
         /\ \A k \in DOMAIN Enqueue(job) : Enqueue(job)[k].since <= slot
         /\ (\E k \in DOMAIN queue : queue[k].since >= CloseSlot(slot)) =>
              \E k \in DOMAIN Enqueue(job) : Enqueue(job)[k].since >= CloseSlot(slot)
         /\ slot >= CloseSlot(slot) =>
              \E k \in DOMAIN Enqueue(job) : Enqueue(job)[k].since >= CloseSlot(slot)
<1>1. queue \in Seq(Job) /\ Len(queue) <= 2
  BY DEF ScheduleInv, TypeInv
<1>2. slot \in Nat /\ \A k \in DOMAIN queue : queue[k].since <= slot
  BY DEF ScheduleInv, TypeInv, ClockInv
<1> DEFINE q == Enqueue(job)
<1>3. /\ q \in Seq(Job) /\ Len(q) <= 2
      /\ \E k \in DOMAIN q : q[k] = job
      /\ \A k \in DOMAIN q : q[k] = job \/ \E j \in DOMAIN queue : q[k] = queue[j]
  BY <1>1, EnqueueKeeps
<1> HIDE DEF q
<1>4. \A k \in DOMAIN q : q[k].since <= slot
  BY <1>2, <1>3
<1>5. (\E k \in DOMAIN queue : queue[k].since >= CloseSlot(slot)) => slot >= CloseSlot(slot)
  <2>1. CloseSlot(slot) \in Nat
    BY <1>2, SlotsOfADay
  <2>2. \A k \in DOMAIN queue : queue[k] \in Job
    BY <1>1
  <2>3. \A k \in DOMAIN queue : queue[k].since \in Nat
    BY <2>2 DEF Job
  <2> QED
    BY <1>2, <2>1, <2>3
<1>6. slot >= CloseSlot(slot) => \E k \in DOMAIN q : q[k].since >= CloseSlot(slot)
  BY <1>3
<1> QED
  BY <1>3, <1>4, <1>5, <1>6 DEF q

\* A planner run keeps the invariant.
LEMMA FireKeeps ==
  ASSUME ScheduleInv, NEW known \in BOOLEAN, Fire(known)
  PROVE  ScheduleInv'
<1> DEFINE date == PlannedEventDate(slot, known)
           due  == IsDue(date, slot, known, last_success_at)
           job  == [since |-> slot, event_date |-> date, forced |-> FALSE, ack |-> <<>>]
<1>1. /\ slot \in Nat /\ last_success_at \in Nat /\ last_success_at <= slot
      /\ queue \in Seq(Job) /\ Len(queue) <= 2
      /\ day \in [planned : BOOLEAN, troubled : BOOLEAN, requests : Nat, missed : 0 .. 2,
                  moved : BOOLEAN]
  BY DEF ScheduleInv, TypeInv, ClockInv
<1>2. job \in Job /\ job.since = slot
  BY <1>1, PlannedDateType DEF Job, ScheduleInv
<1>3. /\ queue' = IF due THEN Enqueue(job) ELSE queue
      /\ day' = [day EXCEPT !.planned = @ \/ (known /\ JstHour(slot) >= NORMAL_DAY_HOUR)]
      /\ UNCHANGED <<slot, announced, last_success_at, stop_threshold, acks, dispatches>>
  BY DEF Fire
<1> HIDE DEF job, due
<1>4. TypeInv'
  <2>1. queue' \in Seq(Job) /\ Len(queue') <= 2
    BY <1>1, <1>2, <1>3, NewJob
  <2>2. day' \in [planned : BOOLEAN, troubled : BOOLEAN, requests : Nat, missed : 0 .. 2,
                  moved : BOOLEAN]
    BY <1>1, <1>3
  <2>3. fires' \in Nat
    BY DEF Fire, ScheduleInv, TypeInv
  <2> QED
    BY <1>3, <2>1, <2>2, <2>3 DEF ScheduleInv, TypeInv
<1>5. ClockInv'
  BY <1>1, <1>2, <1>3, NewJob DEF ScheduleInv, ClockInv
<1>6. RequestInv'
  <2>1. day'.requests = day.requests
    BY <1>1, <1>3
  <2> QED
    BY <1>3, <2>1 DEF ScheduleInv, RequestInv, CloseSlot
<1>7. PlanInv'
  <2> SUFFICES ASSUME IsBusinessDay(JstDate(slot)), day'.planned, ~day'.troubled,
                      last_success_at < CloseSlot(slot)
               PROVE  \E k \in DOMAIN queue' : queue'[k].since >= CloseSlot(slot)
    BY <1>1, <1>3, SlotsOfADay DEF PlanInv, CloseSlot
  <2>1. ~day.troubled
    BY <1>1, <1>3
  <2>2. CASE day.planned
    <3>1. \E k \in DOMAIN queue : queue[k].since >= CloseSlot(slot)
      BY <1>1, <2>1, <2>2, SlotsOfADay DEF ScheduleInv, PlanInv
    <3> QED
      BY <1>2, <1>3, <2>1, <3>1, NewJob
  <2>3. CASE ~day.planned
    <3>1. known /\ JstHour(slot) >= NORMAL_DAY_HOUR
      BY <1>1, <1>3, <2>3
    <3>2. ~ObservedAfterTheClose(last_success_at, slot)
      BY <1>1, ObservedIsLater, SlotsOfADay
    <3>3. due
      BY <3>1, <3>2 DEF due, IsDue
    <3>4. slot >= CloseSlot(slot)
      BY <1>1, <3>1, SlotsOfADay
    <3> QED
      BY <1>2, <1>3, <3>3, <3>4, NewJob
  <2> QED
    BY <2>2, <2>3
<1>8. StopInv'
  BY <1>3 DEF ScheduleInv, StopInv
<1> QED
  BY <1>4, <1>5, <1>6, <1>7, <1>8 DEF ScheduleInv

\* A Human's dispatch keeps the invariant.
LEMMA DispatchKeeps ==
  ASSUME ScheduleInv, NEW ack \in Seq(AckRow), Dispatch(ack)
  PROVE  ScheduleInv'
<1> DEFINE job == [since |-> slot, event_date |-> RegistryDate, forced |-> TRUE, ack |-> ack]
<1>1. /\ slot \in Nat /\ last_success_at \in Nat /\ last_success_at <= slot
      /\ queue \in Seq(Job) /\ Len(queue) <= 2
      /\ day \in [planned : BOOLEAN, troubled : BOOLEAN, requests : Nat, missed : 0 .. 2,
                  moved : BOOLEAN]
  BY DEF ScheduleInv, TypeInv, ClockInv
<1>2. job \in Job /\ job.since = slot
  BY <1>1, CalendarAssumption DEF Job
<1>3. /\ queue' = Enqueue(job)
      /\ UNCHANGED <<slot, fires, announced, last_success_at, stop_threshold, acks, day>>
  BY DEF Dispatch
<1> HIDE DEF job
<1>4. TypeInv'
  <2>1. queue' \in Seq(Job) /\ Len(queue') <= 2
    BY <1>2, <1>3, NewJob
  <2>2. dispatches' \in Nat
    BY DEF Dispatch, ScheduleInv, TypeInv
  <2> QED
    BY <1>3, <2>1, <2>2 DEF ScheduleInv, TypeInv
<1>5. ClockInv'
  BY <1>1, <1>2, <1>3, NewJob DEF ScheduleInv, ClockInv
<1>6. RequestInv'
  BY <1>3 DEF ScheduleInv, RequestInv, CloseSlot
<1>7. PlanInv'
  <2> SUFFICES ASSUME IsBusinessDay(JstDate(slot)), day.planned, ~day.troubled,
                      ~(last_success_at >= CloseSlot(slot))
               PROVE  \E k \in DOMAIN queue' : queue'[k].since >= CloseSlot(slot)
    BY <1>3 DEF PlanInv, CloseSlot
  <2>1. \E k \in DOMAIN queue : queue[k].since >= CloseSlot(slot)
    BY DEF ScheduleInv, PlanInv
  <2> QED
    BY <1>2, <1>3, <2>1, NewJob
<1>8. StopInv'
  BY <1>3 DEF ScheduleInv, StopInv
<1> QED
  BY <1>4, <1>5, <1>6, <1>7, <1>8 DEF ScheduleInv

\* What the end of any job does to the queue.
LEMMA JobEndsKeeps ==
  ASSUME ScheduleInv, queue # <<>>, JobEnds
  PROVE  /\ queue' \in Seq(Job) /\ Len(queue') <= 2
         /\ \A k \in DOMAIN queue' : queue'[k].since <= slot
         /\ Head(queue) \in Job /\ Head(queue).since <= slot
         /\ (/\ IsBusinessDay(JstDate(slot)) /\ day.planned /\ ~day.troubled
             /\ last_success_at < CloseSlot(slot)) =>
               \/ Head(queue).since >= CloseSlot(slot)
               \/ \E k \in DOMAIN queue' : queue'[k].since >= CloseSlot(slot)
         /\ UNCHANGED <<slot, fires, announced, dispatches>>
<1>1. queue \in Seq(Job) /\ Len(queue) <= 2
  BY DEF ScheduleInv, TypeInv
<1>2. slot \in Nat /\ last_success_at \in Nat /\ CloseSlot(slot) \in Nat
      /\ \A k \in DOMAIN queue : queue[k].since <= slot
  BY SlotsOfADay DEF ScheduleInv, TypeInv, ClockInv
<1>3. queue' = Tail(queue) /\ UNCHANGED <<slot, fires, announced, dispatches>>
  BY DEF JobEnds
<1>4. /\ queue' \in Seq(Job) /\ Len(queue') <= 2
      /\ Head(queue) \in Job /\ Head(queue) = queue[1] /\ 1 \in DOMAIN queue
      /\ \A k \in DOMAIN queue' : k + 1 \in DOMAIN queue /\ queue'[k] = queue[k + 1]
      /\ \A k \in DOMAIN queue :
           k = 1 \/ (k - 1 \in DOMAIN queue' /\ queue'[k - 1] = queue[k])
  BY <1>1, <1>3, TailKeeps
<1>5. ASSUME IsBusinessDay(JstDate(slot)), day.planned, ~day.troubled,
             last_success_at < CloseSlot(slot)
      PROVE  \/ Head(queue).since >= CloseSlot(slot)
             \/ \E k \in DOMAIN queue' : queue'[k].since >= CloseSlot(slot)
  <2>1. PICK k \in DOMAIN queue : queue[k].since >= CloseSlot(slot)
    BY <1>2, <1>5 DEF ScheduleInv, PlanInv
  <2> QED
    BY <1>4, <2>1
<1> QED
  BY <1>2, <1>3, <1>4, <1>5

\* A job that ends in trouble keeps the invariant, as long as a stop it records
\* is one the gap is longer than.
LEMMA TroubleKeeps ==
  ASSUME ScheduleInv, queue # <<>>, JobEnds, Troubled, UNCHANGED last_success_at,
         acks' \in Seq(AckRow), stop_threshold' \in Nat, StopInv'
  PROVE  ScheduleInv'
<1>1. /\ queue' \in Seq(Job) /\ Len(queue') <= 2
      /\ \A k \in DOMAIN queue' : queue'[k].since <= slot
      /\ UNCHANGED <<slot, fires, announced, dispatches>>
  BY JobEndsKeeps
<1>2. /\ day' \in [planned : BOOLEAN, troubled : BOOLEAN, requests : Nat, missed : 0 .. 2,
                   moved : BOOLEAN]
      /\ day'.troubled /\ day'.requests = day.requests
  BY DEF Troubled, ScheduleInv, TypeInv
<1>3. TypeInv'
  BY <1>1, <1>2 DEF ScheduleInv, TypeInv
<1>4. ClockInv' /\ RequestInv' /\ PlanInv'
  BY <1>1, <1>2 DEF ScheduleInv, ClockInv, RequestInv, PlanInv, CloseSlot
<1> QED
  BY <1>3, <1>4 DEF ScheduleInv

\* A job that dies, or refuses its acknowledgement.
LEMMA DeathKeeps ==
  ASSUME ScheduleInv, JobDies \/ JobRefusesAck
  PROVE  ScheduleInv'
<1>1. /\ queue # <<>> /\ JobEnds /\ Troubled
      /\ UNCHANGED <<last_success_at, stop_threshold, acks>>
  BY DEF JobDies, JobRefusesAck
<1>2. StopInv' /\ acks' \in Seq(AckRow) /\ stop_threshold' \in Nat
  BY <1>1 DEF JobEnds, ScheduleInv, StopInv, TypeInv
<1> QED
  BY <1>1, <1>2, TroubleKeeps

\* A job the recheck cancels leaves the observation that made it needless.
LEMMA SkipKeeps ==
  ASSUME ScheduleInv, JobSkips
  PROVE  ScheduleInv'
<1>1. /\ queue # <<>> /\ JobEnds
      /\ UNCHANGED <<last_success_at, stop_threshold, acks, day>>
      /\ ObservedAfterTheClose(last_success_at, slot)
  BY DEF JobSkips, RecheckDue
<1>2. /\ queue' \in Seq(Job) /\ Len(queue') <= 2
      /\ \A k \in DOMAIN queue' : queue'[k].since <= slot
      /\ UNCHANGED <<slot, fires, announced, dispatches>>
  BY <1>1, JobEndsKeeps
<1>3. last_success_at >= CloseSlot(slot)
  BY <1>1, ObservedIsLater DEF ScheduleInv, TypeInv, ClockInv
<1>4. TypeInv' /\ ClockInv'
  BY <1>1, <1>2 DEF ScheduleInv, TypeInv, ClockInv
<1>5. RequestInv' /\ PlanInv' /\ StopInv'
  BY <1>1, <1>2, <1>3 DEF ScheduleInv, RequestInv, PlanInv, StopInv, CloseSlot
<1> QED
  BY <1>4, <1>5 DEF ScheduleInv

\* The rows a job has once its acknowledgement is admitted.
LEMMA AdmittedRows ==
  ASSUME ScheduleInv, Admitted
  PROVE  queue # <<>> /\ acks \o Head(queue).ack \in Seq(AckRow)
<1>1. queue # <<>> /\ queue \in Seq(Job) /\ Len(queue) <= 2 /\ acks \in Seq(AckRow)
  BY DEF ScheduleInv, TypeInv, Admitted
<1>2. Head(queue) \in Job
  BY <1>1, TailKeeps
<1>3. Head(queue).ack \in Seq(AckRow)
  BY <1>2 DEF Job
<1> QED
  BY <1>1, <1>3

\* A stop is recorded while the gap since the last success exceeds the threshold
\* it names: measured from an acknowledgement, the gap is only shorter.
LEMMA StopKeeps ==
  ASSUME ScheduleInv, JobStops
  PROVE  ScheduleInv'
<1> DEFINE rows == acks \o Head(queue).ack
           date == Head(queue).event_date
<1>1. /\ queue # <<>> /\ JobEnds /\ Troubled /\ UNCHANGED last_success_at
      /\ rows \in Seq(AckRow) /\ acks' = rows
      /\ stop_threshold' = Threshold(date, slot)
      /\ BusinessElapsed(StaleReference(rows, slot), slot) > Threshold(date, slot)
  BY AdmittedRows DEF JobStops, IsStale
<1> HIDE DEF rows, date
<1>2. /\ TypeInv /\ slot \in Nat /\ last_success_at \in Nat /\ last_success_at <= slot
      /\ slot <= slot
  BY DEF ScheduleInv, TypeInv, ClockInv
<1>3. StaleReference(rows, slot) \in Nat /\ last_success_at <= StaleReference(rows, slot)
  BY <1>1, <1>2, ReferenceIsLater
<1>4. /\ BusinessElapsed(last_success_at, slot) \in Int
      /\ BusinessElapsed(StaleReference(rows, slot), slot) \in Int
      /\ BusinessElapsed(StaleReference(rows, slot), slot)
           <= BusinessElapsed(last_success_at, slot)
  BY <1>2, <1>3, ElapsedGrows
<1>5. stop_threshold' \in Nat
  BY <1>1, ThresholdType
<1>6. BusinessElapsed(last_success_at, slot) > stop_threshold'
  BY <1>1, <1>4, <1>5
<1>7. slot' = slot
  BY <1>1 DEF JobEnds
<1>8. StopInv'
  BY <1>1, <1>6, <1>7 DEF StopInv
<1> QED
  BY <1>1, <1>5, <1>8, TroubleKeeps

\* An observation keeps the invariant: the second one after the close of a
\* normal day finds the first in the checkpoint it rechecks.
LEMMA ObserveKeeps ==
  ASSUME ScheduleInv, NEW succeeds \in BOOLEAN, JobObserves(succeeds)
  PROVE  ScheduleInv'
<1> DEFINE counted == /\ ~Head(queue).forced
                      /\ JstHour(slot) >= NORMAL_DAY_HOUR
                      /\ ~EventWindowOpen(Head(queue).event_date, slot)
                      /\ succeeds
<1>1. /\ slot \in Nat /\ last_success_at \in Nat /\ last_success_at <= slot
      /\ CloseSlot(slot) \in Nat
      /\ day \in [planned : BOOLEAN, troubled : BOOLEAN, requests : Nat, missed : 0 .. 2,
                  moved : BOOLEAN]
  BY SlotsOfADay DEF ScheduleInv, TypeInv, ClockInv
<1>2. /\ Admitted /\ JobEnds /\ stop_threshold' = 0
      /\ acks' = acks \o Head(queue).ack
      /\ last_success_at' = IF succeeds THEN slot ELSE last_success_at
      /\ day' = [day EXCEPT !.troubled = @ \/ ~succeeds,
                            !.requests = @ + IF counted THEN 1 ELSE 0,
                            !.missed = IF succeeds THEN 0 ELSE @,
                            !.moved  = @ /\ ~succeeds]
  BY DEF JobObserves
<1>3. queue # <<>> /\ acks' \in Seq(AckRow)
  BY <1>2, AdmittedRows
<1>4. /\ queue' \in Seq(Job) /\ Len(queue') <= 2
      /\ \A k \in DOMAIN queue' : queue'[k].since <= slot
      /\ Head(queue) \in Job /\ Head(queue).since <= slot
      /\ UNCHANGED <<slot, fires, announced, dispatches>>
  BY <1>2, <1>3, JobEndsKeeps
<1>5. /\ day'.troubled = (day.troubled \/ ~succeeds) /\ day'.planned = day.planned
      /\ day'.requests = day.requests + (IF counted THEN 1 ELSE 0)
      /\ day' \in [planned : BOOLEAN, troubled : BOOLEAN, requests : Nat, missed : 0 .. 2,
                   moved : BOOLEAN]
  <2> DEFINE added   == IF counted THEN 1 ELSE 0
             trouble == day.troubled \/ ~succeeds
             missed  == IF succeeds THEN 0 ELSE day.missed
             moved   == day.moved /\ ~succeeds
  <2>1. day.requests + added \in Nat /\ missed \in 0 .. 2
    BY <1>1
  <2>2. trouble \in BOOLEAN /\ moved \in BOOLEAN
    OBVIOUS
  <2>3. day' = [day EXCEPT !.troubled = trouble, !.requests = day.requests + added,
                           !.missed = missed, !.moved = moved]
    BY <1>2
  <2> HIDE DEF added, trouble, missed, moved
  <2>4. /\ day'.troubled = trouble /\ day'.planned = day.planned
        /\ day'.requests = day.requests + added
        /\ day' \in [planned : BOOLEAN, troubled : BOOLEAN, requests : Nat, missed : 0 .. 2,
                     moved : BOOLEAN]
    BY <1>1, <2>1, <2>2, <2>3
  <2> QED
    BY <2>4 DEF added, trouble
<1>6. /\ last_success_at' \in Nat /\ last_success_at' <= slot
      /\ last_success_at' >= last_success_at
      /\ succeeds => last_success_at' = slot
      /\ ~succeeds => last_success_at' = last_success_at
  BY <1>1, <1>2
<1>7. TypeInv'
  BY <1>2, <1>3, <1>4, <1>5, <1>6 DEF ScheduleInv, TypeInv
<1>8. ClockInv'
  BY <1>4, <1>6 DEF ClockInv
<1>9. RequestInv'
  <2>1. CASE counted
    <3>1. ~ObservedAfterTheClose(last_success_at, slot)
      BY <1>2, <2>1 DEF Admitted, RecheckDue
    <3>2. ~(last_success_at >= CloseSlot(slot))
      BY <1>1, <3>1, ObservedIsLater
    <3>3. day.requests \in Nat /\ day.requests <= 1 /\ day.requests # 1
      BY <1>1, <3>2 DEF ScheduleInv, RequestInv
    <3>4. day'.requests = 1
      BY <1>5, <2>1, <3>3
    <3>5. slot >= CloseSlot(slot)
      BY <1>1, <2>1, SlotsOfADay
    <3> QED
      BY <1>4, <1>6, <2>1, <3>4, <3>5 DEF RequestInv, CloseSlot
  <2>2. CASE ~counted
    <3>1. day'.requests = day.requests
      BY <1>1, <1>5, <2>2
    <3>2. day'.requests = 1 => last_success_at' >= CloseSlot(slot)
      BY <1>1, <1>6, <3>1 DEF ScheduleInv, RequestInv
    <3> QED
      BY <1>4, <3>1, <3>2 DEF ScheduleInv, RequestInv, CloseSlot
  <2> QED
    BY <2>1, <2>2
<1>10. PlanInv'
  <2> SUFFICES ASSUME IsBusinessDay(JstDate(slot)), day.planned, ~day.troubled, succeeds,
                      slot < CloseSlot(slot)
               PROVE  \E k \in DOMAIN queue' : queue'[k].since >= CloseSlot(slot)
    BY <1>1, <1>4, <1>5, <1>6 DEF PlanInv, CloseSlot
  <2>1. ~(Head(queue).since >= CloseSlot(slot)) /\ last_success_at < CloseSlot(slot)
    BY <1>1, <1>4 DEF Job
  <2> QED
    BY <1>2, <1>3, <2>1, JobEndsKeeps
<1>11. StopInv'
  BY <1>2 DEF StopInv
<1> QED
  BY <1>7, <1>8, <1>9, <1>10, <1>11 DEF ScheduleInv

\* The clock keeps the invariant: a new date starts with nothing requested and
\* nothing planned, and a gap that was too long only grows.
LEMMA TickKeeps ==
  ASSUME ScheduleInv, Tick
  PROVE  ScheduleInv'
<1> DEFINE last == slot % 6 = 5
<1>1. /\ slot \in Nat /\ last_success_at \in Nat /\ last_success_at <= slot
      /\ day \in [planned : BOOLEAN, troubled : BOOLEAN, requests : Nat, missed : 0 .. 2,
                  moved : BOOLEAN]
  BY DEF ScheduleInv, TypeInv, ClockInv
<1>2. /\ slot' = slot + 1 /\ fires' = 0
      /\ UNCHANGED <<announced, queue, last_success_at, stop_threshold, acks, dispatches>>
      /\ day'.planned = IF last THEN FALSE ELSE day.planned
      /\ day'.troubled = IF last THEN FALSE ELSE day.troubled
      /\ day'.requests = IF last THEN 0 ELSE day.requests
  BY DEF Tick
<1>3. ~last => JstDate(slot') = JstDate(slot)
  BY <1>1, <1>2, SlotsOfADay
<1>4. TypeInv'
  <2> DEFINE missed == day.missed + IF MissedHere THEN 1 ELSE 0
  <2>1. missed \in Nat
    BY <1>1
  <2>2. Min({2, missed}) \in 0 .. 2
    <3> HIDE DEF missed
    <3>1. (2 <= missed => Min({2, missed}) = 2) /\ (missed <= 2 => Min({2, missed}) = missed)
      BY <2>1, MinOfTwo
    <3> QED
      BY <2>1, <3>1
  <2>3. day' \in [planned : BOOLEAN, troubled : BOOLEAN, requests : Nat, missed : 0 .. 2,
                  moved : BOOLEAN]
    <3> HIDE DEF missed
    <3>1. day' = [planned  |-> IF last THEN FALSE ELSE day.planned,
                  troubled |-> IF last THEN FALSE ELSE day.troubled,
                  requests |-> IF last THEN 0 ELSE day.requests,
                  missed   |-> Min({2, missed}),
                  moved    |-> day.moved]
      BY DEF Tick, missed
    <3> QED
      BY <1>1, <2>2, <3>1
  <2> QED
    BY <1>1, <1>2, <2>3 DEF ScheduleInv, TypeInv
<1>5. ClockInv'
  <2>1. \A k \in DOMAIN queue : queue[k].since \in Nat /\ queue[k].since <= slot
    <3>1. \A k \in DOMAIN queue : queue[k] \in Job
      BY DEF ScheduleInv, TypeInv
    <3> QED
      BY <3>1 DEF Job, ScheduleInv, ClockInv
  <2> QED
    BY <1>1, <1>2, <2>1 DEF ClockInv
<1>6. RequestInv' /\ PlanInv'
  BY <1>2, <1>3 DEF ScheduleInv, RequestInv, PlanInv, CloseSlot
<1>7. StopInv'
  <2>1. /\ BusinessElapsed(last_success_at, slot) \in Int
        /\ BusinessElapsed(last_success_at, slot + 1) \in Int
        /\ BusinessElapsed(last_success_at, slot)
             <= BusinessElapsed(last_success_at, slot + 1)
    BY <1>1, ElapsedGrows
  <2> QED
    BY <1>2, <2>1 DEF ScheduleInv, StopInv, TypeInv
<1> QED
  BY <1>4, <1>5, <1>6, <1>7 DEF ScheduleInv

\* A new date in the calendar changes no past observation.
LEMMA AnnounceKeeps ==
  ASSUME ScheduleInv, Announce
  PROVE  ScheduleInv'
<1>1. /\ day \in [planned : BOOLEAN, troubled : BOOLEAN, requests : Nat, missed : 0 .. 2,
                  moved : BOOLEAN]
      /\ day' = [day EXCEPT !.moved = TRUE] /\ announced' \in AnnouncedDates
      /\ UNCHANGED <<slot, fires, queue, last_success_at, stop_threshold, acks, dispatches>>
  BY DEF Announce, ScheduleInv, TypeInv
<1>2. /\ day' \in [planned : BOOLEAN, troubled : BOOLEAN, requests : Nat, missed : 0 .. 2,
                   moved : BOOLEAN]
      /\ day'.planned = day.planned /\ day'.troubled = day.troubled
      /\ day'.requests = day.requests
  BY <1>1
<1> QED
  BY <1>1, <1>2 DEF ScheduleInv, TypeInv, ClockInv, RequestInv, PlanInv, StopInv, CloseSlot

\* Every step keeps the invariant.
LEMMA ScheduleStep == ScheduleInv /\ [Next]_vars => ScheduleInv'
<1> SUFFICES ASSUME ScheduleInv, [Next]_vars PROVE ScheduleInv'
  OBVIOUS
<1>1. ASSUME NEW known \in BOOLEAN, Fire(known) PROVE ScheduleInv'
  BY <1>1, FireKeeps
<1>2. CASE Dispatch(<<>>)
  <2>1. <<>> \in Seq(AckRow)
    OBVIOUS
  <2> QED
    BY <1>2, <2>1, DispatchKeeps
<1>3. ASSUME NEW row \in HumanAcks, Dispatch(<<row>>) PROVE ScheduleInv'
  <2>1. /\ slot \in Nat /\ last_success_at \in Nat /\ Len(acks) \in Nat
    BY DEF ScheduleInv, TypeInv
  <2>2. row \in AckRow
    BY <2>1 DEF HumanAcks, AckRow
  <2>3. <<row>> \in Seq(AckRow)
    BY <2>2
  <2> QED
    BY <1>3, <2>3, DispatchKeeps
<1>4. CASE JobDies \/ JobRefusesAck
  BY <1>4, DeathKeeps
<1>5. CASE JobSkips
  BY <1>5, SkipKeeps
<1>6. CASE JobStops
  BY <1>6, StopKeeps
<1>7. ASSUME NEW succeeds \in BOOLEAN, JobObserves(succeeds) PROVE ScheduleInv'
  BY <1>7, ObserveKeeps
<1>8. CASE Tick
  BY <1>8, TickKeeps
<1>9. CASE Announce
  BY <1>9, AnnounceKeeps
<1>10. CASE UNCHANGED vars
  BY <1>10 DEF vars, ScheduleInv, TypeInv, ClockInv, RequestInv, PlanInv, StopInv, CloseSlot
<1> QED
  BY <1>1, <1>2, <1>3, <1>4, <1>5, <1>6, <1>7, <1>8, <1>9, <1>10 DEF Next, Finished

-----------------------------------------------------------------------------
\* The types, the order of times, and what a recorded stop, a counted request and
\* a planned day rest on, in every reachable state.
THEOREM ScheduleInvHolds == Spec => []ScheduleInv
BY ScheduleInit, ScheduleStep, PTL DEF Spec

\* _is_due and recheck_due together: however many planner runs overlap and however
\* long their jobs wait, the schedule succeeds after the close of a normal day at
\* most once.
THEOREM NormalDayObservedOnce == Spec => []OncePerNormalDay
<1>1. ScheduleInv => OncePerNormalDay
  BY DEF ScheduleInv, RequestInv, OncePerNormalDay
<1> QED
  BY <1>1, ScheduleInvHolds, PTL

\* A business day planned after the close is observed after the close once its jobs
\* have ended without trouble: the recheck cancels only what is already there.
THEOREM PlannedDayIsObserved == Spec => []NoLostDay
<1>1. ScheduleInv => NoLostDay
  BY DEF ScheduleInv, PlanInv, NoLostDay, CloseSlot
<1> QED
  BY <1>1, ScheduleInvHolds, PTL

\* assess_stale_gap and _stale_reference: the gap that stopped a target stays too
\* long for the threshold of the stop, so only an acknowledgement beyond the last
\* success or a wider threshold lets it be observed again.
THEOREM StopsAreHeld == Spec => StopHolds
<1> DEFINE Held == (/\ stop_threshold # 0 /\ stop_threshold' = 0
                    /\ Threshold(Head(queue).event_date, slot) <= stop_threshold)
                   => \E k \in AckTails(acks') : acks'[k].gap_end > last_success_at
<1>1. ScheduleInv /\ [Next]_vars => Held \/ UNCHANGED vars
  <2> SUFFICES ASSUME ScheduleInv, Next, stop_threshold # 0, stop_threshold' = 0,
                      Threshold(Head(queue).event_date, slot) <= stop_threshold,
                      \A k \in AckTails(acks') : ~(acks'[k].gap_end > last_success_at)
               PROVE  FALSE
    OBVIOUS
  <2>1. PICK succeeds \in BOOLEAN : JobObserves(succeeds)
    <3>1. ~JobStops
      BY ThresholdType DEF JobStops
    <3> QED
      BY <3>1 DEF Next, Fire, Dispatch, JobDies, JobSkips, JobRefusesAck, Tick, Announce,
                  Finished, vars
  <2>2. /\ Admitted /\ acks' = acks \o Head(queue).ack
        /\ ~IsStale(acks', Head(queue).event_date, slot)
    BY <2>1 DEF JobObserves
  <2>3. acks' \in Seq(AckRow)
    BY <2>2, AdmittedRows
  <2>4. /\ TypeInv /\ slot \in Nat /\ last_success_at \in Nat /\ last_success_at <= slot
        /\ stop_threshold \in Nat /\ slot <= slot /\ last_success_at <= last_success_at
    BY DEF ScheduleInv, TypeInv, ClockInv
  <2>5. \A k \in AckTails(acks') : acks'[k].gap_end <= last_success_at
    <3>1. \A k \in DOMAIN acks' : acks'[k] \in AckRow
      BY <2>3
    <3>2. AckTails(acks') \subseteq DOMAIN acks'
      BY DEF AckTails
    <3>3. \A k \in AckTails(acks') : acks'[k].gap_end \in Nat
      BY <3>1, <3>2 DEF AckRow
    <3> QED
      BY <2>4, <3>3
  <2>6. StaleReference(acks', slot) = last_success_at
    BY <2>3, <2>4, <2>5, ReferenceIsLater
  <2>7. BusinessElapsed(last_success_at, slot) \in Int
    BY <2>4, ElapsedGrows
  <2>8. ~(BusinessElapsed(last_success_at, slot) > Threshold(Head(queue).event_date, slot))
    BY <2>2, <2>6 DEF IsStale
  <2>9. BusinessElapsed(last_success_at, slot) > stop_threshold
    BY DEF ScheduleInv, StopInv
  <2> QED
    BY <2>4, <2>7, <2>8, <2>9, ThresholdType
<1>2. ScheduleInv /\ [Next]_vars => [Held]_vars
  BY <1>1
<1>3. [][Held]_vars => StopHolds
  BY PTL DEF StopHolds
<1> QED
  BY <1>2, <1>3, ScheduleInvHolds, PTL DEF Spec
=============================================================================

------------------------- MODULE MCMonitorSchedule -------------------------
(***************************************************************************)
(* MonitorSchedule over two weeks, with the announcement in the second.    *)
(***************************************************************************)
EXTENDS MonitorSchedule

\* The elapsed business time as the code adds it up: from midnight to midnight,
\* the days from Monday to Friday.
ElapsedDayByDay(from, to) ==
  LET start == UtcMinute(from)
      end   == UtcMinute(to)
      Within(d) == Min({end, (d + 1) * 1440}) - Max({start, d * 1440})
  IN  MapThenSumSet(Within, {d \in start \div 1440 .. end \div 1440 : IsBusinessDay(d)})

\* The closed form the model and its proofs use is that sum, for all slots of the run.
ASSUME ElapsedIsTheSum ==
  \A from \in FirstSlot .. LastSlot : \A to \in from .. LastSlot :
    BusinessElapsed(from, to) = ElapsedDayByDay(from, to)
=============================================================================

----------------------------- MODULE MCSchedule -----------------------------
(***************************************************************************)
(* Schedule for TLC: days of three hours, a task that scans and one that    *)
(* plans after scanning.                                                    *)
(***************************************************************************)
EXTENDS Schedule

Daily(every, at) == [enabled |-> TRUE, unit |-> "daily", every |-> every, at |-> at]
Hourly(every)    == [enabled |-> TRUE, unit |-> "hourly", every |-> every, at |-> 0]
Off              == [enabled |-> FALSE, unit |-> "daily", every |-> 0, at |-> 0]

MCSchedules == {Daily(1, 0), Daily(1, 2), Hourly(2), Off, Daily(0, 0)}

At(anchor, lastRan) == [anchor |-> anchor, lastRan |-> lastRan]

Begin(clocks, omitted, scan, plan, kept) ==
  {[clock |-> c, omit |-> omitted,
    conf  |-> [t \in Tasks |-> IF t \in Scans THEN scan ELSE plan],
    kept  |-> [t \in Tasks |-> kept]] : c \in clocks}

\* The second day is omitted.  Run on the first, or never.
MCStarts ==
  Begin({3}, {1}, Hourly(2), Daily(2, 1), At(1, 1)) \cup Begin({3}, {1}, Daily(1, 1), Daily(2, 1), At(Never, Never))
=============================================================================

------------------------------- MODULE Ticker -------------------------------
(***************************************************************************)
(* Ticker (common/ticker.h): tick tells its owner at most once per interval *)
(* of time to do something.  A ticker is a record of the members; what is   *)
(* left of the elapsed time after a tick is carried over to the next one.   *)
(***************************************************************************)
EXTENDS Integers

\* The optional m_tick_interval has no value.
NoInterval == -1

NewTicker(now, interval) ==
    [m_last_known_now |-> now, m_tick_interval |-> interval, m_time_since_last_tick |-> 0]

\* m_time_since_last_tick after the time since the previous call was added.
TimeSinceLastTick(t, now) == t.m_time_since_last_tick + now - t.m_last_known_now

\* tick(now) returns true.
Ticks(t, now) ==
    t.m_tick_interval # NoInterval => TimeSinceLastTick(t, now) >= t.m_tick_interval

\* tick takes the time modulo an interval of zero.
TickFaults(t, now) == t.m_tick_interval = 0 /\ Ticks(t, now)

\* Mutant: a tick pays for one interval only, the rest is kept for later ticks.
Carried_All(t, now) == TimeSinceLastTick(t, now) - t.m_tick_interval

\* Mutant: every tick starts from zero.
Carried_Nothing(t, now) == 0

\* What remains of the elapsed time after a tick; whole intervals are forfeit.
Carried(t, now) == TimeSinceLastTick(t, now) % t.m_tick_interval

\* The ticker after tick(now), if it does not fault.
Ticked(t, now) ==
    [t EXCEPT !.m_last_known_now = now,
              !.m_time_since_last_tick =
                  IF t.m_tick_interval = NoInterval THEN 0
                  ELSE IF Ticks(t, now) THEN Carried(t, now)
                  ELSE TimeSinceLastTick(t, now)]

\* Mutant: a new interval starts from zero.
WithInterval_Restarts(t, interval) ==
    [t EXCEPT !.m_tick_interval = interval, !.m_time_since_last_tick = 0]

\* set_tick_interval, clear_tick_interval.
WithInterval(t, interval) == [t EXCEPT !.m_tick_interval = interval]
=============================================================================

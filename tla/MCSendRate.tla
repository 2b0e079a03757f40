----------------------------- MODULE MCSendRate -----------------------------
EXTENDS SendRate

\* Ticks at the same time, soon after one another, late, and with a clock that
\* was set back.
MCJumps == {-2, 0, 1, 3, 4}
=============================================================================

--------------------------- MODULE MCTickSchedule ---------------------------
(* Instances of TickSchedule.  Only differences of instants matter (and    *)
(* the phase modulo the period), so the states are compared relative to    *)
(* the clock.                                                              *)
EXTENDS TickSchedule

Relative ==
  <<m_next - now, Max2(m_last - now, -Period), m_gap, programmed,
    IF phase = NoPhase THEN NoPhase ELSE (phase - now) % Period,
    Max2(cc_last_sync - now, -Second - MaxLate), cc_lag, bounded,
    IF bounded THEN cc_lim - now ELSE 0, present,
    Min2(cc - cc_last_read, 1), cc_borrow, cc - billed,
    Max2(fire - now, -Half), quick,
    m_next - base - ticked - dropped - moved,
    IF bounded THEN Max2(excused - m_next, Quarter) ELSE 0>>
=============================================================================

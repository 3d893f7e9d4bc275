---------------------------- MODULE TickSchedule ----------------------------
(***************************************************************************)
(* One processor's interval-timer schedule and the cycle counter that      *)
(* keeps to it.  The host clock runs on whether the processor's thread     *)
(* does or not; the thread polls the schedule when it is run, fires ticks  *)
(* that are due, sleeps by design, reads its cycle counter, and is stopped *)
(* by the debugger.  The guest sets and clears the period.  A processor    *)
(* other than 0 moves each tick to processor 0's phase once there is one:  *)
(* the schedule of processor 0 is the one whose phase stays NoPhase.       *)
(*                                                                         *)
(* Instants are integers; a cycle is one unit of time.  The spacing the    *)
(* code draws from a triangle wave and noise is any value in its range.    *)
(***************************************************************************)
EXTENDS Integers

CONSTANTS Period, Unset,        \* period_ns, unset_ns
          Starved, Second,      \* 32 periods, and one second
          MaxLate, MaxBorrow    \* bounds: how late, how many early reads

ASSUME TickAssumption ==
  /\ Period \in Nat \ {0} /\ Unset \in Nat \ {0}
  /\ Starved \in Nat /\ Second \in Nat
  /\ MaxLate \in Nat /\ MaxBorrow \in Nat

NoPhase == -1
Half == Period \div 2
Quarter == Period \div 4

VARIABLES
  now,
  m_next, m_last, m_gap,        \* the schedule
  programmed,                   \* a period is set
  phase,                        \* an instant of processor 0's schedule
  cc_last_sync,                 \* the instant the counter is billed up to
  cc_lag, bounded, cc_lim,      \* cc_lim is meaningful when bounded
  present,                      \* m_cc_present
  cc, cc_last_read, cc_borrow,
  \* history
  fire, beat, quick,            \* last tick: when, its parity; starved gap
  base, ticked, dropped, moved, \* what m_next is made of
  excused,                      \* how far the counter ran unticked by design
  billed                        \* the cycles the clock gave the counter

sched == <<m_next, m_last, m_gap>>
bound == <<cc_lag, bounded, cc_lim, present>>
count == <<cc_last_sync, cc, cc_last_read, cc_borrow, billed>>
ticks == <<fire, beat, quick, base, ticked, dropped, moved>>
vars  == <<now, sched, programmed, phase, bound, count, ticks, excused>>

Max2(a, b) == IF a > b THEN a ELSE b
Min2(a, b) == IF a < b THEN a ELSE b

Gaps == Half .. Half + (Period * 138) \div 400 + (Period * 63) \div 1024

Spacings == {0} \cup Gaps \cup {g \div 8 : g \in Gaps}

(* Instants are integers, spans of time are not negative, and a spacing is *)
(* one next_gap can give, or an eighth of it.                              *)
TypeOK ==
  /\ now \in Int /\ m_next \in Int /\ m_last \in Int /\ phase \in Int
  /\ m_gap \in Spacings
  /\ programmed \in BOOLEAN /\ bounded \in BOOLEAN /\ present \in BOOLEAN
  /\ cc_last_sync \in Int /\ cc_lag \in Nat /\ cc_lim \in Int
  /\ cc \in Nat /\ cc_last_read \in Nat /\ cc_borrow \in Nat
  /\ fire \in Int /\ beat \in BOOLEAN /\ quick \in BOOLEAN
  /\ base \in Int /\ ticked \in Nat /\ dropped \in Nat /\ moved \in Int
  /\ excused \in Int /\ billed \in Nat

Init ==
  /\ now = 0 /\ m_next = 0 /\ m_last = 0 /\ m_gap = 0
  /\ programmed = FALSE /\ phase = NoPhase
  /\ cc_last_sync = 0 /\ cc_lag = 0 /\ bounded = FALSE /\ cc_lim = 0
  /\ present = FALSE
  /\ cc = 0 /\ cc_last_read = 0 /\ cc_borrow = 0
  /\ fire = 0 /\ beat = FALSE /\ quick = TRUE
  /\ base = 0 /\ ticked = 0 /\ dropped = 0 /\ moved = 0
  /\ excused = 0 /\ billed = 0

(* The host clock goes on, the thread perhaps not.                         *)
Pass ==
  /\ now - m_next < MaxLate
  /\ now' = now + 1
  /\ UNCHANGED <<sched, programmed, phase, bound, count, ticks, excused>>

(* The guest programs the timer, or stops it.                              *)
SetPeriod ==
  /\ programmed' = ~programmed
  /\ UNCHANGED <<now, sched, phase, bound, count, ticks, excused>>

(* Processor 0's schedule moves (it dropped a backlog or was restarted).   *)
MovePhase ==
  /\ phase' \in 0 .. Period - 1
  /\ UNCHANGED <<now, sched, programmed, bound, count, ticks, excused>>

-----------------------------------------------------------------------------
(* The instant of the phase's schedule nearest to t.                       *)
nearest(t) ==
  LET r == (phase - t) % Period
  IN  t + (IF r > Half THEN r - Period ELSE r)

InPhase(t) == IF phase # NoPhase THEN nearest(t) ELSE t

(* No period: a tick every Unset, and no bound on the counter.             *)
PollUnset ==
  /\ ~programmed /\ now >= m_next
  /\ m_last' = now /\ m_next' = now + Unset
  /\ bounded' = FALSE /\ cc_lag' = 0 /\ present' = FALSE
  /\ fire' = now /\ beat' = ~beat /\ quick' = TRUE
  /\ base' = now + Unset /\ ticked' = 0 /\ dropped' = 0 /\ moved' = 0
  /\ UNCHANGED <<now, m_gap, programmed, phase, cc_lim, count, excused>>

\* Mutant: the bound counted from now.
BoundNotOver(due, skip) ==
  /\ bounded' = TRUE /\ present' = FALSE
  /\ cc_lim' = now + Period + Quarter
  /\ cc_lag' = IF now - due > Quarter /\ ~present
               THEN now - due - Quarter ELSE 0
  /\ cc_last_sync' = cc_last_sync + skip

(* The bound after a tick due at `due` that dropped `skip`: behind the     *)
(* clock by how late it was, no further than the next tick, and not over   *)
(* what the count gave up.                                                 *)

cc_bound_after_tick(due, skip) ==
  /\ bounded' = TRUE /\ present' = FALSE
  /\ cc_lim' = m_next' + Quarter
  /\ cc_lag' = IF now - due > Quarter /\ ~present
               THEN now - due - Quarter ELSE 0
  /\ cc_last_sync' = cc_last_sync + skip

\* Mutant: the next tick counted from now, not from the last one's due instant.
NextFromNow == now + Period

(* Where the count puts the next tick: a period on, or now when more than  *)
(* a second is owed.                                                       *)
NextByCount ==
  IF now - (m_next + Period) > Second THEN now ELSE m_next + Period

\* Mutant: the spacing always measured from the due instant.
SpacedFromDue == m_next

(* The spacing after this tick is measured from its due instant when it is *)
(* at most half a period late.                                             *)
SpacedFrom == IF now - m_next <= Half THEN m_next ELSE now

poll ==
  /\ programmed /\ now >= m_next /\ now - m_last >= m_gap
  /\ LET late == now - (m_next + Period)
         skip == IF late > Second THEN late ELSE 0
     IN  /\ m_last' = SpacedFrom
         /\ \E g \in Gaps : m_gap' = IF late > Starved THEN g \div 8 ELSE g
         /\ m_next' = InPhase(NextByCount)
         /\ cc_bound_after_tick(m_next, skip)
         /\ fire' = now /\ beat' = ~beat /\ quick' = (late > Starved)
         /\ ticked' = ticked + Period /\ dropped' = dropped + skip
         /\ moved' = moved + (m_next' - NextByCount)
         /\ excused' = IF bounded THEN excused + skip
                       ELSE cc_last_sync + skip
  /\ UNCHANGED <<now, programmed, phase, base,
                 cc, cc_last_read, cc_borrow, billed>>

-----------------------------------------------------------------------------
(* A sleep of the thread's own ends (QUIESCE, the idle pause, tick_hold):  *)
(* the time slept counts, and the next tick sets no lag.                   *)
cc_bound_after_sleep ==
  /\ present' = TRUE
  /\ IF bounded /\ programmed
     THEN LET lim == Max2(m_next, now) + Quarter
          IN  /\ cc_lag' = 0 /\ cc_lim' = Max2(cc_lim, lim)
              /\ excused' = Max2(excused, lim)
     ELSE UNCHANGED <<cc_lag, cc_lim, excused>>
  /\ UNCHANGED <<now, sched, programmed, phase, bounded, count, ticks>>

(* A QUIESCE polls from inside its sleep: the tick it fires sets no lag.   *)
QuiescePolls ==
  /\ present' = TRUE
  /\ UNCHANGED <<now, sched, programmed, phase, cc_lag, bounded, cc_lim, count,
                 ticks, excused>>

(* The counter is billed up to where its bound allows,  *)
(* never back, and repays what earlier reads lent it.                      *)
cc_billable ==
  IF bounded THEN Min2(now - cc_lag, cc_lim) ELSE now - cc_lag

Synced == Min2(cc_last_sync, now)

Bill == Max2(cc_billable, Synced) - Synced

sync_cc_wallclock ==
  LET add   == Min2(Bill, Second)
      repay == Min2(cc_borrow, add)
  IN  /\ cc_last_sync' = Synced + Bill
      /\ billed' = billed + add
      /\ cc' = cc + add - repay
      /\ cc_borrow' = cc_borrow - repay
      /\ UNCHANGED <<now, sched, programmed, phase, bound, cc_last_read,
                     ticks, excused>>

\* Mutant: a read does not move the counter past the last.
ReadWithoutFloor ==
  LET add   == Min2(Bill, Second)
      repay == Min2(cc_borrow, add)
  IN  /\ cc_last_sync' = Synced + Bill
      /\ billed' = billed + add
      /\ cc' = cc + add - repay
      /\ cc_borrow' = cc_borrow - repay
      /\ cc_last_read' = cc'
      /\ UNCHANGED <<now, sched, programmed, phase, bound, ticks, excused>>

(* A read of the counter: two reads never return the same value, the cycle *)
(* between them lent if the clock has not given it.                        *)

rpcc_read ==
  LET add   == Min2(Bill, Second)
      repay == Min2(cc_borrow, add)
      lent  == Max2(cc_last_read + 1 - (cc + add - repay), 0)
  IN  /\ cc_borrow - repay + lent <= MaxBorrow
      /\ cc_last_sync' = Synced + Bill
      /\ billed' = billed + add
      /\ cc' = cc + add - repay + lent
      /\ cc_borrow' = cc_borrow - repay + lent
      /\ cc_last_read' = cc'
      /\ UNCHANGED <<now, sched, programmed, phase, bound, ticks, excused>>

(* The debugger held the machine for a while: the schedule moves on by it. *)
shift ==
  /\ m_next' = m_next + 1 /\ m_last' = m_last + 1
  /\ now' = now + 1
  /\ base' = base + 1 /\ fire' = fire + 1
  /\ cc_last_sync' = cc_last_sync + 1 /\ excused' = excused + 1
  /\ cc_lim' = IF bounded THEN cc_lim + 1 ELSE cc_lim
  /\ UNCHANGED <<m_gap, programmed, phase, cc_lag, bounded, present, cc,
                 cc_last_read, cc_borrow, billed, beat, quick, ticked,
                 dropped, moved>>

(* The processor's thread begins, or begins again after a reset: its first *)
(* tick is due at once and it owes none.                                   *)
start ==
  /\ m_next' = now /\ m_last' = now /\ m_gap' = 0
  /\ cc_last_sync' = now /\ cc_lag' = 0 /\ bounded' = FALSE
  /\ quick' = TRUE /\ base' = now
  /\ ticked' = 0 /\ dropped' = 0 /\ moved' = 0
  /\ UNCHANGED <<now, programmed, phase, cc_lim, present, cc, cc_last_read,
                 cc_borrow, billed, fire, beat, excused>>

Next == \/ Pass \/ SetPeriod \/ MovePhase \/ PollUnset \/ poll
        \/ cc_bound_after_sleep
        \/ QuiescePolls \/ sync_cc_wallclock \/ rpcc_read \/ shift \/ start

Spec == Init /\ [][Next]_vars

-----------------------------------------------------------------------------
(* The schedule is count-preserving: the next tick's due instant is where  *)
(* it began, a period on for every tick fired, plus only the backlog it    *)
(* dropped and the moves to processor 0's phase.  No late poll, however    *)
(* late, loses or adds a tick.                                             *)
CountPreserved == m_next = base + ticked + dropped + moved

(* Ticks are paced: two are at least half a period apart on the host's     *)
(* clock, however late the first was fired, unless the thread is starved   *)
(* (more than Starved behind) or the timer has just been programmed.  This *)
(* is processor 0's: a move to another's phase can bring a tick closer.    *)
Paced ==
  [][beat' # beat /\ programmed /\ phase = NoPhase
       => quick \/ now - fire >= Half]_vars

(* The counter keeps to the ticks: while a period is set it is never       *)
(* billed more than a quarter period past the next tick's due instant,     *)
(* except over time that was slept by design or ran before the first tick. *)
(* A thread the host does not run counts no cycles its ticks do not.       *)
CounterKeepsToTicks ==
  bounded => \/ cc_last_sync <= m_next + Quarter
             \/ cc_last_sync <= excused

(* Two reads of the counter never return the same value and it never goes  *)
(* back, whatever the bound, the skip and the borrow do to it.             *)
RpccForward ==
  [][/\ cc_last_read' >= cc_last_read
     /\ cc' >= cc
     /\ rpcc_read => cc_last_read' > cc_last_read]_vars

(* What the reads lent the counter is exactly what it is ahead of the      *)
(* cycles the clock gave it: a loop of reads never speeds the counter up.  *)
LentIsRepaid == cc = billed + cc_borrow
=============================================================================

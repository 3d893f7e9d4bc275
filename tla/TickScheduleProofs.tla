------------------------- MODULE TickScheduleProofs -------------------------
(***************************************************************************)
(* For every period, threshold and bound: the schedule counts every tick,  *)
(* the cycle counter keeps to it, and reads of the counter go forward and  *)
(* are repaid.                                                             *)
(***************************************************************************)
EXTENDS TickSchedule, TLAPS

(* The parts of a period are less than it, and a half is at least a        *)
(* quarter: the integer divisions of the schedule.                         *)
LEMMA Parts ==
  /\ Half \in Nat /\ Quarter \in Nat
  /\ 2 * Half <= Period /\ Period <= 2 * Half + 1
BY TickAssumption DEF Half, Quarter

(* nearest moves an instant by at most half a period.                      *)
LEMMA NearestClose ==
  ASSUME NEW t \in Int, phase \in Int
  PROVE  nearest(t) \in Int /\ t - Half <= nearest(t)
<1> DEFINE r == (phase - t) % Period
<1>1. r \in Int /\ 0 <= r /\ r < Period
  BY TickAssumption
<1>2. nearest(t) = t + (IF r > Half THEN r - Period ELSE r)
  BY DEF nearest
<1> HIDE DEF r
<1> QED BY <1>1, <1>2, Parts, TickAssumption

(* A spacing is an integer, and so is an eighth of it.                     *)
LEMMA GapsAreInts == Gaps \subseteq Int
BY Parts, TickAssumption DEF Gaps

(* What a billing step adds is not negative, and bills no further than the *)
(* bound unless it bills nothing.                                          *)
LEMMA BillFacts ==
  ASSUME TypeOK
  PROVE  /\ Synced \in Int /\ Bill \in Nat
         /\ Synced <= cc_last_sync
         /\ bounded => \/ Synced + Bill <= cc_lim
                       \/ Synced + Bill <= cc_last_sync
<1> USE DEF TypeOK
<1>1. cc_billable \in Int /\ (bounded => cc_billable <= cc_lim)
  BY DEF cc_billable, Min2
<1> QED BY <1>1 DEF Synced, Bill, Max2, Min2

(* Where the count puts the next tick: a period on and over the backlog    *)
(* dropped.                                                                *)
Skipped == IF now - (m_next + Period) > Second
           THEN now - (m_next + Period) ELSE 0

(* The next tick is a period on, over the backlog dropped, and a move to   *)
(* the phase takes at most that period back.                               *)
LEMMA NextFacts ==
  ASSUME TypeOK
  PROVE  /\ NextByCount \in Int /\ Skipped \in Nat
         /\ NextByCount = m_next + Period + Skipped
         /\ InPhase(NextByCount) \in Int
         /\ InPhase(NextByCount) >= m_next + Skipped
<1>1. /\ NextByCount \in Int /\ Skipped \in Nat
      /\ NextByCount = m_next + Period + Skipped
  BY TickAssumption DEF TypeOK, NextByCount, Skipped
<1>2. phase \in Int
  BY DEF TypeOK
<1>3. nearest(NextByCount) \in Int /\ NextByCount - Half <= nearest(NextByCount)
  BY <1>1, <1>2, NearestClose
<1>4. m_next \in Int
  BY DEF TypeOK
<1> HIDE DEF NextByCount, Skipped
<1> QED BY <1>1, <1>3, <1>4, Parts, TickAssumption DEF InPhase

(* A sync gives the counter no less than it makes it repay.                *)
LEMMA SyncFacts ==
  ASSUME TypeOK, sync_cc_wallclock
  PROVE  \E add, repay \in Nat :
           /\ repay <= add /\ repay <= cc_borrow
           /\ billed' = billed + add /\ cc' = cc + add - repay
           /\ cc_borrow' = cc_borrow - repay /\ cc_last_read' = cc_last_read
<1>1. PICK add \in Nat : add = Min2(Bill, Second)
  BY BillFacts, TickAssumption DEF Min2
<1>2. cc_borrow \in Nat
  BY DEF TypeOK
<1>a. add \in Nat
  BY <1>1
<1>3. PICK repay \in Nat : repay = Min2(cc_borrow, add)
  BY <1>a, <1>2 DEF Min2
<1>4. repay \in Nat /\ repay <= add /\ repay <= cc_borrow
  BY <1>a, <1>2, <1>3 DEF Min2
<1>5. /\ billed' = billed + add /\ cc' = cc + add - repay
      /\ cc_borrow' = cc_borrow - repay /\ cc_last_read' = cc_last_read
  BY <1>1, <1>3 DEF sync_cc_wallclock
<1> QED BY <1>4, <1>5

(* A read does the same, and lends what the value is short of moving.      *)
LEMMA ReadFacts ==
  ASSUME TypeOK, rpcc_read
  PROVE  \E add, repay, lent \in Nat :
           /\ repay <= add /\ repay <= cc_borrow
           /\ lent >= cc_last_read + 1 - (cc + add - repay)
           /\ billed' = billed + add /\ cc' = cc + add - repay + lent
           /\ cc_borrow' = cc_borrow - repay + lent /\ cc_last_read' = cc'
<1>1. PICK add \in Nat : add = Min2(Bill, Second)
  BY BillFacts, TickAssumption DEF Min2
<1>2. cc_borrow \in Nat /\ cc \in Nat /\ cc_last_read \in Nat
  BY DEF TypeOK
<1>a. add \in Nat
  BY <1>1
<1>3. PICK repay \in Nat : repay = Min2(cc_borrow, add)
  BY <1>a, <1>2 DEF Min2
<1>4. repay \in Nat /\ repay <= add /\ repay <= cc_borrow
  BY <1>a, <1>2, <1>3 DEF Min2
<1>5. PICK short \in Int : short = cc_last_read + 1 - (cc + add - repay)
  BY <1>a, <1>2, <1>4
<1>b. PICK lent \in Nat : lent = Max2(short, 0) /\ lent >= short
  BY <1>5 DEF Max2
<1>6. /\ billed' = billed + add /\ cc' = cc + add - repay + lent
      /\ cc_borrow' = cc_borrow - repay + lent /\ cc_last_read' = cc'
  BY <1>1, <1>3, <1>5, <1>b DEF rpcc_read
<1> QED BY <1>a, <1>5, <1>b, <1>4, <1>6

-----------------------------------------------------------------------------
(* Every step keeps the types.                                             *)
LEMMA TypeStep == TypeOK /\ [Next]_vars => TypeOK'
<1> SUFFICES ASSUME TypeOK, [Next]_vars PROVE TypeOK'
  OBVIOUS
<1> USE TickAssumption
<1>1. CASE Pass
  BY <1>1 DEF Pass, TypeOK, sched, bound, count, ticks
<1>2. CASE SetPeriod
  BY <1>2 DEF SetPeriod, TypeOK, sched, bound, count, ticks
<1>3. CASE MovePhase
  BY <1>3 DEF MovePhase, TypeOK, sched, bound, count, ticks
<1>4. CASE PollUnset
  <2>1. bounded' \in BOOLEAN /\ present' \in BOOLEAN /\ quick' \in BOOLEAN
    BY <1>4 DEF PollUnset
  <2>2. beat' \in BOOLEAN
    BY <1>4 DEF PollUnset, TypeOK
  <2> QED BY <1>4, <2>1, <2>2 DEF PollUnset, TypeOK, count
<1>5. CASE poll
  <2>1. m_next' = InPhase(NextByCount) /\ m_next' \in Int
    BY <1>5, NextFacts DEF poll
  <2>2. PICK g \in Gaps :
          m_gap' = IF now - (m_next + Period) > Starved THEN g \div 8 ELSE g
    BY <1>5 DEF poll
  <2>3. m_gap' \in Spacings
    BY <2>2 DEF Spacings
  <2>4. m_last' \in Int
    BY <1>5 DEF poll, SpacedFrom, TypeOK
  <2>5. /\ bounded' = TRUE /\ present' = FALSE
        /\ cc_lim' \in Int /\ cc_lag' \in Nat
    BY <1>5, <2>1, Parts DEF poll, cc_bound_after_tick, TypeOK
  <2>6. /\ cc_last_sync' = cc_last_sync + Skipped
        /\ dropped' = dropped + Skipped /\ ticked' = ticked + Period
        /\ moved' = moved + (m_next' - NextByCount)
        /\ excused' = IF bounded THEN excused + Skipped
                      ELSE cc_last_sync + Skipped
    BY <1>5 DEF poll, cc_bound_after_tick, Skipped
  <2>7. /\ cc_last_sync' \in Int /\ dropped' \in Nat /\ ticked' \in Nat
        /\ moved' \in Int /\ excused' \in Int
    BY <2>1, <2>6, NextFacts DEF TypeOK
  <2>8. quick' \in BOOLEAN /\ beat' \in BOOLEAN /\ fire' \in Int
    BY <1>5 DEF poll, TypeOK
  <2> QED BY <1>5, <2>1, <2>3, <2>4, <2>5, <2>7, <2>8 DEF poll, TypeOK
<1>6. CASE cc_bound_after_sleep
  BY <1>6, Parts DEF cc_bound_after_sleep, TypeOK, Max2, sched, count, ticks
<1>12. CASE QuiescePolls
  BY <1>12 DEF QuiescePolls, TypeOK, sched, count, ticks
<1>7. CASE sync_cc_wallclock
  <2>0. cc \in Nat /\ cc_borrow \in Nat /\ billed \in Nat
    BY DEF TypeOK
  <2>1. cc' \in Nat /\ cc_borrow' \in Nat /\ billed' \in Nat
    BY <1>7, <2>0, SyncFacts
  <2>2. cc_last_sync' \in Int
    BY <1>7, BillFacts DEF sync_cc_wallclock
  <2> QED BY <1>7, <2>1, <2>2 DEF sync_cc_wallclock, TypeOK, sched, bound, ticks
<1>8. CASE rpcc_read
  <2>0. cc \in Nat /\ cc_borrow \in Nat /\ billed \in Nat
    BY DEF TypeOK
  <2>1. cc' \in Nat /\ cc_borrow' \in Nat /\ billed' \in Nat /\ cc_last_read' \in Nat
    BY <1>8, <2>0, ReadFacts
  <2>2. cc_last_sync' \in Int
    BY <1>8, BillFacts DEF rpcc_read
  <2> QED BY <1>8, <2>1, <2>2 DEF rpcc_read, TypeOK, sched, bound, ticks
<1>9. CASE shift
  BY <1>9 DEF shift, TypeOK
<1>10. CASE start
  <2>1. bounded' \in BOOLEAN /\ quick' \in BOOLEAN /\ m_gap' \in Spacings
    BY <1>10 DEF start, Spacings
  <2> QED BY <1>10, <2>1 DEF start, TypeOK
<1>11. CASE UNCHANGED vars
  BY <1>11 DEF vars, TypeOK, sched, bound, count, ticks
<1> QED BY <1>1, <1>2, <1>3, <1>4, <1>5, <1>6, <1>7, <1>8, <1>9, <1>10, <1>11,
           <1>12 DEF Next

(* Every variable of the schedule and the counter keeps its type.          *)
THEOREM TypeCorrect == Spec => []TypeOK
<1>1. Init => TypeOK
  <2> SUFFICES ASSUME Init PROVE TypeOK
    OBVIOUS
  <2>1. /\ programmed \in BOOLEAN /\ bounded \in BOOLEAN
        /\ present \in BOOLEAN /\ beat \in BOOLEAN /\ quick \in BOOLEAN
        /\ m_gap \in Spacings
    BY DEF Init, Spacings
  <2> QED BY <2>1, TickAssumption DEF Init, TypeOK, NoPhase
<1> QED BY <1>1, TypeStep, PTL DEF Spec

-----------------------------------------------------------------------------
(* Only a tick, a restart and a hold of the debugger move the schedule.    *)
LEMMA ScheduleSteps ==
  ASSUME [Next]_vars
  PROVE  \/ poll \/ PollUnset \/ shift \/ start
         \/ UNCHANGED <<m_next, base, ticked, dropped, moved>>
<1>1. CASE Pass
  BY <1>1 DEF Pass, sched, ticks
<1>2. CASE SetPeriod
  BY <1>2 DEF SetPeriod, sched, ticks
<1>3. CASE MovePhase
  BY <1>3 DEF MovePhase, sched, ticks
<1>4. CASE cc_bound_after_sleep
  BY <1>4 DEF cc_bound_after_sleep, sched, ticks
<1>5. CASE QuiescePolls
  BY <1>5 DEF QuiescePolls, sched, ticks
<1>6. CASE sync_cc_wallclock
  BY <1>6 DEF sync_cc_wallclock, sched, ticks
<1>7. CASE rpcc_read
  BY <1>7 DEF rpcc_read, sched, ticks
<1>8. CASE UNCHANGED vars
  BY <1>8 DEF vars, sched, ticks
<1> QED BY <1>1, <1>2, <1>3, <1>4, <1>5, <1>6, <1>7, <1>8 DEF Next

(* Every step keeps the count.                                             *)
LEMMA CountStep == TypeOK /\ CountPreserved /\ [Next]_vars => CountPreserved'
<1> SUFFICES ASSUME TypeOK, CountPreserved, [Next]_vars PROVE CountPreserved'
  OBVIOUS
<1> USE DEF TypeOK, CountPreserved
<1>1. CASE poll
  <2>1. /\ dropped' = dropped + Skipped /\ ticked' = ticked + Period
        /\ moved' = moved + (m_next' - NextByCount) /\ base' = base
        /\ m_next' = InPhase(NextByCount)
    BY <1>1 DEF poll, Skipped
  <2> QED BY <2>1, NextFacts, TickAssumption
<1>2. CASE PollUnset
  <2>1. /\ m_next' = now + Unset /\ base' = now + Unset
        /\ ticked' = 0 /\ dropped' = 0 /\ moved' = 0
    BY <1>2 DEF PollUnset
  <2> QED BY <2>1, TickAssumption
<1>3. CASE shift
  <2>1. /\ m_next' = m_next + 1 /\ base' = base + 1
        /\ UNCHANGED <<ticked, dropped, moved>>
    BY <1>3 DEF shift
  <2> QED BY <2>1
<1>4. CASE start
  <2>1. /\ m_next' = now /\ base' = now
        /\ ticked' = 0 /\ dropped' = 0 /\ moved' = 0
    BY <1>4 DEF start
  <2> QED BY <2>1
<1>5. CASE UNCHANGED <<m_next, base, ticked, dropped, moved>>
  BY <1>5
<1> QED BY <1>1, <1>2, <1>3, <1>4, <1>5, ScheduleSteps

(* No poll of the schedule, however late, loses or adds a tick.            *)
THEOREM CountHolds == Spec => []CountPreserved
<1>1. Init => CountPreserved
  BY DEF Init, CountPreserved
<1> QED BY <1>1, TypeCorrect, CountStep, PTL DEF Spec

-----------------------------------------------------------------------------
(* What makes the counter's bound inductive: the limit itself is no        *)
(* further than the next tick allows, or than what was slept.              *)
LimitKeepsToTicks ==
  bounded => cc_lim <= m_next + Quarter \/ cc_lim <= excused

(* Every step keeps the counter and its limit to the ticks.                *)
LEMMA KeepsStep ==
  TypeOK /\ LimitKeepsToTicks /\ CounterKeepsToTicks /\ [Next]_vars
    => LimitKeepsToTicks' /\ CounterKeepsToTicks'
<1> SUFFICES ASSUME TypeOK, LimitKeepsToTicks, CounterKeepsToTicks,
                    [Next]_vars
             PROVE  LimitKeepsToTicks' /\ CounterKeepsToTicks'
  OBVIOUS
<1> USE DEF TypeOK, LimitKeepsToTicks, CounterKeepsToTicks
<1>0. Quarter \in Int /\ Quarter >= 0
  BY Parts
<1>1. CASE Pass \/ SetPeriod \/ MovePhase \/ QuiescePolls \/ UNCHANGED vars
  <2>1. UNCHANGED <<m_next, bounded, cc_lim, cc_last_sync, excused>>
    BY <1>1 DEF Pass, SetPeriod, MovePhase, QuiescePolls, vars, sched, bound,
                count
  <2> QED BY <2>1
<1>2. CASE PollUnset \/ start
  BY <1>2 DEF PollUnset, start
<1>3. CASE poll
  <2>1. PICK n \in Int, k \in Nat : m_next' = n /\ k = Skipped /\ n >= m_next + k
    BY <1>3, NextFacts DEF poll
  <2>2. cc_lim' = n + Quarter
    BY <1>3, <2>1 DEF poll, cc_bound_after_tick
  <2>3. /\ cc_last_sync' = cc_last_sync + k
        /\ bounded => excused' = excused + k
        /\ ~bounded => excused' = cc_last_sync + k
    BY <1>3, <2>1 DEF poll, cc_bound_after_tick, Skipped
  <2> QED BY <1>0, <2>1, <2>2, <2>3
<1>4. CASE cc_bound_after_sleep
  BY <1>4, <1>0 DEF cc_bound_after_sleep, Max2, sched, count, ticks
<1>5. CASE sync_cc_wallclock
  <2>1. /\ cc_last_sync' = Synced + Bill
        /\ UNCHANGED <<m_next, bounded, cc_lim, excused>>
    BY <1>5 DEF sync_cc_wallclock, sched, bound
  <2> QED BY <1>0, <2>1, BillFacts
<1>6. CASE rpcc_read
  <2>1. /\ cc_last_sync' = Synced + Bill
        /\ UNCHANGED <<m_next, bounded, cc_lim, excused>>
    BY <1>6 DEF rpcc_read, sched, bound
  <2> QED BY <1>0, <2>1, BillFacts
<1>7. CASE shift
  BY <1>7, <1>0 DEF shift
<1> QED BY <1>1, <1>2, <1>3, <1>4, <1>5, <1>6, <1>7 DEF Next

(* A thread the host does not run counts no cycles its ticks do not: the   *)
(* counter is never billed past its ticks except over sleeps by design.    *)
THEOREM CounterKeeps == Spec => []CounterKeepsToTicks
<1>1. Init => LimitKeepsToTicks /\ CounterKeepsToTicks
  BY DEF Init, LimitKeepsToTicks, CounterKeepsToTicks
<1> QED BY <1>1, TypeCorrect, KeepsStep, PTL DEF Spec

-----------------------------------------------------------------------------
(* Only a sync and a read move the counter's value.                        *)
LEMMA CounterSteps ==
  ASSUME [Next]_vars
  PROVE  \/ sync_cc_wallclock \/ rpcc_read
         \/ UNCHANGED <<cc, cc_last_read, cc_borrow, billed>>
<1>1. CASE Pass
  BY <1>1 DEF Pass, count
<1>2. CASE SetPeriod
  BY <1>2 DEF SetPeriod, count
<1>3. CASE MovePhase
  BY <1>3 DEF MovePhase, count
<1>4. CASE PollUnset
  BY <1>4 DEF PollUnset, count
<1>5. CASE poll
  BY <1>5 DEF poll, count
<1>6. CASE cc_bound_after_sleep
  BY <1>6 DEF cc_bound_after_sleep, count
<1>7. CASE QuiescePolls
  BY <1>7 DEF QuiescePolls, count
<1>8. CASE shift
  BY <1>8 DEF shift, count
<1>9. CASE start
  BY <1>9 DEF start, count
<1>10. CASE UNCHANGED vars
  BY <1>10 DEF vars, count
<1> QED BY <1>1, <1>2, <1>3, <1>4, <1>5, <1>6, <1>7, <1>8, <1>9, <1>10 DEF Next

(* Every step keeps what was lent accounted for.                           *)
LEMMA LentStep == TypeOK /\ LentIsRepaid /\ [Next]_vars => LentIsRepaid'
<1> SUFFICES ASSUME TypeOK, LentIsRepaid, [Next]_vars PROVE LentIsRepaid'
  OBVIOUS
<1>0. cc \in Nat /\ cc_borrow \in Nat /\ billed \in Nat
  BY DEF TypeOK
<1> USE DEF LentIsRepaid
<1>1. CASE sync_cc_wallclock
  BY <1>0, <1>1, SyncFacts
<1>2. CASE rpcc_read
  BY <1>0, <1>2, ReadFacts
<1>3. CASE UNCHANGED <<cc, cc_last_read, cc_borrow, billed>>
  BY <1>3
<1> QED BY <1>1, <1>2, <1>3, CounterSteps

(* Reads lend the counter only what it is ahead by, so a loop of reads     *)
(* never speeds it up.                                                     *)
THEOREM LentHolds == Spec => []LentIsRepaid
<1>1. Init => LentIsRepaid
  BY DEF Init, LentIsRepaid
<1> QED BY <1>1, TypeCorrect, LentStep, PTL DEF Spec

(* No step takes the counter back, and a read moves it.                    *)
LEMMA ForwardStep ==
  TypeOK /\ [Next]_vars
    => [/\ cc_last_read' >= cc_last_read
        /\ cc' >= cc
        /\ rpcc_read => cc_last_read' > cc_last_read]_vars
<1> SUFFICES ASSUME TypeOK, [Next]_vars
             PROVE  /\ cc_last_read' >= cc_last_read
                    /\ cc' >= cc
                    /\ rpcc_read => cc_last_read' > cc_last_read
  OBVIOUS
<1>0. cc \in Nat /\ cc_last_read \in Nat
  BY DEF TypeOK
<1>1. CASE rpcc_read
  BY <1>0, <1>1, ReadFacts
<1>2. CASE sync_cc_wallclock /\ ~rpcc_read
  BY <1>0, <1>2, SyncFacts
<1>3. CASE ~rpcc_read /\ UNCHANGED <<cc, cc_last_read, cc_borrow, billed>>
  BY <1>0, <1>3
<1> QED BY <1>1, <1>2, <1>3, CounterSteps

(* The cycle counter goes forward, and two reads never return the same     *)
(* value.                                                                  *)
THEOREM ForwardHolds == Spec => RpccForward
BY TypeCorrect, ForwardStep, PTL DEF Spec, RpccForward

-----------------------------------------------------------------------------
(* What makes the pacing inductive: after a tick that was not fired by a   *)
(* starved thread, the next is held half a period off either by the        *)
(* spacing or by the count.                                                *)
HeldOff ==
  ~quick /\ phase = NoPhase =>
            \/ m_last >= fire /\ m_gap >= Half
            \/ m_next >= fire + Half

(* Every step keeps the next tick held off while there is no phase.        *)
LEMMA HeldStep ==
  ASSUME TypeOK, HeldOff, [Next]_vars
  PROVE  HeldOff'
<1> USE DEF TypeOK, HeldOff
<1>0. Half \in Int /\ Half >= 0 /\ 2 * Half <= Period /\ Period \in Int
  BY Parts, TickAssumption
<1>1. CASE poll
  <2>1. PICK n \in Int, k \in Nat :
          /\ m_next' = n /\ k = Skipped
          /\ phase = NoPhase => n = m_next + Period + k
    BY <1>1, NextFacts DEF poll, InPhase
  <2>2. PICK g \in Gaps :
          m_gap' = IF now - (m_next + Period) > Starved THEN g \div 8 ELSE g
    BY <1>1 DEF poll
  <2>3. g \in Int /\ g >= Half
    BY <2>2, <1>0, GapsAreInts, TickAssumption DEF Gaps
  <2>4. /\ quick' = (now - (m_next + Period) > Starved)
        /\ fire' = now
        /\ m_last' = IF now - m_next <= Half THEN m_next ELSE now
    BY <1>1 DEF poll, SpacedFrom
  <2>0. phase' = phase
    BY <1>1 DEF poll
  <2>5. CASE now - m_next <= Half
    <3>1. phase = NoPhase => n >= now + Half
      BY <1>0, <2>1, <2>5
    <3> QED BY <2>0, <2>1, <2>4, <3>1
  <2>6. CASE ~(now - m_next <= Half) /\ ~(now - (m_next + Period) > Starved)
    BY <1>0, <2>2, <2>3, <2>4, <2>6
  <2>7. CASE now - (m_next + Period) > Starved
    BY <2>4, <2>7
  <2> QED BY <2>5, <2>6, <2>7
<1>2. CASE PollUnset \/ start
  BY <1>2 DEF PollUnset, start
<1>3. CASE shift
  BY <1>3, <1>0 DEF shift
<1>4. CASE \/ Pass \/ SetPeriod \/ cc_bound_after_sleep
           \/ QuiescePolls \/ sync_cc_wallclock \/ rpcc_read \/ UNCHANGED vars
  BY <1>4 DEF Pass, SetPeriod, cc_bound_after_sleep,
              QuiescePolls, sync_cc_wallclock, rpcc_read, vars, sched, ticks
<1>5. CASE MovePhase
  <2>1. PICK p \in 0 .. Period - 1 : phase' = p
    BY <1>5 DEF MovePhase
  <2>2. p # NoPhase
    BY TickAssumption DEF NoPhase
  <2> QED BY <2>1, <2>2
<1> QED BY <1>1, <1>2, <1>3, <1>4, <1>5 DEF Next

(* A step that fires a tick then fires it half a period after the last.    *)
LEMMA PacedStep ==
  ASSUME TypeOK, HeldOff, [Next]_vars
  PROVE  [beat' # beat /\ programmed /\ phase = NoPhase
            => quick \/ now - fire >= Half]_vars
<1> SUFFICES ASSUME beat' # beat, programmed = TRUE, phase = NoPhase, ~quick
             PROVE  now - fire >= Half
  BY DEF TypeOK
<1>1. poll
  BY DEF Next, vars, ticks, Pass, SetPeriod, MovePhase, PollUnset, shift,
         start, cc_bound_after_sleep, QuiescePolls, sync_cc_wallclock, rpcc_read
<1>2. now >= m_next /\ now - m_last >= m_gap
  BY <1>1 DEF poll
<1>3. Half \in Int /\ m_gap \in Int
  BY Parts, GapsAreInts DEF TypeOK, Spacings
<1> QED BY <1>2, <1>3 DEF TypeOK, HeldOff

(* On the processor whose schedule the others follow, two ticks of a       *)
(* thread that is not starved are at least half a period apart, whatever   *)
(* the polls' lateness.                                                    *)
THEOREM PacedHolds == Spec => Paced
<1>1. Init => HeldOff
  BY DEF Init, HeldOff
<1>2. TypeOK /\ HeldOff /\ [Next]_vars => HeldOff'
  BY HeldStep
<1>3. TypeOK /\ HeldOff /\ [Next]_vars
        => [beat' # beat /\ programmed /\ phase = NoPhase
              => quick \/ now - fire >= Half]_vars
  BY PacedStep
<1> QED BY <1>1, <1>2, <1>3, TypeCorrect, PTL DEF Spec, Paced
=============================================================================

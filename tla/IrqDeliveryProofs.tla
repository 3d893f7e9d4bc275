--------------------------- MODULE IrqDeliveryProofs ---------------------------
(***************************************************************************)
(* Proofs about IrqDelivery, for any set of lines, any of them delayed,    *)
(* and any delay: no doorbell is lost (DoorbellsRung) and no processor     *)
(* sleeps through an interrupt (NoSleepThrough).                           *)
(***************************************************************************)
EXTENDS IrqDelivery, WellFoundedInduction, TLAPS

(* A line the processor has found to be due stays its next one until it    *)
(* has raised it, and if irq_h starts the line's timer anew in between it  *)
(* rings for it: the processor will not count the line in this round.      *)
DueLine ==
  /\ cpc \in {"rering", "raise"} => todo # {}
  /\ cpc = "raise" /\ timer[First(todo)] # 0 =>
       \/ checkTimers
       \/ ipc = "ringTimers"
       \/ ipc = "scan" /\ First(todo) \in call.left

(* The pause is announced from before its looks at the doorbells until     *)
(* after it has woken.                                                     *)
Announced ==
  cpc \in {"pause", "pause_tmr", "pause_eir", "asleep", "awake"} => sleeping

(* The inductive invariant.                                                *)
Delivery ==
  TypeOK /\ InterruptRung /\ TimersRung /\ DueLine /\ Announced
  /\ NoSleepThrough

-----------------------------------------------------------------------------
(* A non-empty set of natural numbers has a least element.                 *)
LEMMA Least ==
  ASSUME NEW S \in SUBSET Nat, S # {}
  PROVE  \E l \in S : \A k \in S : l <= k
<1> DEFINE R == {ss \in Nat \X Nat : ss[1] < ss[2]}
<1>1. IsWellFoundedOn(R, Nat)
  BY NatLessThanWellFounded, Zenon DEF OpToRel
<1>2. \A x, y \in Nat : x < y => <<x, y>> \in R
  BY Zenon
<1> HIDE DEF R
<1>3. PICK l \in S : \A k \in S : ~(<<k, l>> \in R)
  BY <1>1, WFMin, Zenon
<1>4. \A k \in S : ~(k < l)
  BY <1>2, <1>3, Zenon
<1> QED BY <1>4

(* The loops over the lines look at a line they have not looked at yet.    *)
LEMMA FirstIn ==
  ASSUME NEW S \in SUBSET Line, S # {}
  PROVE  First(S) \in S
<1>1. \E l \in S : \A k \in S : l <= k
  BY Least, IrqAssumption, Zenon
<1> QED BY <1>1, Zenon DEF First

(* irq_h, before it takes a step of its own, leaves the processor, the     *)
(* lines and the doorbells alone.                                          *)
LEMMA IrqBegins ==
  ASSUME \E l \in Line, assert \in BOOLEAN : irq_h(l, assert)
  PROVE  ipc = "idle" /\ ipc' \in {"act", "timer"}
         /\ UNCHANGED <<cpu, lines, bells, fpc>>
<1> PICK l \in Line, assert \in BOOLEAN : irq_h(l, assert)
  BY Zenon
<1> QED
  BY Zenon DEF irq_h

(* The call of irq_h that is none has its type.                            *)
LEMMA NoCallType ==
  NoCall \in [line : Line, assert : BOOLEAN, active : BOOLEAN,
              left : SUBSET Line]
<1>1. (CHOOSE l \in Line : TRUE) \in Line
  BY IrqAssumption, Zenon
<1> QED BY <1>1, Zenon DEF NoCall

(* Every step keeps the types.                                             *)
LEMMA TypeStep ==
  TypeOK /\ DueLine /\ [Next]_vars => TypeOK'
<1> SUFFICES ASSUME TypeOK, DueLine, [Next]_vars
             PROVE  TypeOK'
  BY Zenon
<1> USE IrqAssumption
<1>1. CASE PollTimers
  BY <1>1, Zenon DEF PollTimers, world, lines, bells, guest, TypeOK, CpuSteps,
    IrqSteps
<1>2. CASE honour_dpc_flush_request
  BY <1>2, Zenon DEF honour_dpc_flush_request, world, lines, bells, guest, TypeOK,
    CpuSteps, IrqSteps
<1>3. CASE count_down_irq
  BY <1>3, FirstIn DEF count_down_irq, world, lines, bells, guest, TypeOK,
    CpuSteps, IrqSteps
<1>4. CASE StillCounting
  BY <1>4, FirstIn, Zenon DEF StillCounting, world, lines, bells, guest, TypeOK,
    CpuSteps, IrqSteps
<1>5. CASE RaiseCounted
  <2>1. First(todo) \in todo
    BY <1>5, FirstIn, Zenon DEF RaiseCounted, DueLine, TypeOK
  <2>2. eir' \in SUBSET Line /\ todo' \in SUBSET Line /\ cpc' \in CpuSteps
    BY <1>5, <2>1, Zenon DEF RaiseCounted, TypeOK, CpuSteps
  <2> QED BY <1>5, <2>2, Zenon DEF RaiseCounted, world, bells, guest, TypeOK
<1>6. CASE RingCounted
  BY <1>6, Zenon DEF RingCounted, world, lines, bells, guest, TypeOK, CpuSteps,
    IrqSteps
<1>7. CASE TimersDone
  BY <1>7, Zenon DEF TimersDone, world, lines, bells, guest, TypeOK, CpuSteps,
    IrqSteps
<1>8. CASE PollInt
  BY <1>8, Zenon DEF PollInt, world, lines, bells, guest, TypeOK, CpuSteps, IrqSteps
<1>9. CASE TakeInterrupt
  BY <1>9, Zenon DEF TakeInterrupt, world, lines, bells, guest, TypeOK, CpuSteps,
    IrqSteps
<1>10. CASE NothingToTake
  BY <1>10, Zenon DEF NothingToTake, world, lines, bells, guest, TypeOK, CpuSteps,
    IrqSteps
<1>11. CASE WriteIER
  BY <1>11, Zenon DEF WriteIER, world, lines, bells, guest, TypeOK, CpuSteps,
    IrqSteps
<1>12. CASE KickIER
  BY <1>12, Zenon DEF KickIER, world, lines, bells, guest, TypeOK, CpuSteps, IrqSteps
<1>13. CASE HW_RET
  BY <1>13, Zenon DEF HW_RET, world, lines, bells, guest, TypeOK, CpuSteps, IrqSteps
<1>14. CASE CALL_PAL
  BY <1>14, Zenon DEF CALL_PAL, world, lines, bells, guest, TypeOK, CpuSteps,
    IrqSteps
<1>15. CASE memory_barrier
  BY <1>15, Zenon DEF memory_barrier, world, lines, bells, guest, TypeOK, CpuSteps,
    IrqSteps
<1>16. CASE OtherInstruction
  BY <1>16, Zenon DEF OtherInstruction, world, lines, bells, guest, TypeOK, CpuSteps,
    IrqSteps
<1>17. CASE IdleLoopHead
  BY <1>17, Zenon DEF IdleLoopHead, world, lines, bells, guest, TypeOK, CpuSteps,
    IrqSteps
<1>18. CASE jit_idle_pause
  BY <1>18, Zenon DEF jit_idle_pause, world, lines, bells, guest, TypeOK, CpuSteps,
    IrqSteps
<1>19. CASE PauseUnlessRung
  BY <1>19, Zenon DEF PauseUnlessRung, world, lines, bells, guest, TypeOK, CpuSteps,
    IrqSteps
<1>20. CASE PauseTimeout
  BY <1>20, Zenon DEF PauseTimeout, world, lines, bells, guest, TypeOK, CpuSteps,
    IrqSteps
<1>21. CASE EndPause
  BY <1>21, Zenon DEF EndPause, world, lines, bells, guest, TypeOK, CpuSteps,
    IrqSteps
<1>22. CASE ReadTimer
  BY <1>22, Zenon DEF ReadTimer, cpu, guest, lines, bells, TypeOK, CpuSteps, IrqSteps
<1>23. CASE AssertIdle
  <2>1. eir' \in SUBSET Line /\ timer' \in [Line -> 0 .. Delay]
    <3>1. call.line \in Line /\ Delay \in 0 .. Delay
      BY DEF TypeOK
    <3>2. CASE call.line \in Delayed
      <4>1. eir' = eir /\ timer' = [timer EXCEPT ![call.line] = Delay]
        BY <1>23, <3>2, Zenon DEF AssertIdle
      <4>2. eir \in SUBSET Line /\ timer \in [Line -> 0 .. Delay]
        BY Zenon DEF TypeOK
      <4> QED BY <3>1, <4>1, <4>2, Zenon
    <3>3. CASE call.line \notin Delayed
      BY <1>23, <3>1, <3>3, Zenon DEF AssertIdle, TypeOK
    <3> QED BY <3>2, <3>3, Zenon
  <2>2. ipc' \in IrqSteps
    BY <1>23, Zenon DEF AssertIdle, IrqSteps
  <2> QED BY <1>23, <2>1, <2>2, Zenon DEF AssertIdle, cpu, guest, bells, TypeOK
<1>24. CASE AssertActive
  BY <1>24, Zenon DEF AssertActive, cpu, guest, lines, bells, TypeOK, CpuSteps,
    IrqSteps
<1>25. CASE RingInt
  BY <1>25, Zenon DEF RingInt, cpu, guest, lines, bells, TypeOK, CpuSteps, IrqSteps
<1>26. CASE RingTimers
  BY <1>26, Zenon DEF RingTimers, cpu, guest, lines, bells, TypeOK, CpuSteps,
    IrqSteps
<1>27. CASE idle_wake
  BY <1>27, NoCallType, Zenon DEF idle_wake, cpu, guest, lines, bells, TypeOK,
    CpuSteps, IrqSteps
<1>28. CASE DeassertIdle
  BY <1>28, NoCallType, Zenon DEF DeassertIdle, cpu, guest, lines, bells, TypeOK,
    CpuSteps, IrqSteps
<1>29. CASE DeassertActive
  BY <1>29, Zenon DEF DeassertActive, cpu, guest, lines, bells, TypeOK, CpuSteps,
    IrqSteps
<1>30. CASE CancelTimer
  BY <1>30 DEF CancelTimer, cpu, guest, lines, bells, TypeOK, CpuSteps,
    IrqSteps
<1>31. CASE ClearTimers
  BY <1>31, Zenon DEF ClearTimers, cpu, guest, lines, bells, TypeOK, CpuSteps,
    IrqSteps
<1>32. CASE ScanTimers
  <2>1. CASE call.left = {}
    BY <1>32, <2>1, NoCallType, Zenon DEF ScanTimers, cpu, guest, lines, bells,
      TypeOK, CpuSteps, IrqSteps
  <2>2. CASE call.left # {}
    <3> DEFINE l == First(call.left)
    <3>1. call.left \in SUBSET Line /\ l \in call.left
      BY <2>2, FirstIn, Zenon DEF TypeOK
    <3>2. /\ checkTimers' = (checkTimers \/ timer[l] # 0)
          /\ call' = [call EXCEPT !.left = call.left \ {l}]
          /\ UNCHANGED <<cpu, lines, level, checkInt, flushReq, fpc, ipc>>
          /\ ipc = "scan"
      BY <1>32, <2>2, Zenon DEF ScanTimers
    <3> HIDE DEF l
    <3> QED BY <3>1, <3>2, Zenon DEF cpu, guest, lines, bells, TypeOK, CpuSteps,
      IrqSteps
  <2> QED BY <2>1, <2>2, Zenon
<1>33. CASE request_dpc_flush
  BY <1>33, Zenon DEF request_dpc_flush, cpu, guest, lines, bells, TypeOK, CpuSteps,
    IrqSteps
<1>34. CASE RingFlush
  BY <1>34, ZenonT(60) DEF RingFlush, cpu, guest, lines, bells, TypeOK, CpuSteps, IrqSteps
<1>35. CASE \E l \in Line, assert \in BOOLEAN : irq_h(l, assert)
  BY <1>35 DEF irq_h, cpu, guest, lines, bells, TypeOK, CpuSteps, IrqSteps
<1>36. CASE UNCHANGED vars
  BY <1>36, ZenonT(60) DEF vars, TypeOK, CpuSteps, IrqSteps
<1> QED
  BY <1>1, <1>2, <1>3, <1>4, <1>5, <1>6, <1>7, <1>8, <1>9, <1>10, <1>11,
    <1>12, <1>13, <1>14, <1>15, <1>16, <1>17, <1>18, <1>19, <1>20, <1>21,
    <1>22, <1>23, <1>24, <1>25, <1>26, <1>27, <1>28, <1>29, <1>30, <1>31,
    <1>32, <1>33, <1>34, <1>35, <1>36, Zenon DEF Next, Execute, IrqStep

(* An interrupt to take keeps a doorbell.                                  *)
LEMMA InterruptStep ==
  TypeOK /\ InterruptRung /\ [Next]_vars => InterruptRung'
<1> SUFFICES ASSUME TypeOK, InterruptRung, [Next]_vars
             PROVE  InterruptRung'
  BY Zenon
<1>1. CASE PollTimers
  BY <1>1, Zenon DEF PollTimers, world, lines, bells, guest, InterruptRung,
    Deliverable, TypeOK
<1>2. CASE honour_dpc_flush_request
  BY <1>2, Zenon DEF honour_dpc_flush_request, world, lines, bells, guest,
    InterruptRung, Deliverable, TypeOK
<1>3. CASE count_down_irq
  BY <1>3, Zenon DEF count_down_irq, world, lines, bells, guest, InterruptRung,
    Deliverable, TypeOK
<1>4. CASE StillCounting
  BY <1>4, Zenon DEF StillCounting, world, lines, bells, guest, InterruptRung,
    Deliverable, TypeOK
<1>5. CASE RaiseCounted
  BY <1>5, Zenon DEF RaiseCounted, world, lines, bells, guest, InterruptRung,
    Deliverable, TypeOK
<1>6. CASE RingCounted
  BY <1>6, Zenon DEF RingCounted, world, lines, bells, guest, InterruptRung,
    Deliverable, TypeOK
<1>7. CASE TimersDone
  BY <1>7, Zenon DEF TimersDone, world, lines, bells, guest, InterruptRung,
    Deliverable, TypeOK
<1>8. CASE PollInt
  BY <1>8, Zenon DEF PollInt, world, lines, bells, guest, InterruptRung, Deliverable,
    TypeOK
<1>9. CASE TakeInterrupt
  BY <1>9, Zenon DEF TakeInterrupt, world, lines, bells, guest, InterruptRung,
    Deliverable, TypeOK
<1>10. CASE NothingToTake
  BY <1>10, Zenon DEF NothingToTake, world, lines, bells, guest, InterruptRung,
    Deliverable, TypeOK
<1>11. CASE WriteIER
  BY <1>11, Zenon DEF WriteIER, world, lines, bells, guest, InterruptRung,
    Deliverable, TypeOK
<1>12. CASE KickIER
  BY <1>12, Zenon DEF KickIER, world, lines, bells, guest, InterruptRung,
    Deliverable, TypeOK
<1>13. CASE HW_RET
  BY <1>13, Zenon DEF HW_RET, world, lines, bells, guest, InterruptRung, Deliverable,
    TypeOK
<1>14. CASE CALL_PAL
  BY <1>14, Zenon DEF CALL_PAL, world, lines, bells, guest, InterruptRung,
    Deliverable, TypeOK
<1>15. CASE memory_barrier
  BY <1>15, Zenon DEF memory_barrier, world, lines, bells, guest, InterruptRung,
    Deliverable, TypeOK
<1>16. CASE OtherInstruction
  BY <1>16, Zenon DEF OtherInstruction, world, lines, bells, guest, InterruptRung,
    Deliverable, TypeOK
<1>17. CASE IdleLoopHead
  BY <1>17, Zenon DEF IdleLoopHead, world, lines, bells, guest, InterruptRung,
    Deliverable, TypeOK
<1>18. CASE jit_idle_pause
  BY <1>18, Zenon DEF jit_idle_pause, world, lines, bells, guest, InterruptRung,
    Deliverable, TypeOK
<1>19. CASE PauseUnlessRung
  BY <1>19, Zenon DEF PauseUnlessRung, world, lines, bells, guest, InterruptRung,
    Deliverable, TypeOK
<1>20. CASE PauseTimeout
  BY <1>20, Zenon DEF PauseTimeout, world, lines, bells, guest, InterruptRung,
    Deliverable, TypeOK
<1>21. CASE EndPause
  BY <1>21, Zenon DEF EndPause, world, lines, bells, guest, InterruptRung,
    Deliverable, TypeOK
<1>22. CASE ReadTimer
  BY <1>22, Zenon DEF ReadTimer, cpu, guest, lines, bells, InterruptRung,
    Deliverable, TypeOK
<1>23. CASE AssertIdle
  BY <1>23, Zenon DEF AssertIdle, cpu, guest, lines, bells, InterruptRung,
    Deliverable, TypeOK
<1>24. CASE AssertActive
  BY <1>24, Zenon DEF AssertActive, cpu, guest, lines, bells, InterruptRung,
    Deliverable, TypeOK
<1>25. CASE RingInt
  BY <1>25, Zenon DEF RingInt, cpu, guest, lines, bells, InterruptRung, Deliverable,
    TypeOK
<1>26. CASE RingTimers
  BY <1>26, Zenon DEF RingTimers, cpu, guest, lines, bells, InterruptRung,
    Deliverable, TypeOK
<1>27. CASE idle_wake
  BY <1>27, Zenon DEF idle_wake, cpu, guest, lines, bells, InterruptRung,
    Deliverable, TypeOK
<1>28. CASE DeassertIdle
  BY <1>28, Zenon DEF DeassertIdle, cpu, guest, lines, bells, InterruptRung,
    Deliverable, TypeOK
<1>29. CASE DeassertActive
  BY <1>29, Zenon DEF DeassertActive, cpu, guest, lines, bells, InterruptRung,
    Deliverable, TypeOK
<1>30. CASE CancelTimer
  BY <1>30, Zenon DEF CancelTimer, cpu, guest, lines, bells, InterruptRung,
    Deliverable, TypeOK
<1>31. CASE ClearTimers
  BY <1>31, Zenon DEF ClearTimers, cpu, guest, lines, bells, InterruptRung,
    Deliverable, TypeOK
<1>32. CASE ScanTimers
  BY <1>32, Zenon DEF ScanTimers, cpu, guest, lines, bells, InterruptRung,
    Deliverable, TypeOK
<1>33. CASE request_dpc_flush
  BY <1>33, Zenon DEF request_dpc_flush, cpu, guest, lines, bells, InterruptRung,
    Deliverable, TypeOK
<1>34. CASE RingFlush
  BY <1>34, Zenon DEF RingFlush, cpu, guest, lines, bells, InterruptRung,
    Deliverable, TypeOK
<1>35. CASE \E l \in Line, assert \in BOOLEAN : irq_h(l, assert)
  BY <1>35, IrqBegins, Zenon DEF cpu, guest, lines, bells, InterruptRung, Deliverable,
    TypeOK
<1>36. CASE UNCHANGED vars
  BY <1>36, Zenon DEF vars, InterruptRung, Deliverable, TypeOK
<1> QED
  BY <1>1, <1>2, <1>3, <1>4, <1>5, <1>6, <1>7, <1>8, <1>9, <1>10, <1>11,
    <1>12, <1>13, <1>14, <1>15, <1>16, <1>17, <1>18, <1>19, <1>20, <1>21,
    <1>22, <1>23, <1>24, <1>25, <1>26, <1>27, <1>28, <1>29, <1>30, <1>31,
    <1>32, <1>33, <1>34, <1>35, <1>36, Zenon DEF Next, Execute, IrqStep

(* A delayed line stays announced.                                         *)
LEMMA TimersStep ==
  TypeOK /\ TimersRung /\ DueLine /\ [Next]_vars => TimersRung'
<1> SUFFICES ASSUME TypeOK, TimersRung, DueLine, [Next]_vars
             PROVE  TimersRung'
  BY Zenon
<1>1. CASE PollTimers
  BY <1>1, Zenon DEF PollTimers, world, lines, bells, guest, TimersRung, TypeOK
<1>2. CASE honour_dpc_flush_request
  BY <1>2, Zenon DEF honour_dpc_flush_request, world, lines, bells, guest,
    TimersRung, TypeOK
<1>3. CASE count_down_irq
  BY <1>3, FirstIn DEF count_down_irq, world, lines, bells, guest, TimersRung,
    TypeOK
<1>4. CASE StillCounting
  BY <1>4, FirstIn, Zenon DEF StillCounting, world, lines, bells, guest, TimersRung,
    TypeOK
<1>5. CASE RaiseCounted
  BY <1>5, FirstIn DEF RaiseCounted, world, lines, bells, guest, TimersRung,
    DueLine, TypeOK
<1>6. CASE RingCounted
  BY <1>6, Zenon DEF RingCounted, world, lines, bells, guest, TimersRung, TypeOK
<1>7. CASE TimersDone
  BY <1>7, Zenon DEF TimersDone, world, lines, bells, guest, TimersRung, TypeOK
<1>8. CASE PollInt
  BY <1>8, Zenon DEF PollInt, world, lines, bells, guest, TimersRung, TypeOK
<1>9. CASE TakeInterrupt
  BY <1>9, Zenon DEF TakeInterrupt, world, lines, bells, guest, TimersRung, TypeOK
<1>10. CASE NothingToTake
  BY <1>10, Zenon DEF NothingToTake, world, lines, bells, guest, TimersRung, TypeOK
<1>11. CASE WriteIER
  BY <1>11, Zenon DEF WriteIER, world, lines, bells, guest, TimersRung, TypeOK
<1>12. CASE KickIER
  BY <1>12, Zenon DEF KickIER, world, lines, bells, guest, TimersRung, TypeOK
<1>13. CASE HW_RET
  BY <1>13, Zenon DEF HW_RET, world, lines, bells, guest, TimersRung, TypeOK
<1>14. CASE CALL_PAL
  BY <1>14, Zenon DEF CALL_PAL, world, lines, bells, guest, TimersRung, TypeOK
<1>15. CASE memory_barrier
  BY <1>15, Zenon DEF memory_barrier, world, lines, bells, guest, TimersRung, TypeOK
<1>16. CASE OtherInstruction
  BY <1>16, Zenon DEF OtherInstruction, world, lines, bells, guest, TimersRung,
    TypeOK
<1>17. CASE IdleLoopHead
  BY <1>17, Zenon DEF IdleLoopHead, world, lines, bells, guest, TimersRung, TypeOK
<1>18. CASE jit_idle_pause
  BY <1>18, Zenon DEF jit_idle_pause, world, lines, bells, guest, TimersRung, TypeOK
<1>19. CASE PauseUnlessRung
  BY <1>19, Zenon DEF PauseUnlessRung, world, lines, bells, guest, TimersRung, TypeOK
<1>20. CASE PauseTimeout
  BY <1>20, Zenon DEF PauseTimeout, world, lines, bells, guest, TimersRung, TypeOK
<1>21. CASE EndPause
  BY <1>21, Zenon DEF EndPause, world, lines, bells, guest, TimersRung, TypeOK
<1>22. CASE ReadTimer
  BY <1>22, Zenon DEF ReadTimer, cpu, guest, lines, bells, TimersRung, TypeOK
<1>23. CASE AssertIdle
  BY <1>23, Zenon DEF AssertIdle, cpu, guest, lines, bells, TimersRung, TypeOK
<1>24. CASE AssertActive
  BY <1>24, Zenon DEF AssertActive, cpu, guest, lines, bells, TimersRung, TypeOK
<1>25. CASE RingInt
  BY <1>25, Zenon DEF RingInt, cpu, guest, lines, bells, TimersRung, TypeOK
<1>26. CASE RingTimers
  BY <1>26, Zenon DEF RingTimers, cpu, guest, lines, bells, TimersRung, TypeOK
<1>27. CASE idle_wake
  BY <1>27, Zenon DEF idle_wake, cpu, guest, lines, bells, TimersRung, TypeOK
<1>28. CASE DeassertIdle
  BY <1>28, Zenon DEF DeassertIdle, cpu, guest, lines, bells, TimersRung, TypeOK
<1>29. CASE DeassertActive
  BY <1>29, Zenon DEF DeassertActive, cpu, guest, lines, bells, TimersRung, TypeOK
<1>30. CASE CancelTimer
  BY <1>30, Zenon DEF CancelTimer, cpu, guest, lines, bells, TimersRung, TypeOK
<1>31. CASE ClearTimers
  BY <1>31, Zenon DEF ClearTimers, cpu, guest, lines, bells, TimersRung, TypeOK
<1>32. CASE ScanTimers
  <2>1. CASE call.left = {}
    BY <1>32, <2>1, Zenon DEF ScanTimers, cpu, guest, lines, bells, TimersRung,
      TypeOK
  <2>2. CASE call.left # {}
    <3> DEFINE l == First(call.left)
    <3>1. call.left \in SUBSET Line /\ l \in call.left
      BY <2>2, FirstIn, Zenon DEF TypeOK
    <3>2. /\ checkTimers' = (checkTimers \/ timer[l] # 0)
          /\ call' = [call EXCEPT !.left = call.left \ {l}]
          /\ UNCHANGED <<cpu, lines, level, checkInt, flushReq, fpc, ipc>>
          /\ ipc = "scan"
      BY <1>32, <2>2, Zenon DEF ScanTimers
    <3> HIDE DEF l
    <3> QED BY <3>1, <3>2, Zenon DEF cpu, guest, lines, bells, TimersRung, TypeOK
  <2> QED BY <2>1, <2>2, Zenon
<1>33. CASE request_dpc_flush
  BY <1>33, Zenon DEF request_dpc_flush, cpu, guest, lines, bells, TimersRung, TypeOK
<1>34. CASE RingFlush
  BY <1>34, Zenon DEF RingFlush, cpu, guest, lines, bells, TimersRung, TypeOK
<1>35. CASE \E l \in Line, assert \in BOOLEAN : irq_h(l, assert)
  BY <1>35, IrqBegins DEF cpu, guest, lines, bells, TimersRung, TypeOK
<1>36. CASE UNCHANGED vars
  BY <1>36, Zenon DEF vars, TimersRung, TypeOK
<1> QED
  BY <1>1, <1>2, <1>3, <1>4, <1>5, <1>6, <1>7, <1>8, <1>9, <1>10, <1>11,
    <1>12, <1>13, <1>14, <1>15, <1>16, <1>17, <1>18, <1>19, <1>20, <1>21,
    <1>22, <1>23, <1>24, <1>25, <1>26, <1>27, <1>28, <1>29, <1>30, <1>31,
    <1>32, <1>33, <1>34, <1>35, <1>36, Zenon DEF Next, Execute, IrqStep

(* A line found due is raised, or announced again.                         *)
LEMMA DueStep ==
  TypeOK /\ DueLine /\ [Next]_vars => DueLine'
<1> SUFFICES ASSUME TypeOK, DueLine, [Next]_vars
             PROVE  DueLine'
  BY Zenon
<1>1. CASE PollTimers
  BY <1>1, Zenon DEF PollTimers, world, lines, bells, guest, DueLine, TypeOK
<1>2. CASE honour_dpc_flush_request
  BY <1>2, Zenon DEF honour_dpc_flush_request, world, lines, bells, guest, DueLine,
    TypeOK
<1>3. CASE count_down_irq
  BY <1>3, FirstIn DEF count_down_irq, world, lines, bells, guest, DueLine,
    TypeOK
<1>4. CASE StillCounting
  BY <1>4, Zenon DEF StillCounting, world, lines, bells, guest, DueLine, TypeOK
<1>5. CASE RaiseCounted
  BY <1>5, Zenon DEF RaiseCounted, world, lines, bells, guest, DueLine, TypeOK
<1>6. CASE RingCounted
  BY <1>6, Zenon DEF RingCounted, world, lines, bells, guest, DueLine, TypeOK
<1>7. CASE TimersDone
  BY <1>7, Zenon DEF TimersDone, world, lines, bells, guest, DueLine, TypeOK
<1>8. CASE PollInt
  BY <1>8, Zenon DEF PollInt, world, lines, bells, guest, DueLine, TypeOK
<1>9. CASE TakeInterrupt
  BY <1>9, Zenon DEF TakeInterrupt, world, lines, bells, guest, DueLine, TypeOK
<1>10. CASE NothingToTake
  BY <1>10, Zenon DEF NothingToTake, world, lines, bells, guest, DueLine, TypeOK
<1>11. CASE WriteIER
  BY <1>11, Zenon DEF WriteIER, world, lines, bells, guest, DueLine, TypeOK
<1>12. CASE KickIER
  BY <1>12, Zenon DEF KickIER, world, lines, bells, guest, DueLine, TypeOK
<1>13. CASE HW_RET
  BY <1>13, Zenon DEF HW_RET, world, lines, bells, guest, DueLine, TypeOK
<1>14. CASE CALL_PAL
  BY <1>14, Zenon DEF CALL_PAL, world, lines, bells, guest, DueLine, TypeOK
<1>15. CASE memory_barrier
  BY <1>15, Zenon DEF memory_barrier, world, lines, bells, guest, DueLine, TypeOK
<1>16. CASE OtherInstruction
  BY <1>16, Zenon DEF OtherInstruction, world, lines, bells, guest, DueLine, TypeOK
<1>17. CASE IdleLoopHead
  BY <1>17, Zenon DEF IdleLoopHead, world, lines, bells, guest, DueLine, TypeOK
<1>18. CASE jit_idle_pause
  BY <1>18, Zenon DEF jit_idle_pause, world, lines, bells, guest, DueLine, TypeOK
<1>19. CASE PauseUnlessRung
  BY <1>19, Zenon DEF PauseUnlessRung, world, lines, bells, guest, DueLine, TypeOK
<1>20. CASE PauseTimeout
  BY <1>20, Zenon DEF PauseTimeout, world, lines, bells, guest, DueLine, TypeOK
<1>21. CASE EndPause
  BY <1>21, Zenon DEF EndPause, world, lines, bells, guest, DueLine, TypeOK
<1>22. CASE ReadTimer
  BY <1>22, Zenon DEF ReadTimer, cpu, guest, lines, bells, DueLine, TypeOK
<1>23. CASE AssertIdle
  BY <1>23, FirstIn, Zenon DEF AssertIdle, cpu, guest, lines, bells, DueLine, TypeOK
<1>24. CASE AssertActive
  BY <1>24, Zenon DEF AssertActive, cpu, guest, lines, bells, DueLine, TypeOK
<1>25. CASE RingInt
  BY <1>25, Zenon DEF RingInt, cpu, guest, lines, bells, DueLine, TypeOK
<1>26. CASE RingTimers
  BY <1>26, Zenon DEF RingTimers, cpu, guest, lines, bells, DueLine, TypeOK
<1>27. CASE idle_wake
  BY <1>27, Zenon DEF idle_wake, cpu, guest, lines, bells, DueLine, TypeOK
<1>28. CASE DeassertIdle
  BY <1>28, Zenon DEF DeassertIdle, cpu, guest, lines, bells, DueLine, TypeOK
<1>29. CASE DeassertActive
  BY <1>29, Zenon DEF DeassertActive, cpu, guest, lines, bells, DueLine, TypeOK
<1>30. CASE CancelTimer
  BY <1>30, FirstIn DEF CancelTimer, cpu, guest, lines, bells, DueLine, TypeOK
<1>31. CASE ClearTimers
  BY <1>31, FirstIn, Zenon DEF ClearTimers, cpu, guest, lines, bells, DueLine, TypeOK
<1>32. CASE ScanTimers
  <2>1. CASE call.left = {}
    BY <1>32, <2>1, Zenon DEF ScanTimers, cpu, guest, lines, bells, DueLine, TypeOK
  <2>2. CASE call.left # {}
    <3> DEFINE l == First(call.left)
    <3>1. call.left \in SUBSET Line /\ l \in call.left
      BY <2>2, FirstIn, Zenon DEF TypeOK
    <3>2. /\ checkTimers' = (checkTimers \/ timer[l] # 0)
          /\ call' = [call EXCEPT !.left = call.left \ {l}]
          /\ UNCHANGED <<cpu, lines, level, checkInt, flushReq, fpc, ipc>>
          /\ ipc = "scan"
      BY <1>32, <2>2, Zenon DEF ScanTimers
    <3> HIDE DEF l
    <3> QED BY <3>1, <3>2, Zenon DEF cpu, guest, lines, bells, DueLine, TypeOK
  <2> QED BY <2>1, <2>2, Zenon
<1>33. CASE request_dpc_flush
  BY <1>33, Zenon DEF request_dpc_flush, cpu, guest, lines, bells, DueLine, TypeOK
<1>34. CASE RingFlush
  BY <1>34, Zenon DEF RingFlush, cpu, guest, lines, bells, DueLine, TypeOK
<1>35. CASE \E l \in Line, assert \in BOOLEAN : irq_h(l, assert)
  BY <1>35, IrqBegins, Zenon DEF cpu, guest, lines, bells, DueLine, TypeOK
<1>36. CASE UNCHANGED vars
  BY <1>36, Zenon DEF vars, DueLine, TypeOK
<1> QED
  BY <1>1, <1>2, <1>3, <1>4, <1>5, <1>6, <1>7, <1>8, <1>9, <1>10, <1>11,
    <1>12, <1>13, <1>14, <1>15, <1>16, <1>17, <1>18, <1>19, <1>20, <1>21,
    <1>22, <1>23, <1>24, <1>25, <1>26, <1>27, <1>28, <1>29, <1>30, <1>31,
    <1>32, <1>33, <1>34, <1>35, <1>36, Zenon DEF Next, Execute, IrqStep

(* A sleeping processor has announced it, and is woken.                    *)
LEMMA SleepStep ==
  TypeOK /\ Announced /\ NoSleepThrough /\ [Next]_vars
    => Announced' /\ NoSleepThrough'
<1> SUFFICES ASSUME TypeOK, Announced, NoSleepThrough, [Next]_vars
             PROVE  Announced' /\ NoSleepThrough'
  BY Zenon
<1>1. CASE PollTimers
  BY <1>1, Zenon DEF PollTimers, world, lines, bells, guest, Announced,
    NoSleepThrough, TypeOK
<1>2. CASE honour_dpc_flush_request
  BY <1>2, Zenon DEF honour_dpc_flush_request, world, lines, bells, guest, Announced,
    NoSleepThrough, TypeOK
<1>3. CASE count_down_irq
  BY <1>3, Zenon DEF count_down_irq, world, lines, bells, guest, Announced,
    NoSleepThrough, TypeOK
<1>4. CASE StillCounting
  BY <1>4, Zenon DEF StillCounting, world, lines, bells, guest, Announced,
    NoSleepThrough, TypeOK
<1>5. CASE RaiseCounted
  BY <1>5, Zenon DEF RaiseCounted, world, lines, bells, guest, Announced,
    NoSleepThrough, TypeOK
<1>6. CASE RingCounted
  BY <1>6, Zenon DEF RingCounted, world, lines, bells, guest, Announced,
    NoSleepThrough, TypeOK
<1>7. CASE TimersDone
  BY <1>7, Zenon DEF TimersDone, world, lines, bells, guest, Announced,
    NoSleepThrough, TypeOK
<1>8. CASE PollInt
  BY <1>8, Zenon DEF PollInt, world, lines, bells, guest, Announced, NoSleepThrough,
    TypeOK
<1>9. CASE TakeInterrupt
  BY <1>9, Zenon DEF TakeInterrupt, world, lines, bells, guest, Announced,
    NoSleepThrough, TypeOK
<1>10. CASE NothingToTake
  BY <1>10, Zenon DEF NothingToTake, world, lines, bells, guest, Announced,
    NoSleepThrough, TypeOK
<1>11. CASE WriteIER
  BY <1>11, Zenon DEF WriteIER, world, lines, bells, guest, Announced,
    NoSleepThrough, TypeOK
<1>12. CASE KickIER
  BY <1>12, Zenon DEF KickIER, world, lines, bells, guest, Announced, NoSleepThrough,
    TypeOK
<1>13. CASE HW_RET
  BY <1>13, Zenon DEF HW_RET, world, lines, bells, guest, Announced, NoSleepThrough,
    TypeOK
<1>14. CASE CALL_PAL
  BY <1>14, Zenon DEF CALL_PAL, world, lines, bells, guest, Announced,
    NoSleepThrough, TypeOK
<1>15. CASE memory_barrier
  BY <1>15, Zenon DEF memory_barrier, world, lines, bells, guest, Announced,
    NoSleepThrough, TypeOK
<1>16. CASE OtherInstruction
  BY <1>16, Zenon DEF OtherInstruction, world, lines, bells, guest, Announced,
    NoSleepThrough, TypeOK
<1>17. CASE IdleLoopHead
  BY <1>17, Zenon DEF IdleLoopHead, world, lines, bells, guest, Announced,
    NoSleepThrough, TypeOK
<1>18. CASE jit_idle_pause
  BY <1>18, Zenon DEF jit_idle_pause, world, lines, bells, guest, Announced,
    NoSleepThrough, TypeOK
<1>19. CASE PauseUnlessRung
  BY <1>19, Zenon DEF PauseUnlessRung, world, lines, bells, guest, Announced,
    NoSleepThrough, TypeOK
<1>20. CASE PauseTimeout
  BY <1>20, Zenon DEF PauseTimeout, world, lines, bells, guest, Announced,
    NoSleepThrough, TypeOK
<1>21. CASE EndPause
  BY <1>21, Zenon DEF EndPause, world, lines, bells, guest, Announced,
    NoSleepThrough, TypeOK
<1>22. CASE ReadTimer
  BY <1>22, Zenon DEF ReadTimer, cpu, guest, lines, bells, Announced, NoSleepThrough,
    TypeOK
<1>23. CASE AssertIdle
  BY <1>23, Zenon DEF AssertIdle, cpu, guest, lines, bells, Announced,
    NoSleepThrough, TypeOK
<1>24. CASE AssertActive
  BY <1>24, Zenon DEF AssertActive, cpu, guest, lines, bells, Announced,
    NoSleepThrough, TypeOK
<1>25. CASE RingInt
  BY <1>25, Zenon DEF RingInt, cpu, guest, lines, bells, Announced, NoSleepThrough,
    TypeOK
<1>26. CASE RingTimers
  BY <1>26, Zenon DEF RingTimers, cpu, guest, lines, bells, Announced,
    NoSleepThrough, TypeOK
<1>27. CASE idle_wake
  BY <1>27, Zenon DEF idle_wake, cpu, guest, lines, bells, Announced, NoSleepThrough,
    TypeOK
<1>28. CASE DeassertIdle
  BY <1>28, Zenon DEF DeassertIdle, cpu, guest, lines, bells, Announced,
    NoSleepThrough, TypeOK
<1>29. CASE DeassertActive
  BY <1>29, Zenon DEF DeassertActive, cpu, guest, lines, bells, Announced,
    NoSleepThrough, TypeOK
<1>30. CASE CancelTimer
  BY <1>30, Zenon DEF CancelTimer, cpu, guest, lines, bells, Announced,
    NoSleepThrough, TypeOK
<1>31. CASE ClearTimers
  BY <1>31, Zenon DEF ClearTimers, cpu, guest, lines, bells, Announced,
    NoSleepThrough, TypeOK
<1>32. CASE ScanTimers
  BY <1>32, Zenon DEF ScanTimers, cpu, guest, lines, bells, Announced,
    NoSleepThrough, TypeOK
<1>33. CASE request_dpc_flush
  BY <1>33, Zenon DEF request_dpc_flush, cpu, guest, lines, bells, Announced,
    NoSleepThrough, TypeOK
<1>34. CASE RingFlush
  BY <1>34, Zenon DEF RingFlush, cpu, guest, lines, bells, Announced, NoSleepThrough,
    TypeOK
<1>35. CASE \E l \in Line, assert \in BOOLEAN : irq_h(l, assert)
  BY <1>35, IrqBegins, Zenon DEF cpu, guest, lines, bells, Announced, NoSleepThrough,
    TypeOK
<1>36. CASE UNCHANGED vars
  BY <1>36, Zenon DEF vars, Announced, NoSleepThrough, TypeOK
<1> QED
  BY <1>1, <1>2, <1>3, <1>4, <1>5, <1>6, <1>7, <1>8, <1>9, <1>10, <1>11,
    <1>12, <1>13, <1>14, <1>15, <1>16, <1>17, <1>18, <1>19, <1>20, <1>21,
    <1>22, <1>23, <1>24, <1>25, <1>26, <1>27, <1>28, <1>29, <1>30, <1>31,
    <1>32, <1>33, <1>34, <1>35, <1>36, ZenonT(60) DEF Next, Execute, IrqStep

-----------------------------------------------------------------------------
(* Initially no line is asserted.                                          *)
LEMMA InitDelivery == Init => Delivery
<1> SUFFICES ASSUME Init
             PROVE  Delivery
  BY Zenon
<1>1. TypeOK
  <2>1. level \in [Line -> BOOLEAN] /\ timer \in [Line -> 0 .. Delay]
    BY IrqAssumption DEF Init
  <2>2. {checkInt, checkTimers, flushReq, pal, resignal, sleeping}
          \subseteq BOOLEAN
    BY Zenon DEF Init
  <2>3. /\ eir \in SUBSET Line /\ eien \in SUBSET Line /\ todo \in SUBSET Line
        /\ cpc \in CpuSteps /\ ipc \in IrqSteps /\ fpc \in {"idle", "ring"}
    BY Zenon DEF Init, CpuSteps, IrqSteps
  <2> QED BY <2>1, <2>2, <2>3, NoCallType, Zenon DEF Init, TypeOK
<1>2. InterruptRung /\ TimersRung
  BY Zenon DEF Init, InterruptRung, TimersRung, Deliverable
<1>3. DueLine /\ Announced /\ NoSleepThrough
  BY Zenon DEF Init, DueLine, Announced, NoSleepThrough
<1> QED BY <1>1, <1>2, <1>3, Zenon DEF Delivery

(* The inductive invariant of the delivery.                                *)
LEMMA DeliveryInductive == Spec => []Delivery
<1>1. Delivery /\ [Next]_vars => Delivery'
  BY TypeStep, InterruptStep, TimersStep, DueStep, SleepStep, Zenon DEF Delivery
<1> QED BY InitDelivery, <1>1, PTL DEF Spec

(* No doorbell is lost: whatever irq_h, execute() and request_dpc_flush do *)
(* to check_int, check_timers and the lines between each other's steps, an *)
(* interrupt to take has its check_int and every delayed line, of however  *)
(* many, its check_timers.                                                 *)
THEOREM BellsKept == Spec => []DoorbellsRung
<1>1. Delivery => DoorbellsRung
  BY Zenon DEF Delivery, DoorbellsRung
<1> QED BY DeliveryInductive, <1>1, PTL

(* A processor paused in jit_idle_pause with a line high is about to be    *)
(* notified by the irq_h that raised it (idle_wake under m_idle_mx).       *)
THEOREM SleeperWoken == Spec => []NoSleepThrough
<1>1. Delivery => NoSleepThrough
  BY Zenon DEF Delivery
<1> QED BY DeliveryInductive, <1>1, PTL
=============================================================================

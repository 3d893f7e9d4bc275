---------------------------- MODULE IrqDelivery ----------------------------
(***************************************************************************)
(* How an external interrupt reaches one processor: irq_h, called by the   *)
(* chipset under its lock; the delayed lines a processor counts down       *)
(* itself; the two doorbells check_int and check_timers; execute()'s poll; *)
(* the pause of an idle processor; and request_dpc_flush, which rings the  *)
(* timers' doorbell for another purpose.                                   *)
(*                                                                         *)
(* Each access to a word two threads share is one step.  count_down_irq's  *)
(* load and compare-exchange are one: a failed exchange reads again.       *)
(* Software interrupts and ASTs are the processor's own and left out.      *)
(***************************************************************************)
EXTENDS Naturals, FiniteSets

CONSTANTS Line,      \* external interrupt lines, by number
          Delayed,   \* the ones the chipset raises with a delay (0 and 1)
          Delay      \* that delay in instructions: 100 in the code

ASSUME IrqAssumption ==
  /\ IsFiniteSet(Line) /\ Line \subseteq Nat /\ Line # {}
  /\ Delayed \subseteq Line
  /\ Delay \in Nat \ {0}

VARIABLES
  level,        \* what the chipset last drove each line to
  eir, timer,   \* state.eir, state.irq_h_timer
  checkInt, checkTimers, flushReq,   \* check_int, check_timers, m_dpc_flush_req
  eien,         \* IER: the lines enabled
  pal,          \* in PALmode (bit 0 of the PC)
  resignal,     \* m_int_resignal
  sleeping,     \* m_idle_sleeping
  cpc, todo,    \* where the processor is, the lines it has not counted yet
  ipc, call,    \* where the chipset is in irq_h, and its arguments
  fpc           \* where another processor is in request_dpc_flush

world == <<level, ipc, call, fpc>>
lines == <<eir, timer>>
bells == <<checkInt, checkTimers, flushReq>>
guest == <<eien, pal, resignal>>
cpu   == <<guest, sleeping, cpc, todo>>
vars == <<level, eir, timer, checkInt, checkTimers, flushReq, eien, pal,
          resignal, sleeping, cpc, todo, ipc, call, fpc>>

CpuSteps == {"timers", "honour", "count", "rering", "raise", "ring", "int",
             "test", "exec", "ier", "idle", "pause", "pause_tmr",
             "pause_eir", "asleep", "awake"}

IrqSteps == {"idle", "timer", "act", "ringInt", "ringTimers", "cancel",
             "clear", "scan", "wake"}

TypeOK ==
  /\ level \in [Line -> BOOLEAN]
  /\ eir \in SUBSET Line
  /\ timer \in [Line -> 0 .. Delay]
  /\ {checkInt, checkTimers, flushReq, pal, resignal, sleeping} \subseteq BOOLEAN
  /\ eien \in SUBSET Line
  /\ cpc \in CpuSteps
  /\ todo \in SUBSET Line
  /\ ipc \in IrqSteps
  /\ call \in [line : Line, assert : BOOLEAN, active : BOOLEAN, left : SUBSET Line]
  /\ fpc \in {"idle", "ring"}

NoCall == [line |-> CHOOSE l \in Line : TRUE, assert |-> FALSE,
           active |-> FALSE, left |-> {}]

Init ==
  /\ level = [l \in Line |-> FALSE]
  /\ eir = {}
  /\ timer = [l \in Line |-> 0]
  /\ checkInt = FALSE /\ checkTimers = FALSE /\ flushReq = FALSE
  /\ eien = {}
  /\ pal = TRUE
  /\ resignal = FALSE
  /\ sleeping = FALSE
  /\ cpc = "timers" /\ todo = {}
  /\ ipc = "idle" /\ call = NoCall
  /\ fpc = "idle"

Deliverable == eien \cap eir # {}

First(S) == CHOOSE l \in S : \A k \in S : l <= k

(***************************************************************************)
(* execute(): before each instruction the timers, then the interrupts.     *)
(***************************************************************************)
PollTimers ==
  /\ cpc = "timers"
  /\ checkTimers' = FALSE
  /\ cpc' = IF checkTimers THEN "honour" ELSE "int"
  /\ todo' = IF checkTimers THEN Line ELSE {}
  /\ UNCHANGED <<world, lines, guest, checkInt, flushReq, sleeping>>

honour_dpc_flush_request ==
  /\ cpc = "honour"
  /\ flushReq' = FALSE
  /\ cpc' = "count"
  /\ UNCHANGED <<world, lines, guest, checkInt, checkTimers, sleeping, todo>>

count_down_irq ==
  /\ cpc = "count" /\ todo # {}
  /\ LET l == First(todo)
         next == IF timer[l] = 0 THEN 0 ELSE timer[l] - 1
     IN /\ timer' = [timer EXCEPT ![l] = next]
        /\ cpc' = CASE timer[l] = 0 -> "count"
                    [] timer[l] = 1 -> "raise"
                    [] OTHER -> "rering"
        /\ todo' = IF timer[l] = 0 THEN todo \ {l} ELSE todo
  /\ UNCHANGED <<world, bells, guest, eir, sleeping>>

StillCounting ==
  /\ cpc = "rering"
  /\ checkTimers' = TRUE
  /\ todo' = todo \ {First(todo)}
  /\ cpc' = "count"
  /\ UNCHANGED <<world, lines, guest, checkInt, flushReq, sleeping>>

RaiseCounted ==
  /\ cpc = "raise"
  /\ eir' = eir \cup {First(todo)}
  /\ todo' = todo \ {First(todo)}
  /\ cpc' = "ring"
  /\ UNCHANGED <<world, bells, guest, timer, sleeping>>

RingCounted ==
  /\ cpc = "ring"
  /\ checkInt' = TRUE
  /\ cpc' = "count"
  /\ UNCHANGED <<world, lines, guest, checkTimers, flushReq, sleeping, todo>>

TimersDone ==
  /\ cpc = "count" /\ todo = {}
  /\ cpc' = "int"
  /\ UNCHANGED <<world, lines, bells, guest, sleeping, todo>>

\* The doorbell is cleared before what it announces is looked at.
PollInt ==
  /\ cpc = "int"
  /\ cpc' = IF checkInt /\ ~pal THEN "test" ELSE "exec"
  /\ checkInt' = (checkInt /\ pal)
  /\ UNCHANGED <<world, lines, guest, checkTimers, flushReq, sleeping, todo>>

TakeInterrupt ==
  /\ cpc = "test" /\ Deliverable
  /\ pal' = TRUE /\ resignal' = TRUE
  /\ cpc' = "timers"
  /\ UNCHANGED <<world, lines, bells, eien, sleeping, todo>>

NothingToTake ==
  /\ cpc = "test" /\ ~Deliverable
  /\ cpc' = "exec"
  /\ UNCHANGED <<world, lines, bells, guest, sleeping, todo>>

(***************************************************************************)
(* The guest's instruction, as far as it matters here.                     *)
(***************************************************************************)
WriteIER ==
  /\ cpc = "exec" /\ pal
  /\ eien' \in SUBSET Line
  /\ cpc' = "ier"
  /\ UNCHANGED <<world, lines, bells, pal, resignal, sleeping, todo>>

KickIER ==
  /\ cpc = "ier"
  /\ checkInt' = (checkInt \/ Deliverable)
  /\ cpc' = "timers"
  /\ UNCHANGED <<world, lines, guest, checkTimers, flushReq, sleeping, todo>>

\* Mutant: the return to a lower mode does not ring for what it unmasks.
HW_RET_Quiet ==
  /\ cpc = "exec" /\ pal
  /\ pal' = FALSE /\ resignal' = FALSE
  /\ cpc' = "timers"
  /\ UNCHANGED <<world, lines, bells, eien, sleeping, todo>>

HW_RET ==
  /\ cpc = "exec" /\ pal
  /\ pal' = FALSE /\ resignal' = FALSE
  /\ checkInt' = (checkInt \/ resignal)
  /\ cpc' = "timers"
  /\ UNCHANGED <<world, lines, checkTimers, flushReq, eien, sleeping, todo>>

CALL_PAL ==
  /\ cpc = "exec" /\ ~pal
  /\ pal' = TRUE
  /\ cpc' = "timers"
  /\ UNCHANGED <<world, lines, bells, eien, resignal, sleeping, todo>>

memory_barrier ==
  /\ cpc = "exec"
  /\ flushReq' = FALSE
  /\ cpc' = "timers"
  /\ UNCHANGED <<world, lines, guest, checkInt, checkTimers, sleeping, todo>>

OtherInstruction ==
  /\ cpc = "exec"
  /\ cpc' = "timers"
  /\ UNCHANGED <<world, lines, bells, guest, sleeping, todo>>

(***************************************************************************)
(* At the head of a guest's idle loop with nothing pending, jit_idle_pause *)
(* holds m_idle_mx from here until it waits, and from waking until it      *)
(* leaves.                                                                 *)
(***************************************************************************)
IdleLoopHead ==
  /\ cpc = "exec" /\ ~pal
  /\ ~checkInt /\ eir = {} /\ ~checkTimers
  /\ cpc' = "idle"
  /\ UNCHANGED <<world, lines, bells, guest, sleeping, todo>>

jit_idle_pause ==
  /\ cpc = "idle"
  /\ sleeping' = TRUE
  /\ cpc' = "pause"
  /\ UNCHANGED <<world, lines, bells, guest, todo>>

\* Mutant: goes to sleep without looking at the doorbells.
PauseAnyway ==
  /\ cpc \in {"pause", "pause_tmr", "pause_eir"}
  /\ cpc' = "asleep"
  /\ UNCHANGED <<world, lines, bells, guest, sleeping, todo>>

PauseUnlessRung ==
  /\ \/ cpc = "pause"     /\ cpc' = IF checkInt THEN "awake" ELSE "pause_tmr"
     \/ cpc = "pause_tmr" /\ cpc' = IF checkTimers THEN "awake" ELSE "pause_eir"
     \/ cpc = "pause_eir" /\ cpc' = IF eir # {} THEN "awake" ELSE "asleep"
  /\ UNCHANGED <<world, lines, bells, guest, sleeping, todo>>

\* Mutant: a pause without a limit.
PauseForever == FALSE

\* One millisecond, or the processor's next tick.
PauseTimeout ==
  /\ cpc = "asleep"
  /\ cpc' = "awake"
  /\ UNCHANGED <<world, lines, bells, guest, sleeping, todo>>

EndPause ==
  /\ cpc = "awake"
  /\ sleeping' = FALSE
  /\ cpc' = "timers"
  /\ UNCHANGED <<world, lines, bells, guest, todo>>

(***************************************************************************)
(* irq_h(number, assert, delay).  The chipset calls it under its lock, so  *)
(* there is one call at a time; it drives a line again on any change and   *)
(* on every tick, whether or not the line's level changed.                 *)
(***************************************************************************)
irq_h(l, assert) ==
  /\ ipc = "idle"
  /\ level' = [level EXCEPT ![l] = assert]
  /\ call' = [line |-> l, assert |-> assert, active |-> l \in eir, left |-> {}]
  /\ ipc' = IF l \in eir THEN "act" ELSE "timer"
  /\ UNCHANGED <<cpu, lines, bells, fpc>>

ReadTimer ==
  /\ ipc = "timer"
  /\ call' = [call EXCEPT !.active = timer[call.line] # 0]
  /\ ipc' = "act"
  /\ UNCHANGED <<cpu, lines, bells, level, fpc>>

AssertIdle ==
  /\ ipc = "act" /\ call.assert /\ ~call.active
  /\ IF call.line \in Delayed
     THEN /\ timer' = [timer EXCEPT ![call.line] = Delay]
          /\ ipc' = "ringTimers"
          /\ UNCHANGED eir
     ELSE /\ eir' = eir \cup {call.line}
          /\ ipc' = "ringInt"
          /\ UNCHANGED timer
  /\ UNCHANGED <<cpu, bells, level, call, fpc>>

\* A line already high is announced again; one being counted down is not.
AssertActive ==
  /\ ipc = "act" /\ call.assert /\ call.active
  /\ ipc' = IF call.line \in eir THEN "ringInt" ELSE "idle"
  /\ UNCHANGED <<cpu, lines, bells, level, call, fpc>>

RingInt ==
  /\ ipc = "ringInt"
  /\ checkInt' = TRUE
  /\ ipc' = "wake"
  /\ UNCHANGED <<cpu, lines, level, call, checkTimers, flushReq, fpc>>

RingTimers ==
  /\ ipc = "ringTimers"
  /\ checkTimers' = TRUE
  /\ ipc' = "wake"
  /\ UNCHANGED <<cpu, lines, level, call, checkInt, flushReq, fpc>>

\* idle_wake: m_idle_mx is taken to notify, so not while the sleeper is
\* between setting m_idle_sleeping and waiting.
idle_wake ==
  /\ ipc = "wake"
  /\ \/ ~sleeping /\ UNCHANGED cpc
     \/ cpc = "asleep" /\ cpc' = "awake"
  /\ ipc' = "idle" /\ call' = NoCall
  /\ UNCHANGED <<lines, bells, guest, level, sleeping, todo, fpc>>

DeassertIdle ==
  /\ ipc = "act" /\ ~call.assert /\ ~call.active
  /\ ipc' = "idle" /\ call' = NoCall
  /\ UNCHANGED <<cpu, lines, bells, level, fpc>>

DeassertActive ==
  /\ ipc = "act" /\ ~call.assert /\ call.active
  /\ eir' = eir \ {call.line}
  /\ ipc' = "cancel"
  /\ UNCHANGED <<cpu, bells, level, call, timer, fpc>>

CancelTimer ==
  /\ ipc = "cancel"
  /\ timer' = [timer EXCEPT ![call.line] = 0]
  /\ ipc' = "clear"
  /\ UNCHANGED <<cpu, bells, level, call, eir, fpc>>

ClearTimers ==
  /\ ipc = "clear"
  /\ checkTimers' = FALSE
  /\ call' = [call EXCEPT !.left = Line]
  /\ ipc' = "scan"
  /\ UNCHANGED <<cpu, lines, level, checkInt, flushReq, fpc>>

ScanTimers ==
  /\ ipc = "scan"
  /\ IF call.left = {}
     THEN ipc' = "idle" /\ call' = NoCall /\ UNCHANGED checkTimers
     ELSE LET l == First(call.left)
          IN /\ checkTimers' = (checkTimers \/ timer[l] # 0)
             /\ call' = [call EXCEPT !.left = @ \ {l}]
             /\ UNCHANGED ipc
  /\ UNCHANGED <<cpu, lines, level, checkInt, flushReq, fpc>>

(***************************************************************************)
(* request_dpc_flush, on another processor's thread.                       *)
(***************************************************************************)
request_dpc_flush ==
  /\ fpc = "idle"
  /\ flushReq' = TRUE
  /\ fpc' = "ring"
  /\ UNCHANGED <<cpu, lines, level, ipc, call, checkInt, checkTimers>>

RingFlush ==
  /\ fpc = "ring"
  /\ checkTimers' = TRUE
  /\ fpc' = "idle"
  /\ UNCHANGED <<cpu, lines, level, ipc, call, checkInt, flushReq>>

Execute ==
  \/ PollTimers \/ honour_dpc_flush_request \/ count_down_irq \/ StillCounting
  \/ RaiseCounted \/ RingCounted \/ TimersDone \/ PollInt \/ TakeInterrupt
  \/ NothingToTake \/ WriteIER \/ KickIER \/ HW_RET \/ CALL_PAL
  \/ memory_barrier \/ OtherInstruction \/ IdleLoopHead \/ jit_idle_pause
  \/ PauseUnlessRung \/ PauseTimeout \/ EndPause

IrqStep ==
  \/ ReadTimer \/ AssertIdle \/ AssertActive \/ RingInt \/ RingTimers
  \/ idle_wake \/ DeassertIdle \/ DeassertActive \/ CancelTimer \/ ClearTimers
  \/ ScanTimers

Next ==
  \/ Execute
  \/ \E l \in Line, assert \in BOOLEAN : irq_h(l, assert)
  \/ IrqStep
  \/ request_dpc_flush
  \/ RingFlush

Spec == Init /\ [][Next]_vars

(***************************************************************************)
(* The processor's thread runs, a call of irq_h returns, and PALcode       *)
(* returns to native mode.                                                 *)
(***************************************************************************)
FairSpec ==
  Spec /\ WF_vars(Execute) /\ WF_vars(IrqStep) /\ SF_vars(HW_RET)

(***************************************************************************)
(* Properties.                                                             *)
(***************************************************************************)

\* An interrupt the processor would take has a doorbell that will make it
\* look: check_int, or the one HW_RET rings again after the interrupt being
\* serviced, or a thread about to ring (execute()'s clear before the test,
\* hw_mtpr's kick after an IER write, irq_h's and count_down_irq's order of
\* eir and check_int).
InterruptRung ==
  Deliverable => \/ checkInt \/ resignal
                 \/ cpc \in {"test", "ier", "ring"}
                 \/ ipc = "ringInt"

\* A delayed line is never left uncounted: check_timers is set, or the
\* processor is counting that line, or irq_h has yet to ring or to look at it
\* again, although irq_h clears check_timers when any other line falls.
TimersRung ==
  \A l \in Line :
    timer[l] # 0 => \/ checkTimers
                    \/ cpc \in {"honour", "count", "rering", "raise", "ring"} /\ l \in todo
                    \/ ipc = "ringTimers"
                    \/ ipc = "scan" /\ l \in call.left

\* No doorbell is lost: the state is of its types, an interrupt to take has its
\* check_int and a delayed line its check_timers, whatever irq_h, the processor
\* and the flush requester do to the flags between each other's steps.
DoorbellsRung == TypeOK /\ InterruptRung /\ TimersRung

\* A processor does not sleep through a raised interrupt, masked or not: while
\* it waits in jit_idle_pause with a line high, the irq_h that raised it has
\* still to notify.
NoSleepThrough ==
  cpc = "asleep" /\ eir # {} => ipc \in {"ringInt", "wake"}

\* Once the chipset leaves the lines as they are, a line held high and enabled
\* is taken again and again, whatever the idle loop and the flush requester do.
HeldLineTaken ==
  \A held \in SUBSET Line :
    <>[](held = {l \in Line : level[l]} /\ held \cap eien # {})
      => []<><<TakeInterrupt>>_vars

=============================================================================

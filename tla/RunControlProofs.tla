-------------------------- MODULE RunControlProofs --------------------------
(***************************************************************************)
(* Proofs about RunControl, for any number of processors, any program and  *)
(* any breakpoints, and however many signals, resets and restarts.         *)
(*                                                                         *)
(* The steps of a processor, of the debugger and of the main loop each     *)
(* leave most of the state alone: CpuMove, StubFrame and MainFrame say     *)
(* what, and where a thread can have come from; the invariants are proved  *)
(* from these, and action by action where an action is what they are about.*)
(***************************************************************************)
EXTENDS RunControl, TLAPS

-----------------------------------------------------------------------------
(* The inductive invariant.                                                *)

(* The main loop goes through the processors from the first: those before  *)
(* i have been joined, or have been started and wait at their semaphore.   *)
MainLoop ==
  /\ mpc = "top" => i = 0
  /\ mpc \in {"stop", "join"} => \A c \in Cpu : c < i => thread[c] = "none"
  /\ Quiet
  /\ mpc = "start" =>
       \A c \in Cpu : IF c < i THEN thread[c] = "sem" /\ ~mySemaphore[c]
                               ELSE thread[c] = "none"

(* Only a file that is whole is renamed into place.                        *)
FileKept == StateFileWhole /\ (mpc = "rename" => tmp = "whole")

(* A processor the console has not started has no thread past its wait.    *)
Unstarted ==
  \A c \in Cpu : wait_for_start[c] => thread[c] \in {"none", "sem", "wait", "ended"}

(* An attached debugger has every processor look for it, a debugger that   *)
(* is not has no breakpoints, and one that has the machine stopped still   *)
(* asks for the stop and has released nobody.                              *)
Session ==
  /\ stub \in {"attached", "waiting", "stopped", "leave"} => \A c \in Cpu : m_debug_on[c]
  /\ stub \in {"listen", "attach"} => m_bps = {}
  /\ stub = "stopped" =>
       /\ m_stop_req
       /\ \A c \in Cpu : /\ thread[c] \notin {"exec", "step"}
                         /\ thread[c] = "parked" /\ woken[c] => action[c] = "stay"

(* A processor told to stay is parked, or its thread is on the way out.    *)
Holding ==
  \A c \in Cpu : held[c] =>
    \/ thread[c] = "none"
    \/ thread[c] = "parked" /\ action[c] = "stay"
    \/ thread[c] \in {"loop", "ended"} /\ StopThread[c]

(* The copy of the breakpoints a processor asks is the debugger's, and one *)
(* it may pass is the one it reported.                                     *)
Breakpoints(c) ==
  /\ thread[c] = "ask" => m_bps \subseteq bps[c]
  /\ thread[c] = "exec" /\ pc[c] \in m_bps => told[c] = pc[c]

Reported(c) ==
  reported_bp[c] # kNone =>
    /\ told[c] = reported_bp[c]
    /\ \/ thread[c] = "parked"
       \/ thread[c] \in {"boundary", "ask", "park"} /\ m_stop_req

Skipping(c) ==
  skip_pc[c] # kNone =>
    \/ thread[c] \in {"stepped", "park", "parked"}
    \/ /\ thread[c] \in {"boundary", "ask", "hit", "step"}
       /\ m_stop_req \/ m_bps = {} \/ told[c] = skip_pc[c]

(* ... as long as the main loop has stopped no thread.                     *)
FirstLoop ==
  /\ mpc \in {"stop", "join", "act", "write", "rename", "load"} => why # "boot"
  /\ why = "boot" => \A c \in Cpu : ~StopThread[c]

FirstStop ==
  why = "boot" /\ stub = "stopped" =>
    \A c \in Cpu : thread[c] = "parked" \/ wait_for_start[c]

FirstPasses ==
  why = "boot" => \A c \in Cpu : Breakpoints(c) /\ Reported(c) /\ Skipping(c)

Controlled ==
  /\ TypeOK /\ MainLoop /\ FileKept /\ Unstarted /\ Session /\ Holding
  /\ FirstLoop /\ FirstStop /\ FirstPasses

-----------------------------------------------------------------------------
(* What a step leaves alone.                                               *)

\* A processor's step: nothing of the main loop, and of the debugger only that
\* a stop is asked for; of other processors only that they are started.
CpuMove(c) ==
  /\ UNCHANGED <<main, file, tmp, stub, StopThread, m_debug_on, m_bps, action, held>>
  /\ m_stop_req => m_stop_req'
  /\ \A k \in Cpu \ {c} : /\ thread'[k] = thread[k]
                          /\ mySemaphore'[k] = mySemaphore[k]
                          /\ woken'[k] = woken[k]
                          /\ bps'[k] = bps[k]
                          /\ reported_bp'[k] = reported_bp[k]
                          /\ skip_pc'[k] = skip_pc[k]
                          /\ told'[k] = told[k]
                          /\ pc'[k] = pc[k] \/ wait_for_start[k]
  /\ \/ wait_for_start' = wait_for_start
     \/ /\ thread[c] \in {"exec", "step"}
        /\ \A k \in Cpu : wait_for_start'[k] => wait_for_start[k]

\* Where its thread can have come from.
CpuFrom(c) ==
  /\ thread[c] \notin {"none", "ended"}
  /\ thread[c] = "sem" => mySemaphore[c] /\ thread'[c] = "wait"
  /\ wait_for_start[c] /\ thread[c] = "wait" => thread'[c] = "ended"
  /\ thread'[c] \notin {"none", "sem"}
  /\ thread'[c] = "wait" => thread[c] = "sem"
  /\ thread'[c] = "ended" => thread[c] \in {"wait", "loop"} /\ StopThread[c]
  /\ thread'[c] = "exec" => \/ thread[c] = "loop" /\ ~m_debug_on[c] /\ ~StopThread[c]
                            \/ thread[c] = "ask" /\ ~m_stop_req
  /\ thread'[c] = "step" => thread[c] = "parked" /\ woken[c] /\ action[c] = "step"
  /\ thread[c] = "parked" => \/ thread'[c] = "loop" /\ StopThread[c]
                             \/ thread'[c] = "parked"
                             \/ woken[c] /\ action[c] # "stay"
  /\ thread[c] = "loop" /\ StopThread[c] => thread'[c] = "ended"
  /\ thread'[c] = "parked" => ~woken'[c]

\* A step of the debugger: nothing of the main loop or of the threads.
StubFrame == UNCHANGED <<main, files, threads, wait_for_start, bps, skip_pc, told>>

\* A step of the main loop: nothing of the debugger's; a thread it ends or starts.
MainFrame ==
  /\ UNCHANGED <<stub, shared, own, told>>
  /\ \A c \in Cpu :
       /\ thread'[c] \in {thread[c], "none", "sem"}
       /\ held'[c] => /\ held[c] /\ thread'[c] \in {thread[c], "none"}
                      /\ StopThread[c] => StopThread'[c]

-----------------------------------------------------------------------------
(* (i + 1) % NumCpus goes round.                                           *)
LEMMA NextIndex ==
  ASSUME NEW j \in Cpu
  PROVE  (j + 1) % NumCpus = IF j = NumCpus - 1 THEN 0 ELSE j + 1
<1>1. NumCpus \in Nat /\ NumCpus > 0 /\ j \in Nat /\ j + 1 <= NumCpus
  BY RunControlAssumption DEF Cpu
<1>2. CASE j = NumCpus - 1
  BY <1>1, <1>2
<1>3. CASE j # NumCpus - 1
  BY <1>1, <1>3
<1> QED BY <1>2, <1>3, Zenon


(* Each processor's step, seen so.                                         *)
LEMMA CpuMoves ==
  ASSUME TypeOK, NEW c \in Cpu, CpuStep(c)
  PROVE  CpuMove(c) /\ CpuFrom(c)
<1>p. /\ thread \in [Cpu -> Steps]
      /\ mySemaphore \in [Cpu -> BOOLEAN]
      /\ pc \in [Cpu -> Pc] /\ wait_for_start \in [Cpu -> BOOLEAN]
      /\ woken \in [Cpu -> BOOLEAN] /\ bps \in [Cpu -> SUBSET Bp]
      /\ reported_bp \in [Cpu -> Pc \cup {kNone}]
      /\ skip_pc \in [Cpu -> Pc \cup {kNone}]
      /\ told \in [Cpu -> Pc \cup {kNone}]
  BY Zenon DEF TypeOK
<1> USE DEF main, asked, files, threads, regs, shared, own, history
<1>1. CASE SemaphoreWait(c)
  <2>1. CpuMove(c)
    BY <1>1, <1>p, Zenon DEF SemaphoreWait, Goto, CpuMove
  <2>2. CpuFrom(c)
    BY <1>1, <1>p, Zenon DEF SemaphoreWait, Goto, CpuFrom
  <2> QED BY <2>1, <2>2, Zenon
<1>2. CASE AwaitStart(c)
  <2>1. CpuMove(c)
    BY <1>2, <1>p, Zenon DEF AwaitStart, Goto, CpuMove
  <2>2. CpuFrom(c)
    BY <1>2, <1>p, Zenon DEF AwaitStart, Goto, CpuFrom
  <2> QED BY <2>1, <2>2, Zenon
<1>3. CASE run_loop(c)
  <2>1. CpuMove(c)
    BY <1>3, <1>p, Zenon DEF run_loop, Goto, CpuMove
  <2>2. CpuFrom(c)
    BY <1>3, <1>p, Zenon DEF run_loop, Goto, CpuFrom
  <2> QED BY <2>1, <2>2, Zenon
<1>4. CASE execute(c)
  <2>1. PICK n \in Pc, s \in {c} \cup {k \in Cpu : wait_for_start[k]} :
          /\ pc' = [[pc EXCEPT ![s] = Entry] EXCEPT ![c] = n]
          /\ wait_for_start' = [wait_for_start EXCEPT ![s] = FALSE]
    BY <1>4, Zenon DEF execute, Executed
  <2>2. \A k \in Cpu \ {c} : pc'[k] = pc[k] \/ wait_for_start[k]
    BY <2>1, <1>p, Zenon
  <2>3. \A k \in Cpu : wait_for_start'[k] => wait_for_start[k]
    BY <2>1, <1>p, Zenon
  <2>4. CpuMove(c)
    BY <1>4, <1>p, <2>2, <2>3, ZenonT(60) DEF execute, Executed, Goto, CpuMove
  <2>5. CpuFrom(c)
    BY <1>4, <1>p, Zenon DEF execute, Goto, CpuFrom
  <2> QED BY <2>4, <2>5, Zenon
<1>5. CASE boundary(c)
  <2>1. CpuMove(c)
    BY <1>5, <1>p, Zenon DEF boundary, Goto, CpuMove
  <2>2. CpuFrom(c)
    BY <1>5, <1>p, Zenon DEF boundary, Goto, CpuFrom
  <2> QED BY <2>1, <2>2, Zenon
<1>6. CASE Ask(c)
  <2>1. CpuMove(c)
    BY <1>6, <1>p, Zenon DEF Ask, Goto, CpuMove
  <2>2. CpuFrom(c)
    BY <1>6, <1>p, Zenon DEF Ask, Goto, CpuFrom
  <2> QED BY <2>1, <2>2, Zenon
<1>7. CASE Hit(c)
  <2>1. CpuMove(c)
    BY <1>7, <1>p, Zenon DEF Hit, Goto, CpuMove
  <2>2. CpuFrom(c)
    BY <1>7, <1>p, Zenon DEF Hit, Goto, CpuFrom
  <2> QED BY <2>1, <2>2, Zenon
<1>8. CASE park(c)
  <2>1. CpuMove(c)
    BY <1>8, <1>p, Zenon DEF park, Goto, CpuMove
  <2>2. CpuFrom(c)
    BY <1>8, <1>p, Zenon DEF park, Goto, CpuFrom
  <2> QED BY <2>1, <2>2, Zenon
<1>9. CASE ParkStopped(c)
  <2>1. CpuMove(c)
    BY <1>9, <1>p, Zenon DEF ParkStopped, Goto, CpuMove
  <2>2. CpuFrom(c)
    BY <1>9, <1>p, Zenon DEF ParkStopped, Goto, CpuFrom
  <2> QED BY <2>1, <2>2, Zenon
<1>10. CASE ParkWoken(c)
  <2>1. CpuMove(c)
    BY <1>10, <1>p, Zenon DEF ParkWoken, Goto, CpuMove
  <2>2. CpuFrom(c)
    BY <1>10, <1>p, ZenonT(60) DEF ParkWoken, Goto, CpuFrom
  <2> QED BY <2>1, <2>2, Zenon
<1>11. CASE step_one(c)
  <2>1. PICK n \in Pc, s \in {c} \cup {k \in Cpu : wait_for_start[k]} :
          /\ pc' = [[pc EXCEPT ![s] = Entry] EXCEPT ![c] = n]
          /\ wait_for_start' = [wait_for_start EXCEPT ![s] = FALSE]
    BY <1>11, Zenon DEF step_one, Executed
  <2>2. \A k \in Cpu \ {c} : pc'[k] = pc[k] \/ wait_for_start[k]
    BY <2>1, <1>p, Zenon
  <2>3. \A k \in Cpu : wait_for_start'[k] => wait_for_start[k]
    BY <2>1, <1>p, Zenon
  <2>4. CpuMove(c)
    BY <1>11, <1>p, <2>2, <2>3, ZenonT(60) DEF step_one, Executed, Goto, CpuMove
  <2>5. CpuFrom(c)
    BY <1>11, <1>p, Zenon DEF step_one, Goto, CpuFrom
  <2> QED BY <2>4, <2>5, Zenon
<1>12. CASE Stepped(c)
  <2>1. CpuMove(c)
    BY <1>12, <1>p, Zenon DEF Stepped, Goto, CpuMove
  <2>2. CpuFrom(c)
    BY <1>12, <1>p, Zenon DEF Stepped, Goto, CpuFrom
  <2> QED BY <2>1, <2>2, Zenon
<1> QED BY <1>1, <1>2, <1>3, <1>4, <1>5, <1>6, <1>7, <1>8, <1>9, <1>10, <1>11, <1>12, Zenon DEF CpuStep

(* Each step of the debugger and of the main loop.                         *)
LEMMA StubMoves ==
  ASSUME StubStep \/ Connect
  PROVE  StubFrame
<1> USE DEF main, asked, files, threads, regs, shared, own, history, StubFrame
<1>1. CASE Connect
  BY <1>1, Zenon DEF Connect
<1>2. CASE attach
  BY <1>2, Zenon DEF attach
<1>3. CASE request_stop
  BY <1>3, Zenon DEF request_stop
<1>4. CASE wait_stopped
  BY <1>4, Zenon DEF wait_stopped
<1>5. CASE set_breakpoint
  BY <1>5, Zenon DEF set_breakpoint
<1>6. CASE write_reg
  BY <1>6, Zenon DEF write_reg
<1>7. CASE resume
  BY <1>7, Zenon DEF resume
<1>8. CASE Leave
  BY <1>8, Zenon DEF Leave
<1>9. CASE detach
  BY <1>9, Zenon DEF detach
<1> QED BY <1>1, <1>2, <1>3, <1>4, <1>5, <1>6, <1>7, <1>8, <1>9, Zenon DEF StubStep

(* What a step of the main loop leaves alone.                              *)
LEMMA MainMoves ==
  ASSUME TypeOK, MainStep
  PROVE  MainFrame
<1>p. /\ held \in [Cpu -> BOOLEAN] /\ thread \in [Cpu -> Steps]
      /\ StopThread \in [Cpu -> BOOLEAN] /\ i \in Cpu
  BY Zenon DEF TypeOK
<1> USE DEF main, asked, files, threads, regs, shared, own, history, MainFrame
<1>1. CASE Run
  BY <1>1, <1>p, Zenon DEF Run
<1>2. CASE stop_threads
  BY <1>2, <1>p, Zenon DEF stop_threads
<1>3. CASE Join
  BY <1>3, <1>p, Zenon DEF Join, Goto
<1>4. CASE SaveState
  BY <1>4, <1>p, Zenon DEF SaveState
<1>5. CASE SaveWritten
  BY <1>5, <1>p, Zenon DEF SaveWritten
<1>6. CASE SaveRenamed
  BY <1>6, <1>p, Zenon DEF SaveRenamed
<1>7. CASE serial_menu
  BY <1>7, <1>p, Zenon DEF serial_menu
<1>8. CASE ProcessPendingReset
  BY <1>8, <1>p, Zenon DEF ProcessPendingReset
<1>9. CASE run_decompressor
  BY <1>9, <1>p, Zenon DEF run_decompressor
<1>10. CASE start_threads
  BY <1>10, <1>p, Zenon DEF start_threads, Goto
<1>11. CASE release_threads
  BY <1>11, <1>p, Zenon DEF release_threads
<1> QED BY <1>1, <1>2, <1>3, <1>4, <1>5, <1>6, <1>7, <1>8, <1>9, <1>10, <1>11, Zenon DEF MainStep

-----------------------------------------------------------------------------
(* The types, in three groups.                                             *)
ThreadTypes ==
  /\ thread \in [Cpu -> Steps] /\ StopThread \in [Cpu -> BOOLEAN]
  /\ mySemaphore \in [Cpu -> BOOLEAN]
  /\ pc \in [Cpu -> Pc] /\ wait_for_start \in [Cpu -> BOOLEAN]

LoopTypes ==
  /\ mpc \in {"top", "stop", "join", "act", "write", "rename", "load", "start", "release"}
  /\ why \in {"boot", "save", "reset", "menu"} /\ i \in Cpu
  /\ m_reset_requested \in BOOLEAN /\ got_sigusr1 \in BOOLEAN /\ breakHit \in BOOLEAN
  /\ file \in {"none", "part", "whole"} /\ tmp \in {"none", "part", "whole"}
  /\ events \in 0 .. MaxEvents

DebugTypes ==
  /\ stub \in {"listen", "attach", "attached", "waiting", "stopped", "leave"}
  /\ m_debug_on \in [Cpu -> BOOLEAN] /\ m_stop_req \in BOOLEAN
  /\ m_bps \subseteq Bp /\ bps \in [Cpu -> SUBSET Bp]
  /\ action \in [Cpu -> {"stay", "continue", "step"}] /\ woken \in [Cpu -> BOOLEAN]
  /\ reported_bp \in [Cpu -> Pc \cup {kNone}] /\ skip_pc \in [Cpu -> Pc \cup {kNone}]
  /\ told \in [Cpu -> Pc \cup {kNone}] /\ held \in [Cpu -> BOOLEAN]

(* The types, by whose the variables are.                                  *)
LEMMA TypeGroups == TypeOK <=> ThreadTypes /\ LoopTypes /\ DebugTypes
  BY Zenon DEF TypeOK, ThreadTypes, LoopTypes, DebugTypes

(* Initially the types hold.                                               *)
LEMMA InitTypes == Init => TypeOK
<1> SUFFICES ASSUME Init PROVE ThreadTypes /\ LoopTypes /\ DebugTypes
  BY TypeGroups, Zenon
<1>1. ThreadTypes
  BY RunControlAssumption, Zenon DEF Init, ThreadTypes, All, ConsoleWaits, Steps
<1>2. LoopTypes
  <2>1. 0 \in Cpu /\ 0 \in 0 .. MaxEvents
    BY RunControlAssumption DEF Cpu
  <2> QED BY <2>1, Zenon DEF Init, LoopTypes
<1>3. DebugTypes
  BY RunControlAssumption, Zenon DEF Init, DebugTypes, All
<1> QED BY <1>1, <1>2, <1>3, Zenon

(* A processor's step keeps the types.                                     *)
LEMMA CpuTypes ==
  ASSUME ThreadTypes, LoopTypes, DebugTypes, NEW c \in Cpu, CpuStep(c)
  PROVE  ThreadTypes' /\ LoopTypes' /\ DebugTypes'
<1> USE DEF main, asked, files, threads, regs, shared, own, history
<1>1. CASE SemaphoreWait(c)
  <2>1. ThreadTypes'
    BY <1>1, Zenon DEF SemaphoreWait, Goto, Steps, ThreadTypes
  <2>2. LoopTypes'
    BY <1>1, ZenonT(60) DEF SemaphoreWait, Goto, LoopTypes
  <2>3. DebugTypes'
    BY <1>1, Zenon DEF SemaphoreWait, Goto, DebugTypes
  <2> QED BY <2>1, <2>2, <2>3, Zenon
<1>2. CASE AwaitStart(c)
  <2>1. ThreadTypes'
    BY <1>2, Zenon DEF AwaitStart, Goto, Steps, ThreadTypes
  <2>2. LoopTypes'
    BY <1>2, ZenonT(60) DEF AwaitStart, Goto, LoopTypes
  <2>3. DebugTypes'
    BY <1>2, Zenon DEF AwaitStart, Goto, DebugTypes
  <2> QED BY <2>1, <2>2, <2>3, Zenon
<1>3. CASE run_loop(c)
  <2>1. ThreadTypes'
    BY <1>3, Zenon DEF run_loop, Goto, Steps, ThreadTypes
  <2>2. LoopTypes'
    BY <1>3, ZenonT(60) DEF run_loop, Goto, LoopTypes
  <2>3. DebugTypes'
    BY <1>3, Zenon DEF run_loop, Goto, DebugTypes
  <2> QED BY <2>1, <2>2, <2>3, Zenon
<1>4. CASE execute(c)
  <2>0. \E n \in Pc, s \in Cpu :
          /\ pc' = [[pc EXCEPT ![s] = Entry] EXCEPT ![c] = n]
          /\ wait_for_start' = [wait_for_start EXCEPT ![s] = FALSE]
    BY <1>4, Zenon DEF execute, Executed
  <2>1. ThreadTypes'
    BY <1>4, <2>0, RunControlAssumption DEF execute, Goto, Steps, ThreadTypes
  <2>2. LoopTypes'
    <3>1. events' \in 0 .. MaxEvents
      BY <1>4, RunControlAssumption DEF execute, Executed, Happens, LoopTypes
    <3>2. m_reset_requested' \in BOOLEAN
      BY <1>4, Zenon DEF execute, Executed, LoopTypes
    <3> QED BY <1>4, <3>1, <3>2, Zenon DEF execute, LoopTypes
  <2>3. DebugTypes'
    BY <1>4, Zenon DEF execute, Executed, DebugTypes
  <2> QED BY <2>1, <2>2, <2>3, Zenon
<1>5. CASE boundary(c)
  <2>1. ThreadTypes'
    BY <1>5, Zenon DEF boundary, Goto, Steps, ThreadTypes
  <2>2. LoopTypes'
    BY <1>5, ZenonT(60) DEF boundary, Goto, LoopTypes
  <2>3. DebugTypes'
    BY <1>5, Zenon DEF boundary, Goto, DebugTypes
  <2> QED BY <2>1, <2>2, <2>3, Zenon
<1>6. CASE Ask(c)
  <2>1. ThreadTypes'
    BY <1>6, Zenon DEF Ask, Goto, Steps, ThreadTypes
  <2>2. LoopTypes'
    BY <1>6, ZenonT(60) DEF Ask, Goto, LoopTypes
  <2>3. DebugTypes'
    BY <1>6, Zenon DEF Ask, Goto, DebugTypes
  <2> QED BY <2>1, <2>2, <2>3, Zenon
<1>7. CASE Hit(c)
  <2>1. ThreadTypes'
    BY <1>7, Zenon DEF Hit, Goto, Steps, ThreadTypes
  <2>2. LoopTypes'
    BY <1>7, ZenonT(60) DEF Hit, Goto, LoopTypes
  <2>3. DebugTypes'
    BY <1>7, Zenon DEF Hit, Goto, ThreadTypes, DebugTypes
  <2> QED BY <2>1, <2>2, <2>3, Zenon
<1>8. CASE park(c)
  <2>1. ThreadTypes'
    BY <1>8, Zenon DEF park, Goto, Steps, ThreadTypes
  <2>2. LoopTypes'
    BY <1>8, ZenonT(60) DEF park, Goto, LoopTypes
  <2>3. DebugTypes'
    BY <1>8, Zenon DEF park, Goto, DebugTypes
  <2> QED BY <2>1, <2>2, <2>3, Zenon
<1>9. CASE ParkStopped(c)
  <2>1. ThreadTypes'
    BY <1>9, Zenon DEF ParkStopped, Goto, Steps, ThreadTypes
  <2>2. LoopTypes'
    BY <1>9, ZenonT(60) DEF ParkStopped, Goto, LoopTypes
  <2>3. DebugTypes'
    BY <1>9, Zenon DEF ParkStopped, Goto, DebugTypes
  <2> QED BY <2>1, <2>2, <2>3, Zenon
<1>10. CASE ParkWoken(c)
  <2>1. ThreadTypes'
    BY <1>10, Zenon DEF ParkWoken, Goto, Steps, ThreadTypes
  <2>2. LoopTypes'
    BY <1>10, ZenonT(60) DEF ParkWoken, Goto, LoopTypes
  <2>3. DebugTypes'
    BY <1>10, ZenonT(60) DEF ParkWoken, Goto, DebugTypes
  <2> QED BY <2>1, <2>2, <2>3, Zenon
<1>11. CASE step_one(c)
  <2>0. \E n \in Pc, s \in Cpu :
          /\ pc' = [[pc EXCEPT ![s] = Entry] EXCEPT ![c] = n]
          /\ wait_for_start' = [wait_for_start EXCEPT ![s] = FALSE]
    BY <1>11, Zenon DEF step_one, Executed
  <2>1. ThreadTypes'
    BY <1>11, <2>0, RunControlAssumption DEF step_one, Goto, Steps, ThreadTypes
  <2>2. LoopTypes'
    <3>1. events' \in 0 .. MaxEvents
      BY <1>11, RunControlAssumption DEF step_one, Executed, Happens, LoopTypes
    <3>2. m_reset_requested' \in BOOLEAN
      BY <1>11, Zenon DEF step_one, Executed, LoopTypes
    <3> QED BY <1>11, <3>1, <3>2, ZenonT(60) DEF step_one, LoopTypes
  <2>3. DebugTypes'
    BY <1>11, Zenon DEF step_one, Executed, DebugTypes
  <2> QED BY <2>1, <2>2, <2>3, Zenon
<1>12. CASE Stepped(c)
  <2>1. ThreadTypes'
    BY <1>12, Zenon DEF Stepped, Goto, Steps, ThreadTypes
  <2>2. LoopTypes'
    BY <1>12, ZenonT(60) DEF Stepped, Goto, LoopTypes
  <2>3. DebugTypes'
    BY <1>12, Zenon DEF Stepped, Goto, DebugTypes
  <2> QED BY <2>1, <2>2, <2>3, Zenon
<1> QED BY <1>1, <1>2, <1>3, <1>4, <1>5, <1>6, <1>7, <1>8, <1>9, <1>10, <1>11, <1>12, Zenon DEF CpuStep

(* A step of the debugger's stub keeps the types.                          *)
LEMMA StubTypes ==
  ASSUME ThreadTypes, LoopTypes, DebugTypes, StubStep \/ Connect
  PROVE  ThreadTypes' /\ LoopTypes' /\ DebugTypes'
<1> USE DEF main, asked, files, threads, regs, shared, own, history
<1>1. CASE Connect
  <2>1. ThreadTypes'
    BY <1>1, Zenon DEF Connect, ThreadTypes
  <2>2. LoopTypes'
    BY <1>1, ZenonT(60) DEF Connect, LoopTypes
  <2>3. DebugTypes'
    BY <1>1, Zenon DEF Connect, DebugTypes
  <2> QED BY <2>1, <2>2, <2>3, Zenon
<1>2. CASE attach
  <2>1. ThreadTypes'
    BY <1>2, Zenon DEF attach, All, ThreadTypes
  <2>2. LoopTypes'
    BY <1>2, ZenonT(60) DEF attach, All, LoopTypes
  <2>3. DebugTypes'
    BY <1>2, Zenon DEF attach, All, DebugTypes
  <2> QED BY <2>1, <2>2, <2>3, Zenon
<1>3. CASE request_stop
  <2>1. ThreadTypes'
    BY <1>3, Zenon DEF request_stop, ThreadTypes
  <2>2. LoopTypes'
    BY <1>3, ZenonT(60) DEF request_stop, LoopTypes
  <2>3. DebugTypes'
    BY <1>3, Zenon DEF request_stop, DebugTypes
  <2> QED BY <2>1, <2>2, <2>3, Zenon
<1>4. CASE wait_stopped
  <2>1. ThreadTypes'
    BY <1>4, Zenon DEF wait_stopped, All, ThreadTypes
  <2>2. LoopTypes'
    BY <1>4, ZenonT(60) DEF wait_stopped, All, LoopTypes
  <2>3. DebugTypes'
    BY <1>4, Zenon DEF wait_stopped, All, DebugTypes
  <2> QED BY <2>1, <2>2, <2>3, Zenon
<1>5. CASE set_breakpoint
  <2>1. ThreadTypes'
    BY <1>5, Zenon DEF set_breakpoint, ThreadTypes
  <2>2. LoopTypes'
    BY <1>5, ZenonT(60) DEF set_breakpoint, LoopTypes
  <2>3. DebugTypes'
    BY <1>5, Zenon DEF set_breakpoint, DebugTypes
  <2> QED BY <2>1, <2>2, <2>3, Zenon
<1>6. CASE write_reg
  <2>1. ThreadTypes'
    BY <1>6, Zenon DEF write_reg, ThreadTypes
  <2>2. LoopTypes'
    BY <1>6, ZenonT(60) DEF write_reg, LoopTypes
  <2>3. DebugTypes'
    BY <1>6, Zenon DEF write_reg, DebugTypes
  <2> QED BY <2>1, <2>2, <2>3, Zenon
<1>7. CASE resume
  <2>1. ThreadTypes'
    BY <1>7, Zenon DEF resume, ThreadTypes
  <2>2. LoopTypes'
    BY <1>7, ZenonT(60) DEF resume, LoopTypes
  <2>3. DebugTypes'
    BY <1>7, Zenon DEF resume, DebugTypes
  <2> QED BY <2>1, <2>2, <2>3, Zenon
<1>8. CASE Leave
  <2>1. ThreadTypes'
    BY <1>8, Zenon DEF Leave, ThreadTypes
  <2>2. LoopTypes'
    BY <1>8, ZenonT(60) DEF Leave, LoopTypes
  <2>3. DebugTypes'
    BY <1>8, Zenon DEF Leave, DebugTypes
  <2> QED BY <2>1, <2>2, <2>3, Zenon
<1>9. CASE detach
  <2>1. ThreadTypes'
    BY <1>9, Zenon DEF detach, All, ThreadTypes
  <2>2. LoopTypes'
    BY <1>9, ZenonT(60) DEF detach, All, LoopTypes
  <2>3. DebugTypes'
    BY <1>9, Zenon DEF detach, All, DebugTypes
  <2> QED BY <2>1, <2>2, <2>3, Zenon
<1> QED BY <1>1, <1>2, <1>3, <1>4, <1>5, <1>6, <1>7, <1>8, <1>9, Zenon DEF StubStep

(* A step of the main loop keeps the types.                                *)
LEMMA MainTypes ==
  ASSUME ThreadTypes, LoopTypes, DebugTypes, MainStep
  PROVE  ThreadTypes' /\ LoopTypes' /\ DebugTypes'
<1>z. 0 \in Cpu /\ (i + 1) % NumCpus \in Cpu /\ Entry \in Pc
  BY NextIndex, RunControlAssumption DEF LoopTypes, Cpu
<1> USE DEF main, asked, files, threads, regs, shared, own, history
<1>1. CASE Run
  <2>1. ThreadTypes'
    BY <1>1, <1>z, Zenon DEF Run, ThreadTypes
  <2>2. LoopTypes'
    BY <1>1, <1>z, Zenon DEF Run, LoopTypes
  <2>3. DebugTypes'
    BY <1>1, <1>z, Zenon DEF Run, DebugTypes
  <2> QED BY <2>1, <2>2, <2>3, Zenon
<1>2. CASE stop_threads
  <2>1. ThreadTypes'
    BY <1>2, <1>z, Zenon DEF stop_threads, ThreadTypes
  <2>2. LoopTypes'
    BY <1>2, <1>z, Zenon DEF stop_threads, LoopTypes
  <2>3. DebugTypes'
    BY <1>2, <1>z, Zenon DEF stop_threads, DebugTypes
  <2> QED BY <2>1, <2>2, <2>3, Zenon
<1>3. CASE Join
  <2>1. ThreadTypes'
    BY <1>3, <1>z, Zenon DEF Join, Goto, Steps, ThreadTypes
  <2>2. LoopTypes'
    BY <1>3, <1>z, Zenon DEF Join, Goto, LoopTypes
  <2>3. DebugTypes'
    BY <1>3, <1>z, Zenon DEF Join, Goto, DebugTypes
  <2> QED BY <2>1, <2>2, <2>3, Zenon
<1>4. CASE SaveState
  <2>1. ThreadTypes'
    BY <1>4, <1>z, Zenon DEF SaveState, Resumes, ThreadTypes
  <2>2. LoopTypes'
    BY <1>4, <1>z, Zenon DEF SaveState, Resumes, LoopTypes
  <2>3. DebugTypes'
    BY <1>4, <1>z, Zenon DEF SaveState, Resumes, DebugTypes
  <2> QED BY <2>1, <2>2, <2>3, Zenon
<1>5. CASE SaveWritten
  <2>1. ThreadTypes'
    BY <1>5, <1>z, Zenon DEF SaveWritten, Resumes, ThreadTypes
  <2>2. LoopTypes'
    BY <1>5, <1>z, Zenon DEF SaveWritten, Resumes, LoopTypes
  <2>3. DebugTypes'
    BY <1>5, <1>z, Zenon DEF SaveWritten, Resumes, DebugTypes
  <2> QED BY <2>1, <2>2, <2>3, Zenon
<1>6. CASE SaveRenamed
  <2>1. ThreadTypes'
    BY <1>6, <1>z, Zenon DEF SaveRenamed, Resumes, ThreadTypes
  <2>2. LoopTypes'
    BY <1>6, <1>z, Zenon DEF SaveRenamed, Resumes, LoopTypes
  <2>3. DebugTypes'
    BY <1>6, <1>z, Zenon DEF SaveRenamed, Resumes, DebugTypes
  <2> QED BY <2>1, <2>2, <2>3, Zenon
<1>7. CASE serial_menu
  <2>1. ThreadTypes'
    BY <1>7, <1>z, Zenon DEF serial_menu, Resumes, Restored, ThreadTypes
  <2>2. LoopTypes'
    BY <1>7, <1>z, Zenon DEF serial_menu, Resumes, Restored, LoopTypes
  <2>3. DebugTypes'
    BY <1>7, <1>z, Zenon DEF serial_menu, Resumes, Restored, DebugTypes
  <2> QED BY <2>1, <2>2, <2>3, Zenon
<1>8. CASE ProcessPendingReset
  <2>1. ThreadTypes'
    BY <1>8, <1>z, Zenon DEF ProcessPendingReset, Resumes, ConsoleWaits, All, ThreadTypes
  <2>2. LoopTypes'
    BY <1>8, <1>z, Zenon DEF ProcessPendingReset, Resumes, ConsoleWaits, All, LoopTypes
  <2>3. DebugTypes'
    BY <1>8, <1>z, Zenon DEF ProcessPendingReset, Resumes, ConsoleWaits, All, DebugTypes
  <2> QED BY <2>1, <2>2, <2>3, Zenon
<1>9. CASE run_decompressor
  <2>1. ThreadTypes'
    BY <1>9, <1>z, Zenon DEF run_decompressor, Resumes, ThreadTypes
  <2>2. LoopTypes'
    BY <1>9, <1>z, Zenon DEF run_decompressor, Resumes, LoopTypes
  <2>3. DebugTypes'
    BY <1>9, <1>z, Zenon DEF run_decompressor, Resumes, DebugTypes
  <2> QED BY <2>1, <2>2, <2>3, Zenon
<1>10. CASE start_threads
  <2>1. ThreadTypes'
    BY <1>10, <1>z, Zenon DEF start_threads, Goto, Steps, ThreadTypes
  <2>2. LoopTypes'
    BY <1>10, <1>z, Zenon DEF start_threads, Goto, LoopTypes
  <2>3. DebugTypes'
    BY <1>10, <1>z, Zenon DEF start_threads, Goto, DebugTypes
  <2> QED BY <2>1, <2>2, <2>3, Zenon
<1>11. CASE release_threads
  <2>1. ThreadTypes'
    BY <1>11, <1>z, Zenon DEF release_threads, ThreadTypes
  <2>2. LoopTypes'
    BY <1>11, <1>z, Zenon DEF release_threads, LoopTypes
  <2>3. DebugTypes'
    BY <1>11, <1>z, Zenon DEF release_threads, DebugTypes
  <2> QED BY <2>1, <2>2, <2>3, Zenon
<1> QED BY <1>1, <1>2, <1>3, <1>4, <1>5, <1>6, <1>7, <1>8, <1>9, <1>10, <1>11, Zenon DEF MainStep

(* Every step keeps the types.                                             *)
LEMMA TypeStep ==
  ASSUME TypeOK, [Next]_vars
  PROVE  TypeOK'
<1>p. ThreadTypes /\ LoopTypes /\ DebugTypes
  BY TypeGroups, Zenon
<1> SUFFICES ThreadTypes' /\ LoopTypes' /\ DebugTypes'
  BY TypeGroups, PTL
<1>1. CASE \E c \in Cpu : CpuStep(c)
  BY <1>p, <1>1, CpuTypes, Zenon
<1>2. CASE StubStep \/ Connect
  BY <1>p, <1>2, StubTypes, Zenon
<1>3. CASE MainStep
  BY <1>p, <1>3, MainTypes, Zenon
<1>z. 0 \in Cpu /\ Entry \in Pc /\ MaxEvents \in Nat
  BY RunControlAssumption DEF Cpu
<1> USE <1>p, <1>z DEF main, asked, files, threads, regs, shared, own, history
<1>4. CASE Signal
  <2>1. ThreadTypes'
    BY <1>4, Zenon DEF Signal, Happens, ThreadTypes
  <2>2. LoopTypes'
    BY <1>4 DEF Signal, Happens, LoopTypes
  <2>3. DebugTypes'
    BY <1>4, Zenon DEF Signal, Happens, DebugTypes
  <2> QED BY <2>1, <2>2, <2>3, Zenon
<1>5. CASE Break
  <2>1. ThreadTypes'
    BY <1>5, Zenon DEF Break, Happens, ThreadTypes
  <2>2. LoopTypes'
    BY <1>5 DEF Break, Happens, LoopTypes
  <2>3. DebugTypes'
    BY <1>5, Zenon DEF Break, Happens, DebugTypes
  <2> QED BY <2>1, <2>2, <2>3, Zenon
<1>6. CASE Reboot
  <2>1. ThreadTypes'
    BY <1>6, Zenon DEF Reboot, Happens, Restored, ConsoleWaits, All, Steps, ThreadTypes
  <2>2. LoopTypes'
    <3>1. events' \in 0 .. MaxEvents
      BY <1>6 DEF Reboot, Happens, LoopTypes
    <3> QED BY <1>6, <3>1, Zenon DEF Reboot, LoopTypes
  <2>3. DebugTypes'
    BY <1>6, Zenon DEF Reboot, Happens, Restored, ConsoleWaits, All, DebugTypes
  <2> QED BY <2>1, <2>2, <2>3, Zenon
<1>7. CASE UNCHANGED vars
  <2>1. ThreadTypes'
    BY <1>7, Zenon DEF vars, ThreadTypes
  <2>2. LoopTypes'
    BY <1>7, ZenonT(60) DEF vars, LoopTypes
  <2>3. DebugTypes'
    BY <1>7, Zenon DEF vars, DebugTypes
  <2> QED BY <2>1, <2>2, <2>3, Zenon
<1> QED BY <1>1, <1>2, <1>3, <1>4, <1>5, <1>6, <1>7, Zenon DEF Next

-----------------------------------------------------------------------------
(* The main loop and the threads.                                          *)
LEMMA MainLoopStep ==
  ASSUME TypeOK, MainLoop, [Next]_vars
  PROVE  MainLoop'
<1>p. thread \in [Cpu -> Steps] /\ mySemaphore \in [Cpu -> BOOLEAN] /\ i \in Cpu
  BY Zenon DEF TypeOK
<1>c. \A c \in Cpu : c \in 0 .. NumCpus - 1
  BY Zenon DEF Cpu
<1>n. NumCpus \in Nat /\ (i + 1) % NumCpus = IF i = NumCpus - 1 THEN 0 ELSE i + 1
  BY <1>p, NextIndex, RunControlAssumption, Zenon
<1>0. \A c \in Cpu : ~(c < 0)
  BY <1>c, <1>n
<1>1. ASSUME NEW c \in Cpu, CpuStep(c) PROVE MainLoop'
  <2>m. CpuMove(c) /\ CpuFrom(c)
    BY <1>1, CpuMoves, Zenon
  <2>1. UNCHANGED <<mpc, i>>
    BY <2>m, Zenon DEF CpuMove, main
  <2>2. /\ \A k \in Cpu : thread[k] = "none" => thread'[k] = "none"
        /\ \A k \in Cpu : thread[k] = "sem" /\ ~mySemaphore[k] =>
                            thread'[k] = "sem" /\ ~mySemaphore'[k]
    BY <2>m, Zenon DEF CpuMove, CpuFrom
  <2> QED BY <2>1, <2>2, Zenon DEF MainLoop, Quiet
<1>2. CASE (StubStep \/ Connect) \/ Signal \/ Break \/ UNCHANGED vars
  <2>1. UNCHANGED <<mpc, i, thread, mySemaphore>>
    BY <1>2, StubMoves, Zenon DEF StubFrame, Signal, Break, vars, main, threads
  <2> QED BY <2>1, Zenon DEF MainLoop, Quiet
<1>3. CASE Run
  <2>1. mpc' = "stop" /\ i' = 0
    BY <1>3, Zenon DEF Run, MainLoop
  <2> QED BY <2>1, <1>0, Zenon DEF MainLoop, Quiet
<1>4. CASE stop_threads
  <2>1. mpc = "stop" /\ mpc' = "join" /\ UNCHANGED <<i, thread>>
    BY <1>4, Zenon DEF stop_threads
  <2> QED BY <2>1, Zenon DEF MainLoop, Quiet
<1>5. CASE Join
  <2>1. /\ mpc = "join" /\ thread'[i] = "none"
        /\ i' = (i + 1) % NumCpus /\ mpc' = IF i' = 0 THEN "act" ELSE "stop"
        /\ \A c \in Cpu \ {i} : thread'[c] = thread[c]
    BY <1>5, <1>p, Zenon DEF Join, Goto
  <2>2. \A c \in Cpu : c <= i => thread'[c] = "none"
    BY <2>1, <1>p, <1>c DEF MainLoop
  <2>3. CASE i = NumCpus - 1
    <3>1. i' = 0 /\ mpc' = "act" /\ \A c \in Cpu : thread'[c] = "none"
      BY <2>1, <2>2, <2>3, <1>c, <1>n
    <3> QED BY <3>1, Zenon DEF MainLoop, Quiet
  <2>4. CASE i # NumCpus - 1
    <3>1. i' = i + 1 /\ mpc' = "stop" /\ \A c \in Cpu : c < i' => thread'[c] = "none"
      BY <2>1, <2>2, <2>4, <1>p, <1>c, <1>n
    <3> QED BY <3>1, Zenon DEF MainLoop, Quiet
  <2> QED BY <2>3, <2>4, Zenon
<1>6. CASE \/ SaveState \/ SaveWritten \/ SaveRenamed \/ serial_menu
           \/ ProcessPendingReset \/ run_decompressor
  <2>1. /\ mpc \in {"act", "write", "rename", "load"} /\ thread' = thread
        /\ mpc' \in {"write", "rename", "load"} \/ (mpc' = "start" /\ i' = 0)
    BY <1>6, Zenon DEF SaveState, SaveWritten, SaveRenamed, serial_menu, ProcessPendingReset,
                run_decompressor, Resumes, threads
  <2>2. \A c \in Cpu : thread'[c] = "none"
    BY <2>1, Zenon DEF MainLoop, Quiet
  <2> QED BY <2>1, <2>2, <1>0, Zenon DEF MainLoop, Quiet
<1>7. CASE start_threads
  <2>1. /\ mpc = "start" /\ thread'[i] = "sem" /\ ~mySemaphore'[i]
        /\ i' = (i + 1) % NumCpus /\ mpc' = IF i' = 0 THEN "release" ELSE "start"
        /\ \A c \in Cpu \ {i} : thread'[c] = thread[c] /\ mySemaphore'[c] = mySemaphore[c]
    BY <1>7, <1>p, Zenon DEF start_threads, Goto
  <2>2. CASE i = NumCpus - 1
    <3>1. mpc' = "release"
      BY <2>1, <2>2, <1>n, Zenon
    <3> QED BY <3>1, Zenon DEF MainLoop, Quiet
  <2>3. CASE i # NumCpus - 1
    <3>1. i' = i + 1 /\ mpc' = "start"
      BY <2>1, <2>3, <1>p, <1>c, <1>n
    <3>2. \A c \in Cpu : c < i' <=> c < i \/ c = i
      BY <3>1, <1>p, <1>c
    <3> QED BY <2>1, <3>1, <3>2, <1>p, <1>c, Zenon DEF MainLoop, Quiet
  <2> QED BY <2>2, <2>3, Zenon
<1>8. CASE release_threads
  <2>1. mpc' = (IF i' = 0 THEN "top" ELSE "release")
    BY <1>8, Zenon DEF release_threads
  <2> QED BY <2>1, Zenon DEF MainLoop, Quiet
<1>9. CASE Reboot
  <2>1. mpc' = "start" /\ i' = 0 /\ \A c \in Cpu : thread'[c] = "none"
    BY <1>9, Zenon DEF Reboot, All
  <2> QED BY <2>1, <1>0, Zenon DEF MainLoop, Quiet
<1> QED BY <1>1, <1>2, <1>3, <1>4, <1>5, <1>6, <1>7, <1>8, <1>9, Zenon DEF Next, MainStep

(* The state file.                                                         *)
LEMMA FileStep ==
  ASSUME TypeOK, FileKept, [Next]_vars
  PROVE  FileKept'
<1> USE DEF FileKept, StateFileWhole
<1>1. ASSUME NEW c \in Cpu, CpuStep(c) PROVE FileKept'
  <2>1. UNCHANGED <<mpc, file, tmp>>
    BY <1>1, CpuMoves, Zenon DEF CpuMove, main
  <2> QED BY <2>1, Zenon
<1>2. CASE (StubStep \/ Connect) \/ Signal \/ Break \/ UNCHANGED vars
  <2>1. UNCHANGED <<mpc, file, tmp>>
    BY <1>2, StubMoves, Zenon DEF StubFrame, Signal, Break, vars, main, files
  <2> QED BY <2>1, Zenon
<1>3. CASE SaveState
  BY <1>3, Zenon DEF SaveState, Resumes
<1>4. CASE SaveWritten
  BY <1>4, Zenon DEF SaveWritten, Resumes
<1>5. CASE SaveRenamed
  BY <1>5, Zenon DEF SaveRenamed, Resumes
<1>6. CASE \/ Run \/ stop_threads \/ Join \/ serial_menu \/ ProcessPendingReset
           \/ run_decompressor \/ start_threads \/ release_threads \/ Reboot
  <2>1. mpc' # "rename" /\ UNCHANGED file
    BY <1>6, Zenon DEF Run, stop_threads, Join, serial_menu, ProcessPendingReset,
                run_decompressor, start_threads, release_threads, Reboot, Resumes, files
  <2> QED BY <2>1, Zenon
<1> QED BY <1>1, <1>2, <1>3, <1>4, <1>5, <1>6, Zenon DEF Next, MainStep

(* The processors the console has not started.                             *)
LEMMA UnstartedStep ==
  ASSUME TypeOK, MainLoop, Unstarted, [Next]_vars
  PROVE  Unstarted'
<1>1. ASSUME NEW c \in Cpu, CpuStep(c) PROVE Unstarted'
  BY <1>1, CpuMoves, Zenon DEF CpuMove, CpuFrom, Unstarted
<1>2. CASE (StubStep \/ Connect) \/ Signal \/ Break \/ UNCHANGED vars
  <2>1. UNCHANGED <<thread, wait_for_start>>
    BY <1>2, StubMoves, Zenon DEF StubFrame, Signal, Break, vars, threads, regs
  <2> QED BY <2>1, Zenon DEF Unstarted
<1>3. CASE serial_menu \/ ProcessPendingReset
  <2>1. \A c \in Cpu : thread'[c] = "none"
    BY <1>3, Zenon DEF serial_menu, ProcessPendingReset, MainLoop, Quiet, threads
  <2> QED BY <2>1, Zenon DEF Unstarted
<1>4. CASE MainStep /\ ~serial_menu /\ ~ProcessPendingReset
  <2>1. MainFrame
    BY <1>4, MainMoves, Zenon
  <2>2. wait_for_start' = wait_for_start
    BY <1>4, Zenon DEF MainStep, Run, stop_threads, Join, SaveState, SaveWritten, SaveRenamed,
                run_decompressor, start_threads, release_threads, regs
  <2> QED BY <2>1, <2>2, Zenon DEF MainFrame, Unstarted
<1>5. CASE Reboot
  <2>1. \A c \in Cpu : thread'[c] = "none"
    BY <1>5, Zenon DEF Reboot, All
  <2> QED BY <2>1, Zenon DEF Unstarted
<1> QED BY <1>1, <1>2, <1>3, <1>4, <1>5, Zenon DEF Next

-----------------------------------------------------------------------------
(* The debugger's session.                                                 *)
LEMMA SessionStep ==
  ASSUME TypeOK, Unstarted, Session, [Next]_vars
  PROVE  Session'
<1>1. ASSUME NEW c \in Cpu, CpuStep(c) PROVE Session'
  <2>m. CpuMove(c) /\ CpuFrom(c)
    BY <1>1, CpuMoves, Zenon
  <2>1. UNCHANGED <<stub, m_debug_on, m_bps, action>> /\ (m_stop_req => m_stop_req')
    BY <2>m, Zenon DEF CpuMove
  <2>2. ASSUME stub = "stopped", NEW k \in Cpu
        PROVE  /\ thread'[k] \notin {"exec", "step"}
               /\ thread'[k] = "parked" /\ woken'[k] => action[k] = "stay"
    <3>0. /\ m_stop_req /\ m_debug_on[k] /\ thread[k] \notin {"exec", "step"}
          /\ thread[k] = "parked" /\ woken[k] => action[k] = "stay"
      BY <2>2, Zenon DEF Session
    <3>1. CASE k = c
      BY <2>m, <3>0, <3>1, Zenon DEF CpuFrom
    <3>2. CASE k # c
      BY <2>m, <3>0, <3>2, Zenon DEF CpuMove
    <3> QED BY <3>1, <3>2, Zenon
  <2> QED BY <2>1, <2>2, Zenon DEF Session
<1>2. CASE Connect \/ request_stop \/ Leave
  <2>1. /\ UNCHANGED <<m_debug_on, m_bps>>
        /\ (stub = "listen" /\ stub' = "attach") \/ stub' \in {"waiting", "leave"}
        /\ stub' \in {"waiting", "leave"} => stub \in {"attached", "waiting", "stopped"}
    BY <1>2, Zenon DEF Connect, request_stop, Leave, shared
  <2> QED BY <2>1, Zenon DEF Session
<1>3. CASE attach
  <2>1. stub' = "attached" /\ \A c \in Cpu : m_debug_on'[c]
    BY <1>3, Zenon DEF attach, All
  <2> QED BY <2>1, Zenon DEF Session
<1>4. CASE wait_stopped
  <2>1. /\ stub = "waiting" /\ stub' = "stopped" /\ m_stop_req
        /\ UNCHANGED <<m_debug_on, m_stop_req, action, woken, thread>>
        /\ \A c \in Cpu : quiescent(c)
    BY <1>4, Zenon DEF wait_stopped, stopped, threads, shared
  <2>2. \A c \in Cpu : /\ thread[c] \notin {"exec", "step"}
                       /\ thread[c] = "parked" /\ woken[c] => action[c] = "stay"
    BY <2>1, Zenon DEF quiescent, Unstarted
  <2> QED BY <2>1, <2>2, Zenon DEF Session
<1>5. CASE set_breakpoint \/ write_reg
  <2>1. stub = "stopped" /\ UNCHANGED <<stub, m_debug_on, m_stop_req, action, woken, thread>>
    BY <1>5, Zenon DEF set_breakpoint, write_reg, threads, shared
  <2> QED BY <2>1, Zenon DEF Session
<1>6. CASE resume
  <2>1. stub = "stopped" /\ stub' = "waiting" /\ UNCHANGED m_debug_on
    BY <1>6, Zenon DEF resume
  <2> QED BY <2>1, Zenon DEF Session
<1>7. CASE detach
  <2>1. stub' = "listen" /\ m_bps' = {}
    BY <1>7, Zenon DEF detach
  <2> QED BY <2>1, Zenon DEF Session
<1>8. CASE MainStep
  <2>1. /\ UNCHANGED <<stub, m_debug_on, m_stop_req, m_bps, action, woken>>
        /\ \A c \in Cpu : thread'[c] \in {thread[c], "none", "sem"}
    BY <1>8, MainMoves, Zenon DEF MainFrame, shared
  <2> QED BY <2>1, Zenon DEF Session
<1>9. CASE Signal \/ Break \/ UNCHANGED vars
  <2>1. UNCHANGED <<stub, m_debug_on, m_stop_req, m_bps, action, woken, thread>>
    BY <1>9, Zenon DEF Signal, Break, vars, threads, shared
  <2> QED BY <2>1, Zenon DEF Session
<1>10. CASE Reboot
  <2>1. stub' = "listen" /\ m_bps' = {}
    BY <1>10, Zenon DEF Reboot
  <2> QED BY <2>1, Zenon DEF Session
<1> QED BY <1>1, <1>2, <1>3, <1>4, <1>5, <1>6, <1>7, <1>8, <1>9, <1>10, Zenon DEF Next, StubStep

(* The processors told to stay.                                            *)
LEMMA HoldingStep ==
  ASSUME TypeOK, Holding, [Next]_vars
  PROVE  Holding'
<1>1. ASSUME NEW c \in Cpu, CpuStep(c) PROVE Holding'
  <2> SUFFICES ASSUME NEW k \in Cpu, held'[k]
               PROVE  \/ thread'[k] = "none"
                      \/ thread'[k] = "parked" /\ action'[k] = "stay"
                      \/ thread'[k] \in {"loop", "ended"} /\ StopThread'[k]
    BY Zenon DEF Holding
  <2>m. CpuMove(c) /\ CpuFrom(c)
    BY <1>1, CpuMoves, Zenon
  <2>1. UNCHANGED <<held, action, StopThread>>
    BY <2>m, Zenon DEF CpuMove
  <2>0. \/ thread[k] = "none"
        \/ thread[k] = "parked" /\ action[k] = "stay"
        \/ thread[k] \in {"loop", "ended"} /\ StopThread[k]
    BY <2>1, Zenon DEF Holding
  <2>2. CASE k = c
    BY <2>0, <2>1, <2>2, <2>m, Zenon DEF CpuFrom
  <2>3. CASE k # c
    BY <2>0, <2>1, <2>3, <2>m, Zenon DEF CpuMove
  <2> QED BY <2>2, <2>3, Zenon
<1>2. CASE \/ Connect \/ attach \/ request_stop \/ set_breakpoint \/ write_reg \/ Leave
           \/ Signal \/ Break \/ UNCHANGED vars
  <2>1. UNCHANGED <<held, action, StopThread, thread>>
    BY <1>2, Zenon DEF Connect, attach, request_stop, set_breakpoint, write_reg, Leave, Signal,
                Break, vars, threads, shared, history
  <2> QED BY <2>1, Zenon DEF Holding
<1>3. CASE wait_stopped \/ detach \/ Reboot
  <2>1. \A c \in Cpu : ~held'[c]
    BY <1>3, Zenon DEF wait_stopped, detach, Reboot, All
  <2> QED BY <2>1, Zenon DEF Holding
<1>4. CASE resume
  <2>1. \A c \in Cpu : held'[c] => thread'[c] = "parked" /\ action'[c] = "stay"
    BY <1>4, Zenon DEF resume, threads
  <2> QED BY <2>1, Zenon DEF Holding
<1>5. CASE MainStep
  <2>1. action' = action /\ MainFrame
    BY <1>5, MainMoves, Zenon DEF MainFrame, shared
  <2> QED BY <2>1, Zenon DEF MainFrame, Holding
<1> QED BY <1>1, <1>2, <1>3, <1>4, <1>5, Zenon DEF Next, StubStep

-----------------------------------------------------------------------------
(* Until the main loop first stops the threads: of its steps it is then    *)
(* only those that start them.                                             *)
LEMMA FirstSteps ==
  ASSUME TypeOK, FirstLoop, MainStep, why' = "boot"
  PROVE  why = "boot" /\ wait_for_start' = wait_for_start /\ pc' = pc
         /\ (start_threads \/ release_threads)
<1>1. ~Run
  BY Zenon DEF Run
<1>2. mpc \notin {"stop", "join", "act", "write", "rename", "load"}
  <2>1. why = "boot" \/ Run
    BY Zenon DEF MainStep, stop_threads, Join, SaveState, SaveWritten, SaveRenamed, serial_menu,
           ProcessPendingReset, run_decompressor, start_threads, release_threads
  <2> QED BY <1>1, <2>1, Zenon DEF FirstLoop
<1>3. start_threads \/ release_threads
  BY <1>1, <1>2, Zenon DEF MainStep, stop_threads, Join, SaveState, SaveWritten, SaveRenamed,
                    serial_menu, ProcessPendingReset, run_decompressor
<1> QED BY <1>3, Zenon DEF start_threads, release_threads, regs

(* Until the first restart the main loop has stopped no thread.            *)
LEMMA FirstLoopStep ==
  ASSUME TypeOK, FirstLoop, [Next]_vars
  PROVE  FirstLoop'
<1>1. ASSUME NEW c \in Cpu, CpuStep(c) PROVE FirstLoop'
  <2>1. UNCHANGED <<mpc, why, StopThread>>
    BY <1>1, CpuMoves, Zenon DEF CpuMove, main
  <2> QED BY <2>1, Zenon DEF FirstLoop
<1>2. CASE (StubStep \/ Connect) \/ Signal \/ Break \/ UNCHANGED vars
  <2>1. UNCHANGED <<mpc, why, StopThread>>
    BY <1>2, StubMoves, Zenon DEF StubFrame, Signal, Break, vars, main, threads
  <2> QED BY <2>1, Zenon DEF FirstLoop
<1>3. CASE MainStep
  <2> SUFFICES ASSUME why' = "boot"
               PROVE  /\ mpc' \in {"start", "release", "top"}
                      /\ \A c \in Cpu : ~StopThread'[c]
    BY Zenon DEF FirstLoop
  <2>1. why = "boot" /\ (start_threads \/ release_threads)
    BY <1>3, FirstSteps, Zenon
  <2>2. StopThread \in [Cpu -> BOOLEAN] /\ \A c \in Cpu : ~StopThread[c]
    BY <2>1, Zenon DEF TypeOK, FirstLoop
  <2>3. mpc' \in {"start", "release", "top"}
    BY <2>1, Zenon DEF start_threads, release_threads
  <2>4. StopThread' = [StopThread EXCEPT ![i] = FALSE] \/ StopThread' = StopThread
    BY <2>1, Zenon DEF start_threads, release_threads
  <2> QED BY <2>2, <2>3, <2>4, Zenon
<1>4. CASE Reboot
  <2>1. mpc' = "start" /\ \A c \in Cpu : ~StopThread'[c]
    BY <1>4, Zenon DEF Reboot, All
  <2> QED BY <2>1, Zenon DEF FirstLoop
<1> QED BY <1>1, <1>2, <1>3, <1>4, Zenon DEF Next

(* ... so with the stub stopped each is parked or not started,             *)
LEMMA FirstStopStep ==
  ASSUME TypeOK, MainLoop, Session, FirstLoop, FirstStop, [Next]_vars
  PROVE  FirstStop'
<1>p. thread \in [Cpu -> Steps] /\ i \in Cpu
  BY Zenon DEF TypeOK
<1>c. \A c \in Cpu : c \in 0 .. NumCpus - 1
  BY Zenon DEF Cpu
<1>1. ASSUME NEW c \in Cpu, CpuStep(c) PROVE FirstStop'
  <2>m. CpuMove(c) /\ CpuFrom(c)
    BY <1>1, CpuMoves, Zenon
  <2> SUFFICES ASSUME why' = "boot", stub' = "stopped", NEW k \in Cpu
               PROVE  thread'[k] = "parked" \/ wait_for_start'[k]
    BY Zenon DEF FirstStop
  <2>1. why = "boot" /\ stub = "stopped" /\ ~StopThread[c]
    BY <2>m, Zenon DEF CpuMove, main, FirstLoop
  <2>2. /\ thread[c] \notin {"exec", "step"}
        /\ thread[c] = "parked" /\ woken[c] => action[c] = "stay"
        /\ thread[k] = "parked" \/ wait_for_start[k]
    BY <2>1, Zenon DEF Session, FirstStop
  <2>3. wait_for_start' = wait_for_start
    BY <2>2, <2>m, Zenon DEF CpuMove
  <2>4. CASE k = c
    BY <2>1, <2>2, <2>3, <2>4, <2>m, Zenon DEF CpuFrom
  <2>5. CASE k # c
    BY <2>2, <2>3, <2>5, <2>m, Zenon DEF CpuMove
  <2> QED BY <2>4, <2>5, Zenon
<1>2. CASE \/ Connect \/ attach \/ request_stop \/ resume \/ Leave \/ detach \/ Reboot
  <2>1. stub' # "stopped"
    BY <1>2, Zenon DEF Connect, attach, request_stop, resume, Leave, detach, Reboot
  <2> QED BY <2>1, Zenon DEF FirstStop
<1>3. CASE wait_stopped
  <2>1. UNCHANGED <<thread, wait_for_start>> /\ \A c \in Cpu : quiescent(c)
    BY <1>3, Zenon DEF wait_stopped, stopped, threads, regs
  <2> QED BY <2>1, Zenon DEF quiescent, FirstStop
<1>4. CASE set_breakpoint \/ write_reg \/ Signal \/ Break \/ UNCHANGED vars
  <2>1. UNCHANGED <<why, stub, thread, wait_for_start>>
    BY <1>4, Zenon DEF set_breakpoint, write_reg, Signal, Break, vars, main, threads, regs
  <2> QED BY <2>1, Zenon DEF FirstStop
<1>5. CASE MainStep
  <2> SUFFICES ASSUME why' = "boot", stub' = "stopped", NEW k \in Cpu
               PROVE  thread'[k] = "parked" \/ wait_for_start'[k]
    BY Zenon DEF FirstStop
  <2>1. /\ why = "boot" /\ wait_for_start' = wait_for_start
        /\ start_threads \/ release_threads
    BY <1>5, FirstSteps, Zenon
  <2>2. stub = "stopped"
    BY <1>5, MainMoves, Zenon DEF MainFrame
  <2>3. start_threads => thread[i] = "none"
    <3>1. ~(i < i)
      BY <1>p, <1>c
    <3> QED BY <3>1, <1>p, Zenon DEF start_threads, MainLoop
  <2>4. ~(start_threads /\ k = i) => thread'[k] = thread[k]
    BY <2>1, <1>p, Zenon DEF start_threads, release_threads, Goto
  <2> QED BY <2>1, <2>2, <2>3, <2>4, Zenon DEF FirstStop
<1> QED BY <1>1, <1>2, <1>3, <1>4, <1>5, Zenon DEF Next, StubStep


(* A breakpoint passed is one that was reported: what a processor's step   *)
(* does about the processor itself.                                        *)
LEMMA CpuPasses ==
  ASSUME TypeOK, Session, FirstLoop, FirstPasses, NEW c \in Cpu, CpuStep(c), why = "boot"
  PROVE  (Breakpoints(c) /\ Reported(c) /\ Skipping(c))'
<1>p. /\ thread \in [Cpu -> Steps]
      /\ pc \in [Cpu -> Pc] /\ bps \in [Cpu -> SUBSET Bp]
      /\ reported_bp \in [Cpu -> Pc \cup {kNone}]
      /\ skip_pc \in [Cpu -> Pc \cup {kNone}]
      /\ told \in [Cpu -> Pc \cup {kNone}]
      /\ kNone \notin Pc
  BY RunControlAssumption, Zenon DEF TypeOK
<1>q. ~StopThread[c] /\ Breakpoints(c) /\ Reported(c) /\ Skipping(c)
  BY Zenon DEF FirstLoop, FirstPasses
<1>d. ~m_debug_on[c] => m_bps = {}
  BY Zenon DEF Session, TypeOK
<1>1. CASE SemaphoreWait(c)
  <2>0. /\ thread[c] = "sem" /\ thread'[c] = "wait"
        /\ UNCHANGED <<pc, told, m_stop_req, m_bps, bps, reported_bp, skip_pc>>
    BY <1>1, <1>p, Zenon DEF SemaphoreWait, Goto, regs, shared, own, history
  <2>1. Breakpoints(c)'
    BY <2>0, <1>p, <1>q, Zenon DEF Breakpoints
  <2>2. Reported(c)'
    BY <2>0, <1>p, <1>q, Zenon DEF Reported
  <2>3. Skipping(c)'
    BY <2>0, <1>p, <1>q, Zenon DEF Skipping
  <2> QED BY <2>1, <2>2, <2>3, Zenon
<1>2. CASE AwaitStart(c)
  <2>0. /\ thread[c] = "wait" /\ thread'[c] \in {"loop", "ended"}
        /\ UNCHANGED <<pc, told, m_stop_req, m_bps, bps, reported_bp, skip_pc>>
    BY <1>2, <1>p, Zenon DEF AwaitStart, Goto, regs, shared, own, history
  <2>1. Breakpoints(c)'
    BY <2>0, <1>p, <1>q, Zenon DEF Breakpoints
  <2>2. Reported(c)'
    BY <2>0, <1>p, <1>q, Zenon DEF Reported
  <2>3. Skipping(c)'
    BY <2>0, <1>p, <1>q, Zenon DEF Skipping
  <2> QED BY <2>1, <2>2, <2>3, Zenon
<1>3. CASE run_loop(c)
  <2>0. /\ thread[c] = "loop" /\ thread'[c] \in {"boundary", "exec"}
        /\ thread'[c] = "exec" => ~m_debug_on[c]
        /\ UNCHANGED <<pc, told, m_stop_req, m_bps, bps, reported_bp, skip_pc>>
    BY <1>3, <1>p, <1>q, Zenon DEF run_loop, Goto, regs, shared, own, history
  <2>1. Breakpoints(c)'
    BY <2>0, <1>p, <1>q, <1>d, Zenon DEF Breakpoints
  <2>2. Reported(c)'
    BY <2>0, <1>p, <1>q, Zenon DEF Reported
  <2>3. Skipping(c)'
    BY <2>0, <1>p, <1>q, Zenon DEF Skipping
  <2> QED BY <2>1, <2>2, <2>3, Zenon
<1>4. CASE execute(c)
  <2>0. /\ thread[c] = "exec" /\ thread'[c] = "loop"
        /\ UNCHANGED <<reported_bp, skip_pc>>
    BY <1>4, <1>p, Zenon DEF execute, Goto, regs, shared, own, history
  <2>1. Breakpoints(c)'
    BY <2>0, <1>p, <1>q, Zenon DEF Breakpoints
  <2>2. Reported(c)'
    BY <2>0, <1>p, <1>q, Zenon DEF Reported
  <2>3. Skipping(c)'
    BY <2>0, <1>p, <1>q, Zenon DEF Skipping
  <2> QED BY <2>1, <2>2, <2>3, Zenon
<1>5. CASE boundary(c)
  <2>0. /\ thread[c] = "boundary" /\ thread'[c] = "ask" /\ bps'[c] = m_bps
        /\ UNCHANGED <<pc, told, m_stop_req, m_bps, reported_bp, skip_pc>>
    BY <1>5, <1>p, <1>q, Zenon DEF boundary, Goto, regs, shared, own, history
  <2>1. Breakpoints(c)'
    BY <2>0, <1>p, <1>q, Zenon DEF Breakpoints
  <2>2. Reported(c)'
    BY <2>0, <1>p, <1>q, Zenon DEF Reported
  <2>3. Skipping(c)'
    BY <2>0, <1>p, <1>q, Zenon DEF Skipping
  <2> QED BY <2>1, <2>2, <2>3, Zenon
<1>6. CASE Ask(c)
  <2>0. /\ thread[c] = "ask" /\ thread'[c] \in {"park", "hit", "exec"}
        /\ thread'[c] # "park" => ~m_stop_req
        /\ thread'[c] = "exec" => skip_pc'[c] = kNone /\ (pc[c] \notin bps[c] \/ pc[c] = skip_pc[c])
        /\ thread'[c] # "exec" => skip_pc'[c] = skip_pc[c]
        /\ UNCHANGED <<pc, told, m_stop_req, m_bps, bps, reported_bp>>
    BY <1>6, <1>p, Zenon DEF Ask, Goto, regs, shared, own, history
  <2>1. Breakpoints(c)'
    BY <2>0, <1>p, <1>q, Zenon DEF Breakpoints, Skipping
  <2>2. Reported(c)'
    BY <2>0, <1>p, <1>q, Zenon DEF Reported
  <2>3. Skipping(c)'
    BY <2>0, <1>p, <1>q, Zenon DEF Skipping
  <2> QED BY <2>1, <2>2, <2>3, Zenon
<1>7. CASE Hit(c)
  <2>0. /\ thread[c] = "hit" /\ thread'[c] = "boundary" /\ m_stop_req'
        /\ \/ told'[c] = pc[c] /\ reported_bp'[c] = pc[c]
           \/ UNCHANGED <<told, reported_bp>>
        /\ UNCHANGED <<pc, m_bps, bps, skip_pc>>
    BY <1>7, <1>p, Zenon DEF Hit, Goto, regs, shared, own, history
  <2>1. Breakpoints(c)'
    BY <2>0, <1>p, <1>q, Zenon DEF Breakpoints
  <2>2. Reported(c)'
    BY <2>0, <1>p, <1>q, Zenon DEF Reported
  <2>3. Skipping(c)'
    BY <2>0, <1>p, <1>q, Zenon DEF Skipping
  <2> QED BY <2>1, <2>2, <2>3, Zenon
<1>8. CASE park(c)
  <2>0. /\ thread[c] = "park" /\ thread'[c] = "parked"
        /\ UNCHANGED <<pc, told, m_stop_req, m_bps, bps, reported_bp, skip_pc>>
    BY <1>8, <1>p, Zenon DEF park, Goto, regs, shared, own, history
  <2>1. Breakpoints(c)'
    BY <2>0, <1>p, <1>q, Zenon DEF Breakpoints
  <2>2. Reported(c)'
    BY <2>0, <1>p, <1>q, Zenon DEF Reported
  <2>3. Skipping(c)'
    BY <2>0, <1>p, <1>q, Zenon DEF Skipping
  <2> QED BY <2>1, <2>2, <2>3, Zenon
<1>9. CASE ParkStopped(c)
  BY <1>9, <1>q, Zenon DEF ParkStopped
<1>10. CASE ParkWoken(c)
  <2>0. /\ thread[c] = "parked"
        /\ \/ thread'[c] = "parked" /\ UNCHANGED <<skip_pc, reported_bp>>
           \/ /\ thread'[c] \in {"step", "boundary"} /\ reported_bp'[c] = kNone
              /\ skip_pc'[c] = kNone \/ (reported_bp[c] = pc[c] /\ skip_pc'[c] = pc[c])
        /\ UNCHANGED <<pc, told, m_stop_req, m_bps, bps>>
    BY <1>10, <1>p, Zenon DEF ParkWoken, Goto, regs, shared, own, history
  <2>1. Breakpoints(c)'
    BY <2>0, <1>p, <1>q, Zenon DEF Breakpoints
  <2>2. Reported(c)'
    BY <2>0, <1>p, <1>q, Zenon DEF Reported
  <2>3. Skipping(c)'
    BY <2>0, <1>p, <1>q, Zenon DEF Skipping, Reported
  <2> QED BY <2>1, <2>2, <2>3, Zenon
<1>11. CASE step_one(c)
  <2>0. /\ thread[c] = "step" /\ thread'[c] = "stepped"
        /\ UNCHANGED <<reported_bp, skip_pc>>
    BY <1>11, <1>p, Zenon DEF step_one, Goto, regs, shared, own, history
  <2>1. Breakpoints(c)'
    BY <2>0, <1>p, <1>q, Zenon DEF Breakpoints
  <2>2. Reported(c)'
    BY <2>0, <1>p, <1>q, Zenon DEF Reported
  <2>3. Skipping(c)'
    BY <2>0, <1>p, <1>q, Zenon DEF Skipping
  <2> QED BY <2>1, <2>2, <2>3, Zenon
<1>12. CASE Stepped(c)
  <2>0. /\ thread[c] = "stepped" /\ thread'[c] = "boundary" /\ m_stop_req'
        /\ UNCHANGED <<pc, told, m_bps, bps, reported_bp, skip_pc>>
    BY <1>12, <1>p, Zenon DEF Stepped, Goto, regs, shared, own, history
  <2>1. Breakpoints(c)'
    BY <2>0, <1>p, <1>q, Zenon DEF Breakpoints
  <2>2. Reported(c)'
    BY <2>0, <1>p, <1>q, Zenon DEF Reported
  <2>3. Skipping(c)'
    BY <2>0, <1>p, <1>q, Zenon DEF Skipping
  <2> QED BY <2>1, <2>2, <2>3, Zenon
<1> QED BY <1>1, <1>2, <1>3, <1>4, <1>5, <1>6, <1>7, <1>8, <1>9, <1>10, <1>11, <1>12, Zenon DEF CpuStep

(* ... and each knows of the breakpoints it is to stop at.                 *)
LEMMA FirstPassesStep ==
  ASSUME TypeOK, MainLoop, Unstarted, Session, FirstLoop, FirstStop, FirstPasses,
         [Next]_vars
  PROVE  FirstPasses'
<1>p. thread \in [Cpu -> Steps] /\ i \in Cpu
  BY Zenon DEF TypeOK
<1>c. \A c \in Cpu : c \in 0 .. NumCpus - 1
  BY Zenon DEF Cpu
<1> SUFFICES ASSUME why' = "boot", NEW k \in Cpu
             PROVE  (Breakpoints(k) /\ Reported(k) /\ Skipping(k))'
  BY Zenon DEF FirstPasses
<1>q. why = "boot" => Breakpoints(k) /\ Reported(k) /\ Skipping(k)
  BY Zenon DEF FirstPasses
<1>w. wait_for_start[k] => thread[k] \in {"none", "sem", "wait", "ended"}
  BY Zenon DEF Unstarted
<1>1. ASSUME NEW c \in Cpu, CpuStep(c)
      PROVE  (Breakpoints(k) /\ Reported(k) /\ Skipping(k))'
  <2>m. CpuMove(c)
    BY <1>1, CpuMoves, Zenon
  <2>1. why = "boot" /\ m_bps' = m_bps /\ (m_stop_req => m_stop_req')
    BY <2>m, Zenon DEF CpuMove, main
  <2>2. CASE k = c
    BY <1>1, <2>1, <2>2, CpuPasses, Zenon
  <2>3. CASE k # c
    <3>1. /\ thread'[k] = thread[k] /\ bps'[k] = bps[k] /\ told'[k] = told[k]
          /\ reported_bp'[k] = reported_bp[k] /\ skip_pc'[k] = skip_pc[k]
          /\ pc'[k] = pc[k] \/ wait_for_start[k]
      BY <2>m, <2>3, Zenon DEF CpuMove
    <3>2. Breakpoints(k)'
      BY <1>q, <1>w, <2>1, <3>1, Zenon DEF Breakpoints
    <3>3. Reported(k)'
      BY <1>q, <2>1, <3>1, Zenon DEF Reported
    <3>4. Skipping(k)'
      BY <1>q, <2>1, <3>1, Zenon DEF Skipping
    <3> QED BY <3>2, <3>3, <3>4, Zenon
  <2> QED BY <2>2, <2>3, Zenon
\* The debugger sets breakpoints and resumes with every processor parked, or not
\* started.
<1>s. why = "boot" /\ stub = "stopped" =>
        thread[k] \in {"none", "sem", "wait", "ended", "parked"}
  BY <1>w, Zenon DEF FirstStop
<1>2. CASE \/ Connect \/ attach \/ wait_stopped \/ Leave \/ Signal \/ Break
           \/ UNCHANGED vars
  <2>1. UNCHANGED <<why, thread, pc, m_stop_req, m_bps, bps, reported_bp, skip_pc, told>>
    BY <1>2, Zenon DEF Connect, attach, wait_stopped, Leave, Signal, Break, vars, main, threads,
                regs, shared, own, history
  <2> QED BY <2>1, <1>q, Zenon DEF Breakpoints, Reported, Skipping
<1>3. CASE request_stop
  <2>1. /\ UNCHANGED <<why, thread, pc, m_bps, bps, reported_bp, skip_pc, told>>
        /\ m_stop_req'
    BY <1>3, Zenon DEF request_stop, main, threads, regs, own, history
  <2> QED BY <2>1, <1>q, Zenon DEF Breakpoints, Reported, Skipping
<1>4. CASE set_breakpoint \/ write_reg \/ resume
  <2>1. UNCHANGED <<why, thread, bps, reported_bp, skip_pc, told>> /\ stub = "stopped"
    BY <1>4, Zenon DEF set_breakpoint, write_reg, resume, main, threads, own, history
  <2> QED BY <2>1, <1>q, <1>s, Zenon DEF Breakpoints, Reported, Skipping
<1>5. CASE detach
  <2>1. /\ UNCHANGED <<why, thread, pc, bps, skip_pc, told>>
        /\ m_bps' = {} /\ reported_bp'[k] = kNone
    BY <1>5, Zenon DEF detach, All, main, threads, regs
  <2> QED BY <2>1, <1>q, Zenon DEF Breakpoints, Reported, Skipping
<1>6. CASE MainStep
  <2>1. why = "boot" /\ pc' = pc /\ (start_threads \/ release_threads)
    BY <1>6, FirstSteps, Zenon
  <2>2. UNCHANGED <<m_stop_req, m_bps, bps, reported_bp, skip_pc, told>>
    BY <1>6, MainMoves, Zenon DEF MainFrame, shared, own
  <2>3. start_threads => thread[i] = "none"
    <3>1. ~(i < i)
      BY <1>p, <1>c
    <3> QED BY <3>1, <1>p, Zenon DEF start_threads, MainLoop
  <2>4. \/ thread'[k] = thread[k]
        \/ thread[k] = "none" /\ thread'[k] = "sem"
    BY <2>1, <2>3, <1>p, Zenon DEF start_threads, release_threads, Goto
  <2> QED BY <1>q, <2>1, <2>2, <2>4, Zenon DEF Breakpoints, Reported, Skipping
<1>7. CASE Reboot
  <2>1. /\ thread'[k] = "none" /\ reported_bp'[k] = kNone /\ skip_pc'[k] = kNone
    BY <1>7, Zenon DEF Reboot, All
  <2> QED BY <2>1, Zenon DEF Breakpoints, Reported, Skipping
<1> QED BY <1>1, <1>2, <1>3, <1>4, <1>5, <1>6, <1>7, Zenon DEF Next, StubStep

-----------------------------------------------------------------------------
(* The theorems.                                                           *)
LEMMA InitControlled == Init => Controlled
<1> SUFFICES ASSUME Init PROVE Controlled
  BY Zenon
<1>1. TypeOK
  BY InitTypes, Zenon
<1>2. /\ mpc = "start" /\ why = "boot" /\ i = 0 /\ stub = "listen" /\ m_bps = {}
      /\ file # "part"
      /\ \A c \in Cpu : /\ thread[c] = "none" /\ ~StopThread[c] /\ ~held[c]
                        /\ reported_bp[c] = kNone /\ skip_pc[c] = kNone
                        /\ ~(c < 0)
  BY DEF Init, All, Cpu
<1>3. MainLoop /\ FileKept
  BY <1>2, Zenon DEF MainLoop, Quiet, FileKept, StateFileWhole
<1>4. Unstarted /\ Session /\ Holding
  BY <1>2, Zenon DEF Unstarted, Session, Holding
<1>5. FirstLoop /\ FirstStop /\ FirstPasses
  BY <1>2, Zenon DEF FirstLoop, FirstStop, FirstPasses, Breakpoints, Reported, Skipping
<1> QED BY <1>1, <1>3, <1>4, <1>5, Zenon DEF Controlled

(* The inductive invariant of run control.                                 *)
LEMMA ControlledInductive == Spec => []Controlled
<1>1. Controlled /\ [Next]_vars => Controlled'
  BY TypeStep, MainLoopStep, FileStep, UnstartedStep, SessionStep, HoldingStep,
     FirstLoopStep, FirstStopStep, FirstPassesStep, Zenon DEF Controlled
<1> QED BY InitControlled, <1>1, PTL DEF Spec

(* While gdb has the machine stopped no processor executes, whatever the   *)
(* main loop stops, restarts or resets meanwhile (CDebugTarget::stopped).  *)
THEOREM StopHolds == Spec => []AllStopped
<1>1. Controlled => AllStopped
  BY Zenon DEF Controlled, Session, AllStopped
<1> QED BY ControlledInductive, <1>1, PTL

(* No thread is alive while the main loop saves, restores or resets, and   *)
(* none passes its semaphore before all exist (CSystem::stop_threads,      *)
(* start_threads).                                                         *)
THEOREM MainLoopAlone == Spec => []ThreadsHeldOff
<1>1. Controlled => ThreadsHeldOff
  BY Zenon DEF Controlled, MainLoop, ThreadsHeldOff, ReleasedTogether
<1> QED BY ControlledInductive, <1>1, PTL

(* The state file is never a part of one, wherever the emulator dies       *)
(* (CSystem::SaveState).                                                   *)
THEOREM FileStaysWhole == Spec => []StateFileWhole
<1>1. Controlled => StateFileWhole
  BY Zenon DEF Controlled, FileKept
<1> QED BY ControlledInductive, <1>1, PTL

(* A breakpoint is never passed unreported before the main loop first      *)
(* stops the threads, and a processor told to stay runs nothing until the  *)
(* next stop (CDebugTarget::boundary and park).                            *)
THEOREM SessionHolds == Spec => []SessionKept
<1>1. Controlled => NoneUnseen
  BY Zenon DEF Controlled, FirstPasses, Breakpoints, NoneUnseen
<1>2. Controlled => HeldStays
  BY Zenon DEF Controlled, Holding, HeldStays
<1> QED BY ControlledInductive, <1>1, <1>2, PTL DEF SessionKept
=============================================================================

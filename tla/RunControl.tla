----------------------------- MODULE RunControl -----------------------------
(***************************************************************************)
(* Who runs, and who may stop whom: the main loop (CSystem::Run), which    *)
(* ends every processor's thread to save, restore or reset the machine and *)
(* starts them again; the processors' threads (CAlphaCPU::run); and the    *)
(* guest debugger (CDebugTarget, CGdbStub), which has the processors park  *)
(* at an instruction boundary, on a thread the main loop does not stop.    *)
(*                                                                         *)
(* A processor's program is a program counter that may go anywhere.  The   *)
(* instructions from one boundary to the next are one step: boundary lets  *)
(* none of them but the first lie under a breakpoint.  A restart of the    *)
(* emulator, orderly or not, keeps the state file and nothing else.        *)
(***************************************************************************)
EXTENDS Naturals

CONSTANTS NumCpus,         \* processors; 0 leaves reset first
          Pc, Entry,       \* program counters, and the console's entry
          Bp, kNone,       \* where breakpoints may be set, and no address
          MaxEvents        \* bound: signals, breaks, resets, restarts

ASSUME RunControlAssumption ==
  /\ NumCpus \in Nat \ {0}
  /\ Entry \in Pc /\ Bp \subseteq Pc /\ kNone \notin Pc
  /\ MaxEvents \in Nat

Cpu == 0 .. NumCpus - 1

VARIABLES
  thread, StopThread, mySemaphore,   \* a processor's thread
  pc, wait_for_start,                \* and its state
  mpc, why, i,                       \* the main loop
  m_reset_requested, got_sigusr1, breakHit,
  file, tmp,                         \* the state file, and its successor
  stub,                              \* the debugger's thread
  m_debug_on, m_stop_req, m_bps,     \* what it shares with the processors
  action, woken,                     \* woken: seen_gen is not m_run_gen
  bps, reported_bp, skip_pc,
  told, held,                        \* history, see the properties
  events

main    == <<mpc, why, i>>
asked   == <<m_reset_requested, got_sigusr1, breakHit>>
files   == <<file, tmp>>
threads == <<thread, StopThread, mySemaphore>>
regs    == <<pc, wait_for_start>>
shared  == <<m_debug_on, m_stop_req, m_bps, action, woken>>
own     == <<bps, reported_bp, skip_pc>>
history == <<told, held>>
vars == <<main, asked, files, threads, regs, stub, shared, own, history,
          events>>

Steps == {"none", "sem", "wait", "loop", "boundary", "ask", "exec", "hit", "park",
          "parked", "step", "stepped", "ended"}

TypeOK ==
  /\ thread \in [Cpu -> Steps]
  /\ StopThread \in [Cpu -> BOOLEAN] /\ mySemaphore \in [Cpu -> BOOLEAN]
  /\ pc \in [Cpu -> Pc] /\ wait_for_start \in [Cpu -> BOOLEAN]
  /\ mpc \in {"top", "stop", "join", "act", "write", "rename", "load",
              "start", "release"}
  /\ why \in {"boot", "save", "reset", "menu"} /\ i \in Cpu
  /\ m_reset_requested \in BOOLEAN /\ got_sigusr1 \in BOOLEAN
  /\ breakHit \in BOOLEAN
  /\ file \in {"none", "part", "whole"} /\ tmp \in {"none", "part", "whole"}
  /\ stub \in {"listen", "attach", "attached", "waiting", "stopped", "leave"}
  /\ m_debug_on \in [Cpu -> BOOLEAN] /\ m_stop_req \in BOOLEAN
  /\ m_bps \subseteq Bp /\ bps \in [Cpu -> SUBSET Bp]
  /\ action \in [Cpu -> {"stay", "continue", "step"}]
  /\ woken \in [Cpu -> BOOLEAN]
  /\ reported_bp \in [Cpu -> Pc \cup {kNone}]
  /\ skip_pc \in [Cpu -> Pc \cup {kNone}]
  /\ told \in [Cpu -> Pc \cup {kNone}]
  /\ held \in [Cpu -> BOOLEAN]
  /\ events \in 0 .. MaxEvents

All(v) == [c \in Cpu |-> v]

(* LoadROM and ResetForSystemReset: every processor at the console, the    *)
(* secondaries waiting for it to start them.                               *)
ConsoleWaits == [c \in Cpu |-> c # 0]

(* A process that is set up and about to start its threads.  With gdb.wait *)
(* the debugger asks for a stop before the first instruction.              *)
Init ==
  /\ thread = All("none") /\ StopThread = All(FALSE)
  /\ mySemaphore = All(FALSE)
  /\ pc = All(Entry) /\ wait_for_start = ConsoleWaits
  /\ mpc = "start" /\ why = "boot" /\ i = 0
  /\ m_reset_requested = FALSE /\ got_sigusr1 = FALSE /\ breakHit = FALSE
  /\ file \in {"none", "whole"} /\ tmp = "none"
  /\ stub = "listen"
  /\ m_stop_req \in BOOLEAN /\ m_debug_on = All(m_stop_req)
  /\ m_bps = {} /\ action = All("continue") /\ woken = All(FALSE)
  /\ bps = All({}) /\ reported_bp = All(kNone) /\ skip_pc = All(kNone)
  /\ told = All(kNone) /\ held = All(FALSE)
  /\ events = 0

Happens == events < MaxEvents /\ events' = events + 1

Goto(c, step) == thread' = [thread EXCEPT ![c] = step]

-----------------------------------------------------------------------------
(* A processor's thread: its semaphore, then the console's start.          *)
SemaphoreWait(c) ==
  /\ thread[c] = "sem" /\ mySemaphore[c]
  /\ mySemaphore' = [mySemaphore EXCEPT ![c] = FALSE]
  /\ Goto(c, "wait")
  /\ UNCHANGED <<main, asked, files, StopThread, regs, stub, shared, own,
                 history, events>>

\* Mutant: a processor the console has not started does not see the stop.
AwaitStartOnly(c) ==
  /\ thread[c] = "wait" /\ ~wait_for_start[c]
  /\ Goto(c, "loop")
  /\ UNCHANGED <<main, asked, files, StopThread, mySemaphore, regs, stub,
                 shared, own, history, events>>

AwaitStart(c) ==
  /\ thread[c] = "wait"
  /\ wait_for_start[c] => StopThread[c]
  /\ Goto(c, IF wait_for_start[c] THEN "ended" ELSE "loop")
  /\ UNCHANGED <<main, asked, files, StopThread, mySemaphore, regs, stub,
                 shared, own, history, events>>

(* run_loop's look at StopThread, and the dispatcher's at m_debug_on.      *)
run_loop(c) ==
  /\ thread[c] = "loop"
  /\ Goto(c, IF StopThread[c] THEN "ended"
             ELSE IF m_debug_on[c] THEN "boundary" ELSE "exec")
  /\ UNCHANGED <<main, asked, files, StopThread, mySemaphore, regs, stub,
                 shared, own, history, events>>

(* What instructions do: the PC goes anywhere, the console starts a        *)
(* secondary that still waits, the firmware asks for a reset.              *)
Executed(c) ==
  /\ told' = [told EXCEPT ![c] = kNone]
  /\ \E n \in Pc, s \in {c} \cup {k \in Cpu : wait_for_start[k]} :
       /\ pc' = [[pc EXCEPT ![s] = Entry] EXCEPT ![c] = n]
       /\ wait_for_start' = [wait_for_start EXCEPT ![s] = FALSE]
  /\ \/ UNCHANGED <<m_reset_requested, events>>
     \/ Happens /\ m_reset_requested' = TRUE

execute(c) ==
  /\ thread[c] = "exec"
  /\ Executed(c)
  /\ Goto(c, "loop")
  /\ UNCHANGED <<main, got_sigusr1, breakHit, files, StopThread, mySemaphore,
                 stub, shared, own, held>>

-----------------------------------------------------------------------------
(* CDebugTarget, the processors' side.  boundary: leave for a thread that  *)
(* is being stopped; take a copy of the breakpoints if they changed; then  *)
(* park, report a breakpoint, or go on.                                    *)
boundary(c) ==
  /\ thread[c] = "boundary"
  /\ Goto(c, IF StopThread[c] THEN "loop" ELSE "ask")
  /\ bps' = IF StopThread[c] THEN bps ELSE [bps EXCEPT ![c] = m_bps]
  /\ UNCHANGED <<main, asked, files, StopThread, mySemaphore, regs, stub,
                 shared, reported_bp, skip_pc, history, events>>

\* Mutant: a breakpoint passed once is not met again until the next park.
AskKeepsSkip(c) ==
  /\ thread[c] = "ask"
  /\ Goto(c, IF m_stop_req THEN "park"
             ELSE IF pc[c] \in bps[c] /\ pc[c] # skip_pc[c] THEN "hit"
             ELSE "exec")
  /\ UNCHANGED <<main, asked, files, StopThread, mySemaphore, regs, stub,
                 shared, own, history, events>>

Ask(c) ==
  /\ thread[c] = "ask"
  /\ Goto(c, IF m_stop_req THEN "park"
             ELSE IF pc[c] \in bps[c] /\ pc[c] # skip_pc[c] THEN "hit"
             ELSE "exec")
  /\ skip_pc' = IF thread'[c] = "exec" THEN [skip_pc EXCEPT ![c] = kNone]
                ELSE skip_pc
  /\ UNCHANGED <<main, asked, files, StopThread, mySemaphore, regs, stub,
                 shared, bps, reported_bp, history, events>>

(* Only the hit that stops the machine is reported and remembered.         *)
Hit(c) ==
  /\ thread[c] = "hit"
  /\ Goto(c, "boundary")
  /\ m_stop_req' = TRUE
  /\ IF m_stop_req
     THEN UNCHANGED <<reported_bp, told>>
     ELSE /\ reported_bp' = [reported_bp EXCEPT ![c] = pc[c]]
          /\ told' = [told EXCEPT ![c] = pc[c]]
  /\ UNCHANGED <<main, asked, files, StopThread, mySemaphore, regs, stub,
                 m_debug_on, m_bps, action, woken, bps, skip_pc, held,
                 events>>

park(c) ==
  /\ thread[c] = "park"
  /\ Goto(c, "parked")
  /\ woken' = [woken EXCEPT ![c] = FALSE]
  /\ UNCHANGED <<main, asked, files, StopThread, mySemaphore, regs, stub,
                 m_debug_on, m_stop_req, m_bps, action, own, history,
                 events>>

ParkStopped(c) ==
  /\ thread[c] = "parked" /\ StopThread[c]
  /\ Goto(c, "loop")
  /\ UNCHANGED <<main, asked, files, StopThread, mySemaphore, regs, stub,
                 shared, own, history, events>>

\* Mutant: every processor leaves when the machine is resumed.
WakeAll(c) ==
  /\ thread[c] = "parked" /\ ~StopThread[c] /\ woken[c]
  /\ woken' = [woken EXCEPT ![c] = FALSE]
  /\ Goto(c, IF action[c] = "step" THEN "step" ELSE "boundary")
  /\ skip_pc' = [skip_pc EXCEPT ![c] = IF reported_bp[c] = pc[c]
                                       THEN pc[c] ELSE kNone]
  /\ reported_bp' = [reported_bp EXCEPT ![c] = kNone]
  /\ UNCHANGED <<main, asked, files, StopThread, mySemaphore, regs, stub,
                 m_debug_on, m_stop_req, m_bps, action, bps, history,
                 events>>

ParkWoken(c) ==
  /\ thread[c] = "parked" /\ ~StopThread[c] /\ woken[c]
  /\ woken' = [woken EXCEPT ![c] = FALSE]
  /\ IF action[c] = "stay"
     THEN UNCHANGED <<thread, skip_pc, reported_bp>>
     ELSE /\ Goto(c, IF action[c] = "step" THEN "step" ELSE "boundary")
          /\ skip_pc' = [skip_pc EXCEPT ![c] = IF reported_bp[c] = pc[c]
                                               THEN pc[c] ELSE kNone]
          /\ reported_bp' = [reported_bp EXCEPT ![c] = kNone]
  /\ UNCHANGED <<main, asked, files, StopThread, mySemaphore, regs, stub,
                 m_debug_on, m_stop_req, m_bps, action, bps, history,
                 events>>

step_one(c) ==
  /\ thread[c] = "step"
  /\ Executed(c)
  /\ Goto(c, "stepped")
  /\ UNCHANGED <<main, got_sigusr1, breakHit, files, StopThread, mySemaphore,
                 stub, shared, own, held>>

(* The step's own stop.                                                    *)
Stepped(c) ==
  /\ thread[c] = "stepped"
  /\ Goto(c, "boundary")
  /\ m_stop_req' = TRUE
  /\ UNCHANGED <<main, asked, files, StopThread, mySemaphore, regs, stub,
                 m_debug_on, m_bps, action, woken, own, history, events>>

CpuStep(c) ==
  \/ SemaphoreWait(c) \/ AwaitStart(c) \/ run_loop(c) \/ execute(c)
  \/ boundary(c) \/ Ask(c) \/ Hit(c) \/ park(c)
  \/ ParkStopped(c) \/ ParkWoken(c) \/ step_one(c) \/ Stepped(c)

-----------------------------------------------------------------------------
(* CDebugTarget, the debugger's side, and the session that calls it.       *)

\* Mutant: a processor told to go has not left yet, and counts as stopped.
quiescentParked(c) == thread[c] = "parked" \/ wait_for_start[c]

\* Mutant: a processor the console has not started must park as well.
quiescentStarted(c) ==
  thread[c] = "parked" /\ (~woken[c] \/ action[c] = "stay")

quiescent(c) ==
  \/ thread[c] = "parked" /\ (~woken[c] \/ action[c] = "stay")
  \/ wait_for_start[c]

stopped == m_stop_req /\ \A c \in Cpu : quiescent(c)

Connect ==
  /\ stub = "listen"
  /\ stub' = "attach"
  /\ UNCHANGED <<main, asked, files, threads, regs, shared, own, history,
                 events>>

attach ==
  /\ stub = "attach"
  /\ stub' = "attached"
  /\ m_debug_on' = All(TRUE)
  /\ UNCHANGED <<main, asked, files, threads, regs, m_stop_req, m_bps,
                 action, woken, own, history, events>>

(* The attachment's request, and Ctrl-C's.                                 *)
request_stop ==
  /\ stub \in {"attached", "waiting"}
  /\ stub' = "waiting"
  /\ m_stop_req' = TRUE
  /\ UNCHANGED <<main, asked, files, threads, regs, m_debug_on, m_bps,
                 action, woken, own, history, events>>

wait_stopped ==
  /\ stub = "waiting" /\ stopped
  /\ stub' = "stopped"
  /\ held' = All(FALSE)
  /\ UNCHANGED <<main, asked, files, threads, regs, shared, own, told,
                 events>>

set_breakpoint ==
  /\ stub = "stopped"
  /\ \E a \in Bp : m_bps' \in {m_bps \cup {a}, m_bps \ {a}}
  /\ UNCHANGED <<main, asked, files, threads, regs, stub, m_debug_on,
                 m_stop_req, action, woken, own, history, events>>

(* gdb moves a processor's PC.                                             *)
write_reg ==
  /\ stub = "stopped"
  /\ \E c \in Cpu, n \in Pc : pc' = [pc EXCEPT ![c] = n]
  /\ UNCHANGED <<main, asked, files, threads, wait_for_start, stub, shared,
                 own, history, events>>

(* A step asked of a processor that is not parked is reported as done at   *)
(* once: the stop stays asked for.                                         *)
resume ==
  /\ stub = "stopped"
  /\ stub' = "waiting"
  /\ action' \in [Cpu -> {"stay", "continue", "step"}]
  /\ woken' = [c \in Cpu |-> thread[c] = "parked"]
  /\ m_stop_req' = \E c \in Cpu : action'[c] = "step" /\ thread[c] # "parked"
  /\ held' = [c \in Cpu |-> thread[c] = "parked" /\ action'[c] = "stay"]
  /\ UNCHANGED <<main, asked, files, threads, regs, m_debug_on, m_bps, own,
                 told, events>>

(* gdb detaches or kills, or its connection is lost.                       *)
Leave ==
  /\ stub \in {"waiting", "stopped"}
  /\ stub' = "leave"
  /\ UNCHANGED <<main, asked, files, threads, regs, shared, own, history,
                 events>>

detach ==
  /\ stub = "leave"
  /\ stub' = "listen"
  /\ m_bps' = {}
  /\ m_debug_on' = All(FALSE)
  /\ action' = All("continue")
  /\ reported_bp' = All(kNone)
  /\ m_stop_req' = FALSE
  /\ woken' = [c \in Cpu |-> thread[c] = "parked"]
  /\ held' = All(FALSE)
  /\ UNCHANGED <<main, asked, files, threads, regs, bps, skip_pc, told,
                 events>>

StubStep ==
  \/ attach \/ request_stop \/ wait_stopped \/ set_breakpoint \/ write_reg
  \/ resume \/ Leave \/ detach

-----------------------------------------------------------------------------
(* The main loop.  Signals and the serial line's BREAK only leave a mark.  *)
Signal ==
  /\ Happens
  /\ got_sigusr1' = TRUE
  /\ UNCHANGED <<main, m_reset_requested, breakHit, files, threads, regs,
                 stub, shared, own, history>>

Break ==
  /\ mpc \notin {"act", "write", "rename", "load"}
  /\ Happens
  /\ breakHit' = TRUE
  /\ UNCHANGED <<main, m_reset_requested, got_sigusr1, files, threads, regs,
                 stub, shared, own, history>>

Run ==
  /\ mpc = "top"
  /\ \/ /\ got_sigusr1 /\ got_sigusr1' = FALSE /\ why' = "save"
        /\ UNCHANGED <<m_reset_requested, breakHit>>
     \/ /\ m_reset_requested /\ m_reset_requested' = FALSE /\ why' = "reset"
        /\ UNCHANGED <<got_sigusr1, breakHit>>
     \/ /\ breakHit /\ why' = "menu"
        /\ UNCHANGED asked
  /\ mpc' = "stop" /\ UNCHANGED i
  /\ UNCHANGED <<files, threads, regs, stub, shared, own, history, events>>

\* Mutant: the thread is asked to end and not waited for.
StopNoJoin ==
  /\ mpc = "stop"
  /\ StopThread' = [StopThread EXCEPT ![i] = TRUE]
  /\ mySemaphore' = [mySemaphore EXCEPT ![i] = TRUE]
  /\ i' = (i + 1) % NumCpus
  /\ mpc' = IF i' = 0 THEN "act" ELSE "stop"
  /\ UNCHANGED <<why, asked, files, thread, regs, stub, shared, own, history,
                 events>>

stop_threads ==
  /\ mpc = "stop"
  /\ StopThread' = [StopThread EXCEPT ![i] = TRUE]
  /\ mySemaphore' = [mySemaphore EXCEPT ![i] = TRUE]
  /\ mpc' = "join"
  /\ UNCHANGED <<why, i, asked, files, thread, regs, stub, shared, own,
                 history, events>>

Join ==
  /\ mpc = "join" /\ thread[i] = "ended"
  /\ Goto(i, "none")
  /\ mySemaphore' = [mySemaphore EXCEPT ![i] = FALSE]
  /\ i' = (i + 1) % NumCpus
  /\ mpc' = IF i' = 0 THEN "act" ELSE "stop"
  /\ UNCHANGED <<why, asked, files, StopThread, regs, stub, shared, own,
                 history, events>>

(* What the threads were stopped for is done; the menu has been shown.     *)
Resumes ==
  /\ mpc' = "start" /\ i' = 0
  /\ breakHit' = (breakHit /\ why # "menu")

\* Mutant: the state file itself is written.
SaveInPlace ==
  /\ mpc = "act" /\ why \in {"save", "menu"}
  /\ mpc' = "write" /\ UNCHANGED <<i, breakHit>>
  /\ tmp' = "part" /\ file' = "part"
  /\ UNCHANGED <<why, m_reset_requested, got_sigusr1, threads, regs, stub,
                 shared, own, history, events>>

(* SaveState: into a file beside, renamed into place when it is whole.  It *)
(* cannot be created, written or renamed, and then the old one stays.      *)
SaveState ==
  /\ mpc = "act" /\ why \in {"save", "menu"}
  /\ \/ Resumes /\ UNCHANGED tmp
     \/ mpc' = "write" /\ UNCHANGED <<i, breakHit>> /\ tmp' = "part"
  /\ UNCHANGED <<why, m_reset_requested, got_sigusr1, file, threads, regs,
                 stub, shared, own, history, events>>

SaveWritten ==
  /\ mpc = "write"
  /\ \/ Resumes /\ tmp' = "none"
     \/ mpc' = "rename" /\ UNCHANGED <<i, breakHit>> /\ tmp' = "whole"
  /\ UNCHANGED <<why, m_reset_requested, got_sigusr1, file, threads, regs,
                 stub, shared, own, history, events>>

SaveRenamed ==
  /\ mpc = "rename"
  /\ Resumes
  /\ tmp' = "none"
  /\ file' \in {file, tmp}
  /\ UNCHANGED <<why, m_reset_requested, got_sigusr1, threads, regs, stub,
                 shared, own, history, events>>

(* RestoreState: the state of any machine saved before.                    *)
Restored ==
  /\ file = "whole"
  /\ pc' \in [Cpu -> Pc]
  /\ wait_for_start' \in {w \in [Cpu -> BOOLEAN] : ~w[0]}

(* The BREAK menu's other answers, and its timeout.                        *)
serial_menu ==
  /\ mpc = "act" /\ why = "menu"
  /\ Resumes
  /\ \/ UNCHANGED regs
     \/ Restored
  /\ UNCHANGED <<why, m_reset_requested, got_sigusr1, files, threads, stub,
                 shared, own, history, events>>

(* ProcessPendingReset.  LoadROM has the console from its cache, or runs   *)
(* its decompressor as processor 0, on this thread: a debugger that is     *)
(* attached has boundary see StopThread, and no instruction run.           *)
ProcessPendingReset ==
  /\ mpc = "act" /\ why = "reset"
  /\ pc' = All(Entry) /\ wait_for_start' = ConsoleWaits
  /\ \/ Resumes
     \/ mpc' = "load" /\ UNCHANGED <<i, breakHit>>
  /\ UNCHANGED <<why, m_reset_requested, got_sigusr1, files, threads, stub,
                 shared, own, history, events>>

run_decompressor ==
  /\ mpc = "load" /\ ~m_debug_on[0]
  /\ Resumes
  /\ UNCHANGED <<why, m_reset_requested, got_sigusr1, files, threads, regs,
                 stub, shared, own, history, events>>

start_threads ==
  /\ mpc = "start"
  /\ mySemaphore' = [mySemaphore EXCEPT ![i] = FALSE]
  /\ StopThread' = [StopThread EXCEPT ![i] = FALSE]
  /\ Goto(i, "sem")
  /\ held' = [held EXCEPT ![i] = FALSE]
  /\ i' = (i + 1) % NumCpus
  /\ mpc' = IF i' = 0 THEN "release" ELSE "start"
  /\ UNCHANGED <<why, asked, files, regs, stub, shared, own, told, events>>

release_threads ==
  /\ mpc = "release"
  /\ mySemaphore' = [mySemaphore EXCEPT ![i] = TRUE]
  /\ i' = (i + 1) % NumCpus
  /\ mpc' = IF i' = 0 THEN "top" ELSE "release"
  /\ UNCHANGED <<why, asked, files, thread, StopThread, regs, stub, shared,
                 own, history, events>>

MainStep ==
  \/ Run \/ stop_threads \/ Join \/ SaveState \/ SaveWritten \/ SaveRenamed
  \/ serial_menu \/ ProcessPendingReset \/ run_decompressor
  \/ start_threads \/ release_threads

(* The emulator exits or dies, and is started again, from its console or   *)
(* with ALPHABOX_RESTORE from the state file.                              *)
Reboot ==
  /\ Happens
  /\ thread' = All("none") /\ StopThread' = All(FALSE)
  /\ mySemaphore' = All(FALSE)
  /\ \/ pc' = All(Entry) /\ wait_for_start' = ConsoleWaits
     \/ Restored
  /\ mpc' = "start" /\ why' = "boot" /\ i' = 0
  /\ m_reset_requested' = FALSE /\ got_sigusr1' = FALSE /\ breakHit' = FALSE
  /\ stub' = "listen"
  /\ m_stop_req' \in BOOLEAN /\ m_debug_on' = All(m_stop_req')
  /\ m_bps' = {} /\ action' = All("continue") /\ woken' = All(FALSE)
  /\ bps' = All({}) /\ reported_bp' = All(kNone) /\ skip_pc' = All(kNone)
  /\ told' = All(kNone) /\ held' = All(FALSE)
  /\ UNCHANGED files

Next ==
  \/ \E c \in Cpu : CpuStep(c)
  \/ StubStep \/ Connect
  \/ MainStep \/ Signal \/ Break
  \/ Reboot

Spec == Init /\ [][Next]_vars

(* The host runs every thread; nothing is asked of gdb, of the guest or of *)
(* the user but that the bounded events end.                               *)
Fairness ==
  /\ \A c \in Cpu : WF_vars(CpuStep(c))
  /\ WF_vars(MainStep)
  /\ WF_vars(attach \/ (stub = "attached" /\ request_stop) \/ wait_stopped
             \/ detach)

FairSpec == Spec /\ Fairness

-----------------------------------------------------------------------------
(* While gdb has the machine stopped no instruction runs, whatever the     *)
(* main loop does to the threads meanwhile (CDebugTarget::stopped).        *)
AllStopped ==
  stub = "stopped" => \A c \in Cpu : thread[c] \notin {"exec", "step"}

(* No instruction under a breakpoint runs but one whose hit was reported   *)
(* as the stop, since the processor last ran (CDebugTarget::boundary,      *)
(* skip_pc and reported_bp).  This is of threads the main loop has not     *)
(* stopped: one it starts while gdb sets a breakpoint has an older copy.   *)
NoneUnseen ==
  why = "boot" =>
    \A c \in Cpu :
      thread[c] = "exec" /\ pc[c] \in m_bps => told[c] = pc[c]

(* A processor that was parked and told to stay runs nothing until the     *)
(* machine has stopped again, unless the debugger leaves or the main loop  *)
(* starts its thread anew (CDebugTarget::park, Action::Stay).              *)
HeldStays ==
  \A c \in Cpu : held[c] => thread[c] \notin {"exec", "step"}

(* What gdb asked of a stop is kept: a breakpoint is met, a processor told *)
(* to stay stays.                                                          *)
SessionKept == NoneUnseen /\ HeldStays

(* The machine is saved, replaced and reset with no processor's thread     *)
(* alive (CSystem::stop_threads).                                          *)
Quiet ==
  mpc \in {"act", "write", "rename", "load"} =>
    \A c \in Cpu : thread[c] = "none"

(* No thread goes past its semaphore before every thread exists, not even  *)
(* on a wake-up left over from an earlier stop (start_threads).            *)
ReleasedTogether ==
  mpc = "start" => \A c \in Cpu : thread[c] \in {"none", "sem"}

(* The main loop has the processors' threads to itself: none is alive      *)
(* while it acts for them, and none passes its semaphore before all exist  *)
(* (stop_threads, start_threads), the state being of its types.            *)
ThreadsHeldOff == TypeOK /\ Quiet /\ ReleasedTogether

(* A save that fails or is cut short leaves no part of a state file where  *)
(* the last good one was (CSystem::SaveState).                             *)
StateFileWhole == file # "part"

(* A stop that was asked for is reached, unless gdb goes first, across     *)
(* restarts of the threads and of the machine (CGdbStub::wait_stopped).    *)
(* One wait is excepted: a reset whose decompressor cannot run while the   *)
(* debugger is attached, which then waits for it, and it for the debugger. *)
StopCompletes ==
  stub = "waiting" /\ m_stop_req ~> stub # "waiting" \/ mpc = "load"

(* The main loop comes back from what it stopped the threads for: it never *)
(* waits for a thread that waits for it, parked, at its semaphore or for   *)
(* the console (CSystem::Run).  The same wait is excepted.                 *)
MainReturns ==
  mpc # "top" ~> mpc = "top" \/ (mpc = "load" /\ m_debug_on[0])
=============================================================================

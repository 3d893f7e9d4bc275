---------------------------- MODULE RadeonQueue ----------------------------
(***************************************************************************)
(* The command FIFO of the Radeon between the processors and the engine's  *)
(* thread (src/devices/video/radeon/RadeonQueue.cpp), with the register    *)
(* writes that act on the engine from outside it: RBBM_SOFT_RESET          *)
(* (RadeonControl.cpp) and the CP's write pointer (RadeonCP.cpp).          *)
(*                                                                         *)
(* A critical section of m_q_mx, m_exec_mx or m_int_lock is one step.      *)
(* Every wait on m_q_work and m_q_space has a time limit, so a waiter may  *)
(* look again at any time and notifications are left out.  An entry is the *)
(* number it was queued under (m_enq_seq).  The CP's ring is the number of *)
(* packets in it; its PIO queue (m_csq) is not modelled.  The processors   *)
(* are stopped before the card is (System.cpp stops components in the      *)
(* configuration's order), so no write meets m_eng_stop.                   *)
(***************************************************************************)
EXTENDS Naturals, Sequences, FiniteSets

CONSTANTS
    RCpu,           \* processors
    FifoEntries,    \* cmdfifo_entries
    MaxQueued,      \* bound on queued writes
    MaxRing,        \* bound on packets written to the ring
    MaxResets,      \* bound on soft resets
    MaxStops        \* bound on stops of the machine (a snapshot)

VARIABLES
    q,              \* under m_q_mx: fifo, enq, done, executing, held, was_busy, thread, stop
    eng,            \* the engine's thread: pc, the entry it holds
    taken,          \* the last entry whose write has been done
    ring,           \* packets between the read and the write pointer
    late,           \* the timeline runs behind: now < m_busy_until_ns
    idle,           \* GEN_INT_STATUS GUI_IDLE
    rcpu,           \* each processor: pc, what it waits for, what it read
    rbound          \* the counts of bounded events

rqVars == <<q, eng, taken, ring, late, idle, rcpu, rbound>>

AtRest == [pc |-> "idle", want |-> 0, saw |-> 0]
NoThread == [pc |-> "none", e |-> 0]

Init ==
    /\ q = [fifo |-> <<>>, enq |-> 0, done |-> 0, executing |-> FALSE, held |-> FALSE,
            was_busy |-> FALSE, thread |-> FALSE, stop |-> FALSE]
    /\ eng = NoThread
    /\ taken = 0
    /\ ring = 0
    /\ late = FALSE
    /\ idle = FALSE
    /\ rcpu = [c \in RCpu |-> AtRest]
    /\ rbound = [ring |-> 0, resets |-> 0, stops |-> 0]

Go(c, pc) == rcpu' = [rcpu EXCEPT ![c] = [AtRest EXCEPT !.pc = pc]]

-----------------------------------------------------------------------------
(* The processors *)

\* engine_thread_start
engine_thread_start ==
    /\ q' = [q EXCEPT !.thread = TRUE, !.stop = FALSE]
    /\ eng' = [NoThread EXCEPT !.pc = "top"]

\* queue_write finds no engine.
QueueStarts(c) ==
    /\ rcpu[c].pc = "idle" /\ ~q.thread /\ q.enq < MaxQueued
    /\ engine_thread_start
    /\ UNCHANGED <<taken, ring, late, idle, rcpu, rbound>>

\* queue_write: into the FIFO once there is room.
queue_write(c) ==
    /\ rcpu[c].pc = "idle" /\ q.thread /\ q.enq < MaxQueued
    /\ Len(q.fifo) < FifoEntries
    /\ q' = [q EXCEPT !.fifo = Append(@, q.enq + 1), !.enq = @ + 1, !.was_busy = TRUE]
    /\ UNCHANGED <<eng, taken, ring, late, idle, rcpu, rbound>>

\* CP_RB_WPTR: the register, then engine_kick under the lock.
WritePointer(c) ==
    /\ rcpu[c].pc = "idle" /\ rbound.ring < MaxRing
    /\ ring' = ring + 1
    /\ rbound' = [rbound EXCEPT !.ring = @ + 1]
    /\ Go(c, "kick")
    /\ UNCHANGED <<q, eng, taken, late, idle>>

engine_kick(c) ==
    /\ rcpu[c].pc = "kick"
    /\ q' = [q EXCEPT !.was_busy = TRUE, !.thread = TRUE, !.stop = FALSE]
    /\ eng' = IF q.thread THEN eng ELSE [NoThread EXCEPT !.pc = "top"]
    /\ Go(c, "idle")
    /\ UNCHANGED <<taken, ring, late, idle, rbound>>

\* RBBM_SOFT_RESET with engine bits: the engine is reset once the command
\* running has finished (m_exec_mx; with the CP's bit the read pointer
\* returns to zero, here: the ring is given up), and then held.
SoftReset(c) ==
    /\ rcpu[c].pc = "idle" /\ ~q.held /\ rbound.resets < MaxResets
    /\ ring' \in {ring, 0}
    /\ rbound' = [rbound EXCEPT !.resets = @ + 1]
    /\ Go(c, "hold")
    /\ UNCHANGED <<q, eng, taken, late, idle>>

Hold(c) ==
    /\ rcpu[c].pc = "hold"
    /\ q' = [q EXCEPT !.held = TRUE]
    /\ Go(c, "idle")
    /\ UNCHANGED <<eng, taken, ring, late, idle, rbound>>

Release(c) ==
    /\ rcpu[c].pc = "idle" /\ q.held
    /\ q' = [q EXCEPT !.held = FALSE]
    /\ UNCHANGED <<eng, taken, ring, late, idle, rcpu, rbound>>

\* read_after_queue: wait for the writes queued before...
ReadBegins(c) ==
    /\ rcpu[c].pc = "idle"
    /\ rcpu' = [rcpu EXCEPT ![c] = [pc |-> "wait", want |-> q.enq, saw |-> 0]]
    /\ UNCHANGED <<q, eng, taken, ring, late, idle, rbound>>

WaitOver(c) ==
    /\ rcpu[c].pc = "wait"
    /\ q.done >= rcpu[c].want
    /\ rcpu' = [rcpu EXCEPT ![c].pc = "read"]
    /\ UNCHANGED <<q, eng, taken, ring, late, idle, rbound>>

\* ... or for two seconds, or not at all without an engine or while it is held.
GivesUp(c) ==
    /\ rcpu[c].pc = "wait"
    /\ q.done < rcpu[c].want
    /\ rcpu' = [rcpu EXCEPT ![c].pc = "read", ![c].want = 0]
    /\ UNCHANGED <<q, eng, taken, ring, late, idle, rbound>>

Reads(c) ==
    /\ rcpu[c].pc = "read"
    /\ rcpu' = [rcpu EXCEPT ![c].pc = "answer", ![c].saw = taken]
    /\ UNCHANGED <<q, eng, taken, ring, late, idle, rbound>>

ReadDone(c) ==
    /\ rcpu[c].pc = "answer"
    /\ Go(c, "idle")
    /\ UNCHANGED <<q, eng, taken, ring, late, idle, rbound>>

-----------------------------------------------------------------------------
(* The engine's thread *)

Step(pc) == eng' = [eng EXCEPT !.pc = pc]

\* engine_has_work_locked
HasWork == ~q.held /\ (q.fifo # <<>> \/ ring > 0)

\* engine_main, under the lock: stop, take the next entry, take a packet of the
\* ring, or see to the idle interrupt.
Leaves ==
    /\ eng.pc \in {"top", "again"} /\ q.stop
    /\ Step("left")
    /\ UNCHANGED <<q, taken, ring, late, idle, rcpu, rbound>>

Takes ==
    /\ eng.pc \in {"top", "again"} /\ ~q.stop /\ HasWork /\ q.fifo # <<>>
    /\ eng' = [pc |-> "apply", e |-> Head(q.fifo)]
    /\ q' = [q EXCEPT !.fifo = Tail(@), !.executing = TRUE]
    /\ UNCHANGED <<taken, ring, late, idle, rcpu, rbound>>

\* queue_apply and engine_charge, under m_exec_mx.
queue_apply ==
    /\ eng.pc = "apply"
    /\ taken' = eng.e
    /\ late' = TRUE
    /\ Step("finish")
    /\ UNCHANGED <<q, ring, idle, rcpu, rbound>>

Finishes ==
    /\ eng.pc = "finish"
    /\ q' = [q EXCEPT !.executing = FALSE, !.done = @ + 1]
    /\ eng' = [pc |-> "top", e |-> 0]
    /\ UNCHANGED <<taken, ring, late, idle, rcpu, rbound>>

RingTakes ==
    /\ eng.pc \in {"top", "again"} /\ ~q.stop /\ HasWork /\ q.fifo = <<>>
    /\ q' = [q EXCEPT !.executing = TRUE]
    /\ Step("ring")
    /\ UNCHANGED <<taken, ring, late, idle, rcpu, rbound>>

\* cp_ring_step: a packet, if the ring still has one.
cp_ring_step ==
    /\ eng.pc = "ring"
    /\ ring' = IF ring > 0 THEN ring - 1 ELSE 0
    /\ late' = TRUE
    /\ Step("ringdone")
    /\ UNCHANGED <<q, taken, idle, rcpu, rbound>>

RingDone ==
    /\ eng.pc = "ringdone"
    /\ q' = [q EXCEPT !.executing = FALSE]
    /\ Step("top")
    /\ UNCHANGED <<taken, ring, late, idle, rcpu, rbound>>

\* engine_idle_check, a step per lock it takes; after it the loop waits and
\* looks again.
IdleCheck ==
    /\ eng.pc = "top" /\ ~q.stop /\ ~HasWork
    /\ Step(IF q.was_busy THEN "busy" ELSE "again")
    /\ UNCHANGED <<q, taken, ring, late, idle, rcpu, rbound>>

engine_busy ==
    /\ eng.pc = "busy"
    /\ Step(IF q.fifo # <<>> \/ q.executing \/ ring > 0 \/ late THEN "again" ELSE "clear")
    /\ UNCHANGED <<q, taken, ring, late, idle, rcpu, rbound>>

ClearBusy ==
    /\ eng.pc = "clear"
    /\ q' = [q EXCEPT !.was_busy = FALSE]
    /\ Step("latch")
    /\ UNCHANGED <<taken, ring, late, idle, rcpu, rbound>>

Latch ==
    /\ eng.pc = "latch"
    /\ idle' = TRUE
    /\ Step("again")
    /\ UNCHANGED <<q, taken, ring, late, rcpu, rbound>>

WaitEnds ==
    /\ eng.pc = "again" /\ ~q.stop /\ ~HasWork
    /\ Step("top")
    /\ UNCHANGED <<q, taken, ring, late, idle, rcpu, rbound>>

\* The wall clock catches up with the engine's timeline.
Clock ==
    /\ late
    /\ late' = FALSE
    /\ UNCHANGED <<q, eng, taken, ring, idle, rcpu, rbound>>

-----------------------------------------------------------------------------
(* engine_thread_stop, with the processors stopped *)

Stop ==
    /\ \A c \in RCpu : rcpu[c].pc = "idle"
    /\ q.thread /\ ~q.stop /\ rbound.stops < MaxStops
    /\ q' = [q EXCEPT !.stop = TRUE]
    /\ rbound' = [rbound EXCEPT !.stops = @ + 1]
    /\ UNCHANGED <<eng, taken, ring, late, idle, rcpu>>

Last(s) == s[Len(s)]

\* The thread is joined, and what was queued given up.
JoinDrops ==
    /\ q.stop /\ eng.pc = "left" /\ q.thread
    /\ eng' = NoThread
    /\ q' = [q EXCEPT !.fifo = <<>>, !.thread = FALSE]
    /\ UNCHANGED <<taken, ring, late, idle, rcpu, rbound>>

\* The thread is joined; what the guest queued before still happens, in order.
Join ==
    /\ q.stop /\ eng.pc = "left" /\ q.thread
    /\ eng' = NoThread
    /\ taken' = IF q.fifo = <<>> THEN taken ELSE Last(q.fifo)
    /\ q' = [q EXCEPT !.fifo = <<>>, !.thread = FALSE]
    /\ UNCHANGED <<ring, late, idle, rcpu, rbound>>

\* No processor runs between the two.
Running == ~q.stop

Processor(c) ==
    \/ queue_write(c) \/ WritePointer(c) \/ engine_kick(c)
    \/ SoftReset(c) \/ Hold(c) \/ Release(c)
    \/ ReadBegins(c) \/ WaitOver(c) \/ GivesUp(c) \/ Reads(c) \/ ReadDone(c)

Engine ==
    \/ Leaves \/ Takes \/ queue_apply \/ Finishes \/ RingTakes \/ cp_ring_step \/ RingDone
    \/ IdleCheck \/ engine_busy \/ ClearBusy \/ Latch \/ WaitEnds \/ Clock

Next ==
    \/ \E c \in RCpu : (Running \/ ~q.thread) /\ (QueueStarts(c) \/ Processor(c))
    \/ Engine \/ Stop \/ Join

Spec == Init /\ [][Next]_rqVars

-----------------------------------------------------------------------------
(* Properties *)

\* "nothing is ever dropped", and the engine takes the FIFO's entries in
\* order: through a full FIFO, soft resets and a stop of the machine, the
\* writes taken, the one under way and the ones in the FIFO are all those
\* queued, one after the other (queue_write, engine_main, engine_thread_stop).
TakenInOrder ==
    LET waiting == (IF eng.pc = "apply" THEN <<eng.e>> ELSE <<>>) \o q.fifo
    IN /\ taken + Len(waiting) = q.enq
       /\ \A i \in 1 .. Len(waiting) : waiting[i] = taken + i

\* A processor's read of a queued register comes after every write queued
\* before it, unless it gave up or the engine was held (read_after_queue).
ReadsAfterWrites ==
    \A c \in RCpu : rcpu[c].pc = "answer" => rcpu[c].saw >= rcpu[c].want

\* "a CPU read of a queued register waits until the writes queued before it
\* have been taken", and no longer: a reader that still waits has a write of
\* the FIFO or the engine to wait for.
ReadWaitsForWork ==
    \A c \in RCpu :
        rcpu[c].pc = "wait" /\ q.done < rcpu[c].want /\ q.thread /\ ~q.held
            => q.fifo # <<>> \/ eng.pc \in {"apply", "finish"}
=============================================================================

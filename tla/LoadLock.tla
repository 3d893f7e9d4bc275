------------------------------ MODULE LoadLock ------------------------------
(***************************************************************************)
(* Load-locked / store-conditional and its gate against device DMA         *)
(* (CSystem: CLLSCDRAMGuard, CPCIDMAWriteGuard, cpu_lock, cpu_stx_c,       *)
(* cpu_take_lock, cpu_clear_lock, cpu_clear_external_locks), as the        *)
(* processors' LDx_L, STx_C, ordinary memory operations and exceptions,    *)
(* and a PCI device's do_pci_write, call it.                               *)
(*                                                                         *)
(* Each access to a word that another thread reads or writes is one step.  *)
(* What a store also tells the code-page map and the LDx_ARM watches is in *)
(* the modules CodePages and Quiesce.                                      *)
(***************************************************************************)
EXTENDS Naturals, FiniteSets

CONSTANTS CPU,       \* processors
          Device,    \* PCI devices that write memory
          Addr,      \* naturally aligned quadwords
          IoAddr,    \* the ones in I/O space (CPU_LOCK_IO_MASK, past dram_sz)
          Val,       \* what a quadword holds
          Zero,      \* what it holds after calloc
          line,      \* the 64-byte line of a quadword
          bucket,    \* the line's bucket, (phys >> 6) & (kLLBuckets - 1)
          SeqMod     \* 2^32 in the code: m_ll_seq is a u32

Line == {line[a] : a \in Addr}
Bucket == {bucket[l] : l \in Line}

ASSUME LoadLockAssumption ==
  /\ IsFiniteSet(CPU)
  /\ IoAddr \subseteq Addr
  /\ Addr # {}
  /\ Zero \in Val
  /\ line \in [Addr -> Line]
  /\ bucket \in [Line -> Bucket]
  /\ \A a \in IoAddr, b \in Addr \ IoAddr : line[a] # line[b]
  /\ SeqMod \in Nat \ {0, 1}

VARIABLES
  mem,           \* guest memory
  llSeq,         \* m_ll_seq: STx_Cs done, per bucket
  llLock,        \* m_ll_lock: the bucket's spin lock
  lockFlags,     \* m_cpu_lock_flags, as the set of processors
  lockAddress,   \* m_cpu_lock_address
  lockValue,     \* cpu_lock_value
  seqSnap,       \* m_ll_seq_snap
  gate,          \* cpu_llsc_dma_gate: writer bit, reader count
  clean,         \* m_llsc_clean: no listed memory operation since the LDx_L
  pc, op,        \* where a processor is, the operands of its instruction
  dpc, dop,      \* where a device's transfer is, the bytes it carries
  since          \* history: what happened to the line since the LDx_L's load

memVars  == <<mem, llSeq, llLock>>
lockVars == <<lockAddress, lockValue, seqSnap>>
devVars  == <<dpc, dop>>
vars == <<mem, llSeq, llLock, lockFlags, lockAddress, lockValue, seqSnap,
          gate, clean, pc, op, dpc, dop, since>>

Event == {"stc", "stcAfterSnap", "wrap", "dma", "store"}

CpuSteps == {"run", "ll_read", "ll_lock", "ll_leave", "sc_take", "sc_spin",
             "sc_seq", "sc_store", "sc_bump", "sc_unlock", "sc_leave"}

DevSteps == {"idle", "drain", "probe", "write", "leave"}

NoOp == [addr |-> CHOOSE a \in Addr : TRUE, val |-> Zero]

BucketOf(a) == bucket[line[a]]

TypeOK ==
  /\ mem \in [Addr -> Val]
  /\ llSeq \in [Bucket -> 0 .. SeqMod - 1]
  /\ llLock \in [Bucket -> BOOLEAN]
  /\ lockFlags \in SUBSET CPU
  /\ lockAddress \in [CPU -> Addr]
  /\ lockValue \in [CPU -> Val]
  /\ seqSnap \in [CPU -> 0 .. SeqMod - 1]
  /\ gate \in [writer : BOOLEAN, readers : Nat]
  /\ clean \in [CPU -> BOOLEAN]
  /\ pc \in [CPU -> CpuSteps]
  /\ op \in [CPU -> [addr : Addr, val : Val]]
  /\ dpc \in [Device -> DevSteps]
  /\ dop \in [Device -> [to : SUBSET (Addr \ IoAddr), val : Val]]
  /\ since \in [CPU -> SUBSET Event]

Init ==
  /\ mem = [a \in Addr |-> Zero]
  /\ llSeq = [b \in Bucket |-> 0]
  /\ llLock = [b \in Bucket |-> FALSE]
  /\ lockFlags = {}
  /\ lockAddress = [c \in CPU |-> CHOOSE a \in Addr : TRUE]
  /\ lockValue = [c \in CPU |-> Zero]
  /\ seqSnap = [c \in CPU |-> 0]
  /\ gate = [writer |-> FALSE, readers |-> 0]
  /\ clean = [c \in CPU |-> FALSE]
  /\ pc = [c \in CPU |-> "run"]
  /\ op = [c \in CPU |-> NoOp]
  /\ dpc = [d \in Device |-> "idle"]
  /\ dop = [d \in Device |-> [to |-> {}, val |-> Zero]]
  /\ since = [c \in CPU |-> {}]

(***************************************************************************)
(* History only, kept while a reservation can still matter.  Watched(c) is *)
(* the line c's latest LDx_L loaded from; Touch records an event there for *)
(* every processor but the one causing it.                                 *)
(***************************************************************************)
Reserving(c) == c \in lockFlags \/ pc[c] # "run"

Watched(c) == line[IF pc[c] = "ll_lock" THEN op[c].addr ELSE lockAddress[c]]

Touch(others, lines, events) ==
  [c \in CPU |-> IF c \in others /\ Reserving(c) /\ Watched(c) \in lines
                 THEN since[c] \cup events ELSE since[c]]

Changed(event, a, v) == IF mem[a] # v THEN {event} ELSE {}

(***************************************************************************)
(* The reader side of the gate.  A processor in I/O space takes no guard.  *)
(* At most one reader per processor, so the count never fills its 31 bits. *)
(***************************************************************************)
Guarded(a) == a \notin IoAddr

cpu_llsc_enter(a) ==
  IF Guarded(a)
  THEN /\ ~gate.writer
       /\ gate' = [gate EXCEPT !.readers = @ + 1]
  ELSE UNCHANGED gate

cpu_llsc_leave(c) ==
  gate' = IF Guarded(op[c].addr) THEN [gate EXCEPT !.readers = @ - 1]
                                 ELSE gate

Goto(c, to) == pc' = [pc EXCEPT ![c] = to]

(***************************************************************************)
(* LDx_L and HW_LD/L (READ_VIRT_LOCK, jit_read_locked): the guard, the     *)
(* load, cpu_lock, m_llsc_clean, and the guard let go.                     *)
(***************************************************************************)
LDx_L(c, a) ==
  /\ pc[c] = "run"
  /\ cpu_llsc_enter(a)
  /\ op' = [op EXCEPT ![c].addr = a]
  /\ Goto(c, "ll_read")
  /\ UNCHANGED <<memVars, lockFlags, lockVars, clean, devVars, since>>

LoadLocked(c) ==
  /\ pc[c] = "ll_read"
  /\ op' = [op EXCEPT ![c].val = mem[op[c].addr]]
  /\ since' = [since EXCEPT ![c] = {}]
  /\ Goto(c, "ll_lock")
  /\ UNCHANGED <<memVars, lockFlags, lockVars, gate, clean, devVars>>

\* The flag word and the sequence are the only shared words cpu_lock touches;
\* another processor never reads c's flag, and a device only behind the gate.
cpu_lock(c) ==
  /\ pc[c] = "ll_lock"
  /\ lockAddress' = [lockAddress EXCEPT ![c] = op[c].addr]
  /\ lockValue' = [lockValue EXCEPT ![c] = op[c].val]
  /\ seqSnap' = [seqSnap EXCEPT ![c] = llSeq[BucketOf(op[c].addr)]]
  /\ lockFlags' = lockFlags \cup {c}
  /\ clean' = [clean EXCEPT ![c] = TRUE]
  /\ since' = [since EXCEPT ![c] = @ \ {"stcAfterSnap", "wrap"}]
  /\ Goto(c, "ll_leave")
  /\ UNCHANGED <<memVars, gate, op, devVars>>

LeaveGuard(c) ==
  /\ pc[c] \in {"ll_leave", "sc_leave"}
  /\ cpu_llsc_leave(c)
  /\ Goto(c, "run")
  /\ op' = [op EXCEPT ![c] = NoOp]
  /\ since' = [since EXCEPT ![c] = IF c \in lockFlags THEN @ ELSE {}]
  /\ UNCHANGED <<memVars, lockFlags, lockVars, clean, devVars>>

(***************************************************************************)
(* STx_C and HW_ST/C (WRITE_VIRT_COND, jit_stc): the guard, cpu_take_lock, *)
(* the bucket's lock, the sequence, the compare-and-swap (or the plain     *)
(* store to another quadword of the line), the sequence counted up.        *)
(***************************************************************************)
STx_C(c, a, v) ==
  /\ pc[c] = "run"
  /\ cpu_llsc_enter(a)
  /\ op' = [op EXCEPT ![c] = [addr |-> a, val |-> v]]
  /\ Goto(c, "sc_take")
  /\ UNCHANGED <<memVars, lockFlags, lockVars, clean, devVars, since>>

Held(c) == /\ clean[c]
           /\ c \in lockFlags
           /\ line[lockAddress[c]] = line[op[c].addr]

\* To memory: the reservation is consumed whether or not it was held.
cpu_take_lock(c) ==
  /\ pc[c] = "sc_take"
  /\ Guarded(op[c].addr)
  /\ lockFlags' = lockFlags \ {c}
  /\ Goto(c, IF Held(c) THEN "sc_spin" ELSE "sc_leave")
  /\ UNCHANGED <<memVars, lockVars, gate, clean, op, devVars, since>>

\* To I/O space: always succeeds, and WriteMem performs it.
StoreConditionalIo(c) ==
  /\ pc[c] = "sc_take"
  /\ ~Guarded(op[c].addr)
  /\ lockFlags' = lockFlags \ {c}
  /\ mem' = [mem EXCEPT ![op[c].addr] = op[c].val]
  /\ Goto(c, "sc_leave")
  /\ UNCHANGED <<llSeq, llLock, lockVars, gate, clean, op, devVars, since>>

SpinBucket(c) ==
  /\ pc[c] = "sc_spin"
  /\ ~llLock[BucketOf(op[c].addr)]
  /\ llLock' = [llLock EXCEPT ![BucketOf(op[c].addr)] = TRUE]
  /\ Goto(c, "sc_seq")
  /\ UNCHANGED <<mem, llSeq, lockFlags, lockVars, gate, clean, op, devVars,
                 since>>

\* Mutant: no ABA guard.
CheckNoSequence(c) ==
  /\ pc[c] = "sc_seq"
  /\ Goto(c, "sc_store")
  /\ UNCHANGED <<memVars, lockFlags, lockVars, gate, clean, op, devVars, since>>

CheckSequence(c) ==
  /\ pc[c] = "sc_seq"
  /\ Goto(c, IF llSeq[BucketOf(op[c].addr)] = seqSnap[c]
             THEN "sc_store" ELSE "sc_unlock")
  /\ UNCHANGED <<memVars, lockFlags, lockVars, gate, clean, op, devVars, since>>

SameAddress(c) == lockAddress[c] = op[c].addr

\* Mutant: a plain store where the code compares and swaps.
StoreUnconditional(c) ==
  /\ pc[c] = "sc_store"
  /\ mem' = [mem EXCEPT ![op[c].addr] = op[c].val]
  /\ Goto(c, "sc_bump")
  /\ UNCHANGED <<llSeq, llLock, lockFlags, lockVars, gate, clean, op, devVars,
                 since>>

StoreConditional(c) ==
  /\ pc[c] = "sc_store"
  /\ \/ /\ SameAddress(c) => mem[op[c].addr] = lockValue[c]
        /\ mem' = [mem EXCEPT ![op[c].addr] = op[c].val]
        /\ since' = Touch(CPU \ {c}, {line[op[c].addr]},
                          {"stcAfterSnap"} \cup Changed("stc", op[c].addr, op[c].val))
        /\ Goto(c, "sc_bump")
     \/ /\ SameAddress(c)
        /\ mem[op[c].addr] # lockValue[c]
        /\ Goto(c, "sc_unlock")
        /\ UNCHANGED <<mem, since>>
  /\ UNCHANGED <<llSeq, llLock, lockFlags, lockVars, gate, clean, op, devVars>>

\* History: "wrap" is the u32 coming back to a value some processor snapped.
CountStore(c) ==
  LET b == BucketOf(op[c].addr)
      n == (llSeq[b] + 1) % SeqMod
  IN  /\ pc[c] = "sc_bump"
      /\ llSeq' = [llSeq EXCEPT ![b] = n]
      /\ since' = [k \in CPU |-> IF /\ bucket[line[lockAddress[k]]] = b
                                    /\ seqSnap[k] = n
                                 THEN since[k] \cup {"wrap"} ELSE since[k]]
      /\ Goto(c, "sc_unlock")
      /\ UNCHANGED <<mem, llLock, lockFlags, lockVars, gate, clean, op, devVars>>

ReleaseBucket(c) ==
  /\ pc[c] = "sc_unlock"
  /\ llLock' = [llLock EXCEPT ![BucketOf(op[c].addr)] = FALSE]
  /\ Goto(c, "sc_leave")
  /\ UNCHANGED <<mem, llSeq, lockFlags, lockVars, gate, clean, op, devVars,
                 since>>

(***************************************************************************)
(* Everything else a processor does to memory or to its lock.              *)
(***************************************************************************)
\* An ordinary store; `listed`: one of the operations of LLSC_MEMOP.
Store(c, a, v, listed) ==
  /\ pc[c] = "run"
  /\ mem' = [mem EXCEPT ![a] = v]
  /\ clean' = [clean EXCEPT ![c] = @ /\ ~listed]
  /\ since' = Touch(CPU \ {c}, {line[a]}, Changed("store", a, v))
  /\ UNCHANGED <<llSeq, llLock, lockFlags, lockVars, gate, pc, op, devVars>>

Load(c) ==
  /\ pc[c] = "run"
  /\ clean' = [clean EXCEPT ![c] = FALSE]
  /\ UNCHANGED <<memVars, lockFlags, lockVars, gate, pc, op, devVars, since>>

cpu_clear_lock(c) ==
  /\ pc[c] = "run"
  /\ lockFlags' = lockFlags \ {c}
  /\ since' = [since EXCEPT ![c] = {}]
  /\ UNCHANGED <<memVars, lockVars, gate, clean, pc, op, devVars>>

(***************************************************************************)
(* A device's write (do_pci_write): the writer bit, the readers drained,   *)
(* the probe that drops the reservations, the bytes, the gate opened.      *)
(***************************************************************************)
pci_dma_write_enter(d, to, v) ==
  /\ dpc[d] = "idle"
  /\ ~gate.writer
  /\ gate' = [gate EXCEPT !.writer = TRUE]
  /\ dop' = [dop EXCEPT ![d] = [to |-> to, val |-> v]]
  /\ dpc' = [dpc EXCEPT ![d] = "drain"]
  /\ UNCHANGED <<memVars, lockFlags, lockVars, clean, pc, op, since>>

\* Mutant: the writer does not wait for the readers inside.
DrainNobody(d) ==
  /\ dpc[d] = "drain"
  /\ dpc' = [dpc EXCEPT ![d] = "probe"]
  /\ UNCHANGED <<memVars, lockFlags, lockVars, gate, clean, pc, op, dop, since>>

\* Mutant: the writer waits for reservations to be given up as well.
DrainReservations(d) ==
  /\ dpc[d] = "drain"
  /\ gate.readers = 0 /\ lockFlags = {}
  /\ dpc' = [dpc EXCEPT ![d] = "probe"]
  /\ UNCHANGED <<memVars, lockFlags, lockVars, gate, clean, pc, op, dop, since>>

DrainReaders(d) ==
  /\ dpc[d] = "drain"
  /\ gate.readers = 0
  /\ dpc' = [dpc EXCEPT ![d] = "probe"]
  /\ UNCHANGED <<memVars, lockFlags, lockVars, gate, clean, pc, op, dop, since>>

Lines(S) == {line[a] : a \in S}

\* Mutant: the probe leaves the reservation of a processor that has done
\* nothing but load since.
ProbeBusy(d) ==
  /\ dpc[d] = "probe"
  /\ lockFlags' = {c \in lockFlags : clean[c]}
  /\ dpc' = [dpc EXCEPT ![d] = "write"]
  /\ UNCHANGED <<memVars, lockVars, gate, clean, pc, op, dop, since>>

cpu_clear_external_locks(d) ==
  /\ dpc[d] = "probe"
  /\ lockFlags' = {c \in lockFlags : line[lockAddress[c]] \notin Lines(dop[d].to)}
  /\ dpc' = [dpc EXCEPT ![d] = "write"]
  /\ UNCHANGED <<memVars, lockVars, gate, clean, pc, op, dop, since>>

DmaWrite(d) ==
  /\ dpc[d] = "write"
  /\ mem' = [a \in Addr |-> IF a \in dop[d].to THEN dop[d].val ELSE mem[a]]
  /\ since' = Touch(CPU, Lines(dop[d].to), {"dma"})
  /\ dpc' = [dpc EXCEPT ![d] = "leave"]
  /\ UNCHANGED <<llSeq, llLock, lockFlags, lockVars, gate, clean, pc, op, dop>>

\* store(0): the whole word, the reader count with it.
pci_dma_write_leave(d) ==
  /\ dpc[d] = "leave"
  /\ gate' = [writer |-> FALSE, readers |-> 0]
  /\ dpc' = [dpc EXCEPT ![d] = "idle"]
  /\ dop' = [dop EXCEPT ![d] = [to |-> {}, val |-> Zero]]
  /\ UNCHANGED <<memVars, lockFlags, lockVars, clean, pc, op, since>>

------------------------------------------------------------------------------
\* What a processor's host thread does once it is inside an instruction.
CpuStep(c) ==
  \/ LoadLocked(c) \/ cpu_lock(c) \/ LeaveGuard(c)
  \/ cpu_take_lock(c) \/ StoreConditionalIo(c) \/ SpinBucket(c)
  \/ CheckSequence(c) \/ StoreConditional(c) \/ CountStore(c)
  \/ ReleaseBucket(c)

\* What the guest's instruction stream may ask for next.
Guest(c) ==
  \/ \E a \in Addr : LDx_L(c, a)
  \/ \E a \in Addr, v \in Val : STx_C(c, a, v)
  \/ \E a \in Addr, v \in Val, listed \in BOOLEAN : Store(c, a, v, listed)
  \/ Load(c)
  \/ cpu_clear_lock(c)

DmaStep(d) ==
  \/ DrainReaders(d) \/ cpu_clear_external_locks(d) \/ DmaWrite(d)
  \/ pci_dma_write_leave(d)

DmaStart(d) ==
  \E to \in SUBSET (Addr \ IoAddr) \ {{}}, v \in Val :
    pci_dma_write_enter(d, to, v)

Next ==
  \/ \E c \in CPU : Guest(c) \/ CpuStep(c)
  \/ \E d \in Device : DmaStart(d) \/ DmaStep(d)

Spec == Init /\ [][Next]_vars

\* Every host thread keeps running; nothing obliges a guest or a device to
\* begin anything.
Fairness ==
  /\ \A c \in CPU : WF_vars(CpuStep(c))
  /\ \A d \in Device : WF_vars(DmaStep(d))

FairSpec == Spec /\ Fairness

------------------------------------------------------------------------------
(***************************************************************************)
(* Properties.                                                             *)
(***************************************************************************)
GuardedSteps == CpuSteps \ {"run"}

InGuard(c) == pc[c] \in GuardedSteps /\ Guarded(op[c].addr)

\* While a device's transfer is past the drain (pci_dma_write_enter has
\* returned), no processor is between cpu_llsc_enter and cpu_llsc_leave, and no
\* other device is inside either; the store of 0 that opens the gate therefore
\* drops no reader's count.
GateExclusion ==
  \A d \in Device : dpc[d] \in {"probe", "write", "leave"} =>
    /\ \A c \in CPU : ~InGuard(c)
    /\ \A e \in Device \ {d} : dpc[e] = "idle"

\* A STx_C whose checks have passed (cpu_stx_c, at the compare-and-swap or the
\* plain store) stores into a line no device has written since the LDx_L's
\* load: the probe and the gate together lose no transfer.
StcSeesDma ==
  \A c \in CPU : pc[c] = "sc_store" => "dma" \notin since[c]

\* ... and no other processor's STx_C has stored into that line since the
\* LDx_L read the sequence (m_ll_seq_snap), unless the u32 came all the way
\* round to the value it read: the ABA guard.
StcSeesStcAfterSnap ==
  \A c \in CPU : pc[c] = "sc_store" =>
    \/ "stcAfterSnap" \notin since[c]
    \/ "wrap" \in since[c]

\* A device that has set the writer bit gets its transfer done whatever the
\* processors go on asking for: the bit holds new readers back
\* (pci_dma_write_enter), and those inside, even one spinning for a bucket,
\* come out.
DmaCompletes == \A d \in Device : (dpc[d] = "drain") ~> (dpc[d] = "idle")

\* The refinement: a LDx_L takes effect when it loads, a STx_C when it stores.
loadedMap ==
  [c \in CPU |-> IF pc[c] = "ll_lock" THEN op[c]
                 ELSE [addr |-> lockAddress[c], val |-> lockValue[c]]]

reservedMap ==
  {c \in CPU : c \in lockFlags \/ pc[c] \in {"ll_lock", "sc_spin", "sc_seq",
                                           "sc_store"}}

storedMap == {c \in CPU : pc[c] = "sc_bump"}

LM == INSTANCE LockedMemory WITH
        loaded <- loadedMap, reserved <- reservedMap, stored <- storedMap

\* Every behaviour of the gate, the flags, the sequence and the
\* compare-and-swap is one of the memory a guest is promised.
ImplementsLockedMemory == LM!Spec

\* What the comment on the ABA guard says of it: "another STx_C wrote this line
\* since our LDx_L" makes the STx_C fail (unless the u32 came all the way round).
StcSeesEveryStc ==
  \A c \in CPU : pc[c] = "sc_bump" =>
    \/ "stc" \notin since[c]
    \/ "wrap" \in since[c]
==============================================================================

--------------------------- MODULE LoadLockProofs ---------------------------
(***************************************************************************)
(* Proofs about LoadLock, for any number of processors, devices, quadwords *)
(* and values, and any width of the sequence.                              *)
(***************************************************************************)
EXTENDS LoadLock, FiniteSetTheorems, TLAPS

Readers == {c \in CPU : InGuard(c)}

\* The gate's two fields say who is inside: the writer bit is set exactly by
\* the one device past its compare-and-swap, the count is of the processors
\* between cpu_llsc_enter and cpu_llsc_leave.
GateCounts ==
  /\ gate.readers = Cardinality(Readers)
  /\ \A d \in Device : dpc[d] # "idle" => gate.writer
  /\ \A d, e \in Device : dpc[d] # "idle" /\ dpc[e] # "idle" => d = e
  /\ \A d \in Device : dpc[d] \in {"probe", "write", "leave"} => Readers = {}

GateInv == TypeOK /\ GateCounts

\* Where a STx_C to memory is once cpu_take_lock has found its reservation, and
\* where it has the bucket's spin lock.
Taken  == {"sc_spin", "sc_seq", "sc_store"}
Locked == {"sc_seq", "sc_store", "sc_bump", "sc_unlock"}

\* A STx_C past cpu_take_lock is to memory and to the reserved line, and its
\* flag is gone.  Between the probe and the bytes no flag is left on the lines
\* a device is about to write.  A reservation that can still succeed has seen
\* no device's write.
ReservationCounts ==
  /\ \A c \in CPU : pc[c] \in Taken \cup Locked => Guarded(op[c].addr)
  /\ \A c \in CPU : pc[c] \in Taken =>
       c \notin lockFlags /\ line[lockAddress[c]] = line[op[c].addr]
  /\ \A d \in Device : dpc[d] = "write" =>
       \A c \in lockFlags : line[lockAddress[c]] \notin Lines(dop[d].to)
  /\ \A c \in CPU : c \in lockFlags \/ pc[c] \in Taken \cup {"ll_lock"} =>
       "dma" \notin since[c]

ReservationInv == GateInv /\ ReservationCounts

\* A snap that some STx_C may still compare, and whether the count it compares
\* with has moved on, or is about to, or has come round.
Snapped(c) == (c \in lockFlags /\ pc[c] # "ll_lock") \/ pc[c] \in Taken

MovedOn(c) ==
  \/ llSeq[BucketOf(lockAddress[c])] # seqSnap[c]
  \/ \E k \in CPU \ {c} : pc[k] = "sc_bump" /\ BucketOf(op[k].addr) = BucketOf(lockAddress[c])
  \/ "wrap" \in since[c]

\* A bucket's spin lock has one holder, so the count stands still between the
\* comparison and the store; and a STx_C to the line is seen in the count.
SequenceCounts ==
  /\ \A c \in CPU : pc[c] \in Locked => llLock[BucketOf(op[c].addr)]
  /\ \A c, k \in CPU : /\ pc[c] \in Locked /\ pc[k] \in Locked
                        /\ BucketOf(op[c].addr) = BucketOf(op[k].addr)
                        => c = k
  /\ \A c \in CPU : pc[c] = "sc_store" => llSeq[BucketOf(op[c].addr)] = seqSnap[c]
  /\ \A c \in CPU : Snapped(c) /\ "stcAfterSnap" \in since[c] => MovedOn(c)

SequenceInv == ReservationInv /\ SequenceCounts

USE LoadLockAssumption

\* Readers is a set of processors, so it has a cardinality.
LEMMA ReadersFinite == IsFiniteSet(Readers) /\ Cardinality(Readers) \in Nat
  BY FS_Subset, FS_CardinalityType, Readers \subseteq CPU, Zenon DEF Readers

\* A remainder is below its modulus.
LEMMA ModRange ==
  ASSUME NEW n \in Nat, NEW m \in Nat \ {0} PROVE n % m \in 0 .. m - 1
  OBVIOUS

\* Every initial state has the gate open and nobody inside.
LEMMA InitGate == Init => GateInv
<1> SUFFICES ASSUME Init PROVE GateInv
  BY Zenon
<1>1. NoOp \in [addr : Addr, val : Val]
  BY Zenon DEF NoOp
<1>2. TypeOK
  BY <1>1 DEF Init, TypeOK, CpuSteps, DevSteps, Event
<1>3. Readers = {}
  BY Zenon DEF Init, Readers, InGuard, GuardedSteps
<1>4. Cardinality(Readers) = 0
  BY <1>3, FS_EmptySet, Zenon
<1>5. GateCounts
  BY <1>3, <1>4, Zenon DEF Init, GateCounts
<1> QED BY <1>2, <1>5, Zenon DEF GateInv

\* The history of a reservation stays a set of events.
LEMMA TouchType ==
  ASSUME TypeOK, NEW others, NEW lines, NEW events \in SUBSET Event
  PROVE  Touch(others, lines, events) \in [CPU -> SUBSET Event]
<1>1. since \in [CPU -> SUBSET Event]
  BY Zenon DEF TypeOK
<1> QED BY <1>1, Zenon DEF Touch

\* One step of a processor or a device keeps every variable in its type.  The
\* count needs the gate's meaning: it is taken down only by a reader inside.
LEMMA TypeStep == GateInv /\ [Next]_vars => TypeOK'
<1> SUFFICES ASSUME GateInv, [Next]_vars PROVE TypeOK'
  BY Zenon
<1> USE DEF GateInv
<1>0. NoOp \in [addr : Addr, val : Val]
  BY Zenon DEF NoOp
<1>g. gate \in [writer : BOOLEAN, readers : Nat]
  BY Zenon DEF TypeOK
<1>a. \A c \in CPU : BucketOf(op[c].addr) \in Bucket
  BY Zenon DEF TypeOK, BucketOf
<1>1. ASSUME NEW c \in CPU, NEW a \in Addr, LDx_L(c, a) PROVE TypeOK'
  <2>1. op' \in [CPU -> [addr : Addr, val : Val]]
    BY <1>1 DEF LDx_L, TypeOK
  <2>2. gate' \in [writer : BOOLEAN, readers : Nat]
    BY <1>1, <1>g DEF LDx_L, cpu_llsc_enter
  <2>3. pc' \in [CPU -> CpuSteps]
    BY <1>1, Zenon DEF LDx_L, Goto, CpuSteps, TypeOK
  <2> QED BY <2>1, <2>2, <2>3, <1>1, Zenon DEF LDx_L, TypeOK, memVars, lockVars, devVars
<1>2. ASSUME NEW c \in CPU, LoadLocked(c) PROVE TypeOK'
  BY <1>2 DEF LoadLocked, Goto, TypeOK, CpuSteps, memVars, lockVars, devVars
<1>3. ASSUME NEW c \in CPU, cpu_lock(c) PROVE TypeOK'
  BY <1>3, <1>a, Zenon DEF cpu_lock, Goto, TypeOK, CpuSteps, memVars, devVars
<1>4. ASSUME NEW c \in CPU, LeaveGuard(c) PROVE TypeOK'
  <2>1. gate' \in [writer : BOOLEAN, readers : Nat]
    <3>1. CASE ~Guarded(op[c].addr)
      BY <3>1, <1>4, Zenon DEF LeaveGuard, cpu_llsc_leave, TypeOK
    <3>2. CASE Guarded(op[c].addr)
      <4>1. c \in Readers
        BY <3>2, <1>4, Zenon DEF LeaveGuard, Readers, InGuard, GuardedSteps, CpuSteps
      <4>2. gate.readers # 0
        BY <4>1, ReadersFinite, FS_EmptySet, Zenon DEF GateCounts
      <4>3. gate.readers - 1 \in Nat
        BY <4>2 DEF TypeOK
      <4> QED BY <4>3, <3>2, <1>4, Zenon DEF LeaveGuard, cpu_llsc_leave, TypeOK
    <3> QED BY <3>1, <3>2, Zenon
  <2>2. op' \in [CPU -> [addr : Addr, val : Val]]
    BY <1>0, <1>4, Zenon DEF LeaveGuard, TypeOK
  <2>3. pc' \in [CPU -> CpuSteps]
    BY <1>4, Zenon DEF LeaveGuard, Goto, CpuSteps, TypeOK
  <2>4. since' \in [CPU -> SUBSET Event]
    BY <1>4, Zenon DEF LeaveGuard, TypeOK
  <2> QED BY <2>1, <2>2, <2>3, <2>4, <1>4, Zenon DEF LeaveGuard, TypeOK, memVars, lockVars, devVars
<1>5. ASSUME NEW c \in CPU, NEW a \in Addr, NEW v \in Val, STx_C(c, a, v) PROVE TypeOK'
  <2>1. gate' \in [writer : BOOLEAN, readers : Nat]
    BY <1>5, <1>g DEF STx_C, cpu_llsc_enter
  <2> QED BY <2>1, <1>5, Zenon DEF STx_C, Goto, TypeOK, CpuSteps, memVars, lockVars, devVars
<1>6. ASSUME NEW c \in CPU, cpu_take_lock(c) PROVE TypeOK'
  BY <1>6, Zenon DEF cpu_take_lock, Goto, TypeOK, CpuSteps, memVars, lockVars, devVars
<1>7. ASSUME NEW c \in CPU, StoreConditionalIo(c) PROVE TypeOK'
  BY <1>7, Zenon DEF StoreConditionalIo, Goto, TypeOK, CpuSteps, lockVars, devVars
<1>8. ASSUME NEW c \in CPU, SpinBucket(c) PROVE TypeOK'
  BY <1>8, <1>a, Zenon DEF SpinBucket, Goto, TypeOK, CpuSteps, lockVars, devVars
<1>9. ASSUME NEW c \in CPU, CheckSequence(c) PROVE TypeOK'
  BY <1>9, Zenon DEF CheckSequence, Goto, TypeOK, CpuSteps, memVars, lockVars, devVars
<1>10. ASSUME NEW c \in CPU, StoreConditional(c) PROVE TypeOK'
  <2>0. /\ mem \in [Addr -> Val]
        /\ op[c].addr \in Addr /\ op[c].val \in Val
    BY Zenon DEF TypeOK
  <2>1. mem' \in [Addr -> Val]
    BY <2>0, <1>10, Zenon DEF StoreConditional
  <2>2. pc' \in [CPU -> CpuSteps]
    BY <1>10, ZenonT(60) DEF StoreConditional, Goto, CpuSteps, TypeOK
  <2>3. {"stcAfterSnap"} \cup Changed("stc", op[c].addr, op[c].val) \subseteq Event
    BY Zenon DEF Changed, Event
  <2>5. since \in [CPU -> SUBSET Event]
    BY Zenon DEF TypeOK
  <2>4. since' \in [CPU -> SUBSET Event]
    <3>1. \/ since' = since
          \/ since' = Touch(CPU \ {c}, {line[op[c].addr]},
                            {"stcAfterSnap"} \cup Changed("stc", op[c].addr, op[c].val))
      BY <1>10, Zenon DEF StoreConditional
    <3>2. CASE since' = since
      BY <2>5, <3>2, Zenon
    <3>3. CASE since' # since
      BY <2>3, <3>1, <3>3, TouchType
    <3> QED BY <3>2, <3>3, Zenon
  <2> QED BY <2>1, <2>2, <2>4, <1>10, Zenon DEF StoreConditional, TypeOK, lockVars, devVars
<1>11. ASSUME NEW c \in CPU, CountStore(c) PROVE TypeOK'
  <2> DEFINE b == BucketOf(op[c].addr)
  <2>1. (llSeq[b] + 1) % SeqMod \in 0 .. SeqMod - 1
    <3>0. llSeq[b] \in 0 .. SeqMod - 1
      BY <1>a, Zenon DEF TypeOK
    <3>1. llSeq[b] + 1 \in Nat
      BY <3>0
    <3> QED BY <3>1, ModRange, Zenon
  <2>2. llSeq' \in [Bucket -> 0 .. SeqMod - 1]
    BY <2>1, <1>11, <1>a, Zenon DEF CountStore, TypeOK
  <2>3. since' \in [CPU -> SUBSET Event]
    BY <1>11, Zenon DEF CountStore, Event, TypeOK
  <2> QED BY <2>2, <2>3, <1>11, Zenon DEF CountStore, Goto, TypeOK, CpuSteps, lockVars, devVars
<1>12. ASSUME NEW c \in CPU, ReleaseBucket(c) PROVE TypeOK'
  BY <1>12, <1>a, Zenon DEF ReleaseBucket, Goto, TypeOK, CpuSteps, lockVars, devVars
<1>13. ASSUME NEW c \in CPU, NEW a \in Addr, NEW v \in Val, NEW listed \in BOOLEAN,
              Store(c, a, v, listed)
       PROVE TypeOK'
  <2>1. Changed("store", a, v) \subseteq Event
    BY Zenon DEF Changed, Event
  <2>2. since' \in [CPU -> SUBSET Event]
    BY <2>1, <1>13, TouchType, Zenon DEF Store
  <2> QED BY <2>2, <1>13, Zenon DEF Store, TypeOK, lockVars, devVars
<1>14. ASSUME NEW c \in CPU, Load(c) PROVE TypeOK'
  BY <1>14, Zenon DEF Load, TypeOK, memVars, lockVars, devVars
<1>15. ASSUME NEW c \in CPU, cpu_clear_lock(c) PROVE TypeOK'
  BY <1>15, Zenon DEF cpu_clear_lock, TypeOK, memVars, lockVars, devVars
<1>16. ASSUME NEW d \in Device, DmaStart(d) PROVE TypeOK'
  <2>1. PICK to \in SUBSET (Addr \ IoAddr) \ {{}}, v \in Val : pci_dma_write_enter(d, to, v)
    BY <1>16, Zenon DEF DmaStart
  <2>2. dop' \in [Device -> [to : SUBSET (Addr \ IoAddr), val : Val]]
    BY <2>1, Zenon DEF pci_dma_write_enter, TypeOK
  <2>3. gate' \in [writer : BOOLEAN, readers : Nat]
    BY <2>1, Zenon DEF pci_dma_write_enter, TypeOK
  <2> QED
    BY <2>1, <2>2, <2>3, Zenon DEF pci_dma_write_enter, TypeOK, DevSteps, memVars, lockVars
<1>17. ASSUME NEW d \in Device, DrainReaders(d) PROVE TypeOK'
  BY <1>17, Zenon DEF DrainReaders, TypeOK, DevSteps, memVars, lockVars
<1>18. ASSUME NEW d \in Device, cpu_clear_external_locks(d) PROVE TypeOK'
  BY <1>18, Zenon DEF cpu_clear_external_locks, TypeOK, DevSteps, memVars, lockVars
<1>19. ASSUME NEW d \in Device, DmaWrite(d) PROVE TypeOK'
  <2>1. since' \in [CPU -> SUBSET Event]
    BY <1>19, TouchType, Zenon DEF DmaWrite, Event
  <2> QED BY <2>1, <1>19, Zenon DEF DmaWrite, TypeOK, DevSteps, lockVars
<1>20. ASSUME NEW d \in Device, pci_dma_write_leave(d) PROVE TypeOK'
  BY <1>20, Zenon DEF pci_dma_write_leave, TypeOK, DevSteps, memVars, lockVars
<1>21. CASE UNCHANGED vars
  BY <1>21, Zenon DEF vars, TypeOK
<1> QED
  BY <1>1, <1>2, <1>3, <1>4, <1>5, <1>6, <1>7, <1>8, <1>9, <1>10, <1>11, <1>12,
     <1>13, <1>14, <1>15, <1>16, <1>17, <1>18, <1>19, <1>20, <1>21
  DEF Next, Guest, CpuStep, DmaStep

\* One step keeps the gate's meaning.
LEMMA GateStep == GateInv /\ [Next]_vars => GateCounts'
<1> SUFFICES ASSUME GateInv, [Next]_vars PROVE GateCounts'
  BY Zenon
<1> USE DEF GateInv
<1>t. TypeOK'
  BY TypeStep, Zenon
<1>f. IsFiniteSet(Readers) /\ Cardinality(Readers) \in Nat
  BY ReadersFinite, Zenon
<1>p. pc \in [CPU -> CpuSteps] /\ op \in [CPU -> [addr : Addr, val : Val]]
  BY Zenon DEF TypeOK
<1>g. /\ gate \in [writer : BOOLEAN, readers : Nat]
      /\ dpc \in [Device -> DevSteps]
  BY Zenon DEF TypeOK
\* A step inside an instruction leaves the processor where it was.
<1>1. ASSUME Readers' = Readers, gate' = gate, dpc' = dpc PROVE GateCounts'
  BY <1>1, Zenon DEF GateCounts
<1>2. ASSUME NEW c \in CPU, NEW a \in Addr, pc[c] = "run", cpu_llsc_enter(a),
             op'[c].addr = a, \A k \in CPU \ {c} : op'[k] = op[k] /\ pc'[k] = pc[k],
             pc'[c] \in GuardedSteps, dpc' = dpc
      PROVE GateCounts'
  <2>0. c \notin Readers
    BY <1>2, Zenon DEF Readers, InGuard, GuardedSteps
  <2>1. CASE ~Guarded(a)
    <3>1. Readers' = Readers
      BY <1>2, <2>0, <2>1, Zenon DEF Readers, InGuard, Guarded
    <3> QED BY <3>1, <2>1, <1>2, <1>1, Zenon DEF cpu_llsc_enter
  <2>2. CASE Guarded(a)
    <3>1. Readers' = Readers \cup {c}
      BY <1>2, <2>2, ZenonT(60) DEF Readers, InGuard, Guarded
    <3>2. Cardinality(Readers') = Cardinality(Readers) + 1
      BY <3>1, <2>0, <1>f, FS_AddElement, Zenon
    <3>3. gate'.readers = Cardinality(Readers') /\ gate'.writer = FALSE /\ ~gate.writer
      <4>1. /\ ~gate.writer /\ gate.readers = Cardinality(Readers)
            /\ gate' = [gate EXCEPT !.readers = @ + 1]
        BY <2>2, <1>2, Zenon DEF cpu_llsc_enter, GateCounts
      <4> QED BY <3>2, <4>1, <1>g, Zenon
    <3> QED BY <3>3, <1>2, Zenon DEF GateCounts, DevSteps
  <2> QED BY <2>1, <2>2, Zenon
<1>3. ASSUME NEW c \in CPU, LeaveGuard(c) PROVE GateCounts'
  <2>1. CASE ~Guarded(op[c].addr)
    <3>1. Readers' = Readers
      BY <1>3, <2>1, Zenon DEF LeaveGuard, Goto, Readers, InGuard, Guarded, GuardedSteps, TypeOK
    <3> QED BY <3>1, <2>1, <1>3, <1>1, Zenon DEF LeaveGuard, cpu_llsc_leave, devVars
  <2>2. CASE Guarded(op[c].addr)
    <3>1. c \in Readers /\ Readers' = Readers \ {c}
      BY <1>3, <2>2, Zenon DEF LeaveGuard, Goto, Readers, InGuard, Guarded, GuardedSteps, CpuSteps, TypeOK
    <3>2. Cardinality(Readers') = Cardinality(Readers) - 1
      BY <3>1, <1>f, FS_RemoveElement, Zenon
    <3>3. gate'.readers = Cardinality(Readers') /\ gate'.writer = gate.writer
      BY <3>2, <2>2, <1>3, Zenon DEF LeaveGuard, cpu_llsc_leave, GateCounts, TypeOK
    <3> QED BY <3>3, <3>1, <1>3, Zenon DEF GateCounts, LeaveGuard, devVars
  <2> QED BY <2>1, <2>2, Zenon
<1>4. ASSUME NEW c \in CPU,
             \/ LoadLocked(c) \/ cpu_lock(c) \/ cpu_take_lock(c)
             \/ StoreConditionalIo(c) \/ SpinBucket(c) \/ CheckSequence(c)
             \/ StoreConditional(c) \/ CountStore(c) \/ ReleaseBucket(c)
             \/ Load(c) \/ cpu_clear_lock(c)
             \/ \E a \in Addr, v \in Val, listed \in BOOLEAN : Store(c, a, v, listed)
      PROVE GateCounts'
  <2>1. /\ gate' = gate /\ dpc' = dpc
        /\ \A k \in CPU : op'[k].addr = op[k].addr
        /\ \A k \in CPU : pc'[k] \in GuardedSteps <=> pc[k] \in GuardedSteps
    <3> DEFINE Inside == /\ gate' = gate /\ dpc' = dpc /\ op' = op
                         /\ pc[c] \in GuardedSteps
                         /\ \E p \in GuardedSteps : pc' = [pc EXCEPT ![c] = p]
               Outside == UNCHANGED <<gate, dpc, op, pc>>
    <3>1. CASE LoadLocked(c)
      <4>1. /\ gate' = gate /\ dpc' = dpc
            /\ op' = [op EXCEPT ![c].val = mem[op[c].addr]]
            /\ pc[c] = "ll_read" /\ pc' = [pc EXCEPT ![c] = "ll_lock"]
        BY <3>1, Zenon DEF LoadLocked, Goto, devVars
      <4>2. \A k \in CPU : op'[k].addr = op[k].addr
        BY <4>1, <1>p, Zenon
      <4> QED BY <4>1, <4>2, <1>p, Zenon DEF GuardedSteps, CpuSteps
    <3>2. CASE cpu_lock(c)
      <4>1. Inside
        BY <3>2, Zenon DEF cpu_lock, Goto, GuardedSteps, CpuSteps, devVars
      <4> QED BY <4>1, <1>p, Zenon
    <3>3. CASE cpu_take_lock(c)
      <4>1. Inside
        BY <3>3, Zenon DEF cpu_take_lock, Goto, GuardedSteps, CpuSteps, devVars
      <4> QED BY <4>1, <1>p, Zenon
    <3>4. CASE StoreConditionalIo(c)
      <4>1. Inside
        BY <3>4, Zenon DEF StoreConditionalIo, Goto, GuardedSteps, CpuSteps, devVars
      <4> QED BY <4>1, <1>p, Zenon
    <3>5. CASE SpinBucket(c)
      <4>1. Inside
        BY <3>5, Zenon DEF SpinBucket, Goto, GuardedSteps, CpuSteps, devVars
      <4> QED BY <4>1, <1>p, Zenon
    <3>6. CASE CheckSequence(c)
      <4>1. Inside
        BY <3>6, Zenon DEF CheckSequence, Goto, GuardedSteps, CpuSteps, devVars
      <4> QED BY <4>1, <1>p, Zenon
    <3>7. CASE StoreConditional(c)
      <4>1. Inside
        BY <3>7, Zenon DEF StoreConditional, Goto, GuardedSteps, CpuSteps, devVars
      <4> QED BY <4>1, <1>p, Zenon
    <3>8. CASE CountStore(c)
      <4>1. Inside
        BY <3>8, Zenon DEF CountStore, Goto, GuardedSteps, CpuSteps, devVars
      <4> QED BY <4>1, <1>p, Zenon
    <3>9. CASE ReleaseBucket(c)
      <4>1. Inside
        BY <3>9, Zenon DEF ReleaseBucket, Goto, GuardedSteps, CpuSteps, devVars
      <4> QED BY <4>1, <1>p, Zenon
    <3>10. CASE Load(c)
      <4>1. Outside
        BY <3>10, Zenon DEF Load, devVars
      <4> QED BY <4>1, Zenon
    <3>11. CASE cpu_clear_lock(c)
      <4>1. Outside
        BY <3>11, Zenon DEF cpu_clear_lock, devVars
      <4> QED BY <4>1, Zenon
    <3>12. CASE \E a \in Addr, v \in Val, listed \in BOOLEAN : Store(c, a, v, listed)
      <4>1. Outside
        BY <3>12, Zenon DEF Store, devVars
      <4> QED BY <4>1, Zenon
    <3> HIDE DEF Inside, Outside
    <3> QED BY <1>4, <3>1, <3>2, <3>3, <3>4, <3>5, <3>6, <3>7, <3>8, <3>9, <3>10,
               <3>11, <3>12, Zenon
  <2>2. Readers' = Readers
    BY <2>1, Zenon DEF Readers, InGuard, Guarded
  <2> QED BY <2>1, <2>2, <1>1, Zenon
<1>5. ASSUME NEW d \in Device, DmaStart(d) \/ DmaStep(d) PROVE GateCounts'
  <2>1. Readers' = Readers
    BY <1>5, Zenon DEF DmaStart, DmaStep, pci_dma_write_enter, DrainReaders, DmaWrite,
       cpu_clear_external_locks, pci_dma_write_leave, Readers, InGuard
  <2>2. Cardinality(Readers) = 0 => Readers = {}
    BY <1>f, FS_EmptySet, Zenon
  <2>3. Readers = {} => Cardinality(Readers) = 0
    BY FS_EmptySet, Zenon
  <2>4. CASE DmaStart(d)
    <3>1. /\ dpc[d] = "idle" /\ ~gate.writer
          /\ gate' = [gate EXCEPT !.writer = TRUE]
          /\ dpc' = [dpc EXCEPT ![d] = "drain"]
      BY <2>4, Zenon DEF DmaStart, pci_dma_write_enter
    <3>2. \A e \in Device : dpc[e] = "idle"
      BY <3>1, Zenon DEF GateCounts
    <3> QED BY <2>1, <3>1, <3>2, <1>g, Zenon DEF GateCounts
  <2>5. CASE DrainReaders(d)
    <3>1. /\ dpc[d] = "drain" /\ gate' = gate
          /\ gate.readers = 0 /\ dpc' = [dpc EXCEPT ![d] = "probe"]
      BY <2>5, Zenon DEF DrainReaders
    <3>2. Readers = {}
      BY <2>2, <3>1, Zenon DEF GateCounts
    <3> QED BY <2>1, <3>1, <3>2, <1>g, Zenon DEF GateCounts
  <2>6. CASE cpu_clear_external_locks(d)
    <3>1. /\ dpc[d] = "probe" /\ gate' = gate
          /\ dpc' = [dpc EXCEPT ![d] = "write"]
      BY <2>6, Zenon DEF cpu_clear_external_locks
    <3> QED BY <2>1, <3>1, <1>g, Zenon DEF GateCounts
  <2>7. CASE DmaWrite(d)
    <3>1. /\ dpc[d] = "write" /\ gate' = gate
          /\ dpc' = [dpc EXCEPT ![d] = "leave"]
      BY <2>7, Zenon DEF DmaWrite
    <3> QED BY <2>1, <3>1, <1>g, Zenon DEF GateCounts
  <2>8. CASE pci_dma_write_leave(d)
    <3>1. /\ dpc[d] = "leave" /\ gate' = [writer |-> FALSE, readers |-> 0]
          /\ dpc' = [dpc EXCEPT ![d] = "idle"]
      BY <2>8, Zenon DEF pci_dma_write_leave
    <3>2. \A e \in Device : dpc'[e] = "idle"
      BY <3>1, <1>g, Zenon DEF GateCounts
    <3>3. Readers = {}
      BY <3>1, Zenon DEF GateCounts
    <3>4. gate'.readers = Cardinality(Readers')
      BY <2>1, <2>3, <3>1, <3>3, Zenon
    <3> QED BY <3>2, <3>4, Zenon DEF GateCounts
  <2> QED BY <1>5, <2>4, <2>5, <2>6, <2>7, <2>8, Zenon DEF DmaStep
<1>6. ASSUME NEW c \in CPU, NEW a \in Addr, LDx_L(c, a) PROVE GateCounts'
  BY <1>6, <1>2, <1>p, ZenonT(60) DEF LDx_L, Goto, GuardedSteps, CpuSteps, devVars
<1>7. ASSUME NEW c \in CPU, NEW a \in Addr, NEW v \in Val, STx_C(c, a, v) PROVE GateCounts'
  BY <1>7, <1>2, <1>p, Zenon DEF STx_C, Goto, GuardedSteps, CpuSteps, devVars
<1>8. CASE UNCHANGED vars
  BY <1>8, <1>1, Zenon DEF vars, Readers, InGuard, Guarded
<1> QED
  BY <1>3, <1>4, <1>5, <1>6, <1>7, <1>8, Zenon DEF Next, Guest, CpuStep

\* The gate's invariant is inductive.
LEMMA GateInductive == GateInv /\ [Next]_vars => GateInv'
  BY TypeStep, GateStep, Zenon DEF GateInv

\* What a step adds to the histories, and to whose.
LEMMA TouchAdds ==
  ASSUME TypeOK, NEW others, NEW lines, NEW events, NEW c \in CPU
  PROVE  /\ Touch(others, lines, events)[c] \subseteq since[c] \cup events
         /\ \/ c \in others /\ Reserving(c) /\ Watched(c) \in lines
            \/ Touch(others, lines, events)[c] = since[c]
  BY Zenon DEF Touch

\* Initially no processor is in an instruction and no device in a transfer.
LEMMA InitReservation == Init => ReservationInv
<1> SUFFICES ASSUME Init PROVE ReservationCounts
  BY InitGate, Zenon DEF ReservationInv
<1> QED BY Zenon DEF Init, ReservationCounts, Taken, Locked

\* One step keeps what the reservations promise.  The gate's exclusion is what
\* keeps a new reservation out between the probe and the bytes.
LEMMA ReservationStep == ReservationInv /\ [Next]_vars => ReservationCounts'
<1> SUFFICES ASSUME ReservationInv, [Next]_vars PROVE ReservationCounts'
  BY Zenon
<1> USE DEF ReservationInv, GateInv
<1>p. /\ pc \in [CPU -> CpuSteps] /\ op \in [CPU -> [addr : Addr, val : Val]]
      /\ dpc \in [Device -> DevSteps] /\ since \in [CPU -> SUBSET Event]
      /\ lockAddress \in [CPU -> Addr] /\ lockFlags \subseteq CPU
      /\ dop \in [Device -> [to : SUBSET (Addr \ IoAddr), val : Val]]
  BY Zenon DEF TypeOK
<1>g. ASSUME NEW d \in Device, dpc[d] = "write", NEW c \in CPU, pc[c] # "run"
      PROVE  op[c].addr \in IoAddr /\ line[op[c].addr] \notin Lines(dop[d].to)
  <2>1. op[c].addr \in IoAddr
    BY <1>g, <1>p, Zenon DEF GateCounts, Readers, InGuard, GuardedSteps, Guarded
  <2> QED BY <2>1, <1>p, <1>g, Zenon DEF Lines
\* A processor's step that leaves the reservations alone, or gives some up.
<1> DEFINE Moves(c) ==
      /\ \A k \in CPU \ {c} : pc'[k] = pc[k] /\ op'[k] = op[k]
      /\ \/ pc'[c] \notin Taken \cup Locked \cup {"ll_lock"}
         \/ pc[c] \in Taken /\ pc'[c] \in Taken \cup Locked /\ op' = op
         \/ pc[c] \in Locked /\ pc'[c] \in Locked \ Taken /\ op' = op
      /\ lockFlags' \subseteq lockFlags
      /\ UNCHANGED <<lockAddress, dpc, dop>>
<1>1. ASSUME NEW c \in CPU, Moves(c),
             \A k \in CPU : "dma" \in since'[k] => "dma" \in since[k]
      PROVE  ReservationCounts'
  <2>2. \A k \in CPU : pc'[k] \in Taken \cup Locked => Guarded(op'[k].addr)
    BY <1>1, Zenon DEF ReservationCounts, Guarded
  <2>3. \A k \in CPU : pc'[k] \in Taken =>
          k \notin lockFlags' /\ line[lockAddress'[k]] = line[op'[k].addr]
    BY <1>1, ZenonT(60) DEF ReservationCounts, Taken, Locked
  <2>4. \A d \in Device : dpc'[d] = "write" =>
          \A k \in lockFlags' : line[lockAddress'[k]] \notin Lines(dop'[d].to)
    BY <1>1, Zenon DEF ReservationCounts
  <2>5. \A k \in CPU : k \in lockFlags' \/ pc'[k] \in Taken \cup {"ll_lock"} =>
          "dma" \notin since'[k]
    BY <1>1, Zenon DEF ReservationCounts, Taken, Locked
  <2> QED BY <2>2, <2>3, <2>4, <2>5, Zenon DEF ReservationCounts, Lines, Guarded
<1> HIDE DEF Moves
<1>2. ASSUME NEW c \in CPU, NEW a \in Addr, LDx_L(c, a) PROVE ReservationCounts'
  <2>1. Moves(c)
    BY <1>2, <1>p, Zenon DEF LDx_L, Moves, Goto, Taken, Locked, lockVars, devVars
  <2>2. \A k \in CPU : since'[k] \subseteq since[k]
    BY <1>2, <1>p, Zenon DEF LDx_L
  <2> QED BY <1>1, <2>1, <2>2, Zenon
<1>3. ASSUME NEW c \in CPU, LoadLocked(c) PROVE ReservationCounts'
  <2>1. /\ pc'[c] = "ll_lock" /\ \A k \in CPU \ {c} : pc'[k] = pc[k] /\ op'[k] = op[k]
        /\ since'[c] = {} /\ \A k \in CPU \ {c} : since'[k] = since[k]
        /\ UNCHANGED <<lockFlags, lockAddress, dpc, dop>>
    BY <1>3, <1>p, Zenon DEF LoadLocked, Goto, lockVars, devVars
  <2> QED BY <2>1, ZenonT(60) DEF ReservationCounts, Taken, Locked, Guarded, Lines
<1>4. ASSUME NEW c \in CPU, cpu_lock(c) PROVE ReservationCounts'
  <2>1. /\ pc[c] = "ll_lock" /\ pc'[c] = "ll_leave"
        /\ \A k \in CPU \ {c} : /\ pc'[k] = pc[k] /\ since'[k] = since[k]
                                /\ lockAddress'[k] = lockAddress[k]
        /\ since'[c] \subseteq since[c] /\ lockAddress'[c] = op[c].addr
        /\ lockFlags' = lockFlags \cup {c}
        /\ UNCHANGED <<op, dpc, dop>>
    BY <1>4, <1>p, Zenon DEF cpu_lock, Goto, devVars
  <2>2. \A d \in Device : dpc[d] = "write" => line[op[c].addr] \notin Lines(dop[d].to)
    BY <2>1, <1>g, Zenon
  <2> QED BY <2>1, <2>2, <1>p DEF ReservationCounts, Taken, Locked, Guarded, Lines
<1>5. ASSUME NEW c \in CPU, LeaveGuard(c) PROVE ReservationCounts'
  <2>1. Moves(c)
    BY <1>5, <1>p, Zenon DEF LeaveGuard, Moves, Goto, Taken, Locked, lockVars, devVars
  <2>2. \A k \in CPU : since'[k] \subseteq since[k]
    BY <1>5, <1>p, Zenon DEF LeaveGuard
  <2> QED BY <1>1, <2>1, <2>2, Zenon
<1>6. ASSUME NEW c \in CPU, NEW a \in Addr, NEW v \in Val, STx_C(c, a, v)
      PROVE ReservationCounts'
  <2>1. Moves(c)
    BY <1>6, <1>p, Zenon DEF STx_C, Moves, Goto, Taken, Locked, lockVars, devVars
  <2>2. \A k \in CPU : since'[k] \subseteq since[k]
    BY <1>6, <1>p, Zenon DEF STx_C
  <2> QED BY <1>1, <2>1, <2>2, Zenon
<1>7. ASSUME NEW c \in CPU, cpu_take_lock(c) PROVE ReservationCounts'
  <2>1. CASE ~Held(c)
    <3>1. Moves(c) /\ since' = since
      BY <1>7, <1>p, <2>1, Zenon DEF cpu_take_lock, Moves, Goto, Taken, Locked, lockVars, devVars
    <3> QED BY <1>1, <3>1, Zenon
  <2>2. CASE Held(c)
    <3>1. /\ pc'[c] = "sc_spin" /\ Guarded(op[c].addr) /\ c \in lockFlags
          /\ line[lockAddress[c]] = line[op[c].addr]
          /\ \A k \in CPU \ {c} : pc'[k] = pc[k]
          /\ lockFlags' = lockFlags \ {c}
          /\ UNCHANGED <<op, since, lockAddress, dpc, dop>>
      BY <1>7, <1>p, <2>2, Zenon DEF cpu_take_lock, Goto, Held, lockVars, devVars
    <3> QED BY <3>1, Zenon DEF ReservationCounts, Taken, Locked, Guarded, Lines
  <2> QED BY <2>1, <2>2, Zenon
<1>8. ASSUME NEW c \in CPU, StoreConditionalIo(c) PROVE ReservationCounts'
  <2>1. Moves(c)
    BY <1>8, <1>p, Zenon DEF StoreConditionalIo, Moves, Goto, Taken, Locked, lockVars, devVars
  <2>2. \A k \in CPU : since'[k] \subseteq since[k]
    BY <1>8, <1>p, Zenon DEF StoreConditionalIo
  <2> QED BY <1>1, <2>1, <2>2, Zenon
<1>9. ASSUME NEW c \in CPU, SpinBucket(c) PROVE ReservationCounts'
  <2>1. Moves(c)
    BY <1>9, <1>p, Zenon DEF SpinBucket, Moves, Goto, Taken, Locked, lockVars, devVars
  <2>2. \A k \in CPU : since'[k] \subseteq since[k]
    BY <1>9, <1>p, Zenon DEF SpinBucket
  <2> QED BY <1>1, <2>1, <2>2, Zenon
<1>10. ASSUME NEW c \in CPU, CheckSequence(c) PROVE ReservationCounts'
  <2>1. Moves(c)
    BY <1>10, <1>p, Zenon DEF CheckSequence, Moves, Goto, Taken, Locked, lockVars, devVars
  <2>2. \A k \in CPU : since'[k] \subseteq since[k]
    BY <1>10, <1>p, Zenon DEF CheckSequence
  <2> QED BY <1>1, <2>1, <2>2, Zenon
<1>11. ASSUME NEW c \in CPU, StoreConditional(c) PROVE ReservationCounts'
  <2>1. \A k \in CPU : "dma" \in since'[k] => "dma" \in since[k]
    <3>1. "dma" \notin {"stcAfterSnap"} \cup Changed("stc", op[c].addr, op[c].val)
      BY Zenon DEF Changed
    <3>2. \/ since' = since
          \/ since' = Touch(CPU \ {c}, {line[op[c].addr]},
                            {"stcAfterSnap"} \cup Changed("stc", op[c].addr, op[c].val))
      BY <1>11, Zenon DEF StoreConditional
    <3> QED BY <3>1, <3>2, TouchAdds
  <2>2. Moves(c)
    BY <1>11, <1>p, Zenon DEF StoreConditional, Moves, Goto, Taken, Locked, lockVars, devVars
  <2> QED BY <1>1, <2>1, <2>2, Zenon
<1>12. ASSUME NEW c \in CPU, CountStore(c) PROVE ReservationCounts'
  <2>1. \A k \in CPU : "dma" \in since'[k] => "dma" \in since[k]
    BY <1>12, Zenon DEF CountStore
  <2>2. Moves(c)
    BY <1>12, <1>p, Zenon DEF CountStore, Moves, Goto, Taken, Locked, lockVars, devVars
  <2> QED BY <1>1, <2>1, <2>2, Zenon
<1>13. ASSUME NEW c \in CPU, ReleaseBucket(c) PROVE ReservationCounts'
  <2>1. Moves(c)
    BY <1>13, <1>p, Zenon DEF ReleaseBucket, Moves, Goto, Taken, Locked, lockVars, devVars
  <2>2. \A k \in CPU : since'[k] \subseteq since[k]
    BY <1>13, <1>p, Zenon DEF ReleaseBucket
  <2> QED BY <1>1, <2>1, <2>2, Zenon
<1>14. ASSUME NEW c \in CPU, NEW a \in Addr, NEW v \in Val, NEW listed \in BOOLEAN,
              Store(c, a, v, listed)
       PROVE ReservationCounts'
  <2>1. \A k \in CPU : "dma" \in since'[k] => "dma" \in since[k]
    <3>1. "dma" \notin Changed("store", a, v)
      BY Zenon DEF Changed
    <3> QED BY <1>14, <3>1, TouchAdds, Zenon DEF Store
  <2>2. Moves(c)
    BY <1>14, <1>p, Zenon DEF Store, Moves, Taken, Locked, lockVars, devVars
  <2> QED BY <1>1, <2>1, <2>2, Zenon
<1>15. ASSUME NEW c \in CPU, Load(c) \/ cpu_clear_lock(c) PROVE ReservationCounts'
  <2>1. Moves(c)
    BY <1>15, <1>p, Zenon DEF Load, cpu_clear_lock, Moves, Goto, Taken, Locked, lockVars, devVars
  <2>2. \A k \in CPU : since'[k] \subseteq since[k]
    BY <1>15, <1>p, Zenon DEF Load, cpu_clear_lock
  <2> QED BY <1>1, <2>1, <2>2, Zenon
<1>16. ASSUME NEW d \in Device, UNCHANGED <<pc, op, since, lockAddress>>,
              lockFlags' \subseteq lockFlags, dpc'[d] # "write",
              \A e \in Device \ {d} : dpc'[e] = dpc[e] /\ dop'[e] = dop[e]
       PROVE  ReservationCounts'
  BY <1>16, Zenon DEF ReservationCounts, Lines, Guarded
<1>17. ASSUME NEW d \in Device, DmaStart(d) PROVE ReservationCounts'
  BY <1>16, <1>17, <1>p, Zenon DEF DmaStart, pci_dma_write_enter, lockVars
<1>18. ASSUME NEW d \in Device, DrainReaders(d) PROVE ReservationCounts'
  BY <1>16, <1>18, <1>p, Zenon DEF DrainReaders, lockVars
<1>19. ASSUME NEW d \in Device, cpu_clear_external_locks(d) PROVE ReservationCounts'
  <2>1. /\ \A e \in Device \ {d} : dpc'[e] = dpc[e]
        /\ lockFlags' = {c \in lockFlags : line[lockAddress[c]] \notin Lines(dop[d].to)}
        /\ UNCHANGED <<pc, op, since, lockAddress, dop>>
    BY <1>19, <1>p, Zenon DEF cpu_clear_external_locks, lockVars
  <2> QED BY <2>1, Zenon DEF ReservationCounts, Lines, Guarded
<1>20. ASSUME NEW d \in Device, DmaWrite(d) PROVE ReservationCounts'
  <2>1. /\ dpc[d] = "write" /\ since' = Touch(CPU, Lines(dop[d].to), {"dma"})
        /\ dpc'[d] = "leave" /\ \A e \in Device \ {d} : dpc'[e] = dpc[e]
        /\ UNCHANGED <<pc, op, lockFlags, lockAddress, dop>>
    BY <1>20, <1>p, Zenon DEF DmaWrite, lockVars
  <2>2. ASSUME NEW c \in CPU, c \in lockFlags \/ pc[c] \in Taken \cup {"ll_lock"}
        PROVE  "dma" \notin since'[c]
    <3>1. "dma" \notin since[c]
      BY <2>2, Zenon DEF ReservationCounts
    <3>2. Watched(c) \notin Lines(dop[d].to)
      <4>1. CASE pc[c] = "ll_lock"
        BY <4>1, <2>1, <1>g, Zenon DEF Watched
      <4>2. CASE pc[c] # "ll_lock"
        <5>1. pc[c] \notin Taken
          BY <2>1, <1>g, Zenon DEF ReservationCounts, Taken, Guarded
        <5> QED BY <4>2, <5>1, <2>1, <2>2, Zenon DEF Watched, ReservationCounts
      <4> QED BY <4>1, <4>2, Zenon
    <3>3. Touch(CPU, Lines(dop[d].to), {"dma"})[c] = since[c]
      BY <3>2, Zenon DEF Touch
    <3> QED BY <3>1, <3>3, <2>1, Zenon
  <2> QED BY <2>1, <2>2, Zenon DEF ReservationCounts, Lines, Guarded
<1>21. ASSUME NEW d \in Device, pci_dma_write_leave(d) PROVE ReservationCounts'
  BY <1>16, <1>21, <1>p, Zenon DEF pci_dma_write_leave, lockVars
<1>22. CASE UNCHANGED vars
  BY <1>22, Zenon DEF vars, ReservationCounts, Lines, Guarded
<1> QED
  BY <1>2, <1>3, <1>4, <1>5, <1>6, <1>7, <1>8, <1>9, <1>10, <1>11, <1>12,
     <1>13, <1>14, <1>15, <1>17, <1>18, <1>19, <1>20, <1>21, <1>22
  DEF Next, Guest, CpuStep, DmaStep

\* The reservations' invariant is inductive.
LEMMA ReservationInductive == ReservationInv /\ [Next]_vars => ReservationInv'
  BY GateInductive, ReservationStep, Zenon DEF ReservationInv

\* Initially every bucket is free and nothing has been reserved.
LEMMA InitSequence == Init => SequenceInv
<1> SUFFICES ASSUME Init PROVE SequenceCounts
  BY InitReservation, Zenon DEF SequenceInv
<1> QED BY Zenon DEF Init, SequenceCounts, Snapped, Taken, Locked

\* One step keeps what a bucket's lock and its count promise.
LEMMA SequenceStep == SequenceInv /\ [Next]_vars => SequenceCounts'
<1> SUFFICES ASSUME SequenceInv, [Next]_vars PROVE SequenceCounts'
  BY Zenon
<1> USE DEF SequenceInv, ReservationInv, GateInv
<1>p. /\ pc \in [CPU -> CpuSteps] /\ op \in [CPU -> [addr : Addr, val : Val]]
      /\ since \in [CPU -> SUBSET Event] /\ seqSnap \in [CPU -> 0 .. SeqMod - 1]
      /\ lockAddress \in [CPU -> Addr] /\ lockFlags \subseteq CPU
      /\ llLock \in [Bucket -> BOOLEAN] /\ llSeq \in [Bucket -> 0 .. SeqMod - 1]
  BY Zenon DEF TypeOK
<1>b. \A a \in Addr : BucketOf(a) \in Bucket
  BY Zenon DEF BucketOf
\* A step that neither takes a bucket nor counts, and reserves nothing.
<1> DEFINE Quiet ==
      /\ \A k \in CPU : pc'[k] \in Locked \/ pc[k] \in Locked => pc'[k] = pc[k] /\ op'[k] = op[k]
      /\ \A k \in CPU : Snapped(k)' => Snapped(k)
      /\ \A k \in CPU : "stcAfterSnap" \in since'[k] =>
           "stcAfterSnap" \in since[k] /\ ("wrap" \in since[k] => "wrap" \in since'[k])
      /\ UNCHANGED <<llLock, llSeq, seqSnap, lockAddress>>
<1>1. ASSUME Quiet PROVE SequenceCounts'
  <2>1. \A k \in CPU : Snapped(k)' /\ "stcAfterSnap" \in since'[k] => MovedOn(k)'
    <3> SUFFICES ASSUME NEW k \in CPU, Snapped(k)', "stcAfterSnap" \in since'[k]
                 PROVE  MovedOn(k)'
      BY Zenon
    <3>1. MovedOn(k)
      BY <1>1, Zenon DEF SequenceCounts
    <3> QED BY <1>1, <3>1, Zenon DEF MovedOn, BucketOf, Locked
  <2> QED BY <1>1, <2>1, ZenonT(60) DEF SequenceCounts, BucketOf, Locked
<1>2. ASSUME NEW c \in CPU,
             \/ \E a \in Addr : LDx_L(c, a)
             \/ \E a \in Addr, v \in Val : STx_C(c, a, v)
             \/ LoadLocked(c) \/ LeaveGuard(c)
      PROVE  SequenceCounts'
  <2>1. /\ \A k \in CPU \ {c} : pc'[k] = pc[k] /\ op'[k] = op[k] /\ since'[k] = since[k]
        /\ pc[c] \notin Locked \cup {"ll_lock"} /\ pc'[c] \notin Locked \cup Taken
        /\ since'[c] \in {since[c], {}}
        /\ UNCHANGED <<llLock, llSeq, seqSnap, lockAddress, lockFlags>>
    BY <1>2, <1>p, ZenonT(60) DEF LDx_L, STx_C, LoadLocked, LeaveGuard, Goto, Taken, Locked,
       memVars, lockVars
  <2>2. Quiet
    BY <2>1, Zenon DEF Snapped
  <2> QED BY <1>1, <2>2, Zenon
<1>3. ASSUME NEW c \in CPU, cpu_take_lock(c) \/ StoreConditionalIo(c) PROVE SequenceCounts'
  <2>1. /\ \A k \in CPU \ {c} : pc'[k] = pc[k]
        /\ pc[c] = "sc_take" /\ pc'[c] \notin Locked /\ lockFlags' \subseteq lockFlags
        /\ pc'[c] \in Taken => c \in lockFlags
        /\ UNCHANGED <<llLock, llSeq, seqSnap, lockAddress, op, since>>
    BY <1>3, <1>p, Zenon DEF cpu_take_lock, StoreConditionalIo, Held, Goto, Taken, Locked,
       memVars, lockVars
  <2>2. Quiet
    BY <2>1, Zenon DEF Snapped, Locked
  <2> QED BY <1>1, <2>2, Zenon
<1>4. ASSUME NEW c \in CPU, Load(c) \/ cpu_clear_lock(c) PROVE SequenceCounts'
  <2>1. /\ \A k \in CPU : since'[k] \in {since[k], {}}
        /\ lockFlags' \subseteq lockFlags
        /\ UNCHANGED <<llLock, llSeq, seqSnap, lockAddress, op, pc>>
    BY <1>4, <1>p, Zenon DEF Load, cpu_clear_lock, memVars, lockVars
  <2>2. Quiet
    BY <2>1, Zenon DEF Snapped
  <2> QED BY <1>1, <2>2, Zenon
<1>5. ASSUME NEW c \in CPU, NEW a \in Addr, NEW v \in Val, NEW listed \in BOOLEAN,
             Store(c, a, v, listed)
      PROVE  SequenceCounts'
  <2>1. \A k \in CPU : since'[k] = since[k] \/ since'[k] = since[k] \cup Changed("store", a, v)
    BY <1>5, Zenon DEF Store, Touch
  <2>2. Changed("store", a, v) \subseteq {"store"}
    BY Zenon DEF Changed
  <2>3. UNCHANGED <<llLock, llSeq, seqSnap, lockAddress, lockFlags, op, pc>>
    BY <1>5, Zenon DEF Store, lockVars
  <2>4. \A k \in CPU : /\ "stcAfterSnap" \in since'[k] => "stcAfterSnap" \in since[k]
                        /\ since[k] \subseteq since'[k]
    <3>1. TAKE k \in CPU
    <3>2. CASE since'[k] = since[k]
      BY <3>2, Zenon
    <3>3. CASE since'[k] = since[k] \cup Changed("store", a, v)
      <4>1. "stcAfterSnap" \notin Changed("store", a, v)
        BY <2>2, Zenon
      <4>2. QED BY <3>3, <4>1, Zenon
    <3>4. QED BY <2>1, <3>2, <3>3, Zenon
  <2>5. \A k \in CPU : Snapped(k)' => Snapped(k)
    BY <2>3, Zenon DEF Snapped
  <2>6. Quiet
    BY <2>3, <2>4, <2>5, Zenon
  <2> QED BY <1>1, <2>6, Zenon
<1>6. ASSUME NEW d \in Device, DmaStart(d) \/ DmaStep(d) PROVE SequenceCounts'
  <2>1. \A k \in CPU : since'[k] = since[k] \/ since'[k] = since[k] \cup {"dma"}
    BY <1>6, Zenon DEF DmaStart, DmaStep, pci_dma_write_enter, DrainReaders,
       cpu_clear_external_locks, DmaWrite, pci_dma_write_leave, Touch
  <2>2. lockFlags' \subseteq lockFlags /\ UNCHANGED <<llLock, llSeq, seqSnap, lockAddress, op, pc>>
    BY <1>6, Zenon DEF DmaStart, DmaStep, pci_dma_write_enter, DrainReaders,
       cpu_clear_external_locks, DmaWrite, pci_dma_write_leave, memVars, lockVars
  <2>3. Quiet
    BY <2>1, <2>2 DEF Snapped
  <2> QED BY <1>1, <2>3, Zenon
<1>7. CASE UNCHANGED vars
  BY <1>1, <1>7, Zenon DEF vars, Snapped
<1> HIDE DEF Quiet
\* A new snap is of the count as it is, and the history starts afresh.
<1>8. ASSUME NEW c \in CPU, cpu_lock(c) PROVE SequenceCounts'
  <2>1. /\ \A k \in CPU \ {c} : /\ pc'[k] = pc[k] /\ since'[k] = since[k]
                                /\ lockAddress'[k] = lockAddress[k]
                                /\ seqSnap'[k] = seqSnap[k]
        /\ pc[c] = "ll_lock" /\ pc'[c] = "ll_leave" /\ "stcAfterSnap" \notin since'[c]
        /\ lockFlags' = lockFlags \cup {c}
        /\ UNCHANGED <<llLock, llSeq, op>>
    BY <1>8, <1>p, Zenon DEF cpu_lock, Goto, memVars
  <2>2. \A k \in CPU : Snapped(k)' /\ "stcAfterSnap" \in since'[k] => MovedOn(k)'
    <3> SUFFICES ASSUME NEW k \in CPU \ {c}, Snapped(k)', "stcAfterSnap" \in since'[k]
                 PROVE  MovedOn(k)'
      BY <2>1, Zenon
    <3>1. MovedOn(k)
      BY <2>1, Zenon DEF SequenceCounts, Snapped
    <3> QED BY <2>1, <3>1, ZenonT(60) DEF MovedOn, BucketOf
  <2>p. op' = op /\ \A k \in CPU : pc'[k] \in Locked => pc[k] \in Locked
    BY <2>1, Zenon DEF Locked
  <2>q. \A k \in CPU : pc'[k] \in Locked => llLock'[BucketOf(op[k].addr)]
    BY <2>1, <2>p, Zenon DEF SequenceCounts
  <2>r. \A j, k \in CPU : /\ pc'[j] \in Locked /\ pc'[k] \in Locked
                          /\ BucketOf(op[j].addr) = BucketOf(op[k].addr)
                          => j = k
    BY <2>p, Zenon DEF SequenceCounts
  <2>s. \A k \in CPU : pc'[k] = "sc_store" => llSeq'[BucketOf(op[k].addr)] = seqSnap'[k]
    BY <2>1, ZenonT(60) DEF SequenceCounts
  <2>t. \A k \in CPU : Snapped(k)' /\ "stcAfterSnap" \in since'[k] => MovedOn(k)'
    BY <2>2, Zenon
  <2> QED BY <2>p, <2>q, <2>r, <2>s, <2>t, Zenon DEF SequenceCounts, BucketOf
<1>9. ASSUME NEW c \in CPU, SpinBucket(c) PROVE SequenceCounts'
  <2>1. /\ \A k \in CPU \ {c} : pc'[k] = pc[k]
        /\ pc[c] = "sc_spin" /\ pc'[c] = "sc_seq" /\ ~llLock[BucketOf(op[c].addr)]
        /\ llLock' = [llLock EXCEPT ![BucketOf(op[c].addr)] = TRUE]
        /\ UNCHANGED <<llSeq, op, since, lockAddress, seqSnap, lockFlags>>
    BY <1>9, <1>p, Zenon DEF SpinBucket, Goto, lockVars
  <2>2. \A k \in CPU : Snapped(k)' => Snapped(k)
    BY <2>1, Zenon DEF Snapped, Taken
  <2>3. \A k \in CPU : MovedOn(k) => MovedOn(k)'
    BY <2>1, Zenon DEF MovedOn, BucketOf
  <2>4. \A k \in CPU : pc'[k] \in Locked => llLock'[BucketOf(op[k].addr)]
    BY <2>1, <1>p, <1>b, Zenon DEF SequenceCounts, Locked
  <2>5. \A k \in CPU \ {c} : pc[k] \in Locked => BucketOf(op[k].addr) # BucketOf(op[c].addr)
    BY <2>1, Zenon DEF SequenceCounts
  <2>p. op' = op /\ \A k \in CPU : pc'[k] \in Locked => pc[k] \in Locked \/ k = c
    BY <2>1, Zenon DEF Locked
  <2>q. \A k \in CPU : pc'[k] \in Locked => llLock'[BucketOf(op[k].addr)]
    BY <2>4, Zenon
  <2>r. \A j, k \in CPU : /\ pc'[j] \in Locked /\ pc'[k] \in Locked
                          /\ BucketOf(op[j].addr) = BucketOf(op[k].addr)
                          => j = k
    BY <2>p, <2>5, Zenon DEF SequenceCounts
  <2>s. \A k \in CPU : pc'[k] = "sc_store" => llSeq'[BucketOf(op[k].addr)] = seqSnap'[k]
    BY <2>1, Zenon DEF SequenceCounts
  <2>t. \A k \in CPU : Snapped(k)' /\ "stcAfterSnap" \in since'[k] => MovedOn(k)'
    BY <2>1, <2>2, <2>3, Zenon DEF SequenceCounts
  <2> QED BY <2>p, <2>q, <2>r, <2>s, <2>t, Zenon DEF SequenceCounts, BucketOf
<1>10. ASSUME NEW c \in CPU, CheckSequence(c) PROVE SequenceCounts'
  <2>1. /\ \A k \in CPU \ {c} : pc'[k] = pc[k]
        /\ pc[c] = "sc_seq" /\ pc'[c] \in {"sc_store", "sc_unlock"}
        /\ pc'[c] = "sc_store" => llSeq[BucketOf(op[c].addr)] = seqSnap[c]
        /\ UNCHANGED <<llSeq, llLock, op, since, lockAddress, seqSnap, lockFlags>>
    BY <1>10, <1>p, Zenon DEF CheckSequence, Goto, memVars, lockVars
  <2>2. \A k \in CPU : Snapped(k)' => Snapped(k)
    BY <2>1, Zenon DEF Snapped, Taken
  <2>3. \A k \in CPU : MovedOn(k) => MovedOn(k)'
    BY <2>1, Zenon DEF MovedOn, BucketOf
  <2>p. op' = op /\ \A k \in CPU : pc'[k] \in Locked => pc[k] \in Locked
    BY <2>1, Zenon DEF Locked
  <2>q. \A k \in CPU : pc'[k] \in Locked => llLock'[BucketOf(op[k].addr)]
    BY <2>1, <2>p, Zenon DEF SequenceCounts
  <2>r. \A j, k \in CPU : /\ pc'[j] \in Locked /\ pc'[k] \in Locked
                          /\ BucketOf(op[j].addr) = BucketOf(op[k].addr)
                          => j = k
    BY <2>p, Zenon DEF SequenceCounts
  <2>s. \A k \in CPU : pc'[k] = "sc_store" => llSeq'[BucketOf(op[k].addr)] = seqSnap'[k]
    BY <2>1, Zenon DEF SequenceCounts
  <2>t. \A k \in CPU : Snapped(k)' /\ "stcAfterSnap" \in since'[k] => MovedOn(k)'
    BY <2>1, <2>2, <2>3, Zenon DEF SequenceCounts
  <2> QED BY <2>p, <2>q, <2>r, <2>s, <2>t, Zenon DEF SequenceCounts, BucketOf
\* The line's other reservations are told, and the count is about to move.
<1>11. ASSUME NEW c \in CPU, StoreConditional(c) PROVE SequenceCounts'
  <2>1. /\ \A k \in CPU \ {c} : pc'[k] = pc[k]
        /\ pc[c] = "sc_store" /\ pc'[c] \in {"sc_bump", "sc_unlock"}
        /\ UNCHANGED <<llSeq, llLock, op, lockAddress, seqSnap, lockFlags>>
    BY <1>11, <1>p, Zenon DEF StoreConditional, Goto, lockVars
  <2>2. \A k \in CPU : Snapped(k)' => Snapped(k)
    BY <2>1, Zenon DEF Snapped, Taken
  <2>3. ASSUME NEW k \in CPU, Snapped(k)', "stcAfterSnap" \in since'[k]
        PROVE  MovedOn(k)'
    <3>1. \/ since'[k] = since[k]
          \/ /\ k # c /\ pc'[c] = "sc_bump" /\ Watched(k) = line[op[c].addr]
             /\ since[k] \subseteq since'[k]
      <4>1. \/ since' = since
            \/ /\ pc' = [pc EXCEPT ![c] = "sc_bump"]
               /\ since' = Touch(CPU \ {c}, {line[op[c].addr]}, {"stcAfterSnap"}
                                   \cup Changed("stc", op[c].addr, op[c].val))
        BY <1>11, Zenon DEF StoreConditional, Goto
      <4> QED BY <4>1, <1>p DEF Touch
    <3>2. CASE since'[k] = since[k]
      <4>1. MovedOn(k)
        BY <2>2, <2>3, <3>2, Zenon DEF SequenceCounts
      <4> QED BY <2>1, <3>2, <4>1, Zenon DEF MovedOn, BucketOf
    <3>3. CASE since'[k] # since[k]
      <4>1. line[lockAddress[k]] = line[op[c].addr]
        BY <2>1, <2>3, <3>1, <3>3, Zenon DEF Watched, Snapped, Taken
      <4> QED BY <2>1, <3>1, <3>3, <4>1, Zenon DEF MovedOn, BucketOf
    <3> QED BY <3>2, <3>3, Zenon
  <2>p. op' = op /\ \A k \in CPU : pc'[k] \in Locked => pc[k] \in Locked
    BY <2>1, Zenon DEF Locked
  <2>q. \A k \in CPU : pc'[k] \in Locked => llLock'[BucketOf(op[k].addr)]
    BY <2>1, <2>p, Zenon DEF SequenceCounts
  <2>r. \A j, k \in CPU : /\ pc'[j] \in Locked /\ pc'[k] \in Locked
                          /\ BucketOf(op[j].addr) = BucketOf(op[k].addr)
                          => j = k
    BY <2>p, Zenon DEF SequenceCounts
  <2>s. \A k \in CPU : pc'[k] = "sc_store" => llSeq'[BucketOf(op[k].addr)] = seqSnap'[k]
    BY <2>1, Zenon DEF SequenceCounts
  <2>t. \A k \in CPU : Snapped(k)' /\ "stcAfterSnap" \in since'[k] => MovedOn(k)'
    BY <2>3, Zenon
  <2> QED BY <2>p, <2>q, <2>r, <2>s, <2>t, Zenon DEF SequenceCounts, BucketOf
<1>12. ASSUME NEW c \in CPU, CountStore(c) PROVE SequenceCounts'
  <2> DEFINE b == BucketOf(op[c].addr)
             n == (llSeq[b] + 1) % SeqMod
  <2>1. /\ llSeq' = [llSeq EXCEPT ![b] = n]
        /\ since' = [k \in CPU |-> IF /\ bucket[line[lockAddress[k]]] = b
                                      /\ seqSnap[k] = n
                                   THEN since[k] \cup {"wrap"} ELSE since[k]]
    BY <1>12, Zenon DEF CountStore
  <2>2. /\ \A k \in CPU \ {c} : pc'[k] = pc[k]
        /\ pc[c] = "sc_bump" /\ pc'[c] = "sc_unlock"
        /\ UNCHANGED <<llLock, op, lockAddress, seqSnap, lockFlags>>
    BY <1>12, <1>p, Zenon DEF CountStore, Goto, lockVars
  <2>b. b \in Bucket
    BY <1>p, <1>b, Zenon
  <2> HIDE DEF b, n
  <2>3. ASSUME NEW k \in CPU, Snapped(k)', "stcAfterSnap" \in since'[k]
        PROVE  MovedOn(k)'
    <3>1. MovedOn(k)
      BY <2>1, <2>2, <2>3, Zenon DEF SequenceCounts, Snapped, Taken
    <3>2. CASE BucketOf(lockAddress[k]) = b
      <4>1. llSeq'[BucketOf(lockAddress[k])] = n
        BY <2>1, <2>b, <3>2, <1>p, Zenon
      <4>2. n # seqSnap[k] \/ "wrap" \in since'[k]
        BY <2>1, <3>2, Zenon DEF BucketOf
      <4> QED BY <2>2, <4>1, <4>2, Zenon DEF MovedOn, BucketOf
    <3>3. CASE BucketOf(lockAddress[k]) # b
      <4>1. llSeq'[BucketOf(lockAddress[k])] = llSeq[BucketOf(lockAddress[k])]
        BY <2>1, <3>3, <1>p, <1>b, Zenon
      <4>2. since[k] \subseteq since'[k]
        BY <2>1, Zenon
      <4> QED BY <2>2, <3>1, <3>3, <4>1, <4>2, Zenon DEF MovedOn, BucketOf, b
    <3> QED BY <3>2, <3>3, Zenon
  <2>4. \A k \in CPU : pc'[k] = "sc_store" => llSeq'[BucketOf(op[k].addr)] = seqSnap[k]
    <3> SUFFICES ASSUME NEW k \in CPU, pc'[k] = "sc_store"
                 PROVE  llSeq'[BucketOf(op[k].addr)] = seqSnap[k]
      BY Zenon
    <3>1. pc[k] = "sc_store" /\ BucketOf(op[k].addr) # b
      BY <2>2, ZenonT(60) DEF SequenceCounts, Locked, b
    <3> QED BY <2>1, <3>1, <1>p, <1>b, Zenon DEF SequenceCounts
  <2>p. op' = op /\ \A k \in CPU : pc'[k] \in Locked => pc[k] \in Locked
    BY <2>2, Zenon DEF Locked
  <2>q. \A k \in CPU : pc'[k] \in Locked => llLock'[BucketOf(op[k].addr)]
    BY <2>2, <2>p, Zenon DEF SequenceCounts
  <2>r. \A j, k \in CPU : /\ pc'[j] \in Locked /\ pc'[k] \in Locked
                          /\ BucketOf(op[j].addr) = BucketOf(op[k].addr)
                          => j = k
    BY <2>p, Zenon DEF SequenceCounts
  <2>s. \A k \in CPU : pc'[k] = "sc_store" => llSeq'[BucketOf(op[k].addr)] = seqSnap'[k]
    BY <2>2, <2>4, Zenon
  <2>t. \A k \in CPU : Snapped(k)' /\ "stcAfterSnap" \in since'[k] => MovedOn(k)'
    BY <2>3, Zenon
  <2> QED BY <2>p, <2>q, <2>r, <2>s, <2>t, Zenon DEF SequenceCounts, BucketOf
<1>13. ASSUME NEW c \in CPU, ReleaseBucket(c) PROVE SequenceCounts'
  <2>1. /\ \A k \in CPU \ {c} : pc'[k] = pc[k]
        /\ pc[c] = "sc_unlock" /\ pc'[c] = "sc_leave"
        /\ llLock' = [llLock EXCEPT ![BucketOf(op[c].addr)] = FALSE]
        /\ UNCHANGED <<llSeq, op, since, lockAddress, seqSnap, lockFlags>>
    BY <1>13, <1>p, Zenon DEF ReleaseBucket, Goto, lockVars
  <2>2. \A k \in CPU : Snapped(k)' => Snapped(k)
    BY <2>1, Zenon DEF Snapped, Taken
  <2>5. \A k \in CPU : pc'[k] \in Locked \/ pc[k] = "sc_bump" => pc'[k] = pc[k]
    BY <2>1, Zenon DEF Locked
  <2>3. \A k \in CPU : MovedOn(k) => MovedOn(k)'
    BY <2>1, <2>5, Zenon DEF MovedOn, BucketOf
  <2>4. \A k \in CPU : pc'[k] \in Locked => llLock'[BucketOf(op[k].addr)]
    <3> SUFFICES ASSUME NEW k \in CPU, pc'[k] \in Locked PROVE llLock'[BucketOf(op[k].addr)]
      BY Zenon
    <3>1. k # c /\ pc[k] \in Locked
      BY <2>1, Zenon DEF Locked
    <3>2. BucketOf(op[k].addr) # BucketOf(op[c].addr) /\ llLock[BucketOf(op[k].addr)]
      BY <2>1, <3>1, Zenon DEF SequenceCounts, Locked
    <3> QED BY <2>1, <3>2, <1>p, <1>b, Zenon
  <2>p. op' = op /\ \A k \in CPU : pc'[k] \in Locked => pc[k] \in Locked
    BY <2>1, Zenon DEF Locked
  <2>q. \A k \in CPU : pc'[k] \in Locked => llLock'[BucketOf(op[k].addr)]
    BY <2>4, Zenon
  <2>r. \A j, k \in CPU : /\ pc'[j] \in Locked /\ pc'[k] \in Locked
                          /\ BucketOf(op[j].addr) = BucketOf(op[k].addr)
                          => j = k
    BY <2>p, Zenon DEF SequenceCounts
  <2>s. \A k \in CPU : pc'[k] = "sc_store" => llSeq'[BucketOf(op[k].addr)] = seqSnap'[k]
    BY <2>1, Zenon DEF SequenceCounts
  <2>t. \A k \in CPU : Snapped(k)' /\ "stcAfterSnap" \in since'[k] => MovedOn(k)'
    BY <2>1, <2>2, <2>3, Zenon DEF SequenceCounts
  <2> QED BY <2>p, <2>q, <2>r, <2>s, <2>t, Zenon DEF SequenceCounts, BucketOf
<1> QED
  BY <1>2, <1>3, <1>4, <1>5, <1>6, <1>7, <1>8, <1>9, <1>10, <1>11, <1>12, <1>13
  DEF Next, Guest, CpuStep

\* The counts' invariant is inductive.
LEMMA SequenceInductive == SequenceInv /\ [Next]_vars => SequenceInv'
  BY ReservationInductive, SequenceStep, Zenon DEF SequenceInv

\* The first state of LoadLock is the first state of LockedMemory.
LEMMA RefineInit == Init => LM!Init
<1> SUFFICES ASSUME Init PROVE LM!Init
  BY Zenon
<1>1. loadedMap = [c \in CPU |-> [addr |-> CHOOSE a \in Addr : TRUE, val |-> Zero]]
  BY Zenon DEF Init, loadedMap
<1>2. reservedMap = {} /\ storedMap = {}
  BY Zenon DEF Init, reservedMap, storedMap
<1> QED BY <1>1, <1>2, Zenon DEF Init, LM!Init

\* Every step of LoadLock is a step of LockedMemory or changes nothing of it.
LEMMA RefineStep == ReservationInv /\ [Next]_vars => [LM!Next]_(LM!vars)
<1> SUFFICES ASSUME ReservationInv, [Next]_vars
             PROVE  LM!Next \/ UNCHANGED <<mem, loadedMap, reservedMap, storedMap>>
  BY Zenon DEF LM!vars
<1> USE DEF ReservationInv, GateInv
<1>p. /\ pc \in [CPU -> CpuSteps] /\ op \in [CPU -> [addr : Addr, val : Val]]
      /\ lockAddress \in [CPU -> Addr] /\ lockValue \in [CPU -> Val] /\ lockFlags \subseteq CPU
      /\ dpc \in [Device -> DevSteps] /\ mem \in [Addr -> Val]
      /\ dop \in [Device -> [to : SUBSET (Addr \ IoAddr), val : Val]]
  BY Zenon DEF TypeOK
<1> DEFINE Reserves == {"ll_lock", "sc_spin", "sc_seq", "sc_store"}
\* A step that takes no effect: the processor is as far in its instruction.
<1>1. ASSUME NEW c \in CPU, \A k \in CPU \ {c} : pc'[k] = pc[k] /\ op'[k] = op[k],
             pc[c] # "ll_lock" /\ pc'[c] # "ll_lock",
             UNCHANGED <<lockAddress, lockValue>>
      PROVE  loadedMap' = loadedMap
  BY <1>1, Zenon DEF loadedMap
<1>2. ASSUME NEW c \in CPU, \A k \in CPU \ {c} : pc'[k] = pc[k],
             pc[c] \notin Reserves, pc'[c] \notin Reserves,
             lockFlags' \in {lockFlags, lockFlags \ {c}}
      PROVE  reservedMap' = reservedMap \/ reservedMap' = reservedMap \ {c}
  BY <1>2, Zenon DEF reservedMap
<1>3. ASSUME NEW c \in CPU, \A k \in CPU \ {c} : pc'[k] = pc[k],
             pc[c] # "sc_bump", pc'[c] # "sc_bump"
      PROVE  storedMap' = storedMap
  BY <1>3, Zenon DEF storedMap
<1>4. ASSUME NEW c \in CPU, UNCHANGED <<mem, loadedMap, storedMap>>,
             reservedMap' = reservedMap \/ reservedMap' = reservedMap \ {c}
      PROVE  LM!Next \/ UNCHANGED <<mem, loadedMap, reservedMap, storedMap>>
  <2>1. CASE reservedMap' = reservedMap \ {c}
    <3>1. {c} \in SUBSET CPU /\ LM!Lose({c})
      BY <1>4, <2>1, Zenon DEF LM!Lose
    <3> QED BY <3>1, Zenon DEF LM!Next
  <2> QED BY <1>4, <2>1, Zenon
<1>5. ASSUME NEW c \in CPU,
             \/ \E a \in Addr : LDx_L(c, a)
             \/ \E a \in Addr, v \in Val : STx_C(c, a, v)
             \/ LeaveGuard(c) \/ ReleaseBucket(c) \/ Load(c) \/ cpu_clear_lock(c)
      PROVE  LM!Next \/ UNCHANGED <<mem, loadedMap, reservedMap, storedMap>>
  <2>1. /\ \A k \in CPU \ {c} : pc'[k] = pc[k] /\ op'[k] = op[k]
        /\ pc[c] \notin Reserves \cup {"sc_bump"} /\ pc'[c] \notin Reserves \cup {"sc_bump"}
        /\ lockFlags' \in {lockFlags, lockFlags \ {c}}
        /\ UNCHANGED <<mem, lockAddress, lockValue>>
    BY <1>5, <1>p, Zenon DEF LDx_L, STx_C, LeaveGuard, ReleaseBucket, Load, cpu_clear_lock, Goto,
       memVars, lockVars
  <2>2. UNCHANGED <<loadedMap, storedMap>> /\ reservedMap' \in {reservedMap, reservedMap \ {c}}
    BY <1>1, <1>2, <1>3, <2>1, Zenon
  <2> QED BY <1>4, <2>1, <2>2, Zenon
\* The LDx_L takes effect when it loads.
<1>6. ASSUME NEW c \in CPU, LoadLocked(c) PROVE LM!Next
  <2>1. /\ pc[c] = "ll_read" /\ pc'[c] = "ll_lock"
        /\ \A k \in CPU \ {c} : pc'[k] = pc[k] /\ op'[k] = op[k]
        /\ op'[c] = [addr |-> op[c].addr, val |-> mem[op[c].addr]]
        /\ UNCHANGED <<mem, lockAddress, lockValue, lockFlags>>
    BY <1>6, <1>p, ZenonT(60) DEF LoadLocked, Goto, memVars, lockVars
  <2>2. loadedMap' = [loadedMap EXCEPT ![c] = [addr |-> op[c].addr, val |-> mem[op[c].addr]]]
    <3>1. \A k \in CPU \ {c} : loadedMap'[k] = loadedMap[k]
      BY <2>1, Zenon DEF loadedMap
    <3>2. loadedMap'[c] = [addr |-> op[c].addr, val |-> mem[op[c].addr]]
      BY <2>1, Zenon DEF loadedMap
    <3>3. /\ loadedMap = [k \in CPU |-> loadedMap[k]]
          /\ loadedMap' = [k \in CPU |-> loadedMap'[k]]
      BY Zenon DEF loadedMap
    <3> QED BY <3>1, <3>2, <3>3, Zenon
  <2>3. reservedMap' = reservedMap \cup {c}
    <3>1. lockFlags' = lockFlags /\ \A k \in CPU : pc'[k] = pc[k] \/ k = c
      BY <2>1, Zenon
    <3>2. pc'[c] = "ll_lock"
      BY <2>1, Zenon
    <3> QED BY <3>1, <3>2, Zenon DEF reservedMap
  <2>4. storedMap' = storedMap
    BY <2>1, <1>3, Zenon
  <2>5. LM!LoadLocked(c, op[c].addr)
    BY <2>1, <2>2, <2>3, <2>4, Zenon DEF LM!LoadLocked
  <2> QED BY <2>5, <1>p, Zenon DEF LM!Next
<1>7. ASSUME NEW c \in CPU, cpu_lock(c)
      PROVE  UNCHANGED <<mem, loadedMap, reservedMap, storedMap>>
  <2>1. /\ pc[c] = "ll_lock" /\ pc'[c] = "ll_leave"
        /\ \A k \in CPU \ {c} : /\ pc'[k] = pc[k] /\ lockAddress'[k] = lockAddress[k]
                                /\ lockValue'[k] = lockValue[k]
        /\ lockAddress'[c] = op[c].addr /\ lockValue'[c] = op[c].val
        /\ lockFlags' = lockFlags \cup {c}
        /\ UNCHANGED <<mem, op>>
    BY <1>7, <1>p, Zenon DEF cpu_lock, Goto, memVars
  <2>2. op[c] = [addr |-> op[c].addr, val |-> op[c].val]
    BY <1>p, Zenon
  <2>3. loadedMap' = loadedMap
    <3>1. loadedMap'[c] = loadedMap[c]
      BY <2>1, <2>2, Zenon DEF loadedMap
    <3>2. \A k \in CPU \ {c} : loadedMap'[k] = loadedMap[k]
      BY <2>1, Zenon DEF loadedMap
    <3>3. /\ loadedMap = [k \in CPU |-> loadedMap[k]]
          /\ loadedMap' = [k \in CPU |-> loadedMap'[k]]
      BY Zenon DEF loadedMap
    <3> QED BY <3>1, <3>2, <3>3, Zenon
  <2>4. reservedMap' = reservedMap
    BY <2>1, ZenonT(60) DEF reservedMap
  <2> QED BY <2>1, <2>3, <2>4, <1>3, Zenon
<1>8. ASSUME NEW c \in CPU, cpu_take_lock(c)
      PROVE  LM!Next \/ UNCHANGED <<mem, loadedMap, reservedMap, storedMap>>
  <2>1. /\ pc[c] = "sc_take" /\ pc'[c] \in {"sc_spin", "sc_leave"}
        /\ pc'[c] = "sc_spin" => c \in lockFlags
        /\ \A k \in CPU \ {c} : pc'[k] = pc[k] /\ op'[k] = op[k]
        /\ lockFlags' = lockFlags \ {c}
        /\ UNCHANGED <<mem, lockAddress, lockValue>>
    BY <1>8, <1>p, Zenon DEF cpu_take_lock, Held, Goto, memVars, lockVars
  <2>2. UNCHANGED <<loadedMap, storedMap>>
    BY <1>1, <1>3, <2>1, Zenon
  <2>3. reservedMap' = reservedMap \/ reservedMap' = reservedMap \ {c}
    BY <2>1, Zenon DEF reservedMap
  <2> QED BY <1>4, <2>1, <2>2, <2>3, Zenon
<1>9. ASSUME NEW c \in CPU, StoreConditionalIo(c) PROVE LM!Next
  <2>1. /\ pc[c] = "sc_take" /\ pc'[c] = "sc_leave" /\ op[c].addr \in IoAddr
        /\ mem' = [mem EXCEPT ![op[c].addr] = op[c].val]
        /\ \A k \in CPU \ {c} : pc'[k] = pc[k]
        /\ lockFlags' = lockFlags \ {c}
        /\ UNCHANGED <<op, lockAddress, lockValue>>
    BY <1>9, <1>p, Zenon DEF StoreConditionalIo, Guarded, Goto, lockVars
  <2>2. UNCHANGED <<loadedMap, storedMap>>
    BY <1>1, <1>3, <2>1, Zenon
  <2>3. reservedMap' = reservedMap \ {c}
    BY <2>1, Zenon DEF reservedMap
  <2>4. LM!StoreConditionalIo(c, op[c].addr, op[c].val)
    BY <2>1, <2>2, <2>3, Zenon DEF LM!StoreConditionalIo
  <2> QED BY <2>1, <2>4, <1>p, Zenon DEF LM!Next
<1>10. ASSUME NEW c \in CPU, SpinBucket(c) \/ CheckSequence(c)
       PROVE  LM!Next \/ UNCHANGED <<mem, loadedMap, reservedMap, storedMap>>
  <2>1. /\ pc[c] \in {"sc_spin", "sc_seq"} /\ pc'[c] \in {"sc_seq", "sc_store", "sc_unlock"}
        /\ \A k \in CPU \ {c} : pc'[k] = pc[k]
        /\ UNCHANGED <<mem, op, lockAddress, lockValue, lockFlags>>
    BY <1>10, <1>p, Zenon DEF SpinBucket, CheckSequence, Goto, memVars, lockVars
  <2>2. UNCHANGED <<loadedMap, storedMap>>
    BY <1>1, <1>3, <2>1, Zenon
  <2>3. reservedMap' = reservedMap \/ reservedMap' = reservedMap \ {c}
    BY <2>1, Zenon DEF reservedMap
  <2> QED BY <1>4, <2>1, <2>2, <2>3, Zenon
\* The STx_C takes effect when it stores.
<1>11. ASSUME NEW c \in CPU, StoreConditional(c)
       PROVE  LM!Next \/ UNCHANGED <<mem, loadedMap, reservedMap, storedMap>>
  <2>1. /\ pc[c] = "sc_store" /\ pc'[c] \in {"sc_bump", "sc_unlock"}
        /\ \A k \in CPU \ {c} : pc'[k] = pc[k]
        /\ UNCHANGED <<op, lockAddress, lockValue, lockFlags>>
    BY <1>11, <1>p, Zenon DEF StoreConditional, Goto, lockVars
  <2>2. c \notin lockFlags /\ line[lockAddress[c]] = line[op[c].addr]
    BY <2>1, Zenon DEF ReservationCounts, Taken
  <2>3. loadedMap' = loadedMap
    BY <2>1, <1>1, Zenon
  <2>4. reservedMap' = reservedMap \ {c} /\ c \in reservedMap
    BY <2>1, <2>2, ZenonT(60) DEF reservedMap
  <2>5. CASE pc'[c] = "sc_unlock"
    <3>1. mem' = mem
      BY <1>11, <2>5, <1>p, Zenon DEF StoreConditional, Goto
    <3>2. storedMap' = storedMap
      BY <2>1, <2>5, <1>3, Zenon
    <3> QED BY <3>1, <3>2, <2>3, <2>4, <1>4, Zenon
  <2>6. CASE pc'[c] = "sc_bump"
    <3>1. /\ mem' = [mem EXCEPT ![op[c].addr] = op[c].val]
          /\ op[c].addr = lockAddress[c] => mem[op[c].addr] = lockValue[c]
      BY <1>11, <2>6, <1>p, Zenon DEF StoreConditional, SameAddress, Goto
    <3>2. storedMap' = storedMap \cup {c}
      BY <2>1, <2>6, Zenon DEF storedMap
    <3>3. loadedMap[c] = [addr |-> lockAddress[c], val |-> lockValue[c]]
      BY <2>1, Zenon DEF loadedMap
    <3>4. /\ line[op[c].addr] = line[loadedMap[c].addr]
          /\ op[c].addr = loadedMap[c].addr => mem[op[c].addr] = loadedMap[c].val
      <4>1. loadedMap[c].addr = lockAddress[c] /\ loadedMap[c].val = lockValue[c]
        BY <3>3
      <4>2. op[c].addr = lockAddress[c] => mem[op[c].addr] = lockValue[c]
        BY <3>1, Zenon
      <4> QED BY <4>1, <4>2, <2>2, Zenon
    <3>5. LM!StoreConditional(c, op[c].addr, op[c].val)
      BY <3>1, <3>2, <3>4, <2>3, <2>4, Zenon DEF LM!StoreConditional
    <3> QED BY <3>5, <1>p, Zenon DEF LM!Next
  <2> QED BY <2>1, <2>5, <2>6, Zenon
<1>12. ASSUME NEW c \in CPU, CountStore(c) PROVE LM!Next
  <2>1. /\ pc[c] = "sc_bump" /\ pc'[c] = "sc_unlock"
        /\ \A k \in CPU \ {c} : pc'[k] = pc[k]
        /\ UNCHANGED <<mem, op, lockAddress, lockValue, lockFlags>>
    BY <1>12, <1>p, Zenon DEF CountStore, Goto, lockVars
  <2>2. UNCHANGED <<mem, loadedMap>>
    BY <2>1, <1>1, Zenon
  <2>3. reservedMap' = reservedMap
    BY <2>1, Zenon DEF reservedMap
  <2>4. storedMap' = storedMap \ {c}
    BY <2>1, Zenon DEF storedMap
  <2> QED BY <2>2, <2>3, <2>4, Zenon DEF LM!Next, LM!Return
<1>13. ASSUME NEW c \in CPU, NEW a \in Addr, NEW v \in Val, NEW listed \in BOOLEAN,
              Store(c, a, v, listed)
       PROVE  LM!Next
  <2>1. UNCHANGED <<loadedMap, reservedMap, storedMap>>
    BY <1>13, Zenon DEF Store, lockVars, loadedMap, reservedMap, storedMap
  <2>2. LM!Store(a, v)
    BY <1>13, <2>1, Zenon DEF Store, LM!Store
  <2> QED BY <2>2, Zenon DEF LM!Next
<1>14. ASSUME NEW d \in Device, DmaStart(d) \/ DrainReaders(d) \/ pci_dma_write_leave(d)
       PROVE  UNCHANGED <<mem, loadedMap, reservedMap, storedMap>>
  BY <1>14, Zenon DEF DmaStart, pci_dma_write_enter, DrainReaders, pci_dma_write_leave, memVars,
     lockVars, loadedMap, reservedMap, storedMap
<1>15. ASSUME NEW d \in Device, cpu_clear_external_locks(d) PROVE LM!Next
  <2>1. UNCHANGED <<mem, loadedMap, storedMap>> /\ lockFlags' \subseteq lockFlags /\ pc' = pc
    BY <1>15, Zenon DEF cpu_clear_external_locks, memVars, lockVars, loadedMap, storedMap
  <2>2. reservedMap' \subseteq reservedMap
    BY <2>1, Zenon DEF reservedMap
  <2> DEFINE S == reservedMap \ reservedMap'
  <2>3. S \in SUBSET CPU /\ reservedMap' = reservedMap \ S
    BY <2>2, Zenon DEF reservedMap
  <2> HIDE DEF S
  <2>4. LM!Lose(S)
    BY <2>1, <2>3, Zenon DEF LM!Lose
  <2> QED BY <2>3, <2>4, Zenon DEF LM!Next
\* The bytes come when no reservation is left on their lines: the probe has
\* taken the flags, and the gate keeps every other reserver outside.
<1>16. ASSUME NEW d \in Device, DmaWrite(d) PROVE LM!Next
  <2>1. /\ dpc[d] = "write" /\ UNCHANGED <<loadedMap, reservedMap, storedMap>>
        /\ mem' = [a \in Addr |-> IF a \in dop[d].to THEN dop[d].val ELSE mem[a]]
    BY <1>16, Zenon DEF DmaWrite, lockVars, loadedMap, reservedMap, storedMap
  <2>2. ASSUME NEW c \in reservedMap, NEW a \in dop[d].to
        PROVE  line[loadedMap[c].addr] # line[a]
    <3>0. c \in CPU /\ a \in Addr \ IoAddr
      BY <1>p, Zenon DEF reservedMap
    <3>1. pc[c] # "run" => op[c].addr \in IoAddr
      BY <2>1, <3>0, <1>p, Zenon DEF GateCounts, Readers, InGuard, GuardedSteps, Guarded
    <3>2. CASE pc[c] = "ll_lock"
      BY <3>0, <3>1, <3>2, Zenon DEF loadedMap
    <3>3. CASE pc[c] # "ll_lock"
      <4>1. pc[c] \notin Taken
        BY <3>0, <3>1, Zenon DEF ReservationCounts, Guarded, Taken
      <4>2. c \in lockFlags
        BY <3>3, <4>1, Zenon DEF reservedMap, Taken
      <4>3. line[lockAddress[c]] # line[a]
        BY <2>1, <4>2 DEF ReservationCounts, Lines
      <4> QED BY <3>0, <3>3, <4>3, Zenon DEF loadedMap
    <3> QED BY <3>2, <3>3, Zenon
  <2>3. reservedMap = {c \in reservedMap : \A a \in dop[d].to : line[loadedMap[c].addr] # line[a]}
    BY <2>2, Zenon
  <2>4. LM!Transfer(dop[d].to, dop[d].val)
    BY <2>1, <2>3, Zenon DEF LM!Transfer
  <2> QED BY <2>4, <1>p, Zenon DEF LM!Next
<1>17. CASE UNCHANGED vars
  BY <1>17, Zenon DEF vars, loadedMap, reservedMap, storedMap
<1> QED
  BY <1>5, <1>6, <1>7, <1>8, <1>9, <1>10, <1>11, <1>12, <1>13, <1>14, <1>15, <1>16, <1>17
  DEF Next, Guest, CpuStep, DmaStep

\* Every variable keeps its type in every behaviour of CSystem's load lock.
THEOREM TypeCorrect == Spec => []TypeOK
<1> QED BY InitGate, GateInductive, PTL DEF Spec, GateInv

\* cpu_llsc_enter and pci_dma_write_enter exclude one another, for any number of
\* processors and devices (GateExclusion).
THEOREM GateExcludes == Spec => []GateExclusion
<1>1. GateInv => GateExclusion
  BY Zenon DEF GateInv, GateCounts, GateExclusion, Readers, TypeOK, DevSteps
<1> QED BY <1>1, InitGate, GateInductive, PTL DEF Spec

\* No STx_C succeeds on a line a device has written since the LDx_L's load, for
\* any number of processors and devices (StcSeesDma).
THEOREM DmaSeen == Spec => []StcSeesDma
<1>1. ReservationInv => StcSeesDma
  BY Zenon DEF ReservationInv, ReservationCounts, StcSeesDma, Taken
<1> QED BY <1>1, InitReservation, ReservationInductive, PTL DEF Spec

\* No STx_C succeeds on a line another processor's STx_C has stored to since the
\* LDx_L's snap, unless the sequence has come round, for any number of buckets
\* and any width of the sequence (StcSeesStcAfterSnap).
THEOREM SequenceSeen == Spec => []StcSeesStcAfterSnap
<1>1. SequenceInv => StcSeesStcAfterSnap
  <2> SUFFICES ASSUME SequenceInv, NEW c \in CPU, pc[c] = "sc_store",
                      "stcAfterSnap" \in since[c]
               PROVE  "wrap" \in since[c]
    BY Zenon DEF StcSeesStcAfterSnap
  <2>1. BucketOf(lockAddress[c]) = BucketOf(op[c].addr)
    BY Zenon DEF SequenceInv, ReservationInv, ReservationCounts, BucketOf, Taken
  <2>2. MovedOn(c)
    BY Zenon DEF SequenceInv, SequenceCounts, Snapped, Taken
  <2> QED BY <2>1, <2>2, Zenon DEF SequenceInv, SequenceCounts, MovedOn, Locked
<1> QED BY <1>1, InitSequence, SequenceInductive, PTL DEF Spec

\* The gate, the flags, the sequence and the compare-and-swap implement the
\* memory a guest is promised (ImplementsLockedMemory).
THEOREM Refinement == Spec => ImplementsLockedMemory
<1> QED BY RefineInit, RefineStep, InitReservation, ReservationInductive, PTL
        DEF Spec, ImplementsLockedMemory, LM!Spec
==============================================================================

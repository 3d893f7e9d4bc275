------------------------------- MODULE Cchip -------------------------------
(***************************************************************************)
(* Where device requests, interval ticks, interprocessor requests and halt *)
(* requests become the five interrupt lines of each processor: the wired   *)
(* OR the board makes of the devices' requests (CInterruptLines), the      *)
(* Cchip's DRIR, DIMn and MISC registers and the TIG's halt registers of   *)
(* the Tsunami, which the Titan repeats.                                   *)
(*                                                                         *)
(* A device changes its request under m_mx and delivers the level of its   *)
(* input under m_lock while it still holds m_mx; everything the processors *)
(* do to the registers happens under m_lock alone, so it may come between  *)
(* the two.  The devices here are those that drive their line only when    *)
(* their own record of it changes (53C8xx, ISP1040, 8255x, CMD649).        *)
(*                                                                         *)
(* The machine may be reset by the firmware, and saved and restored.  Both *)
(* find every thread stopped, so no request is being delivered.            *)
(***************************************************************************)
EXTENDS Naturals, FiniteSets

CONSTANTS
  Slot,                 \* the processors the MISC register has bits for
  Cpu,                  \* those the machine has
  Primary,              \* processor 0
  DeviceInput,          \* bits 55:0 of DRIR, which reach line 1
  ErrorInput,           \* bits 63:58, which reach line 0
  Source,               \* requests: a device and one of its functions
  InputOf,              \* the input each is wired to
  Mask, HaltValue,      \* values written to DIMn and to the halt registers
  MiscData              \* values written to MISC

ASSUME CchipAssumption ==
  /\ Cpu \subseteq Slot /\ Primary \in Cpu
  /\ DeviceInput \cap ErrorInput = {}
  /\ InputOf \in [Source -> DeviceInput \cup ErrorInput]
  /\ Mask \subseteq SUBSET (DeviceInput \cup ErrorInput)
  /\ HaltValue \subseteq SUBSET Slot
  /\ MiscData \subseteq [it : SUBSET Slot, ip : SUBSET Slot, req : SUBSET Slot,
                         acl : BOOLEAN, abw : BOOLEAN]

Input == DeviceInput \cup ErrorInput
Line == 0 .. 4
Level == {"high", "low"}

VARIABLES
  irq_asserted,         \* the sources that hold their request up
  m_on, delivering,     \* CInterruptLines: its list; who drives (holds m_mx)
  drir, dim,            \* device requests, and each processor's mask
  itintr, ipintr,       \* MISC: interval timer, interprocessor
  arb,                  \* MISC: the arbitration's winner
  HaltA, HaltB,         \* TIG: the two halt registers
  line,                 \* the lines that are up at each processor
  m_secondaries_pending, waiting,
  elected,              \* the primary cleared the arbitration since reset
  restored              \* the machine was restored since reset

boards == <<irq_asserted, m_on, delivering>>
misc   == <<itintr, ipintr, arb>>
halts  == <<HaltA, HaltB>>
start  == <<m_secondaries_pending, waiting, elected, restored>>
vars   == <<boards, drir, dim, misc, halts, line, start>>

(* The machine's variables have their types; one source at a time drives.  *)
TypeOK ==
  /\ irq_asserted \in SUBSET Source /\ m_on \in SUBSET Source
  /\ delivering \in SUBSET (Source \X Level)
  /\ \A d, e \in delivering : d = e
  /\ drir \in SUBSET Input /\ dim \in [Slot -> SUBSET Input]
  /\ itintr \in SUBSET Slot /\ ipintr \in SUBSET Slot /\ arb \in SUBSET Slot
  /\ HaltA \in SUBSET Slot /\ HaltB \in SUBSET Slot
  /\ line \in [Cpu -> SUBSET Line]
  /\ m_secondaries_pending \in BOOLEAN /\ waiting \in SUBSET Cpu
  /\ elected \in BOOLEAN /\ restored \in BOOLEAN

-----------------------------------------------------------------------------
Init ==
  /\ irq_asserted = {} /\ m_on = {} /\ delivering = {}
  /\ drir = {} /\ dim = [n \in Slot |-> {}]
  /\ itintr = {} /\ ipintr = {} /\ arb = {}
  /\ HaltA = {} /\ HaltB = {}
  /\ line = [c \in Cpu |-> {}]
  /\ m_secondaries_pending = (Cpu # {Primary})
  /\ waiting = Cpu \ {Primary} /\ elected = FALSE /\ restored = FALSE

(* irq_h on a set of lines of one processor: up exactly those in up.       *)
Driven(l, which, up) == (l \ which) \cup (up \cap which)

(* drive_lines: lines 1 and 0 of a processor with mask m.                  *)
DeviceLines(d, m) ==
  {n \in {1} : d \cap m \cap DeviceInput # {}}
    \cup {n \in {0} : d \cap m \cap ErrorInput # {}}

drive_lines(l, d, m) == Driven(l, {0, 1}, DeviceLines(d, m))

-----------------------------------------------------------------------------
(* A device's request changes, and with it the list of requests and the    *)
(* level it will give its input.                                           *)
Requests(s) ==
  /\ irq_asserted' = (irq_asserted \ {s}) \cup ({s} \ irq_asserted)
  /\ m_on' = IF s \in irq_asserted' THEN m_on \cup {s} ELSE m_on \ {s}
  /\ delivering' = delivering \cup
       {<<s, IF \E t \in m_on' : InputOf[t] = InputOf[s]
             THEN "high" ELSE "low">>}
  /\ UNCHANGED <<drir, dim, misc, halts, line, start>>

\* Mutant: the level is the device's own, not the OR.
DriveOwn(s) ==
  /\ delivering = {}
  /\ irq_asserted' = (irq_asserted \ {s}) \cup ({s} \ irq_asserted)
  /\ m_on' = IF s \in irq_asserted' THEN m_on \cup {s} ELSE m_on \ {s}
  /\ delivering' = {<<s, IF s \in m_on' THEN "high" ELSE "low">>}
  /\ UNCHANGED <<drir, dim, misc, halts, line, start>>

(* The change is made, and the input driven, under m_mx.                   *)
drive(s) == delivering = {} /\ Requests(s)

(* ... and the level handed to the chipset, still under m_mx.              *)
interrupt(d) ==
  /\ d \in delivering
  /\ drir' = IF d[2] = "high" THEN drir \cup {InputOf[d[1]]}
                              ELSE drir \ {InputOf[d[1]]}
  /\ line' = [c \in Cpu |-> drive_lines(line[c], drir', dim[c])]
  /\ delivering' = delivering \ {d}
  /\ UNCHANGED <<irq_asserted, m_on, dim, misc, halts, start>>

(* A processor's interval tick; the primary's also sets the bits of the    *)
(* processors the machine does not have.                                   *)
interval_tick(c) ==
  /\ c \notin waiting
  /\ itintr' = itintr \cup {c} \cup IF c = Primary THEN Slot \ Cpu ELSE {}
  /\ line' = [line EXCEPT ![c] = drive_lines(@, drir, dim[c]) \cup {2}]
  /\ UNCHANGED <<boards, drir, dim, ipintr, arb, halts, start>>

\* Mutant: the lines are left as they were until the next interrupt.
DimWriteOnly(c, n, m) ==
  /\ c \notin waiting
  /\ dim' = [dim EXCEPT ![n] = m]
  /\ UNCHANGED <<boards, drir, misc, halts, line, start>>

(* A write of DIMn, for a processor the machine has or not.                *)
dim_write(c, n, m) ==
  /\ c \notin waiting
  /\ dim' = [dim EXCEPT ![n] = m]
  /\ line' = [i \in Cpu |-> IF i = n THEN drive_lines(line[i], drir, m)
                                     ELSE line[i]]
  /\ UNCHANGED <<boards, drir, misc, halts, start>>

(* A processor writes one of the halt registers: line 4 of every processor *)
(* follows the OR of both.                                                 *)
tig_update_halt_lines(l) ==
  [c \in Cpu |-> Driven(l[c], {4}, IF c \in HaltA' \cup HaltB' THEN {4}
                                                               ELSE {})]

tig_write(c, v) ==
  /\ c \notin waiting
  /\ \/ HaltA' = v /\ HaltB' = HaltB
     \/ HaltB' = v /\ HaltA' = HaltA
  /\ line' = tig_update_halt_lines(line)
  /\ UNCHANGED <<boards, drir, dim, misc, start>>

-----------------------------------------------------------------------------
(* A value written to MISC is a record: the interval-timer bits (it) and  *)
(* interprocessor bits (ip) it clears, the interprocessor requests it      *)
(* makes (req), whether it clears the arbitration (acl) and whether the    *)
(* writer asks for it (abw).                                               *)

(* The winner: a processor asking wins when, after the clear of the same   *)
(* write, nobody has.                                                      *)
arbitrate(c, d) ==
  LET before == IF d.acl THEN {} ELSE arb
  IN  IF d.abw /\ before = {} THEN {c} ELSE before

(* arbitration_cleared and release_secondaries: the mark is exchanged, so  *)
(* the secondaries start once.                                             *)
arbitration_cleared(c, d) ==
  IF d.acl /\ c = Primary /\ m_secondaries_pending
  THEN m_secondaries_pending' = FALSE /\ waiting' = {}
  ELSE UNCHANGED <<m_secondaries_pending, waiting>>

(* Lines 2 and 3: clears first, then the requests.                         *)
misc_lines(c, l, d) ==
  (l \ {n \in {2, 3} : c \in IF n = 2 THEN d.it ELSE d.ip})
    \cup {n \in {3} : c \in d.req}

misc_write(c, d) ==
  /\ c \notin waiting
  /\ itintr' = itintr \ d.it
  /\ ipintr' = (ipintr \ d.ip) \cup (d.req \cap Cpu)
  /\ arb' = arbitrate(c, d)
  /\ arbitration_cleared(c, d)
  /\ elected' = (elected \/ (d.acl /\ c = Primary))
  /\ line' = [i \in Cpu |-> misc_lines(i, line[i], d)]
  /\ UNCHANGED <<boards, drir, dim, halts, restored>>

-----------------------------------------------------------------------------
\* Mutant: loading the console does not arm the release.
LoadWithoutArming == UNCHANGED m_secondaries_pending

(* Loading the console arms the release of the secondaries.                *)
LoadROM == m_secondaries_pending' = (Cpu # {Primary})

(* ProcessPendingReset: the requests forgotten, the chipset's power-on     *)
(* values, every device's ResetPCI, every processor's state cleared, and   *)
(* the console loaded, which makes the secondaries wait again.             *)
ProcessPendingReset ==
  /\ delivering = {}
  /\ irq_asserted' = {} /\ m_on' = {}
  /\ drir' = {} /\ dim' = [n \in Slot |-> {}]
  /\ itintr' = {} /\ ipintr' = {} /\ arb' = {}
  /\ HaltA' = {} /\ HaltB' = {}
  /\ line' = [c \in Cpu |-> {}]
  /\ waiting' = Cpu \ {Primary} /\ elected' = FALSE /\ restored' = FALSE
  /\ LoadROM
  /\ UNCHANGED delivering

(* SaveState, and RestoreState into a machine just built: the registers,   *)
(* the processors and the devices come back.  The list of requests is in   *)
(* no file, and these devices do not drive their lines again.  The pending *)
(* mark is that of the console just loaded.                                *)
RestoreState ==
  /\ delivering = {}
  /\ m_on' = {} /\ restored' = TRUE
  /\ LoadROM
  /\ UNCHANGED <<irq_asserted, delivering, drir, dim, misc, halts, line,
                 waiting, elected>>

Next ==
  \/ \E s \in Source : drive(s)
  \/ \E d \in delivering : interrupt(d)
  \/ \E c \in Cpu : interval_tick(c)
  \/ \E c \in Cpu, n \in Slot, m \in Mask : dim_write(c, n, m)
  \/ \E c \in Cpu, v \in HaltValue : tig_write(c, v)
  \/ \E c \in Cpu, d \in MiscData : misc_write(c, d)
  \/ ProcessPendingReset
  \/ RestoreState

Spec == Init /\ [][Next]_vars

-----------------------------------------------------------------------------
(* While no device is delivering, an input is up in DRIR exactly when some *)
(* device still holds its request on it, however the devices that share it *)
(* and the resets interleave, on a machine that was not restored.          *)
InputsAreWiredOr ==
  delivering = {} /\ ~restored => drir = {InputOf[s] : s \in irq_asserted}

(* At every moment each processor's lines are what the registers say:      *)
(* lines 1 and 0 the requests it unmasks, line 2 its interval-timer bit,   *)
(* line 3 its interprocessor bit, line 4 the halt registers.  No           *)
(* interprocessor request is ever erased by another processor's            *)
(* acknowledgement, no mask change waits for the next interrupt.           *)
LinesFollowRegisters ==
  \A c \in Cpu :
    /\ 1 \in line[c] <=> drir \cap dim[c] \cap DeviceInput # {}
    /\ 0 \in line[c] <=> drir \cap dim[c] \cap ErrorInput # {}
    /\ 2 \in line[c] <=> c \in itintr
    /\ 3 \in line[c] <=> c \in ipintr
    /\ 4 \in line[c] <=> c \in HaltA \cup HaltB

(* No two processors have won the arbitration, and no secondary runs       *)
(* before processor 0 has cleared it ("the others wait until processor 0   *)
(* has cleared the arbitration itself"); once it has, every one runs.      *)
OnePrimary ==
  /\ \A c, e \in arb : c = e
  /\ ~elected => /\ waiting = Cpu \ {Primary}
                 /\ arb \subseteq {Primary}
  /\ elected => waiting = {}
=============================================================================

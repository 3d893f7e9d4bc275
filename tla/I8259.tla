------------------------------- MODULE I8259 -------------------------------
(***************************************************************************)
(* The ALi M1543C's two cascaded 8259A interrupt controllers (CI8259): the *)
(* slave's output is the master's input 2, and the master's goes to the    *)
(* chip set.  Every entry runs under the pair's lock, so an action is a    *)
(* whole call; devices and processors call in any order.  Vectors and what *)
(* a register reads back are left out: no state depends on them.           *)
(***************************************************************************)
EXTENDS Integers, FiniteSets

CONSTANTS
  N,                    \* inputs of one controller: 8 in the code
  Input,                \* [0 .. 1 -> inputs that devices drive]
  Masks,                \* values written to IMR
  Elcr,                 \* values written to ELCR
  MaxModes,             \* bound: writes that change a mode or a priority
  Modes                 \* [0 .. 1 -> ICW4: special fully nested, automatic EOI]

Pair    == {0, 1}       \* the master and the slave
Cascade == 2

VARIABLES
  pic,                  \* SPic_state and the master's output
  polled,               \* history: a poll of the master took the cascade, and
                        \* the guest has not polled the slave yet
  modes                 \* mode changes so far

vars == <<pic, polled, modes>>

None == -1

(* pic_priority_of: the distance of the first bit from the rotation's top. *)
pic_priority_of(mask, add) ==
  IF mask = {} THEN N
  ELSE CHOOSE p \in 0 .. N - 1 :
         /\ (p + add) % N \in mask
         /\ \A q \in 0 .. p - 1 : (q + add) % N \notin mask

(* get_irq: what the controller wants delivered now.                       *)
get_irq(s, i) ==
  LET p == pic_priority_of(s.irr[i] \ s.imr[i], s.add[i])
      blocking == (s.isr[i] \ (IF s.smm[i] THEN s.imr[i] ELSE {}))
                    \ (IF s.sfnm[i] /\ i = 0 THEN {Cascade} ELSE {})
  IN IF p < pic_priority_of(blocking, s.add[i]) THEN (p + s.add[i]) % N ELSE None

Level(s, i, n) == n \in s.elcr[i] \/ s.ltim[i]

UpdateMaster(s) == [s EXCEPT !.int = get_irq(s, 0) # None]

\* Mutant: an edge-triggered cascade stays latched when the slave's request
\* goes away, as any other input's would.
CascadeLatched(s) ==
  IF get_irq(s, 1) # None
  THEN [s EXCEPT !.irr[0] = IF Level(s, 0, Cascade) \/ Cascade \notin s.last[0]
                            THEN @ \cup {Cascade} ELSE @,
                 !.last[0] = @ \cup {Cascade}]
  ELSE [s EXCEPT !.irr[0] = IF Level(s, 0, Cascade) THEN @ \ {Cascade} ELSE @,
                 !.last[0] = @ \ {Cascade}]

DriveCascade(s) ==
  IF get_irq(s, 1) # None
  THEN [s EXCEPT !.irr[0] = IF Level(s, 0, Cascade) \/ Cascade \notin s.last[0]
                            THEN @ \cup {Cascade} ELSE @,
                 !.last[0] = @ \cup {Cascade}]
  ELSE [s EXCEPT !.irr[0] = @ \ {Cascade}, !.last[0] = @ \ {Cascade}]

(* update_output: the slave's output drives the master's input.            *)
update_output(s, i) == UpdateMaster(IF i = 1 THEN DriveCascade(s) ELSE s)

(* intack *)
intack(s, i, n) ==
  LET a == IF s.aeoi[i]
           THEN [s EXCEPT !.add[i] = IF s.raeoi[i] THEN (n + 1) % N ELSE @]
           ELSE [s EXCEPT !.isr[i] = @ \cup {n}]
  IN update_output(IF Level(a, i, n) THEN a ELSE [a EXCEPT !.irr[i] = @ \ {n}], i)

(* init_reset: ICW1 leaves the edge/level register and LTIM alone.         *)
init_reset(s, i) ==
  update_output([s EXCEPT !.last[i] = {}, !.irr[i] = @ \cap s.elcr[i],
    !.imr[i] = {}, !.isr[i] = {}, !.add[i] = 0, !.poll[i] = FALSE,
    !.smm[i] = FALSE, !.icw[i] = 0, !.aeoi[i] = FALSE, !.raeoi[i] = FALSE,
    !.sfnm[i] = FALSE, !.init4[i] = FALSE, !.single[i] = FALSE], i)

Zero == [i \in Pair |-> {}]
Off  == [i \in Pair |-> FALSE]

(* Power-on: reset() over a cleared state.                                 *)
Init ==
  /\ polled = FALSE /\ modes = 0
  /\ pic = [irr |-> Zero, imr |-> Zero, isr |-> Zero, last |-> Zero, elcr |-> Zero,
            add |-> [i \in Pair |-> 0], icw |-> [i \in Pair |-> 0], poll |-> Off,
            smm |-> Off, aeoi |-> Off, raeoi |-> Off, sfnm |-> Off, init4 |-> Off,
            single |-> Off, ltim |-> Off, int |-> FALSE]

Initialized == \A i \in Pair : pic.icw[i] = 0

-----------------------------------------------------------------------------
Do(s) == pic' = s /\ UNCHANGED <<polled, modes>>

(* A write that changes a mode or a priority, of which there are few.      *)
Change(s) ==
  /\ modes < MaxModes /\ modes' = modes + 1
  /\ pic' = s /\ UNCHANGED polled

(* The guest's writes to the first port.                                   *)
ICW1(i, init4, single, ltim) ==
  Change([init_reset(pic, i) EXCEPT !.icw[i] = 1, !.init4[i] = init4,
                                    !.single[i] = single, !.ltim[i] = ltim])

(* OCW3: a poll, and special mask mode.                                    *)
OCW3Poll(i) == Change([pic EXCEPT !.poll[i] = TRUE])

OCW3SpecialMask(i, smm) ==
  /\ smm # pic.smm[i]
  /\ Change(update_output([pic EXCEPT !.smm[i] = smm], i))

(* OCW2: rotation in automatic EOI mode, the EOIs, and priorities.         *)
OCW2RotateAuto(i, on) == Change([pic EXCEPT !.raeoi[i] = on])

Highest(i) == (pic_priority_of(pic.isr[i], pic.add[i]) + pic.add[i]) % N

OCW2EOI(i) ==
  /\ pic.isr[i] # {}
  /\ Do(update_output([pic EXCEPT !.isr[i] = @ \ {Highest(i)}], i))

OCW2RotateEOI(i) ==
  /\ pic.isr[i] # {}
  /\ Change(update_output([pic EXCEPT !.isr[i] = @ \ {Highest(i)},
                                     !.add[i] = (Highest(i) + 1) % N], i))

OCW2SpecificEOI(i, n) == Do(update_output([pic EXCEPT !.isr[i] = @ \ {n}], i))

OCW2SetPriority(i, n) ==
  Change(update_output([pic EXCEPT !.add[i] = (n + 1) % N], i))

OCW2RotateSpecific(i, n) ==
  Change(update_output([pic EXCEPT !.isr[i] = @ \ {n}, !.add[i] = (n + 1) % N], i))

(* The second port: the mask, or the initialization's next word.           *)
OCW1(i, mask) ==
  /\ pic.icw[i] = 0
  /\ Change(update_output([pic EXCEPT !.imr[i] = mask], i))

ICW2(i) ==
  /\ pic.icw[i] = 1
  /\ Do([pic EXCEPT !.icw[i] = IF ~pic.single[i] THEN 2
                                   ELSE IF pic.init4[i] THEN 3 ELSE 0])

ICW3(i) ==
  /\ pic.icw[i] = 2
  /\ Do([pic EXCEPT !.icw[i] = IF pic.init4[i] THEN 3 ELSE 0])

ICW4(i, mode) ==
  /\ pic.icw[i] = 3
  /\ Do([pic EXCEPT !.sfnm[i] = mode.sfnm, !.aeoi[i] = mode.aeoi, !.icw[i] = 0])

write_elcr(i, bits) == Change(update_output([pic EXCEPT !.elcr[i] = bits], i))

(* A read acts on a poll only.  The guest initializes the pair with        *)
(* interrupts off, and takes none meanwhile.                               *)
read(i) ==
  LET n == get_irq(pic, i)
  IN /\ pic.poll[i] /\ Initialized
     /\ pic' = [(IF n # None THEN intack(pic, i, n) ELSE pic)
                 EXCEPT !.poll[i] = FALSE]
     /\ UNCHANGED modes
     /\ polled' = IF i = 0 THEN polled \/ n = Cascade ELSE FALSE

(* read_vector, the processor's acknowledgement: the cascade's goes to the *)
(* slave first.                                                            *)
read_vector ==
  LET n == get_irq(pic, 0)
      m == get_irq(pic, 1)
  IN /\ Initialized
     /\ n # None
     /\ Do(intack(IF n = Cascade /\ m # None THEN intack(pic, 1, m) ELSE pic, 0, n))

-----------------------------------------------------------------------------
(* A device's edge, the end of its line, and a line held at a level.       *)
interrupt(i, n) ==
  Do(update_output([pic EXCEPT !.irr[i] = @ \cup {n}, !.last[i] = @ \cup {n}], i))

deassert(i, n) ==
  Do(update_output([pic EXCEPT
    !.irr[i] = IF Level(pic, i, n) THEN @ \ {n} ELSE @, !.last[i] = @ \ {n}], i))

set_line(i, n, active) ==
  Do(update_output(
    IF active
    THEN [pic EXCEPT !.irr[i] = IF Level(pic, i, n) \/ n \notin pic.last[i]
                                THEN @ \cup {n} ELSE @,
                     !.last[i] = @ \cup {n}]
    ELSE [pic EXCEPT !.irr[i] = @ \ {n}, !.last[i] = @ \ {n}], i))

Wired(i) == Input[i] \cup IF i = 0 THEN {Cascade} ELSE {}

Guest ==
  \/ \E i \in Pair :
       \/ \E init4, single, ltim \in BOOLEAN : ICW1(i, init4, single, ltim)
       \/ \E on \in BOOLEAN : OCW3SpecialMask(i, on) \/ OCW2RotateAuto(i, on)
       \/ \E n \in Wired(i) : \/ OCW2SpecificEOI(i, n) \/ OCW2SetPriority(i, n)
                              \/ OCW2RotateSpecific(i, n)
       \/ \E m \in Masks : OCW1(i, m)
       \/ \E e \in Elcr : write_elcr(i, e)
       \/ \E m \in Modes[i] : ICW4(i, m)
       \/ ICW2(i) \/ ICW3(i) \/ OCW2EOI(i) \/ OCW2RotateEOI(i)
       \/ OCW3Poll(i) \/ read(i)
  \/ read_vector

Device ==
  \E i \in Pair : \E n \in Input[i] :
    \/ interrupt(i, n) \/ deassert(i, n)
    \/ \E active \in BOOLEAN : set_line(i, n, active)

Next == Guest \/ Device

Spec == Init /\ [][Next]_vars

-----------------------------------------------------------------------------
SlaveWants == get_irq(pic, 1) # None

(* The output the chip set sees is up to date after every call: up exactly *)
(* when the master has something to deliver.                               *)
OutputUpToDate == pic.int = (get_irq(pic, 0) # None)

(* The master's cascade request never outlives the slave's output: the     *)
(* acknowledgement that finds it always finds the slave's interrupt too,   *)
(* and no "phantom" is left in service.                                    *)
NoPhantom == Cascade \in pic.irr[0] => SlaveWants

(* And the slave's output is never left unheard: while it is up, the       *)
(* master holds its request or has it in service.                          *)
SlaveHeard ==
  SlaveWants /\ Cascade \in pic.last[0] /\ ~polled => Cascade \in pic.irr[0] \cup pic.isr[0]

(* The pair is in step after every call, whatever the modes, priorities,   *)
(* masks and initialisations in between: the output is the master's, the   *)
(* master's cascade input the slave's (update_output).                     *)
PairInStep == OutputUpToDate /\ NoPhantom /\ SlaveHeard
=============================================================================

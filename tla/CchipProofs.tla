---------------------------- MODULE CchipProofs ----------------------------
(***************************************************************************)
(* For any number of processors, inputs and devices, and whatever is       *)
(* written to the registers: the processors' lines follow the registers,   *)
(* the inputs are the OR of the devices' requests, and the election has    *)
(* one winner and starts the secondaries.                                  *)
(***************************************************************************)
EXTENDS Cchip, TLAPS

USE CchipAssumption

(* The values written to MISC are what the register's fields can hold.     *)
LEMMA MiscFields ==
  ASSUME NEW d \in MiscData
  PROVE  /\ d.it \in SUBSET Slot /\ d.ip \in SUBSET Slot
         /\ d.req \in SUBSET Slot
         /\ d.acl \in BOOLEAN /\ d.abw \in BOOLEAN
<1>1. d \in [it : SUBSET Slot, ip : SUBSET Slot, req : SUBSET Slot,
             acl : BOOLEAN, abw : BOOLEAN]
  OBVIOUS
<1> QED BY <1>1

(* What drive_lines does to each of the five lines of a processor.         *)
LEMMA DrivenLines ==
  ASSUME NEW l \in SUBSET Line, NEW d, NEW m
  PROVE  /\ drive_lines(l, d, m) \in SUBSET Line
         /\ 1 \in drive_lines(l, d, m) <=> d \cap m \cap DeviceInput # {}
         /\ 0 \in drive_lines(l, d, m) <=> d \cap m \cap ErrorInput # {}
         /\ \A n \in {2, 3, 4} : n \in drive_lines(l, d, m) <=> n \in l
<1> DEFINE up == DeviceLines(d, m)
<1>1. /\ up \subseteq {0, 1}
      /\ 1 \in up <=> d \cap m \cap DeviceInput # {}
      /\ 0 \in up <=> d \cap m \cap ErrorInput # {}
  BY DEF DeviceLines
<1>2. drive_lines(l, d, m) = (l \ {0, 1}) \cup (up \cap {0, 1})
  BY DEF drive_lines, Driven
<1> HIDE DEF up
<1> QED BY <1>1, <1>2 DEF Line

(* Every step keeps the types, whatever the devices and the processors do. *)
LEMMA TypeStep == TypeOK /\ [Next]_vars => TypeOK'
<1> SUFFICES ASSUME TypeOK, [Next]_vars PROVE TypeOK'
  OBVIOUS
<1> USE DEF TypeOK, boards, misc, halts, start
<1>1. CASE \E s \in Source : drive(s)
  <2>1. PICK s \in Source : drive(s)
    BY <1>1
  <2>2. PICK v \in Level : delivering' = {<<s, v>>}
    BY <2>1 DEF drive, Requests, Level
  <2>3. irq_asserted' \in SUBSET Source /\ m_on' \in SUBSET Source
    BY <2>1 DEF drive, Requests
  <2> QED BY <2>1, <2>2, <2>3 DEF drive, Requests
<1>2. CASE \E d \in delivering : interrupt(d)
  <2>1. PICK d \in delivering : interrupt(d)
    BY <1>2
  <2>2. d \in Source \X Level
    BY <2>1
  <2>3. drir' \in SUBSET Input
    <3>1. InputOf[d[1]] \in Input
      BY <2>2 DEF Input
    <3> QED BY <2>1, <3>1 DEF interrupt
  <2>4. line' \in [Cpu -> SUBSET Line]
    <3>1. \A c \in Cpu : drive_lines(line[c], drir', dim[c]) \in SUBSET Line
      BY DrivenLines
    <3> QED BY <2>1, <3>1 DEF interrupt
  <2> QED BY <2>1, <2>3, <2>4 DEF interrupt
<1>3. CASE \E c \in Cpu : interval_tick(c)
  <2>1. PICK c \in Cpu : interval_tick(c)
    BY <1>3
  <2>2. drive_lines(line[c], drir, dim[c]) \cup {2} \in SUBSET Line
    <3>1. line[c] \in SUBSET Line /\ 2 \in Line
      BY DEF Line
    <3> QED BY <3>1, DrivenLines
  <2>3. line' \in [Cpu -> SUBSET Line]
    BY <2>1, <2>2 DEF interval_tick
  <2> QED BY <2>1, <2>3 DEF interval_tick
<1>4. CASE \E c \in Cpu, n \in Slot, m \in Mask : dim_write(c, n, m)
  <2>1. PICK c \in Cpu, n \in Slot, m \in Mask : dim_write(c, n, m)
    BY <1>4
  <2>2. line' \in [Cpu -> SUBSET Line]
    BY <2>1, DrivenLines DEF dim_write
  <2>3. dim' \in [Slot -> SUBSET Input]
    BY <2>1 DEF dim_write, Input
  <2> QED BY <2>1, <2>2, <2>3 DEF dim_write
<1>5. CASE \E c \in Cpu, v \in HaltValue : tig_write(c, v)
  <2>1. PICK c \in Cpu, v \in HaltValue : tig_write(c, v)
    BY <1>5
  <2>2. line' \in [Cpu -> SUBSET Line]
    BY <2>1 DEF tig_write, tig_update_halt_lines, Driven, Line
  <2> QED BY <2>1, <2>2 DEF tig_write
<1>6. CASE \E c \in Cpu, d \in MiscData : misc_write(c, d)
  <2>1. PICK c \in Cpu, d \in MiscData : misc_write(c, d)
    BY <1>6
  <2>2. line' \in [Cpu -> SUBSET Line]
    BY <2>1 DEF misc_write, misc_lines, Line
  <2>3. itintr' \in SUBSET Slot /\ ipintr' \in SUBSET Slot
    BY <2>1, MiscFields DEF misc_write
  <2>4. arb' \in SUBSET Slot
    BY <2>1 DEF misc_write, arbitrate
  <2>5. m_secondaries_pending' \in BOOLEAN /\ waiting' \in SUBSET Cpu
    BY <2>1 DEF misc_write, arbitration_cleared
  <2>6. elected' \in BOOLEAN
    BY <2>1 DEF misc_write
  <2> QED BY <2>1, <2>2, <2>3, <2>4, <2>5, <2>6 DEF misc_write
<1>7. CASE ProcessPendingReset
  BY <1>7 DEF ProcessPendingReset, LoadROM, Input, Line
<1>8. CASE RestoreState
  BY <1>8 DEF RestoreState, LoadROM
<1>9. CASE UNCHANGED vars
  BY <1>9 DEF vars
<1> QED BY <1>1, <1>2, <1>3, <1>4, <1>5, <1>6, <1>7, <1>8, <1>9 DEF Next

(* The variables of CInterruptLines, the Cchip and the TIG keep their      *)
(* types in every run.                                                     *)
THEOREM TypeCorrect == Spec => []TypeOK
<1>1. Init => TypeOK
  BY DEF Init, TypeOK, Input, Line
<1> QED BY <1>1, TypeStep, PTL DEF Spec

-----------------------------------------------------------------------------
(* Every step leaves each processor's lines as the registers say.          *)
LEMMA LinesStep ==
  TypeOK /\ LinesFollowRegisters /\ [Next]_vars => LinesFollowRegisters'
<1> SUFFICES ASSUME TypeOK, LinesFollowRegisters, [Next]_vars,
                    NEW e \in Cpu
             PROVE  /\ 1 \in line'[e] <=> drir' \cap dim'[e] \cap DeviceInput # {}
                    /\ 0 \in line'[e] <=> drir' \cap dim'[e] \cap ErrorInput # {}
                    /\ 2 \in line'[e] <=> e \in itintr'
                    /\ 3 \in line'[e] <=> e \in ipintr'
                    /\ 4 \in line'[e] <=> e \in HaltA' \cup HaltB'
  BY DEF LinesFollowRegisters
<1> USE DEF boards, misc, halts, start
<1>0. /\ line[e] \in SUBSET Line /\ e \in Slot
      /\ 1 \in line[e] <=> drir \cap dim[e] \cap DeviceInput # {}
      /\ 0 \in line[e] <=> drir \cap dim[e] \cap ErrorInput # {}
      /\ 2 \in line[e] <=> e \in itintr
      /\ 3 \in line[e] <=> e \in ipintr
      /\ 4 \in line[e] <=> e \in HaltA \cup HaltB
  BY DEF TypeOK, LinesFollowRegisters
<1>a. line \in [Cpu -> SUBSET Line] /\ dim \in [Slot -> SUBSET Input]
  BY DEF TypeOK
<1>1. CASE \E s \in Source : drive(s)
  BY <1>0, <1>1 DEF drive, Requests
<1>2. CASE \E d \in delivering : interrupt(d)
  <2>1. PICK d \in delivering : interrupt(d)
    BY <1>2
  <2>2. line'[e] = drive_lines(line[e], drir', dim[e])
    BY <2>1 DEF interrupt
  <2>3. UNCHANGED <<dim, itintr, ipintr, HaltA, HaltB>>
    BY <2>1 DEF interrupt
  <2> QED BY <1>0, <2>2, <2>3, DrivenLines
<1>3. CASE \E c \in Cpu : interval_tick(c)
  <2>1. PICK c \in Cpu : interval_tick(c)
    BY <1>3
  <2>2. CASE e = c
    <3>1. line'[e] = drive_lines(line[e], drir, dim[e]) \cup {2}
      BY <2>1, <2>2, <1>a DEF interval_tick
    <3>2. e \in itintr' /\ UNCHANGED <<drir, dim, ipintr, HaltA, HaltB>>
      BY <2>1, <2>2 DEF interval_tick
    <3> QED BY <1>0, <3>1, <3>2, DrivenLines
  <2>3. CASE e # c
    BY <1>0, <1>a, <2>1, <2>3 DEF interval_tick
  <2> QED BY <2>2, <2>3
<1>4. CASE \E c \in Cpu, n \in Slot, m \in Mask : dim_write(c, n, m)
  <2>1. PICK c \in Cpu, n \in Slot, m \in Mask : dim_write(c, n, m)
    BY <1>4
  <2>2. CASE e = n
    <3>1. line'[e] = drive_lines(line[e], drir, m) /\ dim'[e] = m
      BY <2>1, <2>2, <1>a, <1>0 DEF dim_write
    <3>2. UNCHANGED <<drir, itintr, ipintr, HaltA, HaltB>>
      BY <2>1 DEF dim_write
    <3> QED BY <1>0, <3>1, <3>2, DrivenLines
  <2>3. CASE e # n
    BY <1>0, <1>a, <2>1, <2>3 DEF dim_write
  <2> QED BY <2>2, <2>3
<1>5. CASE \E c \in Cpu, v \in HaltValue : tig_write(c, v)
  BY <1>0, <1>5 DEF tig_write, tig_update_halt_lines, Driven
<1>6. CASE \E c \in Cpu, d \in MiscData : misc_write(c, d)
  <2>1. PICK c \in Cpu, d \in MiscData : misc_write(c, d)
    BY <1>6
  <2>2. line'[e] = misc_lines(e, line[e], d)
    BY <2>1 DEF misc_write
  <2>3. /\ itintr' = itintr \ d.it
        /\ ipintr' = (ipintr \ d.ip) \cup (d.req \cap Cpu)
        /\ UNCHANGED <<drir, dim, HaltA, HaltB>>
    BY <2>1 DEF misc_write
  <2> QED BY <1>0, <2>2, <2>3 DEF misc_lines
<1>7. CASE ProcessPendingReset
  BY <1>7 DEF ProcessPendingReset
<1>8. CASE RestoreState
  BY <1>0, <1>8 DEF RestoreState
<1>9. CASE UNCHANGED vars
  BY <1>0, <1>9 DEF vars
<1> QED BY <1>1, <1>2, <1>3, <1>4, <1>5, <1>6, <1>7, <1>8, <1>9 DEF Next

(* On any machine the five lines of every processor are at all times what  *)
(* DRIR, DIMn, MISC and the halt registers say, through resets, restores   *)
(* and every interleaving of devices and processors.                       *)
THEOREM LinesFollow == Spec => []LinesFollowRegisters
<1>1. Init => TypeOK
  BY DEF Init, TypeOK, Input, Line
<1>2. Init => LinesFollowRegisters
  BY DEF Init, LinesFollowRegisters
<1>3. TypeOK /\ LinesFollowRegisters /\ [Next]_vars
        => TypeOK' /\ LinesFollowRegisters'
  BY TypeStep, LinesStep
<1> QED BY <1>1, <1>2, <1>3, PTL DEF Spec

-----------------------------------------------------------------------------
(* The list and the devices' own records agree, and DRIR lacks at most     *)
(* what the one device that holds m_mx is about to deliver.                *)
Wired ==
  /\ m_on = irq_asserted
  /\ \A i \in Input :
       (\A d \in delivering : InputOf[d[1]] # i) =>
         (i \in drir <=> \E s \in irq_asserted : InputOf[s] = i)
  /\ \A d \in delivering :
       d[2] = "high" <=> \E s \in irq_asserted : InputOf[s] = InputOf[d[1]]

(* Every step keeps Wired until a restore, and a reset brings it back.     *)
LEMMA WiredStep ==
  TypeOK /\ (restored \/ Wired) /\ [Next]_vars => restored' \/ Wired'
<1> SUFFICES ASSUME TypeOK, restored \/ Wired, [Next]_vars, ~restored'
             PROVE  Wired'
  OBVIOUS
<1>0. CASE ProcessPendingReset
  BY <1>0 DEF ProcessPendingReset, Wired
<1> SUFFICES ASSUME ~ProcessPendingReset PROVE Wired'
  BY <1>0
<1> Wired
  BY DEF Next, vars, boards, misc, halts, start, drive, Requests,
         interrupt, interval_tick, dim_write, tig_write, misc_write,
         RestoreState
<1> USE DEF boards, misc, halts, start
<1>1. CASE \E s \in Source : drive(s)
  <2>1. PICK s \in Source : drive(s)
    BY <1>1
  <2>2. m_on' = irq_asserted'
    BY <2>1 DEF drive, Requests, Wired
  <2>3. PICK v \in Level :
          /\ delivering' = {<<s, v>>}
          /\ v = "high" <=> \E t \in irq_asserted' : InputOf[t] = InputOf[s]
    BY <2>1, <2>2 DEF drive, Requests, Level
  <2>4. ASSUME NEW i \in Input, InputOf[s] # i
        PROVE  i \in drir' <=> \E t \in irq_asserted' : InputOf[t] = i
    BY <2>1, <2>4 DEF drive, Requests, Wired
  <2>5. \A d \in delivering' :
          d[2] = "high" <=> \E t \in irq_asserted' : InputOf[t] = InputOf[d[1]]
    BY <2>3
  <2> QED BY <2>2, <2>3, <2>4, <2>5 DEF Wired
<1>2. CASE \E d \in delivering : interrupt(d)
  <2>1. PICK d \in delivering : interrupt(d)
    BY <1>2
  <2>2. delivering = {d} /\ delivering' = {} /\ irq_asserted' = irq_asserted
    BY <2>1 DEF interrupt, TypeOK
  <2>3. ASSUME NEW i \in Input
        PROVE  i \in drir' <=> \E s \in irq_asserted : InputOf[s] = i
    BY <2>1, <2>2 DEF interrupt, Wired
  <2> QED BY <2>1, <2>2, <2>3 DEF interrupt, Wired
<1>3. CASE \E c \in Cpu : interval_tick(c)
  BY <1>3 DEF interval_tick, Wired
<1>4. CASE \E c \in Cpu, n \in Slot, m \in Mask : dim_write(c, n, m)
  BY <1>4 DEF dim_write, Wired
<1>5. CASE \E c \in Cpu, v \in HaltValue : tig_write(c, v)
  BY <1>5 DEF tig_write, Wired
<1>6. CASE \E c \in Cpu, d \in MiscData : misc_write(c, d)
  BY <1>6 DEF misc_write, Wired
<1>8. CASE RestoreState
  BY <1>8 DEF RestoreState
<1>9. CASE UNCHANGED vars
  BY <1>9 DEF vars, Wired
<1> QED BY <1>1, <1>2, <1>3, <1>4, <1>5, <1>6, <1>8, <1>9 DEF Next

(* However many devices share an input, DRIR holds the OR of their         *)
(* requests whenever none is being delivered, as long as the machine was   *)
(* not restored from a file since its reset.                               *)
THEOREM InputsWired == Spec => []InputsAreWiredOr
<1>1. Init => (restored \/ Wired)
  BY DEF Init, Wired
<1>2. TypeOK /\ (restored \/ Wired) /\ [Next]_vars => (restored \/ Wired)'
  BY WiredStep
<1>3. TypeOK /\ (restored \/ Wired) => InputsAreWiredOr
  <2> SUFFICES ASSUME TypeOK, Wired, delivering = {}
               PROVE  drir = {InputOf[s] : s \in irq_asserted}
    BY DEF InputsAreWiredOr
  <2>1. \A i \in Input : i \in drir <=> \E s \in irq_asserted : InputOf[s] = i
    BY DEF Wired
  <2>2. \A s \in irq_asserted : InputOf[s] \in Input
    BY DEF TypeOK, Input
  <2> QED BY <2>1, <2>2 DEF TypeOK
<1> QED BY <1>1, <1>2, <1>3, TypeCorrect, PTL DEF Spec

-----------------------------------------------------------------------------
(* Until the primary clears the arbitration the release stays armed.       *)
Armed == ~elected => (m_secondaries_pending <=> Cpu # {Primary})

Election == OnePrimary /\ Armed

(* Every step keeps one winner at most and the secondaries in step with    *)
(* the primary's clear.                                                    *)
LEMMA ElectionStep == TypeOK /\ Election /\ [Next]_vars => Election'
<1> SUFFICES ASSUME TypeOK, Election, [Next]_vars PROVE Election'
  OBVIOUS
<1> USE DEF boards, misc, halts, start, Election, OnePrimary, Armed
<1>0. UNCHANGED <<arb, elected, waiting, m_secondaries_pending>> => Election'
  OBVIOUS
<1>1. CASE \E s \in Source : drive(s)
  <2>1. UNCHANGED <<arb, elected, waiting, m_secondaries_pending>>
    BY <1>1 DEF drive, Requests
  <2> QED BY <1>0, <2>1
<1>2. CASE \E d \in delivering : interrupt(d)
  <2>1. UNCHANGED <<arb, elected, waiting, m_secondaries_pending>>
    BY <1>2 DEF interrupt
  <2> QED BY <1>0, <2>1
<1>3. CASE \E c \in Cpu : interval_tick(c)
  <2>1. UNCHANGED <<arb, elected, waiting, m_secondaries_pending>>
    BY <1>3 DEF interval_tick
  <2> QED BY <1>0, <2>1
<1>4. CASE \E c \in Cpu, n \in Slot, m \in Mask : dim_write(c, n, m)
  <2>1. UNCHANGED <<arb, elected, waiting, m_secondaries_pending>>
    BY <1>4 DEF dim_write
  <2> QED BY <1>0, <2>1
<1>5. CASE \E c \in Cpu, v \in HaltValue : tig_write(c, v)
  <2>1. UNCHANGED <<arb, elected, waiting, m_secondaries_pending>>
    BY <1>5 DEF tig_write
  <2> QED BY <1>0, <2>1
<1>6. CASE \E c \in Cpu, d \in MiscData : misc_write(c, d)
  <2>1. PICK c \in Cpu, d \in MiscData : misc_write(c, d)
    BY <1>6
  <2>2. d.acl \in BOOLEAN /\ d.abw \in BOOLEAN
    BY MiscFields
  <2>3. \A x, y \in arb' : x = y
    BY <2>1, <2>2 DEF misc_write, arbitrate
  <2>4. ASSUME ~elected
        PROVE  c = Primary
    BY <2>1, <2>4 DEF misc_write
  <2>5. ~elected' => /\ waiting' = Cpu \ {Primary} /\ arb' \subseteq {Primary}
                     /\ m_secondaries_pending' <=> Cpu # {Primary}
    BY <2>1, <2>2, <2>4 DEF misc_write, arbitrate, arbitration_cleared
  <2>6. elected' => waiting' = {}
    BY <2>1, <2>2, <2>4 DEF misc_write, arbitration_cleared
  <2> QED BY <2>3, <2>5, <2>6
<1>7. CASE ProcessPendingReset
  BY <1>7 DEF ProcessPendingReset, LoadROM
<1>8. CASE RestoreState
  BY <1>8 DEF RestoreState, LoadROM
<1>9. CASE UNCHANGED vars
  BY <1>9 DEF vars
<1> QED BY <1>1, <1>2, <1>3, <1>4, <1>5, <1>6, <1>7, <1>8, <1>9 DEF Next

(* With any number of processors the arbitration has one winner at most,   *)
(* no secondary runs before the primary has cleared it, and all run after, *)
(* across resets and restores.                                             *)
THEOREM ElectionHolds == Spec => []OnePrimary
<1>1. Init => TypeOK
  BY DEF Init, TypeOK, Input, Line
<1>2. Init => Election
  BY DEF Init, Election, OnePrimary, Armed
<1>3. TypeOK /\ Election /\ [Next]_vars => TypeOK' /\ Election'
  BY TypeStep, ElectionStep
<1>4. Election => OnePrimary
  BY DEF Election
<1> QED BY <1>1, <1>2, <1>3, <1>4, PTL DEF Spec
=============================================================================

---------------------------- MODULE LockedMemory ----------------------------
(***************************************************************************)
(* What LDx_L and STx_C promise a guest, whole instruction by whole        *)
(* instruction: a STx_C to the address of the LDx_L exchanges the value    *)
(* that was loaded for a new one, or stores nothing; a device's write ends *)
(* every reservation on the lines it touches; a reservation may be lost    *)
(* for any other reason at any time.                                       *)
(***************************************************************************)
CONSTANTS CPU, Addr, IoAddr, Val, Zero, line

VARIABLES mem,       \* memory
          loaded,    \* what each processor's latest LDx_L loaded, and where
          reserved,  \* the processors whose STx_C may still succeed
          stored     \* the processors whose STx_C has just stored

vars == <<mem, loaded, reserved, stored>>

Init ==
  /\ mem = [a \in Addr |-> Zero]
  /\ loaded = [c \in CPU |-> [addr |-> CHOOSE a \in Addr : TRUE, val |-> Zero]]
  /\ reserved = {}
  /\ stored = {}

LoadLocked(c, a) ==
  /\ loaded' = [loaded EXCEPT ![c] = [addr |-> a, val |-> mem[a]]]
  /\ reserved' = reserved \cup {c}
  /\ UNCHANGED <<mem, stored>>

Lose(S) ==
  /\ reserved' = reserved \ S
  /\ UNCHANGED <<mem, loaded, stored>>

\* A STx_C that succeeds: the value loaded is still there, or the STx_C is to
\* another quadword of the line.
StoreConditional(c, a, v) ==
  /\ c \in reserved
  /\ line[a] = line[loaded[c].addr]
  /\ a = loaded[c].addr => mem[a] = loaded[c].val
  /\ mem' = [mem EXCEPT ![a] = v]
  /\ reserved' = reserved \ {c}
  /\ stored' = stored \cup {c}
  /\ UNCHANGED loaded

Return(c) ==
  /\ stored' = stored \ {c}
  /\ UNCHANGED <<mem, loaded, reserved>>

Store(a, v) ==
  /\ mem' = [mem EXCEPT ![a] = v]
  /\ UNCHANGED <<loaded, reserved, stored>>

\* A STx_C to I/O space always stores, and ends the reservation too.
StoreConditionalIo(c, a, v) ==
  /\ mem' = [mem EXCEPT ![a] = v]
  /\ reserved' = reserved \ {c}
  /\ UNCHANGED <<loaded, stored>>

Transfer(S, v) ==
  /\ mem' = [a \in Addr |-> IF a \in S THEN v ELSE mem[a]]
  /\ reserved' = {c \in reserved : \A a \in S : line[loaded[c].addr] # line[a]}
  /\ UNCHANGED <<loaded, stored>>

Next ==
  \/ \E c \in CPU, a \in Addr : LoadLocked(c, a)
  \/ \E S \in SUBSET CPU : Lose(S)
  \/ \E c \in CPU, a \in Addr, v \in Val : StoreConditional(c, a, v)
  \/ \E c \in CPU : Return(c)
  \/ \E a \in Addr, v \in Val : Store(a, v)
  \/ \E c \in CPU, a \in IoAddr, v \in Val : StoreConditionalIo(c, a, v)
  \/ \E S \in SUBSET Addr, v \in Val : Transfer(S, v)

Spec == Init /\ [][Next]_vars
==============================================================================

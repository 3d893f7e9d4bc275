---------------------------- MODULE MCLoadLock ----------------------------
(***************************************************************************)
(* LoadLock for TLC: one line, and an I/O address.                         *)
(***************************************************************************)
EXTENDS LoadLock, TLC

CONSTANTS c1, c2, d1, x1, x2, io

MCLine == [a \in Addr |-> IF a = io THEN "IO" ELSE "X"]
MCBucket == [l \in Line |-> 0]

Symmetry == Permutations({c1, c2})

\* A processor's lock words are read only while its flag is set or its STx_C
\* is past cpu_take_lock, and no step looks at a value of I/O space: states
\* that differ only in dead words or there are one state.
Live(c) == c \in lockFlags \/ pc[c] \in {"sc_spin", "sc_seq", "sc_store"}

ValueAt(a, v) == IF a \in IoAddr THEN Zero ELSE v

LiveView ==
  <<[a \in Addr \ IoAddr |-> mem[a]], llSeq, llLock, lockFlags, gate, pc, dpc, dop,
    [c \in CPU |-> <<op[c].addr, ValueAt(op[c].addr, op[c].val)>>],
    [c \in CPU |-> IF Live(c)
                   THEN <<lockAddress[c], ValueAt(lockAddress[c], lockValue[c]),
                          seqSnap[c], clean[c]>>
                   ELSE <<>>],
    [c \in CPU |-> CASE Live(c) -> since[c] \ {"stc", "store"}
                     [] pc[c] = "ll_lock" -> since[c] \cap {"dma"}
                     [] OTHER -> {}]>>
============================================================================

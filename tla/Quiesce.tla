------------------------------ MODULE Quiesce ------------------------------
(***************************************************************************)
(* LDx_ARM and QUIESCE of the 21464: a processor watches a line, reads it, *)
(* and sleeps until another agent writes the line.  Processors store       *)
(* inline, unseen, through cached translations, so the page is marked and  *)
(* every processor asked to drop what it cached before anyone may sleep.   *)
(*                                                                         *)
(* Steps are accesses to shared words; all the ones the protocol rests on  *)
(* are sequentially consistent or fenced in the code, so are taken in      *)
(* order.  Every line has a page of its own, every processor has been      *)
(* started, and an interrupt, a stop, the timeout and the one-millisecond  *)
(* slice of the wait may come at any moment.                               *)
(***************************************************************************)
EXTENDS Naturals, FiniteSets

CONSTANTS Cpu, Line,
          MayArm,    \* the (processor, line) pairs of the guest's LDx_ARMs
          Device     \* the thread of a device that writes memory

ASSUME QuiesceAssumption == /\ MayArm \subseteq Cpu \X Line
                            /\ Device \notin Cpu
                            /\ IsFiniteSet(Cpu)
                            /\ IsFiniteSet(Line) /\ Line # {}

VARIABLES
  marked, gen,          \* m_watch_page_bits, m_watch_mark_gen
  genSeen, flushReq,    \* per processor: m_watch_gen_seen, m_dpc_flush_req
  inline,               \* pages the processor has cached as inline-writable
  flag, addr,           \* m_cpu_watch_flags, m_cpu_watch_address
  quiescing,            \* m_quiescing
  missed,               \* another agent wrote the line since LDx_ARM read it
  clean,                \* and nobody could store there inline at that time
  pc, line,             \* per agent: its step, the line it works on
  todo, victim,         \* the processors its loop has left, the one it wakes
  got, ret              \* the gen read, where honour_... returns to

vars == <<marked, gen, genSeen, flushReq, inline, flag, addr, quiescing,
          missed, clean, pc, line, todo, victim, got, ret>>

clues == <<missed, clean>>
watch == <<marked, gen, genSeen, flushReq, inline>>
local == <<line, todo, victim, got, ret>>

Agent == Cpu \cup {Device}

Steps == {"run", "fill", "mark", "gen", "ask", "addr", "flag", "read",
          "note", "hit", "notify", "exchange", "getgen", "flush", "armed",
          "settle", "settling", "enter", "look", "wait", "asleep", "leave",
          "write"}

TypeOK ==
  /\ marked \in SUBSET Line
  /\ gen \in 0 .. Cardinality(Line)
  /\ genSeen \in [Cpu -> 0 .. Cardinality(Line)]
  /\ inline \in [Cpu -> SUBSET Line]
  /\ flushReq \in [Cpu -> BOOLEAN] /\ flag \in [Cpu -> BOOLEAN]
  /\ quiescing \in [Cpu -> BOOLEAN]
  /\ missed \in [Cpu -> BOOLEAN] /\ clean \in [Cpu -> BOOLEAN]
  /\ addr \in [Cpu -> Line] /\ line \in [Agent -> Line]
  /\ pc \in [Agent -> Steps]
  /\ todo \in [Agent -> SUBSET Cpu] /\ victim \in [Agent -> Agent]
  /\ got \in [Cpu -> 0 .. Cardinality(Line)]
  /\ ret \in [Cpu -> {"run", "settle", "look"}]

SomeLine == CHOOSE l \in Line : TRUE

Init ==
  /\ marked = {} /\ gen = 0
  /\ genSeen = [c \in Cpu |-> 0]
  /\ inline \in [Cpu -> SUBSET Line]
  /\ flushReq = [c \in Cpu |-> FALSE]
  /\ flag = [c \in Cpu |-> FALSE]
  /\ addr = [c \in Cpu |-> SomeLine]
  /\ quiescing = [c \in Cpu |-> FALSE]
  /\ missed = [c \in Cpu |-> FALSE] /\ clean = [c \in Cpu |-> FALSE]
  /\ pc = [a \in Agent |-> "run"]
  /\ line = [a \in Agent |-> SomeLine]
  /\ todo = [a \in Agent |-> {}]
  /\ victim = [a \in Agent |-> a]
  /\ got = [c \in Cpu |-> 0]
  /\ ret = [c \in Cpu |-> "run"]

Goto(c, step) == pc' = [pc EXCEPT ![c] = step]

\* Mutant: a waker does not wait for the sleeper's lock.
LockedNever(c) == FALSE

\* m_quiesce_mx is held from "enter" to the wait, and again from waking on.
Locked(c) == \/ pc[c] \in {"look", "wait", "leave"}
             \/ pc[c] \in {"exchange", "getgen", "flush"} /\ ret[c] = "look"

\* Memory of line l is written by agent a.
Written(a, l) ==
  missed' = [d \in Cpu |-> missed[d] \/ (d # a /\ addr[d] = l)]

(***************************************************************************)
(* Translations and stores.                                                *)
(***************************************************************************)
dpc_host_base_w(c, l) ==
  /\ pc[c] = "run" /\ l \notin marked \cup inline[c]
  /\ line' = [line EXCEPT ![c] = l]
  /\ Goto(c, "fill")
  /\ UNCHANGED <<watch, flag, addr, quiescing, clues, todo, victim, got, ret>>

FillPageCache(c) ==
  /\ pc[c] = "fill"
  /\ inline' = [inline EXCEPT ![c] = @ \cup {line[c]}]
  /\ Goto(c, "run")
  /\ UNCHANGED <<marked, gen, genSeen, flushReq, flag, addr, quiescing, clues,
                 local>>

StoreInline(c, l) ==
  /\ pc[c] = "run" /\ l \in inline[c]
  /\ Written(c, l)
  /\ UNCHANGED <<watch, flag, addr, quiescing, clean, pc, local>>

Store(c, l) ==
  /\ pc[c] = "run" /\ l \notin inline[c]
  /\ Written(c, l)
  /\ line' = [line EXCEPT ![c] = l]
  /\ Goto(c, "note")
  /\ UNCHANGED <<watch, flag, addr, quiescing, clean, todo, victim, got, ret>>

cpu_note_store_watch(c) ==
  /\ pc[c] = "note"
  /\ todo' = [todo EXCEPT ![c] = {d \in Cpu \ {c} : flag[d]}]
  /\ Goto(c, "hit")
  /\ UNCHANGED <<watch, flag, addr, quiescing, clues, line, victim, got, ret>>

\* The flag is cleared before m_quiescing is looked at, in quiesce_notify.
cpu_watch_hit(a) ==
  /\ pc[a] = "hit"
  /\ IF todo[a] = {}
     THEN /\ Goto(a, IF a = Device THEN "write" ELSE "run")
          /\ UNCHANGED <<flag, todo, victim>>
     ELSE \E d \in todo[a] :
            /\ todo' = [todo EXCEPT ![a] = @ \ {d}]
            /\ IF addr[d] = line[a] /\ flag[d]
               THEN /\ flag' = [flag EXCEPT ![d] = FALSE]
                    /\ victim' = [victim EXCEPT ![a] = d]
                    /\ Goto(a, "notify")
               ELSE UNCHANGED <<flag, victim, pc>>
  /\ UNCHANGED <<watch, addr, quiescing, clues, line, got, ret>>

\* quiesce_notify takes m_quiesce_mx when it finds the processor quiescing.
Notifiable(d) == quiescing[d] => ~Locked(d)

Woken(d, p) == IF p[d] = "asleep" THEN [p EXCEPT ![d] = "look"] ELSE p

quiesce_wake(a) ==
  /\ pc[a] = "notify"
  /\ Notifiable(victim[a])
  /\ pc' = Woken(victim[a], [pc EXCEPT ![a] = "hit"])
  /\ victim' = [victim EXCEPT ![a] = a]
  /\ UNCHANGED <<watch, flag, addr, quiescing, clues, line, todo, got, ret>>

(***************************************************************************)
(* LDx_ARM, inside the reader side of the LL/SC gate.                      *)
(***************************************************************************)
Arming(c) == pc[c] \in {"mark", "gen", "ask", "addr", "flag", "read"}

\* With an interrupt to take, or on I/O space, the watch is only cleared.
watch_arm_fails(c) ==
  /\ pc[c] = "run" /\ flag[c]
  /\ flag' = [flag EXCEPT ![c] = FALSE]
  /\ UNCHANGED <<watch, addr, quiescing, clues, pc, local>>

watch_arm(c, l) ==
  /\ pc[c] = "run" /\ <<c, l>> \in MayArm
  /\ pc[Device] = "run"
  /\ line' = [line EXCEPT ![c] = l]
  /\ Goto(c, "mark")
  /\ UNCHANGED <<watch, flag, addr, quiescing, clues, todo, victim, got, ret>>

cpu_watch_mark_page(c) ==
  /\ pc[c] = "mark"
  /\ marked' = marked \cup {line[c]}
  /\ Goto(c, IF line[c] \in marked THEN "addr" ELSE "gen")
  /\ UNCHANGED <<gen, genSeen, flushReq, inline, flag, addr, quiescing, clues,
                 local>>

BumpWatchGen(c) ==
  /\ pc[c] = "gen"
  /\ gen' = gen + 1
  /\ todo' = [todo EXCEPT ![c] = Cpu]
  /\ Goto(c, "ask")
  /\ UNCHANGED <<marked, genSeen, flushReq, inline, flag, addr, quiescing,
                 clues, line, victim, got, ret>>

request_dpc_flush(c) ==
  /\ pc[c] = "ask"
  /\ IF todo[c] = {}
     THEN Goto(c, "addr") /\ UNCHANGED <<flushReq, todo>>
     ELSE \E d \in todo[c] :
            /\ Notifiable(d)
            /\ flushReq' = [flushReq EXCEPT ![d] = TRUE]
            /\ todo' = [todo EXCEPT ![c] = @ \ {d}]
            /\ pc' = Woken(d, pc)
  /\ UNCHANGED <<marked, gen, genSeen, inline, flag, addr, quiescing, clues,
                 line, victim, got, ret>>

cpu_arm_watch(c) ==
  /\ \/ /\ pc[c] = "addr"
        /\ addr' = [addr EXCEPT ![c] = line[c]]
        /\ Goto(c, "flag")
        /\ UNCHANGED flag
     \/ /\ pc[c] = "flag"
        /\ flag' = [flag EXCEPT ![c] = TRUE]
        /\ Goto(c, "read")
        /\ UNCHANGED addr
  /\ UNCHANGED <<watch, quiescing, clues, local>>

\* Processor d stores into line l unseen, or is about to cache that it may.
StoresInline(d, l) == l \in inline[d] \/ (pc[d] = "fill" /\ line[d] = l)

ReadLine(c) ==
  /\ pc[c] = "read"
  /\ missed' = [missed EXCEPT ![c] = FALSE]
  /\ clean' = [clean EXCEPT ![c] = \A d \in Cpu \ {c} : ~StoresInline(d, line[c])]
  /\ Goto(c, "run")
  /\ UNCHANGED <<watch, flag, addr, quiescing, local>>

(***************************************************************************)
(* honour_dpc_flush_request: from execute()'s timer check and MB, from     *)
(* QUIESCE, and from its wait.                                             *)
(***************************************************************************)
TimerCheck(c) ==
  /\ pc[c] = "run" /\ flushReq[c]
  /\ Goto(c, "exchange")
  /\ ret' = [ret EXCEPT ![c] = "run"]
  /\ UNCHANGED <<watch, flag, addr, quiescing, clues, line, todo, victim, got>>

TakeFlushRequest(c) ==
  /\ pc[c] = "exchange"
  /\ flushReq' = [flushReq EXCEPT ![c] = FALSE]
  /\ Goto(c, IF flushReq[c] THEN "getgen" ELSE ret[c])
  /\ UNCHANGED <<marked, gen, genSeen, inline, flag, addr, quiescing, clues,
                 local>>

ReadWatchGen(c) ==
  /\ pc[c] = "getgen"
  /\ got' = [got EXCEPT ![c] = gen]
  /\ Goto(c, "flush")
  /\ UNCHANGED <<watch, flag, addr, quiescing, clues, line, todo, victim, ret>>

flush_data_page_cache(c) ==
  /\ pc[c] = "flush"
  /\ inline' = [inline EXCEPT ![c] = {}]
  /\ genSeen' = [genSeen EXCEPT ![c] = got[c]]
  /\ Goto(c, ret[c])
  /\ UNCHANGED <<marked, gen, flushReq, flag, addr, quiescing, clues, local>>

(***************************************************************************)
(* QUIESCE.                                                                *)
(***************************************************************************)
quiesce(c) ==
  /\ pc[c] = "run"
  /\ Goto(c, IF flag[c] THEN "exchange" ELSE "run")
  /\ ret' = [ret EXCEPT ![c] = "settle"]
  /\ UNCHANGED <<watch, flag, addr, quiescing, clues, line, todo, victim, got>>

cpu_watch_settled(c) ==
  /\ pc[c] = "settle"
  /\ got' = [got EXCEPT ![c] = gen]
  /\ todo' = [todo EXCEPT ![c] = Cpu \ {c}]
  /\ Goto(c, "settling")
  /\ UNCHANGED <<watch, flag, addr, quiescing, clues, line, victim, ret>>

\* Every processor that is behind is asked again; one is enough to give up.
SettledWith(c) ==
  /\ pc[c] = "settling"
  /\ IF todo[c] = {}
     THEN /\ Goto(c, IF ret[c] = "run" THEN "run" ELSE "enter")
          /\ flag' = [flag EXCEPT ![c] = @ /\ ret[c] # "run"]
          /\ UNCHANGED <<flushReq, todo, ret>>
     ELSE \E d \in todo[c] :
            /\ todo' = [todo EXCEPT ![c] = @ \ {d}]
            /\ IF genSeen[d] >= got[c]
               THEN UNCHANGED <<flushReq, ret, pc>>
               ELSE /\ Notifiable(d)
                    /\ flushReq' = [flushReq EXCEPT ![d] = TRUE]
                    /\ ret' = [ret EXCEPT ![c] = "run"]
                    /\ pc' = Woken(d, pc)
            /\ UNCHANGED flag
  /\ UNCHANGED <<marked, gen, genSeen, inline, addr, quiescing, clues, line,
                 victim, got>>

EnterQuiesce(c) ==
  /\ pc[c] = "enter"
  /\ quiescing' = [quiescing EXCEPT ![c] = TRUE]
  /\ Goto(c, "look")
  /\ UNCHANGED <<watch, flag, addr, clues, local>>

\* An interrupt, the timeout, a stop or a reset ends it as a cleared flag does.
LookAround(c) ==
  /\ pc[c] = "look"
  /\ \/ Goto(c, "leave") /\ UNCHANGED ret
     \/ /\ flag[c] /\ flushReq[c]
        /\ Goto(c, "exchange")
        /\ ret' = [ret EXCEPT ![c] = "look"]
     \/ flag[c] /\ Goto(c, "wait") /\ UNCHANGED ret
  /\ UNCHANGED <<watch, flag, addr, quiescing, clues, line, todo, victim, got>>

\* wait_until gives the mutex up and blocks in one step; a slice of a
\* millisecond, or the processor's own tick, ends it too.
WaitForWrite(c) ==
  /\ \/ pc[c] = "wait" /\ Goto(c, "asleep")
     \/ pc[c] = "asleep" /\ Goto(c, "look")
  /\ UNCHANGED <<watch, flag, addr, quiescing, clues, local>>

LeaveQuiesce(c) ==
  /\ pc[c] = "leave"
  /\ quiescing' = [quiescing EXCEPT ![c] = FALSE]
  /\ flag' = [flag EXCEPT ![c] = FALSE]
  /\ Goto(c, "run")
  /\ UNCHANGED <<watch, addr, clues, local>>

\* Mutant: a device clears the watches without the gate.
DmaEnterUngated(l) ==
  /\ pc[Device] = "run"
  /\ line' = [line EXCEPT ![Device] = l]
  /\ todo' = [todo EXCEPT ![Device] = {c \in Cpu : flag[c]}]
  /\ Goto(Device, "hit")
  /\ UNCHANGED <<watch, flag, addr, quiescing, clues, victim, got, ret>>

(***************************************************************************)
(* A device's write, inside the writer side of the gate: the watches are   *)
(* cleared, then the data goes out.                                        *)
(***************************************************************************)
DmaEnter(l) ==
  /\ pc[Device] = "run"
  /\ \A c \in Cpu : ~Arming(c)
  /\ line' = [line EXCEPT ![Device] = l]
  /\ todo' = [todo EXCEPT ![Device] = {c \in Cpu : flag[c]}]
  /\ Goto(Device, "hit")
  /\ UNCHANGED <<watch, flag, addr, quiescing, clues, victim, got, ret>>

DmaWrite ==
  /\ pc[Device] = "write"
  /\ Written(Device, line[Device])
  /\ Goto(Device, "run")
  /\ UNCHANGED <<watch, flag, addr, quiescing, clean, local>>

CpuStep(c) ==
  \/ FillPageCache(c) \/ cpu_note_store_watch(c) \/ watch_arm_fails(c) \/ cpu_watch_mark_page(c)
  \/ BumpWatchGen(c) \/ request_dpc_flush(c) \/ cpu_arm_watch(c) \/ ReadLine(c)
  \/ TimerCheck(c) \/ TakeFlushRequest(c) \/ ReadWatchGen(c)
  \/ flush_data_page_cache(c) \/ quiesce(c) \/ cpu_watch_settled(c)
  \/ SettledWith(c) \/ EnterQuiesce(c) \/ LookAround(c) \/ WaitForWrite(c)
  \/ LeaveQuiesce(c)
  \/ \E l \in Line : \/ dpc_host_base_w(c, l) \/ StoreInline(c, l)
                     \/ Store(c, l) \/ watch_arm(c, l)

Next ==
  \/ \E c \in Cpu : CpuStep(c)
  \/ \E a \in Agent : cpu_watch_hit(a) \/ quiesce_wake(a)
  \/ \E l \in Line : DmaEnter(l)
  \/ DmaWrite

Spec == Init /\ [][Next]_vars

(***************************************************************************)
(* Properties.                                                             *)
(***************************************************************************)

\* Agents that have written, or are about to, and have yet to look at c's flag
\* or to wake c.
OnTheWay(c) ==
  \E a \in Agent \ {c} : \/ pc[a] = "note"
                         \/ pc[a] \in {"hit", "notify"} /\ c \in todo[a]
                         \/ pc[a] = "notify" /\ victim[a] = c

\* A store the LDx_ARM's read does not see sees the watch flag: when another
\* processor or a device wrote the line after it was read, the writer is still
\* on its way to clear the flag and wake the sleeper.  This is of a line nobody
\* could store into inline when it was read, as is every line of a page
\* watched for a while.
NoMissedStoreOnceSettled ==
  \A c \in Cpu : pc[c] = "asleep" /\ missed[c] /\ clean[c] => OnTheWay(c)

\* No processor sleeps "while another running processor may still hold an
\* inline-writable translation" of the page it watches (cpu_watch_settled).
SleepsOnlySettled ==
  \A c \in Cpu : pc[c] = "asleep"
    => \A d \in Cpu \ {c} : ~StoresInline(d, addr[c])

\* What the code needs for it: no two processors watch the same page.
OwnLines ==
  \A c, d \in Cpu, l \in Line : {<<c, l>>, <<d, l>>} \subseteq MayArm => c = d

\* No wake-up is lost: a processor waiting with its flag already clear has an
\* agent that has yet to notify it (m_quiescing set before the flag is read,
\* the flag cleared before m_quiescing is read, the mutex held to the wait).
NoLostWake ==
  \A c \in Cpu : pc[c] = "asleep" /\ ~flag[c]
    => \E a \in Agent : pc[a] = "notify" /\ victim[a] = c

\* No processor sleeps while another may store inline where it watches, or
\* with its flag cleared and nobody to notify it (jit_quiesce_wait).
SleepsSafely == TypeOK /\ SleepsOnlySettled /\ NoLostWake

=============================================================================

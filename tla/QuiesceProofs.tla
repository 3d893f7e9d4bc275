----------------------------- MODULE QuiesceProofs -----------------------------
(***************************************************************************)
(* Proofs about Quiesce, for any number of processors and lines.  Who may  *)
(* watch which line is arbitrary, but for the theorem that says otherwise. *)
(***************************************************************************)
EXTENDS Quiesce, FiniteSetTheorems, TLAPS

(* The pages counted, or marked by a processor that is about to count.     *)
Counting == {c \in Cpu : pc[c] = "gen"}

Counted ==
  /\ gen + Cardinality(Counting) = Cardinality(marked)
  /\ \A c \in Cpu : genSeen[c] <= gen /\ got[c] <= gen

(* The QUIESCE of a processor, from its first step to its last look.       *)
InQuiesce(c) ==
  \/ pc[c] \in {"settle", "settling", "enter", "look", "wait", "asleep"}
  \/ pc[c] \in {"exchange", "getgen", "flush"} /\ ret[c] # "run"

(* The watch of a LDx_ARM that is over.                                    *)
Armed(c) == (flag[c] /\ ~Arming(c)) \/ InQuiesce(c)

(* A line is on a marked page from early in its LDx_ARM on, and is one the *)
(* processor watches.                                                      *)
ArmOk(c) ==
  /\ Arming(c) => <<c, line[c]>> \in MayArm
  /\ pc[c] \in {"gen", "ask", "addr", "flag", "read"} => line[c] \in marked
  /\ pc[c] \in {"flag", "read"} => addr[c] = line[c]
  /\ Armed(c) => addr[c] \in marked /\ <<c, addr[c]>> \in MayArm

(* m_quiescing is set while the processor may wait, and a processor that   *)
(* waits with its flag clear has an agent about to notify it.              *)
WakeOk(c) ==
  /\ \/ pc[c] \in {"look", "wait", "asleep", "leave"}
     \/ pc[c] \in {"exchange", "getgen", "flush"} /\ ret[c] = "look"
     => quiescing[c]
  /\ pc[c] \in {"wait", "asleep"} /\ ~flag[c]
     => \E b \in Agent : pc[b] = "notify" /\ victim[b] = c

DeviceSteps ==
  /\ pc[Device] \in {"run", "hit", "notify", "write"}
  /\ \A b \in Agent : pc[b] = "notify" => victim[b] \in Cpu

(* The gate: during a device's write no LDx_ARM is under way, and the      *)
(* watches of the line are the ones it has yet to clear.                   *)
GateOk(c) ==
  pc[Device] # "run" =>
    /\ ~Arming(c)
    /\ flag[c] /\ addr[c] = line[Device] =>
         pc[Device] \in {"hit", "notify"} /\ c \in todo[Device]

(* A writer of line l that has yet to look at c's flag.                    *)
Looks(b, c, l) ==
  /\ line[b] = l
  /\ pc[b] = "note" \/ (pc[b] \in {"hit", "notify"} /\ c \in todo[b])

(* A watch that began with nobody storing inline is not stored to inline,  *)
(* and a writer it has missed will look at its flag.                       *)
MissOk(c) ==
  flag[c] /\ ~Arming(c) /\ clean[c] =>
    /\ \A d \in Cpu \ {c} : ~StoresInline(d, addr[c])
    /\ missed[c] => \E b \in Agent \ {c} : Looks(b, c, addr[c])

(* The inductive invariant, of any watches.                                *)
Watching ==
  /\ TypeOK /\ Counted /\ DeviceSteps
  /\ \A c \in Cpu : ArmOk(c) /\ WakeOk(c) /\ GateOk(c) /\ MissOk(c)

(* Processor c has found d to be settled.                                  *)
Passed(c, d) ==
  \/ pc[c] \in {"enter", "look", "wait", "asleep"}
  \/ pc[c] \in {"exchange", "getgen", "flush"} /\ ret[c] = "look"
  \/ pc[c] = "settling" /\ ret[c] # "run" /\ d \notin todo[c]

(* Whoever may store inline into a marked page has not flushed since the   *)
(* page was counted, or it is still to be counted.                         *)
Unflushed ==
  \A l \in marked, d \in Cpu : StoresInline(d, l) =>
    \/ genSeen[d] < gen
    \/ \E b \in Cpu : pc[b] = "gen" /\ line[b] = l

SettleOk(c, d) ==
  StoresInline(d, addr[c]) =>
    /\ ~Passed(c, d)
    /\ pc[c] = "settling" => genSeen[d] < got[c]

(* What Watching lacks when no two processors watch the same page.         *)
Settling ==
  Unflushed /\ \A c \in Cpu : \A d \in Cpu \ {c} : SettleOk(c, d)

-----------------------------------------------------------------------------
(* A step of one agent.                                                    *)
Step(a) ==
  \/ a \in Cpu /\ CpuStep(a)
  \/ cpu_watch_hit(a) \/ quiesce_wake(a)
  \/ a = Device /\ ((\E l \in Line : DmaEnter(l)) \/ DmaWrite)

(* What a step of agent a may do to the others: clear a flag, wake a       *)
(* sleeper, mark a page.                                                   *)
Apart(a) ==
  /\ \A b \in Agent \ {a} :
       /\ line'[b] = line[b] /\ todo'[b] = todo[b] /\ victim'[b] = victim[b]
       /\ pc'[b] = pc[b] \/ (pc[b] = "asleep" /\ pc'[b] = "look")
  /\ \A k \in Cpu \ {a} :
       /\ addr'[k] = addr[k] /\ quiescing'[k] = quiescing[k]
       /\ clean'[k] = clean[k] /\ got'[k] = got[k] /\ ret'[k] = ret[k]
       /\ inline'[k] = inline[k] /\ genSeen'[k] = genSeen[k]
       /\ flag'[k] => flag[k]
  /\ marked' = IF pc[a] = "mark" THEN marked \cup {line[a]} ELSE marked
  /\ gen' = IF pc[a] = "gen" THEN gen + 1 ELSE gen

(* Where it comes from.                                                    *)
Flow(a) ==
  /\ pc'[a] = "mark"     => pc[a] = "run"
  /\ pc'[a] = "gen"      => pc[a] = "mark" /\ line[a] \notin marked
  /\ pc'[a] = "ask"      => pc[a] \in {"gen", "ask"}
  /\ pc'[a] = "addr"     => pc[a] \in {"mark", "ask"}
  /\ pc'[a] = "flag"     => pc[a] = "addr"
  /\ pc'[a] = "read"     => pc[a] = "flag"
  /\ pc'[a] = "note"     => pc[a] = "run" /\ a # Device
  /\ pc'[a] = "notify"   => pc[a] = "hit"
  /\ pc'[a] = "write"    => pc[a] = "hit" /\ todo[a] = {}
  /\ pc'[a] = "exchange" => pc[a] = "run" \/ (pc[a] = "look" /\ flag[a])
  /\ pc'[a] = "getgen"   => pc[a] = "exchange"
  /\ pc'[a] = "flush"    => pc[a] = "getgen"
  /\ pc'[a] = "settle"   => pc[a] \in {"exchange", "flush"} /\ ret[a] = "settle"
  /\ pc'[a] = "settling" => pc[a] \in {"settle", "settling"}
  /\ pc'[a] = "enter"    => pc[a] = "settling" /\ ret[a] # "run" /\ todo[a] = {}
  /\ pc'[a] = "look"     => \/ pc[a] \in {"enter", "asleep"}
                            \/ pc[a] \in {"exchange", "flush"} /\ ret[a] = "look"
  /\ pc'[a] = "wait"     => pc[a] = "look" /\ flag[a]
  /\ pc'[a] = "asleep"   => pc[a] = "wait"
  /\ pc'[a] = "leave"    => pc[a] = "look"
  /\ pc[a] = "mark" => pc'[a] = IF line[a] \in marked THEN "addr" ELSE "gen"
  /\ pc[a] = "gen" => pc'[a] = "ask"
  /\ pc[a] \in {"ask", "addr", "flag"} => pc'[a] \in {"ask", "addr", "flag", "read"}
  /\ pc[a] \in {"note", "notify"} => pc'[a] = "hit"
  /\ pc[a] = "hit" => pc'[a] \in {"hit", "notify"} \/ todo[a] = {}
  /\ a = Device => /\ pc[a] \in {"run", "hit", "notify", "write"}
                   /\ pc'[a] \in {"run", "hit", "notify", "write"}

(* What a processor does to its own watch.                                 *)
Own(c) ==
  /\ line'[c] = line[c] \/ pc[c] = "run"
  /\ pc'[c] = "fill" => line'[c] \notin marked
  /\ pc[c] = "run" /\ pc'[c] = "mark" => /\ <<c, line'[c]>> \in MayArm
                                         /\ pc[Device] = "run"
  /\ addr'[c] = IF pc[c] = "addr" THEN line[c] ELSE addr[c]
  /\ flag'[c] => flag[c] \/ pc[c] = "flag"
  /\ flag[c] => flag'[c] \/ pc[c] \in {"run", "hit", "settling", "leave"}
  /\ quiescing[c] \/ pc[c] = "enter" => quiescing'[c] \/ pc[c] = "leave"
  /\ ret'[c] = ret[c] \/ pc[c] \in {"run", "look", "settling"}
  /\ pc[c] = "run" /\ pc'[c] = "exchange" =>
       ret'[c] = "run" \/ (ret'[c] = "settle" /\ flag[c])
  /\ pc[c] = "look" /\ pc'[c] = "exchange" => ret'[c] = "look"
  /\ pc[c] = "settling" => ret'[c] \in {ret[c], "run"}
  /\ got'[c] = IF pc[c] \in {"getgen", "settle"} THEN gen ELSE got[c]
  /\ genSeen'[c] = IF pc[c] = "flush" THEN got[c] ELSE genSeen[c]
  /\ inline'[c] \subseteq IF pc[c] = "flush" THEN {}
                          ELSE inline[c] \cup {l \in {line[c]} : pc[c] = "fill"}
  /\ pc[c] # "read" => clean'[c] = clean[c]
  /\ pc[c] = "read" /\ clean'[c] =>
       \A d \in Cpu \ {c} : ~StoresInline(d, line[c])

(* What it does to the watches of the others, and with its loops.          *)
Cross(a) ==
  /\ \A k \in Cpu : missed'[k] =>
       \/ missed[k] /\ (k = a => pc[a] # "read")
       \/ k # a /\ a \in Cpu /\ pc[a] = "run" /\ addr[k] \in inline[a]
       \/ k # a /\ pc'[a] = "note" /\ line'[a] = addr[k]
       \/ a = Device /\ pc[a] = "write" /\ line[a] = addr[k]
  /\ \A k \in Cpu \ {a} : flag[k] /\ ~flag'[k] =>
       pc[a] = "hit" /\ pc'[a] = "notify" /\ victim'[a] = k
  /\ pc'[a] = "notify" => victim'[a] \in Cpu
  /\ pc[a] = "note" => todo'[a] = {d \in Cpu \ {a} : flag[d]}
  /\ pc[a] = "notify" => todo'[a] = todo[a]
  /\ pc[a] = "notify" => \A k \in Cpu : victim[a] = k =>
       pc'[k] # "asleep" /\ (pc[k] = "wait" => ~quiescing[k])
  /\ pc[a] = "hit" => \A k \in todo[a] : \/ k \in todo'[a]
                                         \/ ~(flag'[k] /\ addr[k] = line[a])
  /\ pc[a] = "settle" => todo'[a] = Cpu \ {a}
  /\ pc[a] = "settling" => \A k \in todo[a] :
       k \in todo'[a] \/ genSeen[k] >= got[a] \/ ret'[a] = "run"
  /\ a = Device /\ pc[a] = "run" =>
       \A k \in Cpu : ~Arming(k) /\ (flag[k] => k \in todo'[a])

(* Every step is a step of one agent.                                      *)
LEMMA NextSteps == Next <=> \E a \in Agent : Step(a)
  BY Zenon DEF Next, Step, Agent

(* The frame of a step.                                                    *)
LEMMA StepApart ==
  ASSUME NEW a \in Agent, Step(a), TypeOK
  PROVE  Apart(a)
<1>pc. pc \in [Agent -> Steps]
  BY Zenon DEF TypeOK
<1>line. line \in [Agent -> Line]
  BY Zenon DEF TypeOK
<1>todo. todo \in [Agent -> SUBSET Cpu]
  BY Zenon DEF TypeOK
<1>victim. victim \in [Agent -> Agent]
  BY Zenon DEF TypeOK
<1>inline. inline \in [Cpu -> SUBSET Line]
  BY Zenon DEF TypeOK
<1>genSeen. genSeen \in [Cpu -> 0 .. Cardinality(Line)]
  BY Zenon DEF TypeOK
<1>got. got \in [Cpu -> 0 .. Cardinality(Line)]
  BY Zenon DEF TypeOK
<1>flushReq. flushReq \in [Cpu -> BOOLEAN]
  BY Zenon DEF TypeOK
<1>flag. flag \in [Cpu -> BOOLEAN]
  BY Zenon DEF TypeOK
<1>quiescing. quiescing \in [Cpu -> BOOLEAN]
  BY Zenon DEF TypeOK
<1>clean. clean \in [Cpu -> BOOLEAN]
  BY Zenon DEF TypeOK
<1>missed. missed \in [Cpu -> BOOLEAN]
  BY Zenon DEF TypeOK
<1>addr. addr \in [Cpu -> Line]
  BY Zenon DEF TypeOK
<1>ret. ret \in [Cpu -> {"run", "settle", "look"}]
  BY Zenon DEF TypeOK
<1>ag. Cpu \subseteq Agent /\ Device \in Agent /\ Device \notin Cpu
  BY QuiesceAssumption, Zenon DEF Agent
<1>1. CASE a \in Cpu /\ FillPageCache(a)
  BY <1>1, <1>ag, <1>inline, <1>pc, Zenon DEF FillPageCache, Goto, local, clues,
    Apart
<1>2. CASE a \in Cpu /\ cpu_note_store_watch(a)
  BY <1>2, <1>ag, <1>todo, <1>pc, Zenon DEF cpu_note_store_watch, Goto, watch, clues,
    Apart
<1>3. CASE a \in Cpu /\ watch_arm_fails(a)
  BY <1>3, <1>ag, <1>flag, Zenon DEF watch_arm_fails, watch, local, clues, Apart
<1>4. CASE a \in Cpu /\ cpu_watch_mark_page(a)
  BY <1>4, <1>ag, <1>pc, Zenon DEF cpu_watch_mark_page, Goto, local, clues, Apart
<1>5. CASE a \in Cpu /\ BumpWatchGen(a)
  BY <1>5, <1>ag, <1>todo, <1>pc, Zenon DEF BumpWatchGen, Goto, clues, Apart
<1>6. CASE a \in Cpu /\ request_dpc_flush(a)
  BY <1>6, <1>ag, <1>flushReq, <1>todo, <1>pc, Zenon DEF request_dpc_flush, Goto,
    clues, Woken, Apart
<1>7. CASE a \in Cpu /\ cpu_arm_watch(a)
  BY <1>7, <1>ag, <1>addr, <1>flag, <1>pc, Zenon DEF cpu_arm_watch, Goto, watch,
    local, clues, Apart
<1>8. CASE a \in Cpu /\ ReadLine(a)
  BY <1>8, <1>ag, <1>missed, <1>clean, <1>pc, Zenon DEF ReadLine, Goto, watch, local,
    Apart
<1>9. CASE a \in Cpu /\ TimerCheck(a)
  BY <1>9, <1>ag, <1>pc, <1>ret, Zenon DEF TimerCheck, Goto, watch, clues, Apart
<1>10. CASE a \in Cpu /\ TakeFlushRequest(a)
  BY <1>10, <1>ag, <1>flushReq, <1>pc, <1>ret, Zenon DEF TakeFlushRequest, Goto,
    local, clues, Apart
<1>11. CASE a \in Cpu /\ ReadWatchGen(a)
  BY <1>11, <1>ag, <1>got, <1>pc, Zenon DEF ReadWatchGen, Goto, watch, clues, Apart
<1>12. CASE a \in Cpu /\ flush_data_page_cache(a)
  BY <1>12, <1>ag, <1>inline, <1>genSeen, <1>pc, <1>ret, Zenon DEF
    flush_data_page_cache, Goto, local, clues, Apart
<1>13. CASE a \in Cpu /\ quiesce(a)
  BY <1>13, <1>ag, <1>pc, <1>ret, Zenon DEF quiesce, Goto, watch, clues, Apart
<1>14. CASE a \in Cpu /\ cpu_watch_settled(a)
  BY <1>14, <1>ag, <1>got, <1>todo, <1>pc, Zenon DEF cpu_watch_settled, Goto, watch,
    clues, Apart
<1>15. CASE a \in Cpu /\ SettledWith(a)
  BY <1>15, <1>ag, <1>pc, <1>flag, <1>flushReq, <1>todo, <1>ret, ZenonT(60) DEF
    SettledWith, Goto, clues, Woken, Apart
<1>16. CASE a \in Cpu /\ EnterQuiesce(a)
  BY <1>16, <1>ag, <1>quiescing, <1>pc, Zenon DEF EnterQuiesce, Goto, watch, local,
    clues, Apart
<1>17. CASE a \in Cpu /\ LookAround(a)
  BY <1>17, <1>ag, <1>pc, <1>ret, Zenon DEF LookAround, Goto, watch, clues, Apart
<1>18. CASE a \in Cpu /\ WaitForWrite(a)
  BY <1>18, <1>ag, <1>pc, Zenon DEF WaitForWrite, Goto, watch, local, clues, Apart
<1>19. CASE a \in Cpu /\ LeaveQuiesce(a)
  BY <1>19, <1>ag, <1>quiescing, <1>flag, <1>pc, Zenon DEF LeaveQuiesce, Goto, watch,
    local, clues, Apart
<1>20. CASE a \in Cpu /\ \E l \in Line : dpc_host_base_w(a, l)
  BY <1>20, <1>ag, <1>line, <1>pc, Zenon DEF dpc_host_base_w, Goto, watch, clues,
    Apart
<1>21. CASE a \in Cpu /\ \E l \in Line : StoreInline(a, l)
  BY <1>21, <1>ag, Zenon DEF StoreInline, watch, local, Written, Apart
<1>22. CASE a \in Cpu /\ \E l \in Line : Store(a, l)
  BY <1>22, <1>ag, <1>line, <1>pc, ZenonT(60) DEF Store, Goto, watch, Written, Apart
<1>23. CASE a \in Cpu /\ \E l \in Line : watch_arm(a, l)
  BY <1>23, <1>ag, <1>line, <1>pc, Zenon DEF watch_arm, Goto, watch, clues, Apart
<1>24. CASE cpu_watch_hit(a)
  <2>1. CASE todo[a] = {}
    BY <1>24, <2>1, <1>ag, <1>pc, <1>flag, <1>todo, <1>victim, Zenon DEF cpu_watch_hit,
      Goto, watch, clues, Apart
  <2>2. CASE todo[a] # {}
    <3>1. PICK d \in todo[a] :
            /\ todo' = [todo EXCEPT ![a] = @ \ {d}]
            /\ IF addr[d] = line[a] /\ flag[d]
               THEN /\ flag' = [flag EXCEPT ![d] = FALSE]
                    /\ victim' = [victim EXCEPT ![a] = d]
                    /\ Goto(a, "notify")
               ELSE UNCHANGED <<flag, victim, pc>>
      BY <1>24, <2>2, Zenon DEF cpu_watch_hit
    <3>2. /\ pc[a] = "hit" /\ d \in Cpu
          /\ UNCHANGED <<watch, addr, quiescing, clues, line, got, ret>>
      BY <1>24, <1>todo, Zenon DEF cpu_watch_hit
    <3>3. CASE addr[d] = line[a] /\ flag[d]
      BY <3>1, <3>2, <3>3, <1>ag, <1>pc, <1>flag, <1>todo, <1>victim, Zenon DEF Goto,
        watch, clues, Apart
    <3>4. CASE ~(addr[d] = line[a] /\ flag[d])
      BY <3>1, <3>2, <3>4, <1>ag, <1>pc, <1>flag, <1>todo, <1>victim, Zenon DEF
        watch, clues, Apart
    <3> QED BY <3>3, <3>4, Zenon
  <2> QED BY <2>1, <2>2, Zenon
<1>25. CASE quiesce_wake(a)
  BY <1>25, <1>ag, <1>pc, <1>victim, Zenon DEF quiesce_wake, watch, clues, Woken,
    Apart
<1>26. CASE a = Device /\ \E l \in Line : DmaEnter(l)
  BY <1>26, <1>ag, <1>line, <1>todo, <1>pc, ZenonT(60) DEF DmaEnter, Goto, watch, clues,
    Apart
<1>27. CASE a = Device /\ DmaWrite
  BY <1>27, <1>ag, <1>pc, Zenon DEF DmaWrite, Goto, watch, local, Written, Apart
<1> QED
  BY <1>1, <1>2, <1>3, <1>4, <1>5, <1>6, <1>7, <1>8, <1>9, <1>10, <1>11,
    <1>12, <1>13, <1>14, <1>15, <1>16, <1>17, <1>18, <1>19, <1>20, <1>21,
    <1>22, <1>23, <1>24, <1>25, <1>26, <1>27, ZenonT(60) DEF Step, CpuStep

(* The control flow.                                                       *)
LEMMA StepFlow ==
  ASSUME NEW a \in Agent, Step(a), TypeOK, DeviceSteps
  PROVE  Flow(a)
<1>pc. pc \in [Agent -> Steps]
  BY Zenon DEF TypeOK
<1>todo. todo \in [Agent -> SUBSET Cpu]
  BY Zenon DEF TypeOK
<1>flag. flag \in [Cpu -> BOOLEAN]
  BY Zenon DEF TypeOK
<1>flushReq. flushReq \in [Cpu -> BOOLEAN]
  BY Zenon DEF TypeOK
<1>ret. ret \in [Cpu -> {"run", "settle", "look"}]
  BY Zenon DEF TypeOK
<1>victim. victim \in [Agent -> Agent]
  BY Zenon DEF TypeOK
<1>addr. addr \in [Cpu -> Line]
  BY Zenon DEF TypeOK
<1>line. line \in [Agent -> Line]
  BY Zenon DEF TypeOK
<1>inline. inline \in [Cpu -> SUBSET Line]
  BY Zenon DEF TypeOK
<1>genSeen. genSeen \in [Cpu -> 0 .. Cardinality(Line)]
  BY Zenon DEF TypeOK
<1>got. got \in [Cpu -> 0 .. Cardinality(Line)]
  BY Zenon DEF TypeOK
<1>quiescing. quiescing \in [Cpu -> BOOLEAN]
  BY Zenon DEF TypeOK
<1>clean. clean \in [Cpu -> BOOLEAN]
  BY Zenon DEF TypeOK
<1>missed. missed \in [Cpu -> BOOLEAN]
  BY Zenon DEF TypeOK
<1>ag. Cpu \subseteq Agent /\ Device \in Agent /\ Device \notin Cpu
  BY QuiesceAssumption, Zenon DEF Agent
<1>ds. pc[Device] \in {"run", "hit", "notify", "write"}
  BY Zenon DEF DeviceSteps
<1>1. CASE a \in Cpu /\ FillPageCache(a)
  BY <1>1, <1>ag, <1>inline, <1>pc, Zenon DEF FillPageCache, Goto, local, clues, Flow
<1>2. CASE a \in Cpu /\ cpu_note_store_watch(a)
  BY <1>2, <1>ag, <1>todo, <1>pc, Zenon DEF cpu_note_store_watch, Goto, watch, clues,
    Flow
<1>3. CASE a \in Cpu /\ watch_arm_fails(a)
  BY <1>3, <1>ag, <1>flag, Zenon DEF watch_arm_fails, watch, local, clues, Flow
<1>4. CASE a \in Cpu /\ cpu_watch_mark_page(a)
  BY <1>4, <1>ag, <1>pc, Zenon DEF cpu_watch_mark_page, Goto, local, clues, Flow
<1>5. CASE a \in Cpu /\ BumpWatchGen(a)
  BY <1>5, <1>ag, <1>todo, <1>pc, Zenon DEF BumpWatchGen, Goto, clues, Flow
<1>6. CASE a \in Cpu /\ request_dpc_flush(a)
  <2>1. CASE todo[a] = {}
    BY <1>6, <2>1, <1>ag, <1>flushReq, <1>todo, <1>pc, Zenon DEF request_dpc_flush,
      Goto, clues, Flow
  <2>2. CASE todo[a] # {}
    <3>1. PICK d \in todo[a] :
            /\ todo' = [todo EXCEPT ![a] = @ \ {d}]
            /\ pc' = Woken(d, pc)
      BY <1>6, <2>2, Zenon DEF request_dpc_flush
    <3>2. /\ pc[a] = "ask" /\ d \in Cpu
          /\ UNCHANGED <<marked, gen, genSeen, inline, flag, addr, quiescing,
                         clues, line, victim, got, ret>>
      BY <1>6, <1>todo, Zenon DEF request_dpc_flush
    <3>3. CASE pc[d] = "asleep"
      BY <1>6, <3>1, <3>2, <3>3, <1>ag, <1>flushReq, <1>todo, <1>pc, Zenon DEF Woken,
        clues, Flow
    <3>4. CASE pc[d] # "asleep"
      BY <1>6, <3>1, <3>2, <3>4, <1>ag, <1>flushReq, <1>todo, <1>pc, Zenon DEF Woken,
        clues, Flow
    <3> QED BY <3>3, <3>4, Zenon
  <2> QED BY <2>1, <2>2, Zenon
<1>7. CASE a \in Cpu /\ cpu_arm_watch(a)
  BY <1>7, <1>ag, <1>addr, <1>flag, <1>pc, Zenon DEF cpu_arm_watch, Goto, watch,
    local, clues, Flow
<1>8. CASE a \in Cpu /\ ReadLine(a)
  BY <1>8, <1>ag, <1>missed, <1>clean, <1>pc, Zenon DEF ReadLine, Goto, watch, local,
    Flow
<1>9. CASE a \in Cpu /\ TimerCheck(a)
  BY <1>9, <1>ag, <1>pc, <1>ret, Zenon DEF TimerCheck, Goto, watch, clues, Flow
<1>10. CASE a \in Cpu /\ TakeFlushRequest(a)
  BY <1>10, <1>ag, <1>flushReq, <1>pc, <1>ret, Zenon DEF TakeFlushRequest, Goto,
    local, clues, Flow
<1>11. CASE a \in Cpu /\ ReadWatchGen(a)
  BY <1>11, <1>ag, <1>got, <1>pc, Zenon DEF ReadWatchGen, Goto, watch, clues, Flow
<1>12. CASE a \in Cpu /\ flush_data_page_cache(a)
  BY <1>12, <1>ag, <1>inline, <1>genSeen, <1>pc, <1>ret, Zenon DEF
    flush_data_page_cache, Goto, local, clues, Flow
<1>13. CASE a \in Cpu /\ quiesce(a)
  BY <1>13, <1>ag, <1>pc, <1>ret, Zenon DEF quiesce, Goto, watch, clues, Flow
<1>14. CASE a \in Cpu /\ cpu_watch_settled(a)
  BY <1>14, <1>ag, <1>got, <1>todo, <1>pc, Zenon DEF cpu_watch_settled, Goto, watch,
    clues, Flow
<1>15. CASE a \in Cpu /\ SettledWith(a)
  <2>1. CASE todo[a] = {}
    BY <1>15, <2>1, <1>ag, <1>pc, <1>flag, <1>flushReq, <1>todo, <1>ret, Zenon DEF
      SettledWith, Goto, clues, Flow
  <2>2. CASE todo[a] # {}
    <3>1. PICK d \in todo[a] :
            /\ todo' = [todo EXCEPT ![a] = @ \ {d}] /\ flag' = flag
            /\ IF genSeen[d] >= got[a]
               THEN UNCHANGED <<ret, pc>>
               ELSE ret' = [ret EXCEPT ![a] = "run"] /\ pc' = Woken(d, pc)
      BY <1>15, <2>2, Zenon DEF SettledWith
    <3>2. /\ pc[a] = "settling" /\ d \in Cpu
          /\ UNCHANGED <<marked, gen, genSeen, inline, addr, quiescing, clues,
                         line, victim, got>>
      BY <1>15, <1>todo, Zenon DEF SettledWith
    <3>3. CASE genSeen[d] >= got[a]
      BY <1>15, <3>1, <3>2, <3>3, <1>ag, <1>pc, <1>flag, <1>flushReq, <1>todo,
        <1>ret, ZenonT(60) DEF clues, Flow
    <3>4. CASE ~(genSeen[d] >= got[a]) /\ pc[d] = "asleep"
      BY <1>15, <3>1, <3>2, <3>4, <1>ag, <1>pc, <1>flag, <1>flushReq, <1>todo,
        <1>ret, Zenon DEF Woken, clues, Flow
    <3>5. CASE ~(genSeen[d] >= got[a]) /\ pc[d] # "asleep"
      BY <1>15, <3>1, <3>2, <3>5, <1>ag, <1>pc, <1>flag, <1>flushReq, <1>todo,
        <1>ret, ZenonT(60) DEF Woken, clues, Flow
    <3> QED BY <3>3, <3>4, <3>5, Zenon
  <2> QED BY <2>1, <2>2, Zenon
<1>16. CASE a \in Cpu /\ EnterQuiesce(a)
  BY <1>16, <1>ag, <1>quiescing, <1>pc, Zenon DEF EnterQuiesce, Goto, watch, local,
    clues, Flow
<1>17. CASE a \in Cpu /\ LookAround(a)
  BY <1>17, <1>ag, <1>pc, <1>ret, Zenon DEF LookAround, Goto, watch, clues, Flow
<1>18. CASE a \in Cpu /\ WaitForWrite(a)
  BY <1>18, <1>ag, <1>pc, Zenon DEF WaitForWrite, Goto, watch, local, clues, Flow
<1>19. CASE a \in Cpu /\ LeaveQuiesce(a)
  BY <1>19, <1>ag, <1>quiescing, <1>flag, <1>pc, Zenon DEF LeaveQuiesce, Goto, watch,
    local, clues, Flow
<1>20. CASE a \in Cpu /\ \E l \in Line : dpc_host_base_w(a, l)
  BY <1>20, <1>ag, <1>line, <1>pc, Zenon DEF dpc_host_base_w, Goto, watch, clues,
    Flow
<1>21. CASE a \in Cpu /\ \E l \in Line : StoreInline(a, l)
  BY <1>21, <1>ag, Zenon DEF StoreInline, watch, local, Written, Flow
<1>22. CASE a \in Cpu /\ \E l \in Line : Store(a, l)
  BY <1>22, <1>ag, <1>line, <1>pc, Zenon DEF Store, Goto, watch, Written, Flow
<1>23. CASE a \in Cpu /\ \E l \in Line : watch_arm(a, l)
  BY <1>23, <1>ag, <1>line, <1>pc, Zenon DEF watch_arm, Goto, watch, clues, Flow
<1>24. CASE cpu_watch_hit(a)
  <2>1. CASE todo[a] = {}
    BY <1>24, <2>1, <1>pc, <1>todo, <1>ag, Zenon DEF cpu_watch_hit, Goto, watch, clues,
      Flow
  <2>2. CASE todo[a] # {}
    <3>1. PICK d \in todo[a] :
            /\ todo' = [todo EXCEPT ![a] = @ \ {d}]
            /\ IF addr[d] = line[a] /\ flag[d]
               THEN /\ flag' = [flag EXCEPT ![d] = FALSE]
                    /\ victim' = [victim EXCEPT ![a] = d]
                    /\ Goto(a, "notify")
               ELSE UNCHANGED <<flag, victim, pc>>
      BY <1>24, <2>2, Zenon DEF cpu_watch_hit
    <3>2. /\ pc[a] = "hit" /\ d \in Cpu
          /\ UNCHANGED <<watch, addr, quiescing, clues, line, got, ret>>
      BY <1>24, <1>todo, Zenon DEF cpu_watch_hit
    <3>3. CASE addr[d] = line[a] /\ flag[d]
      BY <3>1, <3>2, <3>3, <1>pc, <1>todo, <1>ag, ZenonT(60) DEF Goto, watch, clues, Flow
    <3>4. CASE ~(addr[d] = line[a] /\ flag[d])
      BY <3>1, <3>2, <3>4, <1>pc, <1>todo, <1>ag, Zenon DEF watch, clues, Flow
    <3> QED BY <3>3, <3>4, Zenon
  <2> QED BY <2>1, <2>2, Zenon
<1>25. CASE quiesce_wake(a)
  BY <1>25, <1>ag, <1>pc, <1>victim, Zenon DEF quiesce_wake, watch, clues, Woken,
    Flow
<1>26. CASE a = Device /\ \E l \in Line : DmaEnter(l)
  BY <1>26, <1>ag, <1>line, <1>todo, <1>pc, Zenon DEF DmaEnter, Goto, watch, clues,
    Flow
<1>27. CASE a = Device /\ DmaWrite
  BY <1>27, <1>ag, <1>pc, Zenon DEF DmaWrite, Goto, watch, local, Written, Flow
<1> QED
  BY <1>1, <1>2, <1>3, <1>4, <1>5, <1>6, <1>7, <1>8, <1>9, <1>10, <1>11,
    <1>12, <1>13, <1>14, <1>15, <1>16, <1>17, <1>18, <1>19, <1>20, <1>21,
    <1>22, <1>23, <1>24, <1>25, <1>26, <1>27, Zenon DEF Step, CpuStep

(* A processor's own words.                                                *)
LEMMA StepOwn ==
  ASSUME NEW a \in Agent, Step(a), TypeOK, a \in Cpu
  PROVE  Own(a)
<1>pc. pc \in [Agent -> Steps]
  BY Zenon DEF TypeOK
<1>line. line \in [Agent -> Line]
  BY Zenon DEF TypeOK
<1>todo. todo \in [Agent -> SUBSET Cpu]
  BY Zenon DEF TypeOK
<1>victim. victim \in [Agent -> Agent]
  BY Zenon DEF TypeOK
<1>inline. inline \in [Cpu -> SUBSET Line]
  BY Zenon DEF TypeOK
<1>genSeen. genSeen \in [Cpu -> 0 .. Cardinality(Line)]
  BY Zenon DEF TypeOK
<1>got. got \in [Cpu -> 0 .. Cardinality(Line)]
  BY Zenon DEF TypeOK
<1>flushReq. flushReq \in [Cpu -> BOOLEAN]
  BY Zenon DEF TypeOK
<1>flag. flag \in [Cpu -> BOOLEAN]
  BY Zenon DEF TypeOK
<1>quiescing. quiescing \in [Cpu -> BOOLEAN]
  BY Zenon DEF TypeOK
<1>clean. clean \in [Cpu -> BOOLEAN]
  BY Zenon DEF TypeOK
<1>missed. missed \in [Cpu -> BOOLEAN]
  BY Zenon DEF TypeOK
<1>addr. addr \in [Cpu -> Line]
  BY Zenon DEF TypeOK
<1>ret. ret \in [Cpu -> {"run", "settle", "look"}]
  BY Zenon DEF TypeOK
<1>ag. Cpu \subseteq Agent /\ Device \in Agent /\ Device \notin Cpu
  BY QuiesceAssumption, Zenon DEF Agent
<1>1. CASE a \in Cpu /\ FillPageCache(a)
  BY <1>1, <1>ag, <1>inline, <1>pc, Zenon DEF FillPageCache, Goto, local, clues, Own
<1>2. CASE a \in Cpu /\ cpu_note_store_watch(a)
  BY <1>2, <1>ag, <1>todo, <1>pc, Zenon DEF cpu_note_store_watch, Goto, watch, clues,
    Own
<1>3. CASE a \in Cpu /\ watch_arm_fails(a)
  BY <1>3, <1>ag, <1>flag, Zenon DEF watch_arm_fails, watch, local, clues, Own
<1>4. CASE a \in Cpu /\ cpu_watch_mark_page(a)
  BY <1>4, <1>ag, <1>pc, Zenon DEF cpu_watch_mark_page, Goto, local, clues, Own
<1>5. CASE a \in Cpu /\ BumpWatchGen(a)
  BY <1>5, <1>ag, <1>todo, <1>pc, Zenon DEF BumpWatchGen, Goto, clues, Own
<1>6. CASE a \in Cpu /\ request_dpc_flush(a)
  <2>1. CASE todo[a] = {}
    BY <1>6, <2>1, <1>ag, <1>flushReq, <1>todo, <1>pc, Zenon DEF request_dpc_flush,
      Goto, clues, Own
  <2>2. CASE todo[a] # {}
    <3>1. PICK d \in todo[a] :
            /\ todo' = [todo EXCEPT ![a] = @ \ {d}]
            /\ pc' = Woken(d, pc)
      BY <1>6, <2>2, Zenon DEF request_dpc_flush
    <3>2. /\ pc[a] = "ask" /\ d \in Cpu
          /\ UNCHANGED <<marked, gen, genSeen, inline, flag, addr, quiescing,
                         clues, line, victim, got, ret>>
      BY <1>6, <1>todo, Zenon DEF request_dpc_flush
    <3>3. CASE pc[d] = "asleep"
      BY <1>6, <3>1, <3>2, <3>3, <1>ag, <1>flushReq, <1>todo, <1>pc, Zenon DEF Woken,
        clues, Own
    <3>4. CASE pc[d] # "asleep"
      BY <1>6, <3>1, <3>2, <3>4, <1>ag, <1>flushReq, <1>todo, <1>pc, Zenon DEF Woken,
        clues, Own
    <3> QED BY <3>3, <3>4, Zenon
  <2> QED BY <2>1, <2>2, Zenon
<1>7. CASE a \in Cpu /\ cpu_arm_watch(a)
  BY <1>7, <1>ag, <1>addr, <1>flag, <1>pc, Zenon DEF cpu_arm_watch, Goto, watch,
    local, clues, Own
<1>8. CASE a \in Cpu /\ ReadLine(a)
  BY <1>8, <1>ag, <1>missed, <1>clean, <1>pc, Zenon DEF ReadLine, Goto, watch, local,
    Own
<1>9. CASE a \in Cpu /\ TimerCheck(a)
  BY <1>9, <1>ag, <1>pc, <1>ret, Zenon DEF TimerCheck, Goto, watch, clues, Own
<1>10. CASE a \in Cpu /\ TakeFlushRequest(a)
  BY <1>10, <1>ag, <1>flushReq, <1>pc, <1>ret, Zenon DEF TakeFlushRequest, Goto,
    local, clues, Own
<1>11. CASE a \in Cpu /\ ReadWatchGen(a)
  BY <1>11, <1>ag, <1>got, <1>pc, Zenon DEF ReadWatchGen, Goto, watch, clues, Own
<1>12. CASE a \in Cpu /\ flush_data_page_cache(a)
  BY <1>12, <1>ag, <1>inline, <1>genSeen, <1>pc, <1>ret, Zenon DEF
    flush_data_page_cache, Goto, local, clues, Own
<1>13. CASE a \in Cpu /\ quiesce(a)
  BY <1>13, <1>ag, <1>pc, <1>ret, Zenon DEF quiesce, Goto, watch, clues, Own
<1>14. CASE a \in Cpu /\ cpu_watch_settled(a)
  BY <1>14, <1>ag, <1>got, <1>todo, <1>pc, Zenon DEF cpu_watch_settled, Goto, watch,
    clues, Own
<1>15. CASE a \in Cpu /\ SettledWith(a)
  <2>1. CASE todo[a] = {}
    BY <1>15, <2>1, <1>ag, <1>pc, <1>flag, <1>flushReq, <1>todo, <1>ret, Zenon DEF
      SettledWith, Goto, clues, Own
  <2>2. CASE todo[a] # {}
    <3>1. PICK d \in todo[a] :
            /\ todo' = [todo EXCEPT ![a] = @ \ {d}] /\ flag' = flag
            /\ IF genSeen[d] >= got[a]
               THEN UNCHANGED <<ret, pc>>
               ELSE ret' = [ret EXCEPT ![a] = "run"] /\ pc' = Woken(d, pc)
      BY <1>15, <2>2, Zenon DEF SettledWith
    <3>2. /\ pc[a] = "settling" /\ d \in Cpu
          /\ UNCHANGED <<marked, gen, genSeen, inline, addr, quiescing, clues,
                         line, victim, got>>
      BY <1>15, <1>todo, Zenon DEF SettledWith
    <3>3. CASE genSeen[d] >= got[a]
      BY <1>15, <3>1, <3>2, <3>3, <1>ag, <1>pc, <1>flag, <1>flushReq, <1>todo,
        <1>ret, Zenon DEF clues, Own
    <3>4. CASE ~(genSeen[d] >= got[a]) /\ pc[d] = "asleep"
      BY <1>15, <3>1, <3>2, <3>4, <1>ag, <1>pc, <1>flag, <1>flushReq, <1>todo,
        <1>ret, ZenonT(60) DEF Woken, clues, Own
    <3>5. CASE ~(genSeen[d] >= got[a]) /\ pc[d] # "asleep"
      BY <1>15, <3>1, <3>2, <3>5, <1>ag, <1>pc, <1>flag, <1>flushReq, <1>todo,
        <1>ret, ZenonT(60) DEF Woken, clues, Own
    <3> QED BY <3>3, <3>4, <3>5, Zenon
  <2> QED BY <2>1, <2>2, Zenon
<1>16. CASE a \in Cpu /\ EnterQuiesce(a)
  BY <1>16, <1>ag, <1>quiescing, <1>pc, Zenon DEF EnterQuiesce, Goto, watch, local,
    clues, Own
<1>17. CASE a \in Cpu /\ LookAround(a)
  BY <1>17, <1>ag, <1>pc, <1>ret, Zenon DEF LookAround, Goto, watch, clues, Own
<1>18. CASE a \in Cpu /\ WaitForWrite(a)
  BY <1>18, <1>ag, <1>pc, Zenon DEF WaitForWrite, Goto, watch, local, clues, Own
<1>19. CASE a \in Cpu /\ LeaveQuiesce(a)
  BY <1>19, <1>ag, <1>quiescing, <1>flag, <1>pc, Zenon DEF LeaveQuiesce, Goto, watch,
    local, clues, Own
<1>20. CASE a \in Cpu /\ \E l \in Line : dpc_host_base_w(a, l)
  BY <1>20, <1>ag, <1>line, <1>pc, Zenon DEF dpc_host_base_w, Goto, watch, clues, Own
<1>21. CASE a \in Cpu /\ \E l \in Line : StoreInline(a, l)
  BY <1>21, <1>ag, Zenon DEF StoreInline, watch, local, Written, Own
<1>22. CASE a \in Cpu /\ \E l \in Line : Store(a, l)
  BY <1>22, <1>ag, <1>line, <1>pc, Zenon DEF Store, Goto, watch, Written, Own
<1>23. CASE a \in Cpu /\ \E l \in Line : watch_arm(a, l)
  BY <1>23, <1>ag, <1>line, <1>pc, Zenon DEF watch_arm, Goto, watch, clues, Own
<1>24. CASE cpu_watch_hit(a)
  <2>1. CASE todo[a] = {}
    BY <1>24, <2>1, <1>ag, <1>pc, <1>flag, <1>todo, <1>victim, Zenon DEF cpu_watch_hit,
      Goto, watch, clues, Own
  <2>2. CASE todo[a] # {}
    <3>1. PICK d \in todo[a] :
            /\ todo' = [todo EXCEPT ![a] = @ \ {d}]
            /\ IF addr[d] = line[a] /\ flag[d]
               THEN /\ flag' = [flag EXCEPT ![d] = FALSE]
                    /\ victim' = [victim EXCEPT ![a] = d]
                    /\ Goto(a, "notify")
               ELSE UNCHANGED <<flag, victim, pc>>
      BY <1>24, <2>2, Zenon DEF cpu_watch_hit
    <3>2. /\ pc[a] = "hit" /\ d \in Cpu
          /\ UNCHANGED <<watch, addr, quiescing, clues, line, got, ret>>
      BY <1>24, <1>todo, Zenon DEF cpu_watch_hit
    <3>3. CASE addr[d] = line[a] /\ flag[d]
      BY <3>1, <3>2, <3>3, <1>ag, <1>pc, <1>flag, <1>todo, <1>victim, ZenonT(60) DEF Goto,
        watch, clues, Own
    <3>4. CASE ~(addr[d] = line[a] /\ flag[d])
      BY <3>1, <3>2, <3>4, <1>ag, <1>pc, <1>flag, <1>todo, <1>victim, ZenonT(60) DEF
        watch, clues, Own
    <3> QED BY <3>3, <3>4, Zenon
  <2> QED BY <2>1, <2>2, Zenon
<1>25. CASE quiesce_wake(a)
  BY <1>25, <1>ag, <1>pc, <1>victim, Zenon DEF quiesce_wake, watch, clues, Woken, Own
<1>26. CASE a = Device /\ \E l \in Line : DmaEnter(l)
  BY <1>26, <1>ag, <1>line, <1>todo, <1>pc, Zenon DEF DmaEnter, Goto, watch, clues,
    Own
<1>27. CASE a = Device /\ DmaWrite
  BY <1>27, <1>ag, <1>pc, ZenonT(60) DEF DmaWrite, Goto, watch, local, Written, Own
<1> QED
  BY <1>1, <1>2, <1>3, <1>4, <1>5, <1>6, <1>7, <1>8, <1>9, <1>10, <1>11,
    <1>12, <1>13, <1>14, <1>15, <1>16, <1>17, <1>18, <1>19, <1>20, <1>21,
    <1>22, <1>23, <1>24, <1>25, <1>26, <1>27, ZenonT(60) DEF Step, CpuStep

(* Its dealings with the others.                                           *)
LEMMA StepCross ==
  ASSUME NEW a \in Agent, Step(a), TypeOK
  PROVE  Cross(a)
<1>pc. pc \in [Agent -> Steps]
  BY Zenon DEF TypeOK
<1>line. line \in [Agent -> Line]
  BY Zenon DEF TypeOK
<1>todo. todo \in [Agent -> SUBSET Cpu]
  BY Zenon DEF TypeOK
<1>victim. victim \in [Agent -> Agent]
  BY Zenon DEF TypeOK
<1>inline. inline \in [Cpu -> SUBSET Line]
  BY Zenon DEF TypeOK
<1>genSeen. genSeen \in [Cpu -> 0 .. Cardinality(Line)]
  BY Zenon DEF TypeOK
<1>got. got \in [Cpu -> 0 .. Cardinality(Line)]
  BY Zenon DEF TypeOK
<1>flushReq. flushReq \in [Cpu -> BOOLEAN]
  BY Zenon DEF TypeOK
<1>flag. flag \in [Cpu -> BOOLEAN]
  BY Zenon DEF TypeOK
<1>quiescing. quiescing \in [Cpu -> BOOLEAN]
  BY Zenon DEF TypeOK
<1>clean. clean \in [Cpu -> BOOLEAN]
  BY Zenon DEF TypeOK
<1>missed. missed \in [Cpu -> BOOLEAN]
  BY Zenon DEF TypeOK
<1>addr. addr \in [Cpu -> Line]
  BY Zenon DEF TypeOK
<1>ret. ret \in [Cpu -> {"run", "settle", "look"}]
  BY Zenon DEF TypeOK
<1>ag. Cpu \subseteq Agent /\ Device \in Agent /\ Device \notin Cpu
  BY QuiesceAssumption, Zenon DEF Agent
<1>1. CASE a \in Cpu /\ FillPageCache(a)
  BY <1>1, <1>ag, <1>inline, <1>pc, Zenon DEF FillPageCache, Goto, local, clues,
    Cross
<1>2. CASE a \in Cpu /\ cpu_note_store_watch(a)
  BY <1>2, <1>ag, <1>todo, <1>pc, Zenon DEF cpu_note_store_watch, Goto, watch, clues,
    Cross
<1>3. CASE a \in Cpu /\ watch_arm_fails(a)
  BY <1>3, <1>ag, <1>flag, Zenon DEF watch_arm_fails, watch, local, clues, Cross
<1>4. CASE a \in Cpu /\ cpu_watch_mark_page(a)
  BY <1>4, <1>ag, <1>pc, Zenon DEF cpu_watch_mark_page, Goto, local, clues, Cross
<1>5. CASE a \in Cpu /\ BumpWatchGen(a)
  BY <1>5, <1>ag, <1>todo, <1>pc, Zenon DEF BumpWatchGen, Goto, clues, Cross
<1>6. CASE a \in Cpu /\ request_dpc_flush(a)
  <2>1. CASE todo[a] = {}
    BY <1>6, <2>1, <1>ag, <1>flushReq, <1>todo, <1>pc, Zenon DEF request_dpc_flush,
      Goto, clues, Cross
  <2>2. CASE todo[a] # {}
    <3>1. PICK d \in todo[a] :
            /\ todo' = [todo EXCEPT ![a] = @ \ {d}]
            /\ pc' = Woken(d, pc)
      BY <1>6, <2>2, Zenon DEF request_dpc_flush
    <3>2. /\ pc[a] = "ask" /\ d \in Cpu
          /\ UNCHANGED <<marked, gen, genSeen, inline, flag, addr, quiescing,
                         clues, line, victim, got, ret>>
      BY <1>6, <1>todo, Zenon DEF request_dpc_flush
    <3>3. CASE pc[d] = "asleep"
      BY <1>6, <3>1, <3>2, <3>3, <1>ag, <1>flushReq, <1>todo, <1>pc, Zenon DEF Woken,
        clues, Cross
    <3>4. CASE pc[d] # "asleep"
      BY <1>6, <3>1, <3>2, <3>4, <1>ag, <1>flushReq, <1>todo, <1>pc, Zenon DEF Woken,
        clues, Cross
    <3> QED BY <3>3, <3>4, Zenon
  <2> QED BY <2>1, <2>2, Zenon
<1>7. CASE a \in Cpu /\ cpu_arm_watch(a)
  BY <1>7, <1>ag, <1>addr, <1>flag, <1>pc, Zenon DEF cpu_arm_watch, Goto, watch,
    local, clues, Cross
<1>8. CASE a \in Cpu /\ ReadLine(a)
  BY <1>8, <1>ag, <1>missed, <1>clean, <1>pc, Zenon DEF ReadLine, Goto, watch, local,
    Cross
<1>9. CASE a \in Cpu /\ TimerCheck(a)
  BY <1>9, <1>ag, <1>pc, <1>ret, Zenon DEF TimerCheck, Goto, watch, clues, Cross
<1>10. CASE a \in Cpu /\ TakeFlushRequest(a)
  BY <1>10, <1>ag, <1>flushReq, <1>pc, <1>ret, Zenon DEF TakeFlushRequest, Goto,
    local, clues, Cross
<1>11. CASE a \in Cpu /\ ReadWatchGen(a)
  BY <1>11, <1>ag, <1>got, <1>pc, Zenon DEF ReadWatchGen, Goto, watch, clues, Cross
<1>12. CASE a \in Cpu /\ flush_data_page_cache(a)
  BY <1>12, <1>ag, <1>inline, <1>genSeen, <1>pc, <1>ret, Zenon DEF
    flush_data_page_cache, Goto, local, clues, Cross
<1>13. CASE a \in Cpu /\ quiesce(a)
  BY <1>13, <1>ag, <1>pc, <1>ret, Zenon DEF quiesce, Goto, watch, clues, Cross
<1>14. CASE a \in Cpu /\ cpu_watch_settled(a)
  BY <1>14, <1>ag, <1>got, <1>todo, <1>pc, Zenon DEF cpu_watch_settled, Goto, watch,
    clues, Cross
<1>15. CASE a \in Cpu /\ SettledWith(a)
  <2>1. CASE todo[a] = {}
    BY <1>15, <2>1, <1>ag, <1>pc, <1>flag, <1>flushReq, <1>todo, <1>ret, Zenon DEF
      SettledWith, Goto, clues, Cross
  <2>2. CASE todo[a] # {}
    <3>1. PICK d \in todo[a] :
            /\ todo' = [todo EXCEPT ![a] = @ \ {d}] /\ flag' = flag
            /\ IF genSeen[d] >= got[a]
               THEN UNCHANGED <<ret, pc>>
               ELSE ret' = [ret EXCEPT ![a] = "run"] /\ pc' = Woken(d, pc)
      BY <1>15, <2>2, Zenon DEF SettledWith
    <3>2. /\ pc[a] = "settling" /\ d \in Cpu
          /\ UNCHANGED <<marked, gen, genSeen, inline, addr, quiescing, clues,
                         line, victim, got>>
      BY <1>15, <1>todo, Zenon DEF SettledWith
    <3>3. CASE genSeen[d] >= got[a]
      BY <1>15, <3>1, <3>2, <3>3, <1>ag, <1>pc, <1>flag, <1>flushReq, <1>todo,
        <1>ret, Zenon DEF clues, Cross
    <3>4. CASE ~(genSeen[d] >= got[a]) /\ pc[d] = "asleep"
      BY <1>15, <3>1, <3>2, <3>4, <1>ag, <1>pc, <1>flag, <1>flushReq, <1>todo,
        <1>ret, ZenonT(60) DEF Woken, clues, Cross
    <3>5. CASE ~(genSeen[d] >= got[a]) /\ pc[d] # "asleep"
      BY <1>15, <3>1, <3>2, <3>5, <1>ag, <1>pc, <1>flag, <1>flushReq, <1>todo,
        <1>ret, ZenonT(60) DEF Woken, clues, Cross
    <3> QED BY <3>3, <3>4, <3>5, Zenon
  <2> QED BY <2>1, <2>2, Zenon
<1>16. CASE a \in Cpu /\ EnterQuiesce(a)
  BY <1>16, <1>ag, <1>quiescing, <1>pc, Zenon DEF EnterQuiesce, Goto, watch, local,
    clues, Cross
<1>17. CASE a \in Cpu /\ LookAround(a)
  BY <1>17, <1>ag, <1>pc, <1>ret, Zenon DEF LookAround, Goto, watch, clues, Cross
<1>18. CASE a \in Cpu /\ WaitForWrite(a)
  BY <1>18, <1>ag, <1>pc, Zenon DEF WaitForWrite, Goto, watch, local, clues, Cross
<1>19. CASE a \in Cpu /\ LeaveQuiesce(a)
  BY <1>19, <1>ag, <1>quiescing, <1>flag, <1>pc, Zenon DEF LeaveQuiesce, Goto, watch,
    local, clues, Cross
<1>20. CASE a \in Cpu /\ \E l \in Line : dpc_host_base_w(a, l)
  BY <1>20, <1>ag, <1>line, <1>pc, Zenon DEF dpc_host_base_w, Goto, watch, clues,
    Cross
<1>21. CASE a \in Cpu /\ \E l \in Line : StoreInline(a, l)
  BY <1>21, <1>ag, Zenon DEF StoreInline, watch, local, Written, Cross
<1>22. CASE a \in Cpu /\ \E l \in Line : Store(a, l)
  BY <1>22, <1>ag, <1>line, <1>pc, ZenonT(60) DEF Store, Goto, watch, Written, Cross
<1>23. CASE a \in Cpu /\ \E l \in Line : watch_arm(a, l)
  BY <1>23, <1>ag, <1>line, <1>pc, Zenon DEF watch_arm, Goto, watch, clues, Cross
<1>24. CASE cpu_watch_hit(a)
  <2>1. CASE todo[a] = {}
    BY <1>24, <2>1, <1>ag, <1>pc, <1>flag, <1>todo, <1>victim, ZenonT(60) DEF cpu_watch_hit,
      Goto, watch, clues, Cross
  <2>2. CASE todo[a] # {}
    <3>1. PICK d \in todo[a] :
            /\ todo' = [todo EXCEPT ![a] = @ \ {d}]
            /\ IF addr[d] = line[a] /\ flag[d]
               THEN /\ flag' = [flag EXCEPT ![d] = FALSE]
                    /\ victim' = [victim EXCEPT ![a] = d]
                    /\ Goto(a, "notify")
               ELSE UNCHANGED <<flag, victim, pc>>
      BY <1>24, <2>2, Zenon DEF cpu_watch_hit
    <3>2. /\ pc[a] = "hit" /\ d \in Cpu
          /\ UNCHANGED <<watch, addr, quiescing, clues, line, got, ret>>
      BY <1>24, <1>todo, Zenon DEF cpu_watch_hit
    <3>3. CASE addr[d] = line[a] /\ flag[d]
      BY <3>1, <3>2, <3>3, <1>ag, <1>pc, <1>flag, <1>todo, <1>victim DEF Goto,
        watch, clues, Cross
    <3>4. CASE ~(addr[d] = line[a] /\ flag[d])
      BY <3>1, <3>2, <3>4, <1>ag, <1>pc, <1>flag, <1>todo, <1>victim, ZenonT(60) DEF
        watch, clues, Cross
    <3> QED BY <3>3, <3>4, Zenon
  <2> QED BY <2>1, <2>2, Zenon
<1>25. CASE quiesce_wake(a)
  <2>1. /\ pc[a] = "notify" /\ UNCHANGED <<missed, flag, todo>>
        /\ Notifiable(victim[a])
        /\ pc' = Woken(victim[a], [pc EXCEPT ![a] = "hit"])
    BY <1>25, Zenon DEF quiesce_wake, clues
  <2>2. pc'[a] = "hit"
    BY <2>1, <1>pc, Zenon DEF Woken
  <2>3. ASSUME NEW k \in Cpu, victim[a] = k
        PROVE  pc'[k] # "asleep" /\ (pc[k] = "wait" => ~quiescing[k])
    BY <2>1, <2>3, <1>pc, <1>ag, Zenon DEF Woken, Notifiable, Locked
  <2> QED BY <2>1, <2>2, <2>3, Zenon DEF Cross
<1>26. CASE a = Device /\ \E l \in Line : DmaEnter(l)
  <2>1. /\ pc[Device] = "run" /\ UNCHANGED <<missed, flag>>
        /\ todo'[Device] = {c \in Cpu : flag[c]} /\ pc'[Device] = "hit"
        /\ \A k \in Cpu : ~Arming(k)
    BY <1>26, <1>todo, <1>pc, <1>ag, Zenon DEF DmaEnter, Goto, clues
  <2> QED BY <1>26, <2>1, <1>ag, Zenon DEF Cross
<1>27. CASE a = Device /\ DmaWrite
  BY <1>27, <1>ag, <1>pc, Zenon DEF DmaWrite, Goto, watch, local, Written, Cross
<1> QED
  BY <1>1, <1>2, <1>3, <1>4, <1>5, <1>6, <1>7, <1>8, <1>9, <1>10, <1>11,
    <1>12, <1>13, <1>14, <1>15, <1>16, <1>17, <1>18, <1>19, <1>20, <1>21,
    <1>22, <1>23, <1>24, <1>25, <1>26, <1>27, Zenon DEF Step, CpuStep

(* The types, if the count of pages keeps within them.                     *)
LEMMA StepType ==
  ASSUME NEW a \in Agent, Step(a), TypeOK, gen' \in 0 .. Cardinality(Line)
  PROVE  TypeOK'
<1>pc. pc \in [Agent -> Steps]
  BY Zenon DEF TypeOK
<1>line. line \in [Agent -> Line]
  BY Zenon DEF TypeOK
<1>todo. todo \in [Agent -> SUBSET Cpu]
  BY Zenon DEF TypeOK
<1>victim. victim \in [Agent -> Agent]
  BY Zenon DEF TypeOK
<1>inline. inline \in [Cpu -> SUBSET Line]
  BY Zenon DEF TypeOK
<1>genSeen. genSeen \in [Cpu -> 0 .. Cardinality(Line)]
  BY Zenon DEF TypeOK
<1>got. got \in [Cpu -> 0 .. Cardinality(Line)]
  BY Zenon DEF TypeOK
<1>flushReq. flushReq \in [Cpu -> BOOLEAN]
  BY Zenon DEF TypeOK
<1>flag. flag \in [Cpu -> BOOLEAN]
  BY Zenon DEF TypeOK
<1>quiescing. quiescing \in [Cpu -> BOOLEAN]
  BY Zenon DEF TypeOK
<1>clean. clean \in [Cpu -> BOOLEAN]
  BY Zenon DEF TypeOK
<1>missed. missed \in [Cpu -> BOOLEAN]
  BY Zenon DEF TypeOK
<1>addr. addr \in [Cpu -> Line]
  BY Zenon DEF TypeOK
<1>ret. ret \in [Cpu -> {"run", "settle", "look"}]
  BY Zenon DEF TypeOK
<1>ag. Cpu \subseteq Agent /\ Device \in Agent /\ Device \notin Cpu
  BY QuiesceAssumption, Zenon DEF Agent
<1>gen. gen \in 0 .. Cardinality(Line)
  BY Zenon DEF TypeOK
<1>1. CASE a \in Cpu /\ FillPageCache(a)
  <2>1. inline' \in [Cpu -> SUBSET Line]
    BY <1>1, <1>ag, <1>inline, <1>line, Zenon DEF FillPageCache
  <2>2. pc' \in [Agent -> Steps]
    BY <1>1, <1>ag, <1>pc, Zenon DEF FillPageCache, Goto, Steps
  <2> QED BY <1>1, <2>1, <2>2, Zenon DEF FillPageCache, local, clues, TypeOK
<1>2. CASE a \in Cpu /\ cpu_note_store_watch(a)
  <2>1. todo' \in [Agent -> SUBSET Cpu]
    BY <1>2, <1>ag, <1>todo, Zenon DEF cpu_note_store_watch
  <2>2. pc' \in [Agent -> Steps]
    BY <1>2, <1>ag, <1>pc, Zenon DEF cpu_note_store_watch, Goto, Steps
  <2> QED BY <1>2, <2>1, <2>2, Zenon DEF cpu_note_store_watch, watch, clues, TypeOK
<1>3. CASE a \in Cpu /\ watch_arm_fails(a)
  <2>1. flag' \in [Cpu -> BOOLEAN]
    BY <1>3, <1>ag, <1>flag, Zenon DEF watch_arm_fails
  <2> QED BY <1>3, <2>1, Zenon DEF watch_arm_fails, watch, local, clues, TypeOK
<1>4. CASE a \in Cpu /\ cpu_watch_mark_page(a)
  <2>1. pc' \in [Agent -> Steps]
    BY <1>4, <1>ag, <1>pc, Zenon DEF cpu_watch_mark_page, Goto, Steps
  <2> QED BY <1>4, <2>1, Zenon DEF cpu_watch_mark_page, local, clues, TypeOK
<1>5. CASE a \in Cpu /\ BumpWatchGen(a)
  <2>1. todo' \in [Agent -> SUBSET Cpu]
    BY <1>5, <1>ag, <1>todo, Zenon DEF BumpWatchGen
  <2>2. pc' \in [Agent -> Steps]
    BY <1>5, <1>ag, <1>pc, Zenon DEF BumpWatchGen, Goto, Steps
  <2> QED BY <1>5, <2>1, <2>2, Zenon DEF BumpWatchGen, clues, TypeOK
<1>6. CASE a \in Cpu /\ request_dpc_flush(a)
  <2>1. flushReq' \in [Cpu -> BOOLEAN]
    BY <1>6, <1>ag, <1>flushReq, Zenon DEF request_dpc_flush
  <2>2. todo' \in [Agent -> SUBSET Cpu]
    BY <1>6, <1>ag, <1>todo, ZenonT(60) DEF request_dpc_flush
  <2>3. pc' \in [Agent -> Steps]
    BY <1>6, <1>ag, <1>pc, Zenon DEF request_dpc_flush, Goto, Woken, Steps
  <2> QED BY <1>6, <2>1, <2>2, <2>3, Zenon DEF request_dpc_flush, clues, TypeOK
<1>7. CASE a \in Cpu /\ cpu_arm_watch(a)
  <2>1. addr' \in [Cpu -> Line]
    BY <1>7, <1>ag, <1>addr, <1>line, Zenon DEF cpu_arm_watch
  <2>2. flag' \in [Cpu -> BOOLEAN]
    BY <1>7, <1>ag, <1>flag, Zenon DEF cpu_arm_watch
  <2>3. pc' \in [Agent -> Steps]
    BY <1>7, <1>ag, <1>pc, Zenon DEF cpu_arm_watch, Goto, Steps
  <2> QED BY <1>7, <2>1, <2>2, <2>3, Zenon DEF cpu_arm_watch, watch, local, clues,
    TypeOK
<1>8. CASE a \in Cpu /\ ReadLine(a)
  <2>1. missed' \in [Cpu -> BOOLEAN]
    BY <1>8, <1>ag, <1>missed, Zenon DEF ReadLine
  <2>2. clean' \in [Cpu -> BOOLEAN]
    BY <1>8, <1>ag, <1>clean, Zenon DEF ReadLine
  <2>3. pc' \in [Agent -> Steps]
    BY <1>8, <1>ag, <1>pc, Zenon DEF ReadLine, Goto, Steps
  <2> QED BY <1>8, <2>1, <2>2, <2>3, Zenon DEF ReadLine, watch, local, TypeOK
<1>9. CASE a \in Cpu /\ TimerCheck(a)
  <2>1. pc' \in [Agent -> Steps]
    BY <1>9, <1>ag, <1>pc, Zenon DEF TimerCheck, Goto, Steps
  <2>2. ret' \in [Cpu -> {"run", "settle", "look"}]
    BY <1>9, <1>ag, <1>ret, Zenon DEF TimerCheck
  <2> QED BY <1>9, <2>1, <2>2, Zenon DEF TimerCheck, watch, clues, TypeOK
<1>10. CASE a \in Cpu /\ TakeFlushRequest(a)
  <2>1. flushReq' \in [Cpu -> BOOLEAN]
    BY <1>10, <1>ag, <1>flushReq, Zenon DEF TakeFlushRequest
  <2>2. pc' \in [Agent -> Steps]
    BY <1>10, <1>ag, <1>pc, <1>ret, Zenon DEF TakeFlushRequest, Goto, Steps
  <2> QED BY <1>10, <2>1, <2>2, Zenon DEF TakeFlushRequest, local, clues, TypeOK
<1>11. CASE a \in Cpu /\ ReadWatchGen(a)
  <2>1. got' \in [Cpu -> 0 .. Cardinality(Line)]
    BY <1>11, <1>ag, <1>got, <1>gen, Zenon DEF ReadWatchGen
  <2>2. pc' \in [Agent -> Steps]
    BY <1>11, <1>ag, <1>pc, Zenon DEF ReadWatchGen, Goto, Steps
  <2> QED BY <1>11, <2>1, <2>2, Zenon DEF ReadWatchGen, watch, clues, TypeOK
<1>12. CASE a \in Cpu /\ flush_data_page_cache(a)
  <2>1. inline' \in [Cpu -> SUBSET Line]
    BY <1>12, <1>ag, <1>inline, Zenon DEF flush_data_page_cache
  <2>2. genSeen' \in [Cpu -> 0 .. Cardinality(Line)]
    BY <1>12, <1>ag, <1>genSeen, <1>got, Zenon DEF flush_data_page_cache
  <2>3. pc' \in [Agent -> Steps]
    BY <1>12, <1>ag, <1>pc, <1>ret, Zenon DEF flush_data_page_cache, Goto, Steps
  <2> QED BY <1>12, <2>1, <2>2, <2>3, Zenon DEF flush_data_page_cache, local, clues,
    TypeOK
<1>13. CASE a \in Cpu /\ quiesce(a)
  <2>1. pc' \in [Agent -> Steps]
    BY <1>13, <1>ag, <1>pc, Zenon DEF quiesce, Goto, Steps
  <2>2. ret' \in [Cpu -> {"run", "settle", "look"}]
    BY <1>13, <1>ag, <1>ret, Zenon DEF quiesce
  <2> QED BY <1>13, <2>1, <2>2, Zenon DEF quiesce, watch, clues, TypeOK
<1>14. CASE a \in Cpu /\ cpu_watch_settled(a)
  <2>1. got' \in [Cpu -> 0 .. Cardinality(Line)]
    BY <1>14, <1>ag, <1>got, <1>gen, Zenon DEF cpu_watch_settled
  <2>2. todo' \in [Agent -> SUBSET Cpu]
    BY <1>14, <1>ag, <1>todo, Zenon DEF cpu_watch_settled
  <2>3. pc' \in [Agent -> Steps]
    BY <1>14, <1>ag, <1>pc, Zenon DEF cpu_watch_settled, Goto, Steps
  <2> QED BY <1>14, <2>1, <2>2, <2>3, Zenon DEF cpu_watch_settled, watch, clues, TypeOK
<1>15. CASE a \in Cpu /\ SettledWith(a)
  <2>1. pc' \in [Agent -> Steps]
    BY <1>15, <1>ag, <1>pc, Zenon DEF SettledWith, Goto, Woken, Steps
  <2>2. flag' \in [Cpu -> BOOLEAN]
    BY <1>15, <1>ag, <1>flag, Zenon DEF SettledWith
  <2>3. flushReq' \in [Cpu -> BOOLEAN]
    BY <1>15, <1>ag, <1>flushReq, Zenon DEF SettledWith
  <2>4. todo' \in [Agent -> SUBSET Cpu]
    BY <1>15, <1>ag, <1>todo DEF SettledWith
  <2>5. ret' \in [Cpu -> {"run", "settle", "look"}]
    BY <1>15, <1>ag, <1>ret, Zenon DEF SettledWith
  <2> QED BY <1>15, <2>1, <2>2, <2>3, <2>4, <2>5, Zenon DEF SettledWith, clues, TypeOK
<1>16. CASE a \in Cpu /\ EnterQuiesce(a)
  <2>1. quiescing' \in [Cpu -> BOOLEAN]
    BY <1>16, <1>ag, <1>quiescing, Zenon DEF EnterQuiesce
  <2>2. pc' \in [Agent -> Steps]
    BY <1>16, <1>ag, <1>pc, Zenon DEF EnterQuiesce, Goto, Steps
  <2> QED BY <1>16, <2>1, <2>2, Zenon DEF EnterQuiesce, watch, local, clues, TypeOK
<1>17. CASE a \in Cpu /\ LookAround(a)
  <2>1. pc' \in [Agent -> Steps]
    BY <1>17, <1>ag, <1>pc, ZenonT(60) DEF LookAround, Goto, Steps
  <2>2. ret' \in [Cpu -> {"run", "settle", "look"}]
    BY <1>17, <1>ag, <1>ret, Zenon DEF LookAround
  <2> QED BY <1>17, <2>1, <2>2, Zenon DEF LookAround, watch, clues, TypeOK
<1>18. CASE a \in Cpu /\ WaitForWrite(a)
  <2>1. pc' \in [Agent -> Steps]
    BY <1>18, <1>ag, <1>pc, ZenonT(60) DEF WaitForWrite, Goto, Steps
  <2> QED BY <1>18, <2>1, Zenon DEF WaitForWrite, watch, local, clues, TypeOK
<1>19. CASE a \in Cpu /\ LeaveQuiesce(a)
  <2>1. quiescing' \in [Cpu -> BOOLEAN]
    BY <1>19, <1>ag, <1>quiescing, Zenon DEF LeaveQuiesce
  <2>2. flag' \in [Cpu -> BOOLEAN]
    BY <1>19, <1>ag, <1>flag, Zenon DEF LeaveQuiesce
  <2>3. pc' \in [Agent -> Steps]
    BY <1>19, <1>ag, <1>pc, Zenon DEF LeaveQuiesce, Goto, Steps
  <2> QED BY <1>19, <2>1, <2>2, <2>3, Zenon DEF LeaveQuiesce, watch, local, clues,
    TypeOK
<1>20. CASE a \in Cpu /\ \E l \in Line : dpc_host_base_w(a, l)
  <2>1. line' \in [Agent -> Line]
    BY <1>20, <1>ag, <1>line, Zenon DEF dpc_host_base_w
  <2>2. pc' \in [Agent -> Steps]
    BY <1>20, <1>ag, <1>pc, Zenon DEF dpc_host_base_w, Goto, Steps
  <2> QED BY <1>20, <2>1, <2>2, ZenonT(60) DEF dpc_host_base_w, watch, clues, TypeOK
<1>21. CASE a \in Cpu /\ \E l \in Line : StoreInline(a, l)
  <2>1. missed' \in [Cpu -> BOOLEAN]
    BY <1>21, <1>ag, <1>missed, Zenon DEF StoreInline, Written
  <2> QED BY <1>21, <2>1, Zenon DEF StoreInline, watch, local, TypeOK
<1>22. CASE a \in Cpu /\ \E l \in Line : Store(a, l)
  <2>1. line' \in [Agent -> Line]
    BY <1>22, <1>ag, <1>line, Zenon DEF Store, Written
  <2>2. pc' \in [Agent -> Steps]
    BY <1>22, <1>ag, <1>pc, Zenon DEF Store, Goto, Written, Steps
  <2>3. missed' \in [Cpu -> BOOLEAN]
    BY <1>22, <1>ag, <1>missed, Zenon DEF Store, Written
  <2> QED BY <1>22, <2>1, <2>2, <2>3 DEF Store, watch, TypeOK
<1>23. CASE a \in Cpu /\ \E l \in Line : watch_arm(a, l)
  <2>1. line' \in [Agent -> Line]
    BY <1>23, <1>ag, <1>line, Zenon DEF watch_arm
  <2>2. pc' \in [Agent -> Steps]
    BY <1>23, <1>ag, <1>pc, Zenon DEF watch_arm, Goto, Steps
  <2> QED BY <1>23, <2>1, <2>2 DEF watch_arm, watch, clues, TypeOK
<1>24. CASE cpu_watch_hit(a)
  <2>1. pc' \in [Agent -> Steps]
    BY <1>24, <1>ag, <1>pc, Zenon DEF cpu_watch_hit, Goto, Steps
  <2>2. flag' \in [Cpu -> BOOLEAN]
    BY <1>24, <1>ag, <1>flag, Zenon DEF cpu_watch_hit
  <2>3. todo' \in [Agent -> SUBSET Cpu]
    BY <1>24, <1>ag, <1>todo, ZenonT(60) DEF cpu_watch_hit
  <2>4. victim' \in [Agent -> Agent]
    BY <1>24, <1>ag, <1>victim, <1>todo DEF cpu_watch_hit
  <2> QED BY <1>24, <2>1, <2>2, <2>3, <2>4, ZenonT(60) DEF cpu_watch_hit, watch, clues,
    TypeOK
<1>25. CASE quiesce_wake(a)
  <2>1. pc' \in [Agent -> Steps]
    BY <1>25, <1>ag, <1>pc, Zenon DEF quiesce_wake, Woken, Steps
  <2>2. victim' \in [Agent -> Agent]
    BY <1>25, <1>ag, <1>victim, Zenon DEF quiesce_wake
  <2> QED BY <1>25, <2>1, <2>2, Zenon DEF quiesce_wake, watch, clues, TypeOK
<1>26. CASE a = Device /\ \E l \in Line : DmaEnter(l)
  <2>1. line' \in [Agent -> Line]
    BY <1>26, <1>ag, <1>line, Zenon DEF DmaEnter
  <2>2. todo' \in [Agent -> SUBSET Cpu]
    BY <1>26, <1>ag, <1>todo, ZenonT(60) DEF DmaEnter
  <2>3. pc' \in [Agent -> Steps]
    BY <1>26, <1>ag, <1>pc, Zenon DEF DmaEnter, Goto, Steps
  <2> QED BY <1>26, <2>1, <2>2, <2>3, Zenon DEF DmaEnter, watch, clues, TypeOK
<1>27. CASE a = Device /\ DmaWrite
  <2>1. pc' \in [Agent -> Steps]
    BY <1>27, <1>ag, <1>pc, Zenon DEF DmaWrite, Goto, Written, Steps
  <2>2. missed' \in [Cpu -> BOOLEAN]
    BY <1>27, <1>ag, <1>missed, Zenon DEF DmaWrite, Written
  <2> QED BY <1>27, <2>1, <2>2, Zenon DEF DmaWrite, watch, local, TypeOK
<1> QED
  BY <1>1, <1>2, <1>3, <1>4, <1>5, <1>6, <1>7, <1>8, <1>9, <1>10, <1>11,
    <1>12, <1>13, <1>14, <1>15, <1>16, <1>17, <1>18, <1>19, <1>20, <1>21,
    <1>22, <1>23, <1>24, <1>25, <1>26, <1>27, ZenonT(60) DEF Step, CpuStep

-----------------------------------------------------------------------------
(* A LDx_ARM keeps to a marked page.                                       *)
LEMMA StepArm ==
  ASSUME NEW a \in Agent, Step(a), TypeOK, DeviceSteps, \A c \in Cpu : ArmOk(c)
  PROVE  \A c \in Cpu : ArmOk(c)'
<1> SUFFICES ASSUME NEW c \in Cpu
             PROVE  ArmOk(c)'
  BY Zenon
<1>1. ArmOk(c) /\ marked \subseteq marked' /\ c \in Agent
  BY StepApart, Zenon DEF Apart, Agent
<1>2. CASE c # a
  <2>1. /\ line'[c] = line[c] /\ addr'[c] = addr[c] /\ ret'[c] = ret[c]
        /\ pc'[c] = pc[c] \/ (pc[c] = "asleep" /\ pc'[c] = "look")
        /\ flag'[c] => flag[c]
    BY <1>1, <1>2, StepApart, ZenonT(60) DEF Apart
  <2> QED BY <1>1, <2>1, Zenon DEF ArmOk, Armed, Arming, InQuiesce
<1>3. CASE c = a
  <2>1. Flow(c) /\ Own(c)
    BY <1>3, StepFlow, StepOwn, Zenon
  <2>3. pc[c] = "mark" => line[c] \in marked'
    BY <1>3, StepApart, Zenon DEF Apart
  <2>4. Arming(c)' => <<c, line[c]>>' \in MayArm
    BY <1>1, <2>1, Zenon DEF ArmOk, Arming, Flow, Own
  <2>5. /\ pc'[c] \in {"gen", "ask", "addr", "flag", "read"} => line'[c] \in marked'
        /\ pc'[c] \in {"flag", "read"} => addr'[c] = line'[c]
    BY <1>1, <2>1, <2>3, Zenon DEF ArmOk, Flow, Own
  <2>6. Armed(c)' => addr'[c] \in marked' /\ <<c, addr'[c]>> \in MayArm
    <3>1. Armed(c)' => Armed(c) \/ pc[c] = "read"
      BY <2>1, Zenon DEF Armed, Arming, InQuiesce, Flow, Own
    <3>2. Armed(c)' /\ (Armed(c) \/ pc[c] = "read") => addr'[c] = addr[c]
      BY <2>1, Zenon DEF Armed, Arming, InQuiesce, Flow, Own
    <3> QED BY <1>1, <3>1, <3>2, Zenon DEF ArmOk, Arming
  <2> QED BY <2>4, <2>5, <2>6, Zenon DEF ArmOk
<1> QED BY <1>2, <1>3, Zenon

(* A device's steps, and whom a notifying agent wakes.                     *)
LEMMA StepDevice ==
  ASSUME NEW a \in Agent, Step(a), TypeOK, DeviceSteps
  PROVE  DeviceSteps'
<1>1. Device \in Agent
  BY Zenon DEF Agent
<1>2. pc'[Device] \in {"run", "hit", "notify", "write"}
  <2>1. CASE a = Device
    BY <2>1, StepFlow, Zenon DEF Flow
  <2>2. CASE a # Device
    BY <1>1, <2>2, StepApart, Zenon DEF Apart, DeviceSteps
  <2> QED BY <2>1, <2>2, Zenon
<1>3. ASSUME NEW b \in Agent, pc'[b] = "notify"
      PROVE  victim'[b] \in Cpu
  <2>1. CASE b = a
    BY <1>3, <2>1, StepCross, Zenon DEF Cross
  <2>2. CASE b # a
    BY <1>3, <2>2, StepApart, ZenonT(60) DEF Apart, DeviceSteps
  <2> QED BY <2>1, <2>2, Zenon
<1> QED BY <1>2, <1>3, Zenon DEF DeviceSteps

(* No wake-up is lost.                                                     *)
LEMMA StepWake ==
  ASSUME NEW a \in Agent, Step(a), TypeOK, DeviceSteps, \A c \in Cpu : WakeOk(c)
  PROVE  \A c \in Cpu : WakeOk(c)'
<1> SUFFICES ASSUME NEW c \in Cpu
             PROVE  WakeOk(c)'
  BY Zenon
<1>1. WakeOk(c) /\ c \in Agent /\ c # Device
  BY QuiesceAssumption, Zenon DEF Agent
<1>2. /\ \/ pc'[c] \in {"look", "wait", "asleep", "leave"}
         \/ pc'[c] \in {"exchange", "getgen", "flush"} /\ ret'[c] = "look"
         => quiescing'[c]
      /\ pc'[c] \in {"wait", "asleep"} /\ ~flag'[c] =>
           \/ flag[c] /\ c # a
           \/ c # a /\ pc[c] = pc'[c]
           \/ pc[c] = "wait" /\ ~flag[c]
  <2>1. CASE c # a
    <3>1. /\ quiescing'[c] = quiescing[c] /\ ret'[c] = ret[c]
          /\ pc'[c] = pc[c] \/ (pc[c] = "asleep" /\ pc'[c] = "look")
      BY <1>1, <2>1, StepApart, ZenonT(60) DEF Apart
    <3> QED BY <1>1, <2>1, <3>1, Zenon DEF WakeOk
  <2>2. CASE c = a
    <3>1. Flow(c) /\ Own(c)
      BY <2>2, StepFlow, StepOwn, Zenon
    <3>2. \/ pc'[c] \in {"look", "wait", "asleep", "leave"}
          \/ pc'[c] \in {"exchange", "getgen", "flush"} /\ ret'[c] = "look"
          => quiescing'[c]
      BY <1>1, <3>1, Zenon DEF WakeOk, Flow, Own
    <3>3. pc'[c] \in {"wait", "asleep"} /\ ~flag'[c] => pc[c] = "wait" /\ ~flag[c]
      BY <3>1, Zenon DEF Flow, Own
    <3> QED BY <3>2, <3>3, Zenon
  <2> QED BY <2>1, <2>2, Zenon
<1>3. ASSUME pc'[c] \in {"wait", "asleep"}, ~flag'[c]
      PROVE  \E b \in Agent : pc'[b] = "notify" /\ victim'[b] = c
  <2>1. CASE flag[c] /\ c # a
    BY <1>3, <2>1, StepCross, ZenonT(60) DEF Cross
  <2>2. CASE ~flag[c] \/ c = a
    <3>1. pc[c] \in {"wait", "asleep"} /\ ~flag[c]
      BY <1>2, <1>3, <2>2, Zenon
    <3>2. PICK b \in Agent : pc[b] = "notify" /\ victim[b] = c
      BY <1>1, <3>1, Zenon DEF WakeOk
    <3>3. CASE b = a
      <4>1. pc'[c] # "asleep" /\ (pc[c] = "wait" => ~quiescing[c])
        BY <3>2, <3>3, StepCross, ZenonT(60) DEF Cross
      <4>2. c # a
        BY <3>1, <3>2, <3>3, Zenon
      <4> QED BY <1>1, <1>2, <1>3, <3>1, <4>1, <4>2, Zenon DEF WakeOk
    <3>4. CASE b # a
      <4>1. pc'[b] = "notify" /\ victim'[b] = c
        BY <3>2, <3>4, StepApart, Zenon DEF Apart
      <4> QED BY <4>1, Zenon
    <3> QED BY <3>3, <3>4, Zenon
  <2> QED BY <2>1, <2>2, Zenon
<1> QED BY <1>2, <1>3, Zenon DEF WakeOk

(* A device keeps to its line until its write is done.                     *)
LEMMA DeviceLine ==
  ASSUME NEW a \in Agent, Step(a), TypeOK, a = Device, pc[a] # "run"
  PROVE  line'[a] = line[a]
<1>1. a \notin Cpu
  BY QuiesceAssumption, Zenon
<1> QED BY <1>1, Zenon DEF Step, cpu_watch_hit, quiesce_wake, DmaEnter, DmaWrite, local

(* What the gate keeps out.                                                *)
LEMMA StepGate ==
  ASSUME NEW a \in Agent, Step(a), TypeOK, DeviceSteps, \A c \in Cpu : GateOk(c)
  PROVE  \A c \in Cpu : GateOk(c)'
<1> SUFFICES ASSUME NEW c \in Cpu, pc'[Device] # "run"
             PROVE  /\ ~Arming(c)'
                    /\ flag'[c] /\ addr'[c] = line'[Device] =>
                         pc'[Device] \in {"hit", "notify"} /\ c \in todo'[Device]
  BY Zenon DEF GateOk
<1>1. GateOk(c) /\ c \in Agent /\ Device \in Agent /\ c # Device
  BY QuiesceAssumption, Zenon DEF Agent
<1>2. CASE a = Device
  <2>1. Flow(Device) /\ Cross(Device)
    BY <1>2, StepFlow, StepCross, Zenon
  <2>2. /\ addr'[c] = addr[c] /\ (flag'[c] => flag[c])
        /\ pc'[c] = pc[c] \/ (pc[c] = "asleep" /\ pc'[c] = "look")
    BY <1>1, <1>2, StepApart, ZenonT(60) DEF Apart
  <2>3. CASE pc[Device] = "run"
    BY <2>1, <2>2, <2>3, Zenon DEF Flow, Cross, Arming
  <2>4. CASE pc[Device] # "run"
    <3>1. line'[Device] = line[Device]
      BY <1>2, <2>4, DeviceLine, Zenon
    <3>2. ~Arming(c)'
      BY <1>1, <2>2, <2>4, Zenon DEF GateOk, Arming
    <3>3. flag'[c] /\ addr'[c] = line'[Device] =>
            pc'[Device] \in {"hit", "notify"} /\ c \in todo'[Device]
      BY <1>1, <2>1, <2>2, <2>4, <3>1, Zenon DEF GateOk, Flow, Cross
    <3> QED BY <3>2, <3>3, Zenon
  <2> QED BY <2>3, <2>4, Zenon
<1>3. CASE a # Device
  <2>1. /\ line'[Device] = line[Device] /\ todo'[Device] = todo[Device]
        /\ pc'[Device] = pc[Device] \/ pc[Device] = "asleep"
    BY <1>1, <1>3, StepApart, ZenonT(60) DEF Apart
  <2>2. pc'[Device] = pc[Device] /\ pc[Device] # "run"
    BY <2>1, Zenon DEF DeviceSteps
  <2>3. CASE c # a
    BY <1>1, <2>1, <2>2, <2>3, StepApart, Zenon DEF Apart, GateOk, Arming
  <2>4. CASE c = a
    <3>1. Flow(c) /\ Own(c)
      BY <2>4, StepFlow, StepOwn, Zenon
    <3>2. ~Arming(c)
      BY <1>1, <2>2, Zenon DEF GateOk
    <3>3. ~Arming(c)' /\ (flag'[c] => flag[c]) /\ addr'[c] = addr[c]
      BY <2>2, <3>1, <3>2, Zenon DEF Flow, Own, Arming
    <3> QED BY <1>1, <2>1, <2>2, <3>3, Zenon DEF GateOk
  <2> QED BY <2>3, <2>4, Zenon
<1> QED BY <1>2, <1>3, Zenon

(* Once a page is marked nobody comes to store inline there, and whoever   *)
(* can has not flushed.                                                    *)
LEMMA Inert ==
  ASSUME NEW a \in Agent, Step(a), TypeOK, DeviceSteps,
         NEW m \in marked, NEW d \in Cpu, StoresInline(d, m)'
  PROVE  StoresInline(d, m) /\ genSeen'[d] = genSeen[d]
<1>1. d \in Agent
  BY Zenon DEF Agent
<1>2. CASE d # a
  <2>1. /\ inline'[d] = inline[d] /\ genSeen'[d] = genSeen[d]
        /\ line'[d] = line[d] /\ (pc'[d] = "fill" => pc[d] = "fill")
    BY <1>1, <1>2, StepApart, ZenonT(60) DEF Apart
  <2> QED BY <2>1, Zenon DEF StoresInline
<1>3. CASE d = a
  <2>1. Flow(d) /\ Own(d)
    BY <1>3, StepFlow, StepOwn, Zenon
  <2>2. ~(pc'[d] = "fill" /\ line'[d] = m)
    BY <2>1, Zenon DEF Own
  <2>3. m \in inline'[d]
    BY <2>2, Zenon DEF StoresInline
  <2> QED BY <2>1, <2>3, Zenon DEF StoresInline, Own
<1> QED BY <1>2, <1>3, Zenon

(* A writer still to look at c's flag is not held back by the others.      *)
LEMMA LooksOn ==
  ASSUME NEW a \in Agent, Step(a), TypeOK,
         NEW b \in Agent \ {a}, NEW c \in Cpu, NEW m \in Line, Looks(b, c, m)
  PROVE  Looks(b, c, m)'
<1>1. /\ line'[b] = line[b] /\ todo'[b] = todo[b]
      /\ pc'[b] = pc[b] \/ (pc[b] = "asleep" /\ pc'[b] = "look")
  BY StepApart, Zenon DEF Apart
<1> QED BY <1>1, Zenon DEF Looks

(* No store to a settled line is missed.                                   *)
LEMMA StepMiss ==
  ASSUME NEW a \in Agent, Step(a), TypeOK, DeviceSteps,
         \A c \in Cpu : ArmOk(c) /\ GateOk(c) /\ MissOk(c)
  PROVE  \A c \in Cpu : MissOk(c)'
<1> SUFFICES ASSUME NEW c \in Cpu, flag'[c], ~Arming(c)', clean'[c]
             PROVE  /\ \A d \in Cpu \ {c} : ~StoresInline(d, addr[c])'
                    /\ missed'[c] =>
                         \E b \in Agent \ {c} : Looks(b, c, addr[c])'
  BY Zenon DEF MissOk
<1>1. /\ c \in Agent /\ c # Device /\ Cpu \subseteq Agent
      /\ Apart(a) /\ Flow(a) /\ Cross(a) /\ (a \in Cpu => Own(a))
  BY StepApart, StepFlow, StepCross, StepOwn, QuiesceAssumption, Zenon DEF Agent
<1>2. CASE c = a /\ pc[c] = "read"
  <2>1. /\ addr'[c] = line[c] /\ ~missed'[c]
        /\ \A d \in Cpu \ {c} : ~StoresInline(d, line[c])
    BY <1>1, <1>2, Zenon DEF Own, Cross, ArmOk
  <2>2. ASSUME NEW d \in Cpu \ {c}
        PROVE  ~StoresInline(d, addr[c])'
    <3>1. /\ inline'[d] = inline[d] /\ line'[d] = line[d]
          /\ pc'[d] = "fill" => pc[d] = "fill"
      BY <1>1, <1>2, Zenon DEF Apart
    <3> QED BY <2>1, <3>1, Zenon DEF StoresInline
  <2> QED BY <2>1, <2>2, Zenon
<1>3. CASE ~(c = a /\ pc[c] = "read")
  <2>1. flag[c] /\ ~Arming(c) /\ clean[c] /\ addr'[c] = addr[c]
    <3>1. CASE c # a
      BY <1>1, <3>1, Zenon DEF Apart, Arming
    <3>2. CASE c = a
      BY <1>1, <1>3, <3>2, Zenon DEF Flow, Own, Arming
    <3> QED BY <3>1, <3>2, Zenon
  <2>2. /\ \A d \in Cpu \ {c} : ~StoresInline(d, addr[c])
        /\ missed[c] => \E b \in Agent \ {c} : Looks(b, c, addr[c])
        /\ addr[c] \in marked /\ addr[c] \in Line
    BY <2>1, Zenon DEF MissOk, ArmOk, Armed, TypeOK
  <2>3. ASSUME NEW d \in Cpu \ {c}
        PROVE  ~StoresInline(d, addr[c])'
    <3> PICK m \in marked : m = addr[c]
      BY <2>2, Zenon
    <3>1. ~StoresInline(d, m)
      BY <2>2, Zenon
    <3>2. ~StoresInline(d, m)'
      BY <3>1, Inert, Zenon
    <3> QED BY <2>1, <3>2, Zenon DEF StoresInline
  <2>4. ASSUME missed'[c]
        PROVE  \E b \in Agent \ {c} : Looks(b, c, addr[c])'
    <3>1. CASE ~missed[c]
      <4>1. a # c /\ pc'[a] = "note" /\ line'[a] = addr[c]
        <5>1. \/ a \in Cpu \ {c} /\ addr[c] \in inline[a]
              \/ a # c /\ pc'[a] = "note" /\ line'[a] = addr[c]
              \/ a = Device /\ pc[a] = "write" /\ line[a] = addr[c]
          BY <1>1, <2>4, <3>1, Zenon DEF Cross
        <5>2. ~(a \in Cpu \ {c} /\ addr[c] \in inline[a])
          BY <2>2, Zenon DEF StoresInline
        <5>3. ~(a = Device /\ pc[a] = "write" /\ line[a] = addr[c])
          BY <2>1, Zenon DEF GateOk
        <5> QED BY <5>1, <5>2, <5>3, Zenon
      <4> QED BY <2>1, <4>1, Zenon DEF Looks
    <3>2. CASE missed[c]
      <4> PICK m \in Line : m = addr[c]
        BY <2>2, Zenon
      <4>1. PICK b \in Agent \ {c} : Looks(b, c, m)
        BY <2>2, <3>2, Zenon
      <4>2. Looks(b, c, m)'
        <5>1. CASE b # a
          BY <4>1, <5>1, LooksOn, Zenon
        <5>2. CASE b = a
          <6>1. line'[a] = line[a]
            BY <1>1, <4>1, <5>2, DeviceLine, Zenon DEF Looks, Own, Agent
          <6>2. pc[a] = "note" => c \in todo'[a]
            BY <1>1, <2>1, <4>1, <5>2, Zenon DEF Cross
          <6>3. pc[a] = "notify" => todo'[a] = todo[a]
            BY <1>1, Zenon DEF Cross
          <6>4. pc[a] = "hit" /\ c \in todo[a] => c \in todo'[a]
            BY <1>1, <2>1, <4>1, <5>2, Zenon DEF Cross, Looks
          <6>5. pc[a] = "hit" /\ c \in todo[a] => pc'[a] \in {"hit", "notify"}
            BY <1>1, Zenon DEF Flow
          <6>6. pc[a] \in {"note", "notify"} => pc'[a] = "hit"
            BY <1>1, Zenon DEF Flow
          <6> QED BY <4>1, <5>2, <6>1, <6>2, <6>3, <6>4, <6>5, <6>6, Zenon DEF Looks
        <5> QED BY <5>1, <5>2, Zenon
      <4> QED BY <2>1, <4>2, Zenon DEF Looks
    <3> QED BY <3>1, <3>2, Zenon
  <2> QED BY <2>3, <2>4, Zenon
<1> QED BY <1>2, <1>3, Zenon

(* Whoever may store inline into a marked page has yet to flush.           *)
LEMMA StepUnflushed ==
  ASSUME NEW a \in Agent, Step(a), TypeOK, DeviceSteps, Unflushed,
         \A c \in Cpu : genSeen[c] <= gen
  PROVE  Unflushed'
<1> SUFFICES ASSUME NEW m \in marked', NEW d \in Cpu, StoresInline(d, m)'
             PROVE  \/ genSeen'[d] < gen'
                    \/ \E b \in Cpu : pc'[b] = "gen" /\ line'[b] = m
  BY Zenon DEF Unflushed
<1>1. Apart(a) /\ Flow(a) /\ (a \in Cpu => Own(a)) /\ Cpu \subseteq Agent
  BY StepApart, StepFlow, StepOwn, Zenon DEF Agent
<1>2. CASE m \notin marked
  <2>1. pc[a] = "mark" /\ m = line[a]
    BY <1>1, <1>2, Zenon DEF Apart
  <2>2. a \in Cpu /\ pc'[a] = "gen" /\ line'[a] = m
    BY <1>1, <1>2, <2>1, Zenon DEF Flow, Own, Agent
  <2> QED BY <2>2, Zenon
<1>3. CASE m \in marked
  <2>1. StoresInline(d, m) /\ genSeen'[d] = genSeen[d]
    BY <1>3, Inert, Zenon
  <2>2. /\ gen \in Nat /\ genSeen[d] \in Nat /\ genSeen[d] <= gen
        /\ gen' = IF pc[a] = "gen" THEN gen + 1 ELSE gen
    <3>1. gen \in Nat /\ genSeen[d] \in Nat
      BY DEF TypeOK
    <3>2. gen' = IF pc[a] = "gen" THEN gen + 1 ELSE gen
      BY <1>1, Zenon DEF Apart
    <3> QED BY <3>1, <3>2, Zenon
  <2>3. CASE genSeen[d] < gen
    BY <2>1, <2>2, <2>3
  <2>4. ASSUME NEW b \in Cpu, pc[b] = "gen", line[b] = m
        PROVE  \/ genSeen'[d] < gen'
               \/ \E k \in Cpu : pc'[k] = "gen" /\ line'[k] = m
    <3>1. CASE b = a
      BY <2>1, <2>2, <2>4, <3>1
    <3>2. CASE b # a
      BY <1>1, <2>4, <3>2, Zenon DEF Apart
    <3> QED BY <3>1, <3>2, Zenon
  <2> QED BY <1>3, <2>1, <2>3, <2>4, Zenon DEF Unflushed
<1> QED BY <1>2, <1>3, Zenon

(* Where no two processors watch the same page, a processor found settled  *)
(* does not store inline where the other is about to sleep.                *)
LEMMA StepSettle ==
  ASSUME NEW a \in Agent, Step(a), OwnLines, TypeOK, DeviceSteps,
         Unflushed, \A c \in Cpu : ArmOk(c),
         \A c \in Cpu : \A d \in Cpu \ {c} : SettleOk(c, d)
  PROVE  \A c \in Cpu : \A d \in Cpu \ {c} : SettleOk(c, d)'
<1> SUFFICES ASSUME NEW c \in Cpu, NEW d \in Cpu \ {c}, StoresInline(d, addr[c])',
                    Passed(c, d)' \/ pc'[c] = "settling"
             PROVE  ~Passed(c, d)' /\ (pc'[c] = "settling" => genSeen'[d] < got'[c])
  BY Zenon DEF SettleOk
<1>0. c \in Agent
  BY Zenon DEF Agent
<1>1. CASE c # a
  <2>1. /\ addr'[c] = addr[c] /\ got'[c] = got[c] /\ ret'[c] = ret[c]
        /\ todo'[c] = todo[c]
        /\ pc'[c] = pc[c] \/ (pc[c] = "asleep" /\ pc'[c] = "look")
    <3>1. c \in Agent \ {a} /\ c \in Cpu \ {a} /\ Apart(a)
      BY <1>0, <1>1, StepApart, Zenon
    <3> QED BY <3>1, Zenon DEF Apart
  <2>2. /\ InQuiesce(c) /\ (Passed(c, d)' => Passed(c, d))
        /\ pc'[c] = "settling" => pc[c] = "settling"
    BY <2>1, Zenon DEF Passed, InQuiesce
  <2> PICK m \in marked : m = addr[c]
    BY <2>2, Zenon DEF ArmOk, Armed
  <2>3. StoresInline(d, m) /\ genSeen'[d] = genSeen[d]
    <3>1. StoresInline(d, m)'
      BY <2>1, Zenon DEF StoresInline
    <3> QED BY <3>1, Inert, Zenon
  <2> QED BY <2>1, <2>2, <2>3, Zenon DEF SettleOk
<1>2. CASE c = a
  <2>1. /\ InQuiesce(c) /\ addr'[c] = addr[c]
        /\ Passed(c, d)' =>
             Passed(c, d) \/ (pc[c] = "settling" /\ genSeen[d] >= got[c])
        /\ pc'[c] = "settling" =>
             \/ pc[c] = "settling" /\ got'[c] = got[c]
             \/ pc[c] = "settle" /\ got'[c] = gen
    <3>1. Flow(c) /\ Own(c) /\ Cross(c)
      BY <1>2, StepFlow, StepOwn, StepCross, Zenon
    <3>2. InQuiesce(c)
      BY <3>1, Zenon DEF Flow, Own, Passed, InQuiesce
    <3>3. addr'[c] = addr[c]
      BY <3>1, <3>2, Zenon DEF Own, InQuiesce
    <3>4. Passed(c, d)' =>
            Passed(c, d) \/ (pc[c] = "settling" /\ genSeen[d] >= got[c])
      BY <3>1, Zenon DEF Flow, Own, Cross, Passed
    <3>5. pc'[c] = "settling" =>
            \/ pc[c] = "settling" /\ got'[c] = got[c]
            \/ pc[c] = "settle" /\ got'[c] = gen
      BY <3>1, Zenon DEF Flow, Own
    <3> QED BY <3>2, <3>3, <3>4, <3>5, Zenon
  <2>2. addr[c] \in marked /\ <<c, addr[c]>> \in MayArm
    BY <2>1, Zenon DEF ArmOk, Armed
  <2> PICK m \in marked : m = addr[c]
    BY <2>2, Zenon
  <2>3. StoresInline(d, m) /\ genSeen'[d] = genSeen[d]
    <3>1. StoresInline(d, m)'
      BY <2>1, Zenon DEF StoresInline
    <3> QED BY <3>1, Inert, Zenon
  <2>4. /\ ~Passed(c, d) /\ (pc[c] = "settling" => genSeen[d] < got[c])
        /\ genSeen[d] \in Nat /\ got[c] \in Nat
    BY <2>3 DEF SettleOk, TypeOK
  <2>5. ~Passed(c, d)'
    BY <2>1, <2>4
  <2>6. ASSUME pc[c] = "settle"
        PROVE  genSeen[d] < gen
    <3>1. ASSUME NEW b \in Cpu, pc[b] = "gen", line[b] = m
          PROVE  FALSE
      <4>1. <<b, m>> \in MayArm /\ m \in Line
        BY <3>1, Zenon DEF ArmOk, Arming, TypeOK
      <4>2. {<<b, m>>, <<c, m>>} \subseteq MayArm
        BY <2>2, <4>1, Zenon
      <4>3. b = c
        BY <4>1, <4>2 DEF OwnLines
      <4> QED BY <2>6, <3>1, <4>3, Zenon
    <3> QED BY <2>3, <3>1, Zenon DEF Unflushed
  <2> QED BY <2>1, <2>3, <2>4, <2>5, <2>6, Zenon
<1> QED BY <1>1, <1>2, Zenon

(* How many processors are about to count, and how many pages are marked.  *)
LEMMA Sizes ==
  ASSUME TypeOK
  PROVE  /\ IsFiniteSet(Counting) /\ Cardinality(Counting) \in Nat
         /\ IsFiniteSet(marked) /\ Cardinality(marked) \in Nat
         /\ Cardinality(Line) \in Nat /\ Cardinality(marked) <= Cardinality(Line)
         /\ Counting # {} => Cardinality(Counting) > 0
<1>1. Counting \subseteq Cpu /\ marked \subseteq Line
  BY Zenon DEF Counting, TypeOK
<1>2. IsFiniteSet(Counting) /\ IsFiniteSet(marked)
  BY <1>1, FS_Subset, QuiesceAssumption, Zenon
<1>3. /\ Cardinality(Counting) \in Nat /\ Cardinality(marked) \in Nat
      /\ Cardinality(Line) \in Nat
  BY <1>2, FS_CardinalityType, QuiesceAssumption, Zenon
<1>4. Cardinality(marked) <= Cardinality(Line)
  BY <1>1, FS_Subset, QuiesceAssumption, Zenon
<1>5. Counting # {} => Cardinality(Counting) # 0
  BY <1>2, FS_EmptySet, Zenon
<1> QED BY <1>2, <1>3, <1>4, <1>5

(* Every marked page is counted, or about to be.                           *)
LEMMA StepCount ==
  ASSUME NEW a \in Agent, Step(a), TypeOK, DeviceSteps, Counted
  PROVE  gen' + Cardinality(Counting') = Cardinality(marked')
<1>1. /\ \A k \in Cpu \ {a} : pc'[k] = "gen" <=> pc[k] = "gen"
      /\ marked' = IF pc[a] = "mark" THEN marked \cup {line[a]} ELSE marked
      /\ gen' = IF pc[a] = "gen" THEN gen + 1 ELSE gen
  BY StepApart, Zenon DEF Apart, Agent
<1>2. gen + Cardinality(Counting) = Cardinality(marked) /\ gen \in Nat
  BY DEF Counted, TypeOK
<1>3. /\ pc'[a] = "gen" => pc[a] = "mark" /\ line[a] \notin marked
      /\ pc[a] = "mark" => pc'[a] = IF line[a] \in marked THEN "addr" ELSE "gen"
      /\ pc[a] \in {"gen", "mark"} => a \in Cpu
      /\ pc[a] = "gen" => pc'[a] = "ask"
  BY StepFlow, Zenon DEF Flow, Agent
<1>4. CASE pc[a] = "gen"
  <2>1. a \in Counting /\ Counting' = Counting \ {a}
    BY <1>1, <1>3, <1>4, Zenon DEF Counting
  <2>2. Cardinality(Counting \ {a}) = Cardinality(Counting) - 1
    BY <2>1, FS_RemoveElement, Sizes, Zenon
  <2> QED BY <1>1, <1>2, <1>4, <2>1, <2>2, Sizes
<1>5. CASE pc[a] = "mark" /\ line[a] \notin marked
  <2>1. a \notin Counting /\ Counting' = Counting \cup {a}
    BY <1>1, <1>3, <1>5, Zenon DEF Counting
  <2>2. Cardinality(Counting \cup {a}) = Cardinality(Counting) + 1
    BY <2>1, FS_AddElement, Sizes, Zenon
  <2>3. Cardinality(marked \cup {line[a]}) = Cardinality(marked) + 1
    BY <1>5, FS_AddElement, Sizes, Zenon
  <2> QED BY <1>1, <1>2, <1>5, <2>1, <2>2, <2>3, Sizes
<1>6. CASE pc[a] # "gen" /\ (pc[a] = "mark" => line[a] \in marked)
  <2>1. Counting' = Counting /\ marked' = marked
    BY <1>1, <1>3, <1>6, Zenon DEF Counting
  <2> QED BY <1>1, <1>2, <1>6, <2>1, Zenon
<1> QED BY <1>4, <1>5, <1>6, Zenon

(* Nobody has seen more than has been counted.                             *)
LEMMA StepSeen ==
  ASSUME NEW a \in Agent, Step(a), TypeOK, Counted
  PROVE  \A c \in Cpu : genSeen'[c] <= gen' /\ got'[c] <= gen'
<1> SUFFICES ASSUME NEW c \in Cpu
             PROVE  genSeen'[c] <= gen' /\ got'[c] <= gen'
  BY Zenon
<1>1. /\ genSeen[c] \in Nat /\ got[c] \in Nat /\ gen \in Nat
      /\ genSeen[c] <= gen /\ got[c] <= gen
  BY DEF TypeOK, Counted
<1>2. gen' = gen \/ gen' = gen + 1
  BY StepApart, Zenon DEF Apart
<1>3. genSeen'[c] \in {genSeen[c], got[c]} /\ got'[c] \in {got[c], gen}
  <2>1. CASE c = a
    BY <2>1, StepOwn, Zenon DEF Own
  <2>2. CASE c # a
    BY <2>2, StepApart, Zenon DEF Apart
  <2> QED BY <2>1, <2>2, Zenon
<1> QED BY <1>1, <1>2, <1>3

(* A page is counted once, so the count stays within the pages.            *)
LEMMA StepGen ==
  ASSUME NEW a \in Agent, Step(a), TypeOK, DeviceSteps, Counted
  PROVE  gen' \in 0 .. Cardinality(Line)
<1>1. gen' = IF pc[a] = "gen" THEN gen + 1 ELSE gen
  BY StepApart, Zenon DEF Apart
<1>2. gen \in Nat /\ gen <= Cardinality(Line)
  BY Sizes DEF TypeOK
<1>3. ASSUME pc[a] = "gen"
      PROVE  gen + 1 <= Cardinality(Line)
  <2>1. a \in Counting
    BY <1>3, StepFlow, Zenon DEF Flow, Counting, Agent
  <2>2. gen + Cardinality(Counting) = Cardinality(marked)
    BY Zenon DEF Counted
  <2> QED BY <1>2, <2>1, <2>2, Sizes
<1> QED BY <1>1, <1>2, <1>3, Sizes

-----------------------------------------------------------------------------
(* Initially nobody watches a line.                                        *)
LEMMA InitWatching == Init => Watching /\ Settling
<1> SUFFICES ASSUME Init
             PROVE  Watching /\ Settling
  BY Zenon
<1> USE QuiesceAssumption DEF Agent
<1>1. SomeLine \in Line /\ Cardinality(Line) \in Nat
  BY FS_CardinalityType, Zenon DEF SomeLine
<1>2. TypeOK
  BY <1>1 DEF Init, TypeOK, Steps
<1>3. Counted
  <2>1. Counting = {} /\ marked = {} /\ gen = 0
    BY Zenon DEF Init, Counting
  <2>2. Cardinality({}) = 0
    BY FS_EmptySet, Zenon
  <2>3. \A c \in Cpu : genSeen[c] = 0 /\ got[c] = 0
    BY Zenon DEF Init
  <2> QED BY <2>1, <2>2, <2>3 DEF Counted
<1>4. DeviceSteps /\ \A c \in Cpu : ArmOk(c) /\ WakeOk(c) /\ GateOk(c) /\ MissOk(c)
  BY Zenon DEF Init, DeviceSteps, ArmOk, WakeOk, GateOk, MissOk, Armed, Arming, InQuiesce
<1>5. Settling
  BY Zenon DEF Init, Settling, Unflushed, SettleOk, Passed
<1> QED BY <1>2, <1>3, <1>4, <1>5, Zenon DEF Watching

(* Every step keeps the counts, the marks and the wake-ups.                *)
LEMMA WatchingInductive == Watching /\ [Next]_vars => Watching'
<1> SUFFICES ASSUME Watching, [Next]_vars
             PROVE  Watching'
  BY Zenon
<1> USE DEF Watching
<1>1. CASE Next
  <2>1. PICK a \in Agent : Step(a)
    BY <1>1, NextSteps, Zenon
  <2>2. TypeOK'
    BY <2>1, StepType, StepGen, Zenon
  <2>3. Counted'
    BY <2>1, StepSeen, StepCount, Zenon DEF Counted
  <2>4. DeviceSteps'
    BY <2>1, StepDevice, Zenon
  <2>5. \A c \in Cpu : ArmOk(c)'
    BY <2>1, StepArm, Zenon
  <2>6. \A c \in Cpu : WakeOk(c)'
    BY <2>1, StepWake, Zenon
  <2>7. \A c \in Cpu : GateOk(c)'
    BY <2>1, StepGate, Zenon
  <2>8. \A c \in Cpu : MissOk(c)'
    BY <2>1, StepMiss, Zenon
  <2> QED BY <2>2, <2>3, <2>4, <2>5, <2>6, <2>7, <2>8, Zenon
<1>2. CASE UNCHANGED vars
  <2> USE <1>2 DEF vars
  <2>1. TypeOK' /\ Counted' /\ DeviceSteps'
    BY Zenon DEF TypeOK, Counted, Counting, DeviceSteps
  <2>2. \A c \in Cpu : ArmOk(c)' /\ WakeOk(c)'
    BY ZenonT(60) DEF ArmOk, WakeOk, Armed, Arming, InQuiesce
  <2>3. \A c \in Cpu : GateOk(c)' /\ MissOk(c)'
    BY Zenon DEF GateOk, MissOk, Arming, StoresInline, Looks
  <2> QED BY <2>1, <2>2, <2>3, Zenon
<1> QED BY <1>1, <1>2, Zenon

(* With a line of its own, a processor settles it before it waits.         *)
LEMMA SettlingInductive ==
  ASSUME OwnLines
  PROVE  Watching /\ Settling /\ [Next]_vars => Settling'
<1> SUFFICES ASSUME Watching, Settling, [Next]_vars
             PROVE  Settling'
  BY Zenon
<1> USE DEF Watching, Settling
<1>1. CASE Next
  <2>1. PICK a \in Agent : Step(a)
    BY <1>1, NextSteps, Zenon
  <2>2. Unflushed'
    BY <2>1, StepUnflushed, Zenon DEF Counted
  <2>3. \A c \in Cpu : \A d \in Cpu \ {c} : SettleOk(c, d)'
    BY <2>1, StepSettle, Zenon
  <2> QED BY <2>2, <2>3, Zenon
<1>2. CASE UNCHANGED vars
  BY <1>2, ZenonT(60) DEF vars, Unflushed, SettleOk, StoresInline, Passed
<1> QED BY <1>1, <1>2, Zenon

(* Every behaviour keeps the types; the count of m_watch_mark_gen stays    *)
(* within the number of pages, each counted once (cpu_watch_mark_page).    *)
THEOREM TypeCorrect == Spec => []TypeOK
<1>1. Watching => TypeOK
  BY Zenon DEF Watching
<1> QED BY <1>1, InitWatching, WatchingInductive, PTL DEF Spec

(* A store the read of LDx_ARM does not see finds the watch flag, whoever  *)
(* watches what (cpu_note_store_watch, cpu_watch_hit, the LL/SC gate).     *)
THEOREM StoresNoticed == Spec => []NoMissedStoreOnceSettled
<1>1. ASSUME Watching
      PROVE  NoMissedStoreOnceSettled
  <2> SUFFICES ASSUME NEW c \in Cpu, pc[c] = "asleep", missed[c], clean[c]
               PROVE  OnTheWay(c)
    BY Zenon DEF NoMissedStoreOnceSettled
  <2>1. CASE flag[c]
    BY <1>1, <2>1, Zenon DEF Watching, MissOk, Arming, Looks, OnTheWay
  <2>2. CASE ~flag[c]
    BY <1>1, <2>2, Zenon DEF Watching, WakeOk, OnTheWay
  <2> QED BY <2>1, <2>2, Zenon
<1> QED BY <1>1, InitWatching, WatchingInductive, PTL DEF Spec

(* No wake-up is lost, whoever watches what (quiesce_notify against        *)
(* jit_quiesce_wait).                                                      *)
THEOREM WakesKept == Spec => []NoLostWake
<1>1. Watching => NoLostWake
  BY Zenon DEF Watching, WakeOk, NoLostWake
<1> QED BY <1>1, InitWatching, WatchingInductive, PTL DEF Spec

(* Where no two processors watch the same page, none sleeps while another  *)
(* may store there inline (cpu_watch_settled), nor through its wake-up.    *)
THEOREM SleepIsSafe == OwnLines => (Spec => []SleepsSafely)
<1> SUFFICES ASSUME OwnLines
             PROVE  Spec => []SleepsSafely
  BY Zenon
<1>1. Watching /\ Settling /\ [Next]_vars => Settling'
  BY SettlingInductive, Zenon
<1>2. Watching /\ Settling => SleepsSafely
  BY Zenon DEF Watching, Settling, SettleOk, Passed, WakeOk, SleepsSafely,
    SleepsOnlySettled, NoLostWake
<1> QED BY <1>1, <1>2, InitWatching, WatchingInductive, PTL DEF Spec
=============================================================================

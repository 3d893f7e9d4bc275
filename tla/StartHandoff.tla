---------------------------- MODULE StartHandoff ----------------------------
(***************************************************************************)
(* The start hand-off through an EV7's RBOX_SCRATCH1 (CStartHandoff): the  *)
(* console writes "f1" to a secondary's register and reads it back at most *)
(* Reads times for the "f2" the secondary answers from a loop polling it;  *)
(* then it writes "f3", and the secondary leaves its loop without an       *)
(* answer.  While the owner polls, a remote read waits for its next look.  *)
(*                                                                         *)
(* The counter of the owner's touches is only ever compared with a value   *)
(* of its own taken earlier, so the model keeps, for each such value,      *)
(* whether the owner has touched the register since.  Time is one fact:    *)
(* the open hand-off's second is over or not.  The owner's progress is one *)
(* too: whether it went `recent` instructions past its last read.          *)
(***************************************************************************)
EXTENDS Naturals

CONSTANTS Reader,       \* processors that read the register, not the owner
          Console,      \* the one that starts the secondary
          Reads         \* how often it reads before it gives up

VARIABLES
  reg,                  \* RBOX_SCRATCH1
  owner, got,           \* the owner's step, and what its last look returned
  last, polling, far,   \* m_last, m_polling; far past m_last_progress
  open, expired,        \* m_open; m_end has passed
  untouched,            \* the readers with m_touches = m_seen[reader]
  pc, tries,            \* the readers' steps, the console's reads so far
  reset_requested,      \* IsSystemResetRequested
  clean                 \* history: nothing has excused a failed start

side  == <<owner, got>>
hand  == <<last, polling, far, open, expired, untouched>>
other == <<pc, tries>>
vars  == <<reg, side, hand, other, reset_requested, clean>>

Value == {"0", "f1", "f2", "f3"}

(* The register, the hand-off and the processors' steps have their types.  *)
TypeOK ==
  /\ reg \in Value /\ got \in Value /\ last \in Value \cup {"none"}
  /\ owner \in {"look", "act", "away"}
  /\ polling \in BOOLEAN /\ far \in BOOLEAN /\ open \in BOOLEAN
  /\ expired \in BOOLEAN
  /\ untouched \in SUBSET Reader
  /\ pc \in [Reader -> {"idle", "read", "wait", "failed"}]
  /\ tries \in 0 .. Reads
  /\ reset_requested \in BOOLEAN /\ clean \in BOOLEAN

Init ==
  /\ reg = "0" /\ owner = "look" /\ got = "0"
  /\ last = "none" /\ polling = FALSE /\ far = FALSE
  /\ open = FALSE /\ expired = FALSE
  /\ untouched = Reader
  /\ pc = [r \in Reader |-> "idle"] /\ tries = 0
  /\ reset_requested = FALSE
  /\ clean = FALSE

-----------------------------------------------------------------------------
(* ++m_touches *)
Touch == untouched' = {}

(* The owner looks at its register in its polling loop.                    *)
owner_read ==
  /\ owner = "look" /\ owner' = "act" /\ got' = reg
  /\ Touch
  /\ polling' = (last = reg) /\ last' = reg /\ far' = FALSE
  /\ UNCHANGED <<reg, open, expired, other, reset_requested, clean>>

(* It answers "f1" by a write of its own.                                  *)
owner_wrote ==
  /\ owner = "act" /\ got = "f1"
  /\ owner' = "look" /\ reg' = "f2"
  /\ Touch
  /\ polling' = FALSE /\ last' = "none" /\ open' = FALSE
  /\ UNCHANGED <<got, far, expired, other, reset_requested, clean>>

(* "f3" sends it to its address; anything else, once more round the loop.  *)
GoRound ==
  /\ owner = "act" /\ got # "f1"
  /\ owner' = IF got = "f3" THEN "away" ELSE "look"
  /\ UNCHANGED <<reg, got, hand, other, reset_requested, clean>>

(* The owner runs other code, long enough for its progress to tell ...     *)
Away ==
  /\ owner = "away" /\ ~far
  /\ far' = TRUE /\ clean' = FALSE
  /\ UNCHANGED <<reg, side, last, polling, open, expired, untouched, other,
                 reset_requested>>

(* ... and comes back to its loop, or leaves it for an interrupt.          *)
ComeAndGo ==
  /\ \/ owner = "away" /\ owner' = "look" /\ UNCHANGED clean
     \/ owner = "look" /\ owner' = "away" /\ clean' = FALSE
  /\ UNCHANGED <<reg, got, hand, other, reset_requested>>

-----------------------------------------------------------------------------
\* Mutant: opens without the readers' marks cleared.
OpenWithoutMarks ==
  /\ open' = TRUE /\ expired' = FALSE
  /\ UNCHANGED <<untouched>>

(* The console writes the register.  Unless the owner polls it now nothing *)
(* is held up; a start it begins is excused of nothing only if it is.      *)
OpenHandoff ==
  /\ open' = TRUE /\ expired' = FALSE
  /\ untouched' = Reader

remote_wrote(v) ==
  /\ reg' = v
  /\ IF polling /\ ~far
     THEN OpenHandoff
     ELSE UNCHANGED <<open, expired, untouched>>
  /\ clean' = (polling /\ ~far /\ owner # "away" /\ ~reset_requested)
  /\ UNCHANGED <<side, last, polling, far, reset_requested>>

StartSecondary ==
  /\ pc[Console] = "idle"
  /\ pc' = [pc EXCEPT ![Console] = "read"] /\ tries' = 0
  /\ remote_wrote("f1")

(* Another processor may read the register at any time.                    *)
Look(r) ==
  /\ r # Console /\ pc[r] = "idle"
  /\ pc' = [pc EXCEPT ![r] = "read"]
  /\ UNCHANGED <<reg, side, hand, tries, reset_requested, clean>>

(* remote_read returns with the register's value.  The console, answered,  *)
(* sends the secondary off in the same stretch; otherwise it counts.       *)
Returned(r) ==
  \/ /\ r # Console
     /\ pc' = [pc EXCEPT ![r] = "idle"] /\ UNCHANGED tries
  \/ /\ r = Console /\ reg = "f2"
     /\ pc' = [pc EXCEPT ![r] = "idle"] /\ tries' = 0
  \/ /\ r = Console /\ reg # "f2"
     /\ tries' = tries + 1
     /\ pc' = [pc EXCEPT ![r] = IF tries' = Reads THEN "failed" ELSE "read"]

read_scratch(r) ==
  /\ pc[r] = "read"
  /\ IF open
     THEN pc' = [pc EXCEPT ![r] = "wait"] /\ UNCHANGED tries
     ELSE Returned(r)
  /\ UNCHANGED <<reg, side, hand, reset_requested, clean>>

(* The waiter's loop lets go: the owner looked or answered, or it is over. *)
GoOn(r) == open /\ r \in untouched /\ ~reset_requested

remote_read(r) ==
  /\ pc[r] = "wait" /\ ~GoOn(r)
  /\ untouched' = untouched \cup {r}
  /\ Returned(r)
  /\ UNCHANGED <<reg, side, last, polling, far, open, expired,
                 reset_requested, clean>>

(* ... or the value's time is up, for every reader.                        *)
WaitTimesOut(r) ==
  /\ pc[r] = "wait" /\ GoOn(r) /\ expired
  /\ open' = FALSE
  /\ untouched' = untouched \cup {r}
  /\ Returned(r)
  /\ UNCHANGED <<reg, side, last, polling, far, expired,
                 reset_requested, clean>>

(* The answered console's "f3".                                            *)
SendOff ==
  /\ pc[Console] = "idle" /\ reg = "f2"
  /\ remote_wrote("f3")
  /\ UNCHANGED other

Expire ==
  /\ open /\ ~expired
  /\ expired' = TRUE /\ clean' = FALSE
  /\ UNCHANGED <<reg, side, last, polling, far, open, untouched, other,
                 reset_requested>>

RequestSystemReset ==
  /\ ~reset_requested
  /\ reset_requested' = TRUE /\ clean' = FALSE
  /\ UNCHANGED <<reg, side, hand, other>>

(* The machine is reset with every reader's thread stopped.                *)
Reset ==
  /\ reset_requested /\ \A r \in Reader : pc[r] # "wait"
  /\ reg' = "0" /\ owner' = "look" /\ got' = "0"
  /\ last' = "none" /\ polling' = FALSE /\ open' = FALSE
  /\ untouched' = Reader
  /\ pc' = [r \in Reader |-> "idle"] /\ tries' = 0
  /\ reset_requested' = FALSE
  /\ clean' = FALSE
  /\ UNCHANGED <<far, expired>>

OwnerStep == owner_read \/ owner_wrote \/ GoRound

ReaderStep(r) == read_scratch(r) \/ remote_read(r) \/ WaitTimesOut(r)

Next ==
  \/ OwnerStep \/ Away \/ ComeAndGo
  \/ StartSecondary \/ SendOff
  \/ \E r \in Reader : Look(r) \/ ReaderStep(r)
  \/ Expire \/ RequestSystemReset \/ Reset

Spec == Init /\ [][Next]_vars

(* The readers' threads are scheduled and time passes; nothing is assumed  *)
(* of the owner.                                                           *)
FairSpec == Spec /\ WF_vars(Expire) /\ \A r \in Reader : WF_vars(ReaderStep(r))

-----------------------------------------------------------------------------
(* The console's start fails only for a reason: the owner was not polling  *)
(* or left, the second passed, or the machine is being reset.  However the *)
(* host delays the two threads, an owner in its loop answers in time.      *)
StartTaken == pc[Console] = "failed" => ~clean

(* No read of the console waits for ever, though the owner may never look  *)
(* at its register again.                                                  *)
ReadReturns == pc[Console] = "wait" ~> pc[Console] # "wait"
=============================================================================

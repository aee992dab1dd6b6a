------------------------------ MODULE SprPort ------------------------------
(***************************************************************************)
(* What the OR10 debug port promises to a JTAG client: each SPR command    *)
(* takes effect on the machine exactly once, in one step, between the      *)
(* moment it is issued and the moment its reply can be shifted out; the    *)
(* reply is the one that step produced; and a stalled CPU changes its      *)
(* state only through such commands or through a reset.                    *)
(***************************************************************************)
EXTENDS SprCommands

CONSTANTS
  None,      \* no command, or no answer yet
  Busy,      \* the reply is a row of zero bits
  Nothing    \* the client asked for nothing (DEBUG_CMD_NOP)

StallBit == [status : BOOLEAN]

VARIABLES
  machine,   \* the state SPR commands reach
  phase,     \* how far the current command has got
  cmd,       \* the current command
  answer,    \* what the command's step produced, not yet delivered
  reply      \* what the client can shift out

pvars == <<machine, phase, cmd, answer, reply>>

(* The error reply carries zeros instead of data.                          *)
Delivered(a) == IF a.err THEN [err |-> TRUE, data |-> 0] ELSE a

(* Every way one command can end: the machine and the answer it leaves.    *)
(* The Wishbone slave may refuse a memory access.                          *)
Outcome(c, m) ==
  IF NeedsWishbone(c)
    THEN {[machine |-> m, answer |-> [err |-> TRUE, data |-> X]]} \cup
         IF c.spr = "READ_MEM_ADDR"
           THEN {[machine |-> m,
                  answer |-> [err |-> FALSE, data |-> m.mem[Word(c.data)]]]}
           ELSE {[machine |-> [m EXCEPT !.mem[m.write_mem_addr] = c.data],
                  answer |-> [err |-> FALSE, data |-> X]]}
  ELSE IF c.we
    THEN {[machine |-> WriteSpr(m, c.spr, c.data),
           answer |-> [err |-> WriteFails(c.spr, c.data), data |-> X]]}
  ELSE {[machine |-> m,
         answer |-> [err |-> ReadFails(c.spr), data |-> ReadBack(m, c.spr)]]}

-----------------------------------------------------------------------------
Init ==
  /\ machine \in Machine
  /\ phase = "idle"
  /\ cmd = None
  /\ answer = None
  /\ reply = Nothing

Issue(c) ==
  /\ phase = "idle"
  /\ phase' = "issued"
  /\ cmd' = c
  /\ reply' = Busy
  /\ UNCHANGED <<machine, answer>>

Perform ==
  /\ phase = "issued"
  /\ \E o \in Outcome(cmd, machine) : machine' = o.machine /\ answer' = o.answer
  /\ phase' = "performed"
  /\ UNCHANGED <<cmd, reply>>

Deliver ==
  /\ phase = "performed"
  /\ reply' = Delivered(answer)
  /\ phase' = "idle"
  /\ cmd' = None
  /\ answer' = None
  /\ UNCHANGED machine

(* DEBUG_CMD_NOP and DEBUG_CMD_IS_CPU_STALLED do not reach the CPU.        *)
Ask ==
  /\ phase = "idle"
  /\ reply' \in {Nothing} \cup StallBit
  /\ UNCHANGED <<machine, phase, cmd, answer>>

Software ==
  /\ ~machine.stalled
  /\ machine' \in SoftwareEffects(machine)
  /\ UNCHANGED <<phase, cmd, answer, reply>>

Reset ==
  /\ machine' = AfterReset(machine)
  /\ UNCHANGED <<phase, cmd, answer, reply>>

Next ==
  \/ \E c \in Command : Issue(c)
  \/ Perform
  \/ Deliver
  \/ Ask
  \/ Software
  \/ Reset

Spec == Init /\ [][Next]_pvars
=============================================================================

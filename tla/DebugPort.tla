----------------------------- MODULE DebugPort -----------------------------
(***************************************************************************)
(* The debug path of an OR10 system: the TAP submodule tap_or10.v in the   *)
(* JTAG clock domain, the debug states of the CPU or10_top.v in the        *)
(* Wishbone clock domain, and the two-flip-flop synchronisers between      *)
(* them.  One action is one rising edge of one of the clocks; the clocks   *)
(* have no relation, so their edges interleave in every way.  Everything   *)
(* else the CPU does (fetching, executing, sleeping) is one state,         *)
(* "RUNNING", that reaches an instruction boundary now and then.           *)
(***************************************************************************)
EXTENDS SprCommands

CONSTANTS
  None, Busy, Nothing,  \* see SprPort
  Issued,               \* the commands the client issues
  PatientClient,        \* the client never abandons an operation
  ResetWhen             \* when wb_rst_i may be asserted after power-up

StallBit == [status : BOOLEAN]

ASSUME DebugPortAssumption ==
  /\ None \notin Command \cup Answer
  /\ Busy \notin Answer \cup StallBit
  /\ Nothing \notin Answer \cup StallBit \cup {Busy}
  /\ Issued \subseteq Command
  /\ PatientClient \in BOOLEAN
  /\ ResetWhen \in {"never", "ack low", "always"}

VARIABLES
  \* JTAG clock domain
  current_cpu_state,  \* of the TAP submodule
  current_cmd,        \* the latched command
  cpu_stb_o,
  cpu_request,        \* cpu_spr_number_o, cpu_data_o, cpu_we_o; None is 'x'
  output_reg,         \* what output_shift_reg lets the client shift out
  ack_ff,             \* synchroniser of cpu_ack_i
  stalled_ff,         \* synchroniser of cpu_is_stalled_i
  \* Wishbone clock domain
  current_state,      \* of the CPU
  wishdat,            \* the Wishbone access of the debug interface
  dbg_ack_o,
  dbg_answer,         \* dbg_err_o, dbg_data_o
  machine,            \* the registers and the memory behind the port
  stb_ff,             \* synchroniser of dbg_stb_i
  \* history, no register of the design
  seen_stalled        \* the stall status since the last reply was latched

tapVars == <<current_cpu_state, current_cmd, cpu_stb_o, cpu_request,
             output_reg, ack_ff, stalled_ff>>
cpuVars == <<current_state, wishdat, dbg_ack_o, dbg_answer, machine, stb_ff>>
vars == <<tapVars, cpuVars, seen_stalled>>

TapState == {"IDLE", "WAITING_FOR_CPU_IDLE", "DATA_WRITTEN", "WAITING_FOR_ACK"}
CpuState == {"RESET", "RUNNING", "STALLED", "REG_FILE_READ", "WISHBONE_CYCLE",
             "ACK_ASSERT", "STB_DEASSERT"}

(* clock_domain_crossing_synchroniser: a two-bit shift register.           *)
FlipFlops == [meta : BOOLEAN, out : BOOLEAN]
Shift(ff, signal) == [meta |-> signal, out |-> ff.meta]

StallStatus == {"stalled", "running"}
Status(bit) == IF bit THEN "stalled" ELSE "running"

Init ==
  /\ current_cpu_state = "IDLE"
  /\ current_cmd = None
  /\ cpu_stb_o = FALSE
  /\ cpu_request = None
  /\ output_reg = Nothing
  /\ ack_ff = [meta |-> FALSE, out |-> FALSE]
  /\ stalled_ff = [meta |-> FALSE, out |-> FALSE]
  /\ current_state = "RESET"
  /\ wishdat = None
  /\ dbg_ack_o = FALSE
  /\ dbg_answer = [err |-> FALSE, data |-> X]
  /\ machine \in Machine
  /\ stb_ff = [meta |-> FALSE, out |-> FALSE]
  /\ seen_stalled = StallStatus

-----------------------------------------------------------------------------
(* The TAP submodule.                                                      *)

(* What the TAP makes of the synchronised acknowledge.                     *)
CpuIsIdleWithoutCheck == TRUE                 \* mutant of CpuIsIdle
CpuIsIdle == ~ack_ff.out
CpuHasAnsweredUnsynchronised == dbg_ack_o     \* mutant of CpuHasAnswered
CpuHasAnswered == ack_ff.out

(* step_state_machine_tick from the state `st' and command `c' that        *)
(* step_state_machine_update may just have set; `stb', `req' and `out' are *)
(* the values the registers keep if the tick does not assign them.         *)
TapTickFrom(st, c, stb, req, out) ==
  /\ current_cmd' = c
  /\ \/ /\ st = "IDLE"
        /\ current_cpu_state' = "IDLE"
        /\ cpu_stb_o' = stb /\ cpu_request' = req /\ output_reg' = out
     \/ /\ st = "WAITING_FOR_CPU_IDLE" /\ ~CpuIsIdle
        /\ current_cpu_state' = st
        /\ cpu_stb_o' = stb /\ cpu_request' = req /\ output_reg' = Busy
     \/ /\ st = "WAITING_FOR_CPU_IDLE" /\ CpuIsIdle
        /\ current_cpu_state' = "DATA_WRITTEN"
        /\ cpu_stb_o' = stb /\ cpu_request' = c /\ output_reg' = Busy
     \/ /\ st = "DATA_WRITTEN"
        /\ current_cpu_state' = "WAITING_FOR_ACK"
        /\ cpu_stb_o' = TRUE /\ cpu_request' = req /\ output_reg' = Busy
     \/ /\ st = "WAITING_FOR_ACK" /\ ~CpuHasAnswered
        /\ current_cpu_state' = st
        /\ cpu_stb_o' = stb /\ cpu_request' = req /\ output_reg' = Busy
     \/ /\ st = "WAITING_FOR_ACK" /\ CpuHasAnswered
        /\ current_cpu_state' = "IDLE"
        /\ cpu_stb_o' = FALSE /\ cpu_request' = None
        /\ output_reg' = IF dbg_answer.err THEN [err |-> TRUE, data |-> 0]
                                           ELSE dbg_answer
  /\ seen_stalled' = IF st = "WAITING_FOR_ACK" /\ CpuHasAnswered
                       THEN {Status(machine.stalled)} ELSE seen_stalled

TckEdge ==
  /\ ack_ff' = Shift(ack_ff, dbg_ack_o)
  /\ stalled_ff' = Shift(stalled_ff, machine.stalled)
  /\ UNCHANGED cpuVars

(* A clock edge in Shift-DR, or in any state but Update-DR.                *)
TapTick ==
  /\ TckEdge
  /\ TapTickFrom(current_cpu_state, current_cmd, cpu_stb_o, cpu_request, output_reg)

MayUpdate == PatientClient => current_cpu_state = "IDLE"

(* Mutant of TapUpdateSpr: the strobe of an abandoned operation stays up.  *)
TapUpdateSprKeepsStrobe(c) ==
  /\ c \in Issued /\ MayUpdate
  /\ TckEdge
  /\ TapTickFrom("WAITING_FOR_CPU_IDLE", c, cpu_stb_o, None, Busy)

(* Update-DR with a command for the CPU: whatever was going on is stopped  *)
(* and the same clock edge already runs the tick.                          *)
TapUpdateSpr(c) ==
  /\ c \in Issued /\ MayUpdate
  /\ TckEdge
  /\ TapTickFrom("WAITING_FOR_CPU_IDLE", c, FALSE, None, Busy)

TapUpdateNop ==
  /\ MayUpdate
  /\ TckEdge
  /\ TapTickFrom("IDLE", None, FALSE, None, Nothing)

TapUpdateIsCpuStalled ==
  /\ MayUpdate
  /\ TckEdge
  /\ TapTickFrom("IDLE", None, FALSE, None, [status |-> stalled_ff.out])

(* Test-Logic-Reset, or an instruction other than DEBUG is selected.       *)
TapReset ==
  /\ MayUpdate
  /\ TckEdge
  /\ current_cpu_state' = "IDLE"
  /\ current_cmd' = None
  /\ cpu_stb_o' = FALSE
  /\ cpu_request' = None
  /\ UNCHANGED <<output_reg, seen_stalled>>

-----------------------------------------------------------------------------
(* The CPU.                                                                *)

WbClkEdge ==
  /\ stb_ff' = Shift(stb_ff, cpu_stb_o)
  /\ seen_stalled' = seen_stalled \cup {Status(machine'.stalled)}
  /\ UNCHANGED tapVars

(* The request as the CPU samples it: when the TAP does not drive it, the  *)
(* wires carry anything.                                                   *)
Sampled == IF cpu_request = None THEN Command ELSE {cpu_request}

(* start_debug_interface_operation                                         *)
StartOperation ==
  \E c \in Sampled :
    IF NeedsWishbone(c)
      THEN /\ wishdat' = [we |-> c.spr = "WRITE_MEM_DATA", data |-> c.data,
                          word |-> IF c.spr = "READ_MEM_ADDR"
                                     THEN Word(c.data)
                                     ELSE machine.write_mem_addr]
           /\ current_state' = "WISHBONE_CYCLE"
           /\ UNCHANGED <<machine, dbg_answer>>
    ELSE IF c.we
      THEN /\ machine' = WriteSpr(machine, c.spr, c.data)
           /\ dbg_answer' = [err |-> WriteFails(c.spr, c.data), data |-> X]
           /\ current_state' = "ACK_ASSERT"
           /\ UNCHANGED wishdat
    ELSE /\ current_state' = "REG_FILE_READ"
         /\ UNCHANGED <<machine, wishdat, dbg_answer>>

(* wb_rst_i: everything but the state, and the default assignments, waits  *)
(* for the clock edge after it.                                            *)
AssertReset ==
  /\ ResetWhen = "always" \/ (ResetWhen = "ack low" /\ ~dbg_ack_o)
  /\ current_state' = "RESET"
  /\ UNCHANGED <<wishdat, dbg_ack_o, dbg_answer, machine>>
  /\ WbClkEdge

(* do_state_reset: dbg_ack_o, dbg_err_o and dbg_data_o are not assigned.   *)
DoReset ==
  /\ current_state = "RESET"
  /\ machine' = AfterReset(machine)
  /\ current_state' = "RUNNING"
  /\ UNCHANGED <<wishdat, dbg_ack_o, dbg_answer>>
  /\ WbClkEdge

(* Between instruction boundaries: a Wishbone cycle that has not ended, a  *)
(* shift, a multiplication, a division.                                    *)
RunBusy ==
  /\ current_state = "RUNNING"
  /\ UNCHANGED <<current_state, wishdat, dbg_ack_o, dbg_answer, machine>>
  /\ WbClkEdge

(* An instruction boundary (the fetch has been answered, or l.sleep) with  *)
(* a debug operation pending, or with the stall bit set by the software.   *)
RunDebug ==
  /\ current_state = "RUNNING"
  /\ \/ stb_ff.out /\ StartOperation
     \/ /\ ~stb_ff.out /\ machine.stalled
        /\ current_state' = "STALLED"
        /\ UNCHANGED <<machine, wishdat, dbg_answer>>
  /\ UNCHANGED dbg_ack_o
  /\ WbClkEdge

(* The instruction is executed.                                            *)
RunInstruction ==
  /\ current_state = "RUNNING"
  /\ ~stb_ff.out /\ ~machine.stalled
  /\ machine' \in SoftwareEffects(machine)
  /\ UNCHANGED <<current_state, wishdat, dbg_ack_o, dbg_answer>>
  /\ WbClkEdge

(* The single-step stop, which goes before a pending debug operation, a    *)
(* hardware breakpoint or an l.trap: the CPU stalls itself.                *)
RunStop ==
  /\ current_state = "RUNNING"
  /\ machine' = [machine EXCEPT !.stalled = TRUE]
  /\ current_state' = "STALLED"
  /\ UNCHANGED <<wishdat, dbg_ack_o, dbg_answer>>
  /\ WbClkEdge

(* do_state_debug_stalled                                                  *)
Stalled ==
  /\ current_state = "STALLED"
  /\ IF stb_ff.out
       THEN StartOperation
       ELSE /\ current_state' = IF machine.stalled THEN "STALLED" ELSE "RUNNING"
            /\ UNCHANGED <<machine, wishdat, dbg_answer>>
  /\ UNCHANGED dbg_ack_o
  /\ WbClkEdge

(* do_state_debug_waiting_for_reg_file_read                                *)
RegFileRead ==
  /\ current_state = "REG_FILE_READ"
  /\ \E c \in Sampled :
       dbg_answer' = [err |-> ReadFails(c.spr), data |-> ReadBack(machine, c.spr)]
  /\ current_state' = "ACK_ASSERT"
  /\ UNCHANGED <<wishdat, dbg_ack_o, machine>>
  /\ WbClkEdge

(* do_state_debug_waiting_for_wishbone_debug_interface_cycle: wb_ack_i,    *)
(* or wb_err_i or wb_rty_i, or neither yet.                                *)
WishboneWait ==
  /\ current_state = "WISHBONE_CYCLE"
  /\ UNCHANGED <<current_state, wishdat, dbg_ack_o, dbg_answer, machine>>
  /\ WbClkEdge

WishboneEndsErrorLost ==  \* mutant of WishboneEnds: dbg_err_o not set
  /\ current_state = "WISHBONE_CYCLE"
  /\ dbg_answer' = [err |-> FALSE, data |-> IF wishdat.we THEN X
                                            ELSE machine.mem[wishdat.word]]
  /\ \/ machine' = IF wishdat.we
                      THEN [machine EXCEPT !.mem[wishdat.word] = wishdat.data]
                      ELSE machine
     \/ UNCHANGED machine
  /\ current_state' = "ACK_ASSERT"
  /\ UNCHANGED <<wishdat, dbg_ack_o>>
  /\ WbClkEdge

WishboneEnds ==
  /\ current_state = "WISHBONE_CYCLE"
  /\ \/ /\ dbg_answer' = [err |-> FALSE, data |-> IF wishdat.we THEN X
                                                  ELSE machine.mem[wishdat.word]]
        /\ machine' = IF wishdat.we
                        THEN [machine EXCEPT !.mem[wishdat.word] = wishdat.data]
                        ELSE machine
     \/ /\ dbg_answer' = [err |-> TRUE, data |-> X]
        /\ UNCHANGED machine
  /\ current_state' = "ACK_ASSERT"
  /\ UNCHANGED <<wishdat, dbg_ack_o>>
  /\ WbClkEdge

(* do_state_debug_waiting_for_ack_assert                                   *)
AckAssert ==
  /\ current_state = "ACK_ASSERT"
  /\ dbg_ack_o' = TRUE
  /\ current_state' = "STB_DEASSERT"
  /\ UNCHANGED <<wishdat, dbg_answer, machine>>
  /\ WbClkEdge

StbDeassertWithoutWaiting ==  \* mutant of StbDeassert: the strobe may be up
  /\ current_state = "STB_DEASSERT"
  /\ dbg_ack_o' = FALSE
  /\ dbg_answer' = [dbg_answer EXCEPT !.data = X]
  /\ current_state' = IF machine.stalled THEN "STALLED" ELSE "RUNNING"
  /\ UNCHANGED <<wishdat, machine>>
  /\ WbClkEdge

StbDeassertKeepsAck ==  \* mutant of StbDeassert: dbg_ack_o not cleared
  /\ current_state = "STB_DEASSERT"
  /\ current_state' = IF stb_ff.out THEN current_state
                      ELSE IF machine.stalled THEN "STALLED" ELSE "RUNNING"
  /\ UNCHANGED <<wishdat, machine, dbg_ack_o, dbg_answer>>
  /\ WbClkEdge

(* do_state_debug_waiting_for_stb_deassert                                 *)
StbDeassert ==
  /\ current_state = "STB_DEASSERT"
  /\ IF stb_ff.out
       THEN UNCHANGED <<current_state, dbg_ack_o, dbg_answer>>
       ELSE /\ dbg_ack_o' = FALSE
            /\ dbg_answer' = [dbg_answer EXCEPT !.data = X]
            /\ current_state' = IF machine.stalled THEN "STALLED" ELSE "RUNNING"
  /\ UNCHANGED <<wishdat, machine>>
  /\ WbClkEdge

-----------------------------------------------------------------------------
TapNext ==
  \/ TapTick
  \/ \E c \in Command : TapUpdateSpr(c)
  \/ TapUpdateNop
  \/ TapUpdateIsCpuStalled
  \/ TapReset

CpuNext ==
  \/ AssertReset
  \/ DoReset
  \/ RunBusy
  \/ RunDebug
  \/ RunInstruction
  \/ RunStop
  \/ Stalled
  \/ RegFileRead
  \/ WishboneWait
  \/ WishboneEnds
  \/ AckAssert
  \/ StbDeassert

Next == TapNext \/ CpuNext

Spec == Init /\ [][Next]_vars

(* The Wishbone clock never stops.  The software reaches an instruction    *)
(* boundary again and again, because every Wishbone cycle is answered and  *)
(* the multi-cycle instructions are finite.                                *)
WbClkTick == CpuNext /\ current_state' # "RESET"

CpuFairness ==
  /\ WF_vars(WbClkTick)
  /\ WF_vars(RunDebug)
  /\ WF_vars(WishboneEnds)

(* The client clocks the TAP for as long as it waits for a reply.          *)
TapFairness == WF_vars(TapTick)

FairSpec == Spec /\ CpuFairness /\ TapFairness

-----------------------------------------------------------------------------
(* Type correctness.                                                       *)
TypeOK ==
  /\ current_cpu_state \in TapState
  /\ current_cmd \in Command \cup {None}
  /\ cpu_stb_o \in BOOLEAN
  /\ cpu_request \in Command \cup {None}
  /\ output_reg \in Answer \cup StallBit \cup {Busy, Nothing}
  /\ ack_ff \in FlipFlops /\ stalled_ff \in FlipFlops /\ stb_ff \in FlipFlops
  /\ current_state \in CpuState
  /\ wishdat \in [we : BOOLEAN, data : Value, word : Words] \cup {None}
  /\ dbg_ack_o \in BOOLEAN
  /\ dbg_answer \in Answer
  /\ machine \in Machine
  /\ seen_stalled \in SUBSET StallStatus

(* The unsynchronised wires from the TAP hold the current command whenever *)
(* the CPU reads them: at the start of an operation (its synchronised      *)
(* strobe is up in a state that looks at it) and, for a read, one clock    *)
(* cycle later (tap_or10.v, the STB_WRITTEN ordering; or10_top.v           *)
(* start_debug_interface_operation and STATE_DEBUG_WAITING_FOR_REG_FILE_READ). *)
RequestStable ==
  \/ current_state \in {"RUNNING", "STALLED"} /\ stb_ff.out
  \/ current_state = "REG_FILE_READ"
  => cpu_stb_o /\ cpu_request = current_cmd /\ cpu_request # None

(* The unsynchronised wires from the CPU hold the answer, and the CPU is   *)
(* waiting, whenever the TAP latches it (STATE_DEBUG_WAITING_FOR_ACK_ASSERT *)
(* and STATE_DEBUG_WAITING_FOR_STB_DEASSERT in or10_top.v).                *)
AnswerStable ==
  current_cpu_state = "WAITING_FOR_ACK" /\ ack_ff.out
  => /\ current_state = "STB_DEASSERT"
     /\ dbg_ack_o
     /\ ~current_cmd.we /\ ~dbg_answer.err => dbg_answer.data # X

(* The status DEBUG_CMD_IS_CPU_STALLED returns was true at some moment     *)
(* since the reply of the last SPR command: after an unstall command the   *)
(* client never sees the stall that the command ended (or10_top.v:196-204). *)
StallStatusNotStale ==
  current_cpu_state = "IDLE" => Status(stalled_ff.out) \in seen_stalled

(* Why: the handshake, seen from the two ends.  A strobe that has reached   *)
(* a synchroniser stage has reached the stages before it; an answered      *)
(* strobe leaves them in the same order.  The same for the acknowledge.    *)
StrobeInv ==
  /\ cpu_stb_o <=> current_cpu_state = "WAITING_FOR_ACK"
  /\ IF current_state = "STB_DEASSERT"
       THEN (cpu_stb_o => stb_ff.meta) /\ (stb_ff.meta => stb_ff.out)
       ELSE (stb_ff.out => stb_ff.meta) /\ (stb_ff.meta => cpu_stb_o)
  /\ current_state \in {"REG_FILE_READ", "WISHBONE_CYCLE", "ACK_ASSERT"}
     => stb_ff.out

AckInv ==
  /\ dbg_ack_o <=> current_state = "STB_DEASSERT"
  /\ current_cpu_state \in {"IDLE", "WAITING_FOR_CPU_IDLE"}
     => (dbg_ack_o => ack_ff.meta) /\ (ack_ff.meta => ack_ff.out)
  /\ current_cpu_state = "DATA_WRITTEN"
     => ~dbg_ack_o /\ ~ack_ff.meta /\ ~ack_ff.out
  /\ current_cpu_state = "WAITING_FOR_ACK"
     => (ack_ff.out => ack_ff.meta) /\ (ack_ff.meta => dbg_ack_o)

RequestInv ==
  /\ current_cpu_state # "IDLE" => current_cmd \in Command /\ output_reg = Busy
  /\ cpu_request = IF current_cpu_state \in {"DATA_WRITTEN", "WAITING_FOR_ACK"}
                     THEN current_cmd ELSE None
  /\ current_state = "REG_FILE_READ" => ~current_cmd.we
  /\ current_state = "WISHBONE_CYCLE"
     => /\ NeedsWishbone(current_cmd)
        /\ wishdat = [we |-> current_cmd.spr = "WRITE_MEM_DATA",
                      data |-> current_cmd.data,
                      word |-> IF current_cmd.spr = "READ_MEM_ADDR"
                                 THEN Word(current_cmd.data)
                                 ELSE machine.write_mem_addr]

AnswerInv ==
  /\ current_cpu_state = "WAITING_FOR_ACK"
  /\ current_state \in {"ACK_ASSERT", "STB_DEASSERT"}
  /\ ~current_cmd.we /\ ~dbg_answer.err
  => dbg_answer.data # X

StallStatusInv ==
  /\ Status(machine.stalled) \in seen_stalled
  /\ Status(stalled_ff.meta) \in seen_stalled
  /\ Status(stalled_ff.out) \in seen_stalled
  /\ current_cpu_state = "WAITING_FOR_ACK" /\ ack_ff.out
     => stalled_ff.meta = machine.stalled

HandshakeInv ==
  TypeOK /\ StrobeInv /\ AckInv /\ RequestInv /\ AnswerInv /\ StallStatusInv

(* Every SPR command takes effect exactly once and its reply is the one of *)
(* that effect.                                                            *)
Performed ==
  /\ current_cpu_state = "WAITING_FOR_ACK"
  /\ current_state \in {"ACK_ASSERT", "STB_DEASSERT"}

Abstract == INSTANCE SprPort WITH
  phase <- IF current_cpu_state = "IDLE" THEN "idle"
           ELSE IF Performed THEN "performed" ELSE "issued",
  cmd <- IF current_cpu_state = "IDLE" THEN None ELSE current_cmd,
  answer <- IF Performed THEN dbg_answer ELSE None,
  reply <- output_reg

ImplementsSprPort == Abstract!Spec

(* A patient client always gets its reply (the wait loop of the bridge,    *)
(* wait_for_cpu_ack in dbg_api.cpp, has no other way out).                 *)
CommandsEnd == current_cpu_state # "IDLE" ~> current_cpu_state = "IDLE"

(* A client that has abandoned operations, in whatever state they were, and *)
(* a CPU that has been reset in the middle of them: replies still come once *)
(* the client is patient and the resets are over.                           *)
WaitsForReply == current_cpu_state # "IDLE" => TapTick \/ UNCHANGED tapVars

HandshakeNeverWedges ==
  <>[][WaitsForReply]_vars /\ <>[](current_state # "RESET") => CommandsEnd
=============================================================================

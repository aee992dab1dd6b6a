------------------------------ MODULE Or10Core ------------------------------
(***************************************************************************)
(* The OR10 CPU (CPU/or10_top.v): the state machine that fetches, executes *)
(* and retires instructions, its exceptions and interrupts, its tick timer *)
(* and the part of its Debug Unit that stalls, steps and resumes it.       *)
(*                                                                         *)
(* One Clock step is one posedge of wb_clk_i.  Every task of the Verilog   *)
(* reads the registers as they were before the edge (cpu) and adds its     *)
(* nonblocking assignments to the registers after it (m): an operator      *)
(* Foo(m) is the task foo, and a later assignment replaces an earlier one. *)
(*                                                                         *)
(* The contents of the general purpose registers and of the memory, EEAR   *)
(* and dbg_write_mem_addr decide nothing here and are left out; decoding   *)
(* is left out too: the memory may answer a fetch with any member of       *)
(* Program.                                                                *)
(***************************************************************************)
EXTENDS Naturals, FiniteSets

CONSTANTS
    AddrCount,    \* the PC counts words modulo AddrCount (2^30 in the code)
    Vector,       \* exception vector of each cause; RESET_VECTOR is "reset"
    Program,      \* decoded instructions the memory may hold
    DebugOps,     \* operations the Debug Interface may ask for ...
    RunningOps,   \* ... and those it asks for while the CPU is not stalled
    TimerSize,    \* TTCR counts modulo TimerSize (2^28 in the code)
    MaxShift,     \* shift amounts are 1 .. MaxShift (31 in the code)
    MulDelay,     \* EXTERNAL_MULTIPLIER_DELAY_IN_CLOCK_TICKS
    HasPic,       \* whether a device may raise the interrupt line
    NoRequest     \* the Wishbone outputs while wb_cyc_o = 0

Addr == 0 .. AddrCount - 1
Causes == {"reset", "bus", "tick", "align", "illegal", "external", "range",
           "syscall", "trap"}

(***************************************************************************)
(* The flags of SR that matter here.  RESET_SPR_SR sets FO and SM only.    *)
(***************************************************************************)
Flags == {"IEE", "TEE", "OVE", "OV", "CY"}
RESET_SPR_SR == {}

(***************************************************************************)
(* A 32-bit word as its readers take it: an address, the flags of SR, the  *)
(* one bit of a debug register, a count, the fields of TTMR (tp is count). *)
(***************************************************************************)
Word == [addr : Addr, flags : SUBSET Flags, bit : BOOLEAN,
         count : 0 .. TimerSize - 1, mode : 0 .. 3, ie : BOOLEAN, ip : BOOLEAN]

Sprs == {"SR", "NPC", "EPCR", "ESR", "GPR", "PICMR", "TTMR", "TTCR", "EDIS", "DRR",
         "DSR", "DMR1", "DVR", "READ_MEM_ADDR", "WRITE_MEM_DATA", "invalid", "misaligned"}

Kinds == {"nop", "alu", "jump", "jal", "add", "mul", "div", "shift", "load", "store",
          "rfe", "mtspr", "trap", "sleep", "fault"}

Instruction == [kind : Kinds, spr : Sprs, cause : Causes, shift : 0 .. MaxShift, word : Word]
DebugOp == [we : BOOLEAN, spr : Sprs, word : Word]

ASSUME SizeAssumption == /\ AddrCount \in Nat \ {0} /\ TimerSize \in Nat \ {0}
                         /\ MaxShift \in Nat /\ MulDelay \in Nat
ASSUME VectorAssumption == Vector \in [Causes -> Addr]
ASSUME StreamAssumption == /\ Program \subseteq Instruction
                           /\ DebugOps \subseteq DebugOp /\ RunningOps \subseteq DebugOp
ASSUME NoRequestAssumption == NoRequest \notin DebugOp \cup [adr : Addr, we : BOOLEAN]

States == {"reset", "fetch", "data", "sleep", "shifting", "multiplying",
           "dividing", "dbg_read", "dbg_ack", "dbg_stb", "stalled", "dbg_data"}

Request == [adr : Addr, we : BOOLEAN]

VARIABLES
    cpu,      \* the registers of the CPU, and two history variables
    waited,   \* the request on the bus was there, unanswered, at the last edge
    pic,      \* pic_ints_i
    stb,      \* synchronised_dbg_stb_i
    op        \* dbg_we_i, dbg_spr_number_i and dbg_data_i

vars == <<cpu, waited, pic, stb, op>>

(***************************************************************************)
(* History: handler says whose exception handler runs and has not yet      *)
(* written SR ("none" if there is none); done counts, up to 2, the         *)
(* instructions completed since the CPU was last resumed.                  *)
(***************************************************************************)
CpuRegisters ==
    [state : States, pc : Addr, sr : SUBSET Flags,
     epcr : Addr, esr : SUBSET Flags, picmr : BOOLEAN,
     mode : 0 .. 3, ie : BOOLEAN, ip : BOOLEAN, tp : 0 .. TimerSize - 1,
     ttcr : 0 .. TimerSize - 1,
     trap_enabled : BOOLEAN, reason_trap : BOOLEAN,
     stop1 : BOOLEAN, stop2 : BOOLEAN, is_stalled : BOOLEAN, dvr : Addr,
     bus : Request \cup {NoRequest}, wishdat : Request \cup {NoRequest},
     gpr_write : BOOLEAN, busy : 0 .. MaxShift + MulDelay,
     div_valid : BOOLEAN, dbg_ack : BOOLEAN,
     handler : {"none", "interrupt", "exception"}, done : 0 .. 2]

TypeOK ==
    /\ cpu \in CpuRegisters
    /\ waited \in BOOLEAN /\ pic \in BOOLEAN /\ stb \in BOOLEAN
    /\ op \in DebugOp \cup {NoRequest}

-----------------------------------------------------------------------------
(* What every clock edge does before the state's own task.                 *)

StopWishboneCycle(m) == [m EXCEPT !.bus = NoRequest]
\* Mutant: the write enable is never taken back.
KeepRegisterFileWrite(m) == m
StopRegisterFileWrite(m) == [m EXCEPT !.gpr_write = FALSE]

TimerMatch == cpu.tp = cpu.ttcr
Increments == cpu.mode = 3 \/ (cpu.mode \in {1, 2} /\ ~TimerMatch)

\* Mutant: a match is noticed only while the counter goes on.
UpdateTickTimerWhileCounting(m) ==
    [m EXCEPT !.ttcr = IF Increments THEN (@ + 1) % TimerSize
                       ELSE IF cpu.mode = 1 /\ TimerMatch THEN 0 ELSE @,
              !.ip = @ \/ (cpu.ie /\ TimerMatch /\ Increments)]

UpdateTickTimer(m) ==
    [m EXCEPT !.ttcr = IF Increments THEN (@ + 1) % TimerSize
                       ELSE IF cpu.mode = 1 /\ TimerMatch THEN 0 ELSE @,
              !.ip = @ \/ (cpu.ie /\ TimerMatch)]

StepStateMachine ==
    LET m == StopRegisterFileWrite(StopWishboneCycle(cpu))
    IN  IF cpu.state \in {"reset", "stalled"} THEN m ELSE UpdateTickTimer(m)

-----------------------------------------------------------------------------
(* Fetches, exceptions and interrupts.                                     *)

\* Mutant: the PC does not wrap.
NextAddrWithoutWrap(a) == a + 1

NextAddr(a) == (a + 1) % AddrCount
StartFetch(m, a) ==
    [m EXCEPT !.bus = [adr |-> a, we |-> FALSE], !.state = "fetch", !.pc = a]

StartDataCycle(m, request, state) ==
    [m EXCEPT !.bus = request, !.wishdat = request, !.state = state]

ScheduleRegisterWrite(m) == [m EXCEPT !.gpr_write = TRUE]

Completed(m) == [m EXCEPT !.done = IF @ < 2 THEN @ + 1 ELSE @]

HandlerOf(cause) == IF cause \in {"external", "tick"} THEN "interrupt" ELSE "exception"

\* Mutant: SR is saved and not reset.
RaiseExceptionKeepsSr(m, cause, epcr, esr) ==
    [StartFetch(m, Vector[cause]) EXCEPT
       !.epcr = epcr, !.esr = esr,
       !.handler = HandlerOf(cause)]

RaiseException(m, cause, epcr, esr) ==
    [StartFetch(m, Vector[cause]) EXCEPT
       !.epcr = epcr, !.esr = esr, !.sr = RESET_SPR_SR, !.handler = HandlerOf(cause)]

BusError(m) == RaiseException(m, "bus", cpu.pc, cpu.sr)

\* The two tests read SR as it was before the instruction just executed.
ExternalPending == "IEE" \in cpu.sr /\ cpu.picmr /\ pic
TickPending == "TEE" \in cpu.sr /\ cpu.ip
InterruptPending == ExternalPending \/ TickPending

TakeInterrupt(m, next_pc, next_sr) ==
    RaiseException(m, IF ExternalPending THEN "external" ELSE "tick", next_pc, next_sr)

CheckInterrupt(m, next_pc, next_sr) ==
    IF InterruptPending THEN TakeInterrupt(m, next_pc, next_sr)
                        ELSE StartFetch(m, next_pc)

-----------------------------------------------------------------------------
(* Special purpose registers, written by l.mtspr and by the Debug Interface *)

WriteTtmr(m, word) ==
    [m EXCEPT !.mode = word.mode, !.ie = word.ie, !.ip = word.ip, !.tp = word.count]

WriteEdis(m, val) ==
    [m EXCEPT !.is_stalled = val, !.done = IF cpu.is_stalled /\ ~val THEN 0 ELSE @]

WriteCpuSpr(m, spr, word) ==
    CASE spr = "SR"    -> [m EXCEPT !.handler = "none"]  \* the value is NextSr
      [] spr = "EPCR"  -> [m EXCEPT !.epcr = word.addr]
      [] spr = "ESR"   -> [m EXCEPT !.esr = word.flags]
      [] spr = "GPR"   -> ScheduleRegisterWrite(m)
      [] spr = "PICMR" -> [m EXCEPT !.picmr = word.bit]
      [] spr = "TTMR"  -> WriteTtmr(m, word)
      [] spr = "TTCR"  -> [m EXCEPT !.ttcr = word.count]
      [] spr = "EDIS"  -> WriteEdis(m, word.bit)
      [] spr = "DRR"   -> [m EXCEPT !.reason_trap = word.bit]
      [] spr = "DSR"   -> [m EXCEPT !.trap_enabled = word.bit]
      [] spr = "DMR1"  -> [m EXCEPT !.stop1 = word.bit, !.stop2 = FALSE]
      [] spr = "DVR"   -> [m EXCEPT !.dvr = word.addr]
      [] OTHER         -> m

NextSr(spr, word) == IF spr = "SR" THEN word.flags ELSE cpu.sr
NextPc(spr, word, next_pc) == IF spr = "NPC" THEN word.addr ELSE next_pc

-----------------------------------------------------------------------------
(***************************************************************************)
(* Execution: what an instruction leaves behind, the next SR, and          *)
(* can_interrupt with the next PC while no fetch or data cycle was begun.  *)
(***************************************************************************)
Retire(m, next_pc, next_sr) ==
    [m |-> Completed(m), sr |-> next_sr, pc |-> next_pc, can_interrupt |-> TRUE]

Continue(m, next_sr) ==
    [m |-> m, sr |-> next_sr, pc |-> cpu.pc, can_interrupt |-> FALSE]

Fault(m, cause, next_sr) ==
    Continue(Completed(RaiseException(m, cause, cpu.pc, next_sr)), next_sr)

SetFlags(flags) == (cpu.sr \ {"OV", "CY"}) \cup flags

RangeTrips(flag, next_sr) ==
    "OVE" \in cpu.sr /\ flag \notin cpu.sr /\ flag \in next_sr

\* l.add, l.sub and their variants: the result is written even if it traps.
ExecuteAdd(m, flags) ==
    LET next_sr == SetFlags(flags)
        written == ScheduleRegisterWrite(m)
    IN  IF RangeTrips("OV", next_sr) THEN Fault(written, "range", next_sr)
        ELSE Retire(written, NextAddr(cpu.pc), next_sr)

ExecuteDiv(m, divisor_is_zero) ==
    LET next_sr == SetFlags(IF divisor_is_zero THEN {"CY"} ELSE {})
    IN  IF ~divisor_is_zero
        THEN Continue([m EXCEPT !.state = "dividing", !.div_valid = TRUE], next_sr)
        ELSE IF RangeTrips("CY", next_sr) THEN Fault(m, "range", next_sr)
        ELSE Retire(m, NextAddr(cpu.pc), next_sr)

ExecuteMul(m) ==
    Continue([m EXCEPT !.state = "multiplying", !.busy = MulDelay], cpu.sr)

ExecuteShift(m, amount) ==
    IF amount = 0 THEN Retire(ScheduleRegisterWrite(m), NextAddr(cpu.pc), cpu.sr)
    ELSE Continue([m EXCEPT !.state = "shifting", !.busy = amount], cpu.sr)

ExecuteTrap(m) ==
    IF cpu.trap_enabled
    THEN Continue([m EXCEPT !.reason_trap = TRUE, !.is_stalled = TRUE,
                            !.state = "stalled"], cpu.sr)
    ELSE Fault(m, "trap", cpu.sr)

ExecuteMtspr(m, spr, word) ==
    CASE spr = "invalid"    -> Fault(m, "range", cpu.sr)
      [] spr = "misaligned" -> Fault(m, "align", cpu.sr)
      [] OTHER -> Retire(WriteCpuSpr(m, spr, word),
                         NextPc(spr, word, NextAddr(cpu.pc)), NextSr(spr, word))

ExecuteRfe(m) == Retire([m EXCEPT !.handler = "none"], cpu.epcr, cpu.esr)

ExecuteInstruction(m, i) ==
    CASE i.kind = "nop"   -> Retire(m, NextAddr(cpu.pc), cpu.sr)
      [] i.kind = "alu"   -> Retire(ScheduleRegisterWrite(m), NextAddr(cpu.pc), cpu.sr)
      [] i.kind = "jump"  -> Retire(m, i.word.addr, cpu.sr)
      [] i.kind = "jal"   -> Retire(ScheduleRegisterWrite(m), i.word.addr, cpu.sr)
      [] i.kind = "add"   -> ExecuteAdd(m, i.word.flags)
      [] i.kind = "mul"   -> ExecuteMul(m)
      [] i.kind = "div"   -> ExecuteDiv(m, i.word.bit)
      [] i.kind = "shift" -> ExecuteShift(m, i.shift)
      [] i.kind = "load"  -> Continue(StartDataCycle(m, [adr |-> i.word.addr, we |-> FALSE], "data"), cpu.sr)
      [] i.kind = "store" -> Continue(StartDataCycle(m, [adr |-> i.word.addr, we |-> TRUE], "data"), cpu.sr)
      [] i.kind = "rfe"   -> ExecuteRfe(m)
      [] i.kind = "mtspr" -> ExecuteMtspr(m, i.spr, i.word)
      [] i.kind = "trap"  -> ExecuteTrap(m)
      [] i.kind = "sleep" -> Continue([m EXCEPT !.state = "sleep"], cpu.sr)
      [] i.kind = "fault" -> Fault(m, i.cause, cpu.sr)  \* l.sys, illegal, misaligned

\* cpureg_spr_sr <= next_sr comes after the task that executes the instruction.
FinishInstruction(out) ==
    LET m == [out.m EXCEPT !.sr = out.sr]
    IN  IF out.can_interrupt THEN CheckInterrupt(m, out.pc, out.sr) ELSE m

\* Mutant: an interrupt returns to the instruction that is already complete.
FinishMultiCycleStalePc(m, next_sr) ==
    LET done == Completed([m EXCEPT !.sr = next_sr])
    IN  IF InterruptPending THEN TakeInterrupt(done, cpu.pc, next_sr)
        ELSE StartFetch(done, NextAddr(cpu.pc))

\* The last clock of a data cycle, a shift, a multiplication or a division.
FinishMultiCycle(m, next_sr) ==
    CheckInterrupt(Completed([m EXCEPT !.sr = next_sr]), NextAddr(cpu.pc), next_sr)

-----------------------------------------------------------------------------
(* The Debug Unit's share of a clock edge.                                 *)

StartDebugOperation(m) ==
    IF ~op.we THEN [m EXCEPT !.state = "dbg_read"]
    ELSE IF op.spr = "READ_MEM_ADDR"
         THEN StartDataCycle(m, [adr |-> op.word.addr, we |-> FALSE], "dbg_data")
    ELSE IF op.spr = "WRITE_MEM_DATA"
         THEN StartDataCycle(m, [adr |-> op.word.addr, we |-> TRUE], "dbg_data")
    ELSE [WriteCpuSpr(m, op.spr, op.word) EXCEPT
            !.sr = NextSr(op.spr, op.word), !.pc = NextPc(op.spr, op.word, cpu.pc),
            !.state = "dbg_ack"]

WatchpointHit == cpu.trap_enabled /\ ~cpu.stop1 /\ cpu.dvr = cpu.pc

\* Mutant: the stall register is not looked at.
DebugUnitActiveIgnoringStall == stb \/ WatchpointHit
\* Mutant: the strobe is not looked at.
DebugUnitActiveIgnoringStrobe == cpu.is_stalled \/ WatchpointHit

DebugUnitActive == stb \/ cpu.is_stalled \/ WatchpointHit

\* Mutant: stop_at_next_instruction_2 outlives the debugger's operation.
CheckDebugUnitOperationStartKeepsStop2(m) ==
    IF stb THEN StartDebugOperation(m)
    ELSE IF cpu.is_stalled THEN [m EXCEPT !.state = "stalled", !.stop2 = FALSE]
    ELSE [m EXCEPT !.reason_trap = TRUE, !.is_stalled = TRUE,
                   !.state = "stalled", !.stop2 = FALSE]

CheckDebugUnitOperationStart(m) ==
    IF stb THEN [StartDebugOperation(m) EXCEPT !.stop2 = FALSE]
    ELSE IF cpu.is_stalled THEN [m EXCEPT !.state = "stalled", !.stop2 = FALSE]
    ELSE [m EXCEPT !.reason_trap = TRUE, !.is_stalled = TRUE,
                   !.state = "stalled", !.stop2 = FALSE]

-----------------------------------------------------------------------------
(***************************************************************************)
(* The clock edges, one action per outcome of the task of each state.      *)
(* Answered and Unanswered say what the Wishbone slave drives: it cannot   *)
(* acknowledge a request on the clock it appears (the RAM registers its    *)
(* answer), but it can report an error at once; wb_rty_i is handled like   *)
(* wb_err_i and "err" stands for both.                                     *)
(***************************************************************************)
Unanswered == waited' = (cpu.bus # NoRequest)
Answered(answer) ==
    cpu.bus # NoRequest /\ (answer = "ack" => waited) /\ waited' = FALSE
OffBus == cpu.bus = NoRequest /\ waited' = FALSE

Edge(m) == cpu' = m /\ UNCHANGED <<pic, stb, op>>

DoStateReset ==
    /\ cpu.state = "reset" /\ OffBus
    /\ Edge([StartFetch(StepStateMachine, Vector["reset"]) EXCEPT
               !.sr = RESET_SPR_SR, !.epcr = 0, !.esr = {}, !.picmr = FALSE,
               !.mode = 0, !.ie = FALSE, !.ip = FALSE, !.tp = 0, !.ttcr = 0,
               !.trap_enabled = FALSE, !.reason_trap = FALSE,
               !.stop1 = FALSE, !.stop2 = FALSE, !.is_stalled = FALSE,
               !.dvr = 0, !.div_valid = TRUE, !.handler = "none", !.done = 0])

FetchWait ==
    /\ cpu.state = "fetch" /\ Unanswered
    /\ Edge(StartFetch(StepStateMachine, cpu.pc))

FetchSingleStepped ==
    /\ cpu.state = "fetch" /\ cpu.stop2
    /\ \E answer \in {"ack", "err"} : Answered(answer)
    /\ Edge([StepStateMachine EXCEPT !.is_stalled = TRUE, !.stop2 = FALSE,
                                     !.state = "stalled"])

FetchDebugged ==
    /\ cpu.state = "fetch" /\ ~cpu.stop2 /\ DebugUnitActive
    /\ \E answer \in {"ack", "err"} : Answered(answer)
    /\ Edge(CheckDebugUnitOperationStart(StepStateMachine))

FetchExecute(i) ==
    /\ cpu.state = "fetch" /\ ~cpu.stop2 /\ ~DebugUnitActive
    /\ Answered("ack")
    /\ Edge(FinishInstruction(
              ExecuteInstruction([StepStateMachine EXCEPT !.stop2 = cpu.stop1], i)))

FetchError ==
    /\ cpu.state = "fetch" /\ ~cpu.stop2 /\ ~DebugUnitActive
    /\ Answered("err")
    /\ Edge(BusError(StepStateMachine))

\* Mutant: the request is withdrawn when it is not answered at once.
KeepDataCycleDropped ==
    /\ cpu.state \in {"data", "dbg_data"} /\ Unanswered
    /\ Edge(StepStateMachine)

KeepDataCycle ==
    /\ cpu.state \in {"data", "dbg_data"} /\ Unanswered
    /\ Edge([StepStateMachine EXCEPT !.bus = cpu.wishdat])

DataAcknowledged ==
    /\ cpu.state = "data" /\ Answered("ack")
    /\ LET m == IF cpu.wishdat.we THEN StepStateMachine
                ELSE ScheduleRegisterWrite(StepStateMachine)
       IN  Edge(FinishMultiCycle(m, cpu.sr))

DataError ==
    /\ cpu.state = "data" /\ Answered("err")
    /\ Edge(Completed(BusError(StepStateMachine)))

SleepDebugged ==
    /\ cpu.state = "sleep" /\ OffBus /\ DebugUnitActive
    /\ Edge(CheckDebugUnitOperationStart(StepStateMachine))

\* Mutant: a sleeping CPU does not look at its interrupts.
SleepGoesOnForever ==
    cpu.state = "sleep" /\ OffBus /\ ~DebugUnitActive /\ Edge(StepStateMachine)

\* Mutant: the interrupt returns to the l.sleep.
SleepGoesOnStalePc ==
    /\ cpu.state = "sleep" /\ OffBus /\ ~DebugUnitActive
    /\ Edge(IF InterruptPending
            THEN Completed(TakeInterrupt(StepStateMachine, cpu.pc, cpu.sr))
            ELSE StepStateMachine)

SleepGoesOn ==
    /\ cpu.state = "sleep" /\ OffBus /\ ~DebugUnitActive
    /\ Edge(IF InterruptPending
            THEN Completed(TakeInterrupt(StepStateMachine, NextAddr(cpu.pc), cpu.sr))
            ELSE StepStateMachine)

Shifting ==
    /\ cpu.state = "shifting" /\ OffBus
    /\ Edge(IF cpu.busy = 1
            THEN FinishMultiCycle([ScheduleRegisterWrite(StepStateMachine) EXCEPT !.busy = 0],
                                  cpu.sr)
            ELSE [StepStateMachine EXCEPT !.busy = @ - 1])

MultiplyingWait ==
    /\ cpu.state = "multiplying" /\ cpu.busy # 0 /\ OffBus
    /\ Edge([StepStateMachine EXCEPT !.busy = @ - 1])

\* l.mul may overflow, l.mulu may carry: never both.
MultiplyingDone ==
    /\ cpu.state = "multiplying" /\ cpu.busy = 0 /\ OffBus
    /\ \E flags \in {{}, {"OV"}, {"CY"}} :
         LET next_sr == SetFlags(flags)
             written == [ScheduleRegisterWrite(StepStateMachine) EXCEPT !.sr = next_sr]
         IN  Edge(IF RangeTrips("OV", next_sr)
                  THEN Completed(RaiseException(written, "range", cpu.pc, next_sr))
                  ELSE FinishMultiCycle(written, next_sr))

\* The divider takes the operands (tready) and answers at some later clock.
DividingWait == cpu.state = "dividing" /\ OffBus /\ Edge(StepStateMachine)

DividerAccepts ==
    /\ cpu.state = "dividing" /\ cpu.div_valid /\ OffBus
    /\ Edge([StepStateMachine EXCEPT !.div_valid = FALSE])

DividingDone ==
    /\ cpu.state = "dividing" /\ ~cpu.div_valid /\ OffBus
    /\ Edge(FinishMultiCycle(ScheduleRegisterWrite(StepStateMachine), cpu.sr))

DebugRegFileRead ==
    /\ cpu.state = "dbg_read" /\ OffBus
    /\ Edge([StepStateMachine EXCEPT !.state = "dbg_ack"])

DebugAckAssert ==
    /\ cpu.state = "dbg_ack" /\ OffBus
    /\ Edge([StepStateMachine EXCEPT !.dbg_ack = TRUE, !.state = "dbg_stb"])

DebugStbDeassert ==
    /\ cpu.state = "dbg_stb" /\ OffBus
    /\ LET done == [StepStateMachine EXCEPT !.dbg_ack = FALSE]
       IN  Edge(IF stb THEN StepStateMachine
                ELSE IF cpu.is_stalled THEN [done EXCEPT !.state = "stalled"]
                ELSE StartFetch(done, cpu.pc))

DebugStalled ==
    /\ cpu.state = "stalled" /\ OffBus
    /\ Edge(IF stb THEN StartDebugOperation(StepStateMachine)
            ELSE IF ~cpu.is_stalled THEN StartFetch(StepStateMachine, cpu.pc)
            ELSE StepStateMachine)

DebugDataAnswered ==
    /\ cpu.state = "dbg_data" /\ \E answer \in {"ack", "err"} : Answered(answer)
    /\ Edge([StepStateMachine EXCEPT !.state = "dbg_ack"])

\* Edges on which a slave or the divider gives the answer the CPU waits for.
Answers ==
    \/ FetchSingleStepped \/ FetchDebugged \/ \E i \in Program : FetchExecute(i)
    \/ FetchError \/ DataAcknowledged \/ DataError \/ DebugDataAnswered
    \/ DividerAccepts \/ DividingDone

Clock ==
    \/ Answers
    \/ DoStateReset \/ FetchWait \/ KeepDataCycle \/ SleepDebugged \/ SleepGoesOn
    \/ Shifting \/ MultiplyingWait \/ MultiplyingDone \/ DividingWait
    \/ DebugRegFileRead \/ DebugAckAssert \/ DebugStbDeassert \/ DebugStalled

-----------------------------------------------------------------------------
(* The outside: the interrupt line and the Debug Interface.                *)

PicChanges == HasPic /\ pic' = ~pic /\ UNCHANGED <<cpu, waited, stb, op>>

\* tap_or10 raises the strobe once the acknowledge of the last one is gone.
DebugRequest ==
    /\ ~stb /\ ~cpu.dbg_ack
    /\ stb' = TRUE
    /\ op' \in IF cpu.is_stalled THEN DebugOps ELSE RunningOps
    /\ UNCHANGED <<cpu, waited, pic>>

DebugRelease ==
    /\ stb /\ cpu.dbg_ack
    /\ stb' = FALSE /\ op' = NoRequest
    /\ UNCHANGED <<cpu, waited, pic>>

Init ==
    /\ cpu = [state |-> "reset", pc |-> 0, sr |-> RESET_SPR_SR, epcr |-> 0,
              esr |-> {}, picmr |-> FALSE, mode |-> 0, ie |-> FALSE, ip |-> FALSE,
              tp |-> 0, ttcr |-> 0, trap_enabled |-> FALSE, reason_trap |-> FALSE,
              stop1 |-> FALSE, stop2 |-> FALSE, is_stalled |-> FALSE, dvr |-> 0,
              bus |-> NoRequest, wishdat |-> NoRequest, gpr_write |-> FALSE,
              busy |-> 0, div_valid |-> FALSE, dbg_ack |-> FALSE,
              handler |-> "none", done |-> 0]
    /\ waited = FALSE /\ pic = FALSE /\ stb = FALSE /\ op = NoRequest

Next == Clock \/ PicChanges \/ DebugRequest \/ DebugRelease

Spec == Init /\ [][Next]_vars

\* The clock runs, slaves and divider answer, the client ends its strobe.
Fairness == WF_vars(Clock) /\ WF_vars(Answers) /\ WF_vars(DebugRelease)

LiveSpec == Spec /\ Fairness

-----------------------------------------------------------------------------
(***************************************************************************)
(* Safety                                                                  *)
(***************************************************************************)

\* The Wishbone outputs always belong to the state the CPU is in: a fetch of
\* cpureg_pc, the data cycle it began, or no request at all.  A lemma on the way
\* to WishboneStable, proved rather than run.
BusMatchesState ==
    cpu.bus = CASE cpu.state = "fetch"                 -> [adr |-> cpu.pc, we |-> FALSE]
                [] cpu.state \in {"data", "dbg_data"}  -> cpu.wishdat
                [] OTHER                               -> NoRequest

\* A request that a slave has seen and not answered is repeated unchanged on
\* the next clock, across every path that rebuilds the bus outputs.
WishboneStable == [][waited' => cpu'.bus = cpu.bus]_vars

\* The first port of the register file, shared by reads and the delayed write,
\* is never still writing when an instruction or the debugger reads through it.
RegisterFilePortFree ==
    (cpu.state = "fetch" /\ waited) \/ cpu.state = "dbg_read" => ~cpu.gpr_write

\* While the CPU is stalled nothing executes and no interrupt is taken: only a
\* write by the debugger changes what the program will see.
Visible == <<cpu.pc, cpu.sr, cpu.epcr, cpu.esr, cpu.picmr, cpu.handler>>
StalledCpuIsFrozen ==
    [][cpu.is_stalled => Visible' = Visible \/ (stb /\ op.we)]_vars

\* A CPU resumed in single-step mode completes one instruction, no more and no
\* less, before the single-step mode stalls it again.
SingleStepIsExact == [][FetchSingleStepped => cpu.done = 1]_vars

\* The timer reaching TTMR[TP] leaves an interrupt pending unless the CPU is
\* writing TTMR on that very clock.
WritesTtmr == \/ \E i \in Program : i.kind = "mtspr" /\ i.spr = "TTMR" /\ FetchExecute(i)
              \/ stb /\ op.we /\ op.spr = "TTMR"
TickIsRecorded ==
    [][cpu.ie /\ TimerMatch /\ cpu.state \notin {"reset", "stalled"} /\ ~cpu'.ip
         => WritesTtmr]_cpu

\* "External and Timer Interrupts must wait for the first exception handler to
\* enable exceptions again": between the entry into a handler and its first write
\* to SR no interrupt is taken (the comment above internal_raise_exception).  The
\* code does not keep to it, and no run checks it: see section 5 of the README.
InterruptsWaitForHandler ==
    [][cpu.handler = "exception" => cpu'.handler # "interrupt"]_vars

\* Instruction by instruction the CPU does what Or1kArch says, whatever fetches,
\* data cycles, debug accesses and clocks lie between.
Arch == INSTANCE Or1kArch WITH
            pc <- IF cpu.state = "reset" THEN Vector["reset"] ELSE cpu.pc,
            sr <- cpu.sr, epcr <- cpu.epcr, esr <- cpu.esr,
            DebugOps <- DebugOps \cup RunningOps
ImplementsOr1kArch == Arch!Spec

(***************************************************************************)
(* Liveness                                                                *)
(***************************************************************************)

\* Whatever the CPU is doing - sleeping, dividing, waiting for a slave - a
\* debugger's request is answered.
DebugIsAnswered == stb ~> cpu.dbg_ack

\* An enabled interrupt is taken in the end, unless it goes away, software
\* masks it, or the debugger steps in: each of its accesses repeats a fetch.
InterruptIsServed ==
    InterruptPending ~> \/ cpu.handler = "interrupt" \/ ~InterruptPending
                        \/ stb \/ cpu.is_stalled

=============================================================================

-------------------------- MODULE Or10Core_proofs ---------------------------
(***************************************************************************)
(* Proofs about Or10Core, for every program, every set of debugger's       *)
(* operations, every address space and every multiplier: the registers     *)
(* stay in their ranges, the Wishbone outputs always belong to the state   *)
(* the CPU is in and a request is never changed before its answer, nobody  *)
(* reads through a port of the register file that is still writing, a      *)
(* stalled CPU does not move by itself, the timer loses no tick, and a     *)
(* single step of the debugger is one instruction.                         *)
(***************************************************************************)
EXTENDS Or10Core, TLAPS

(* The states in which an instruction, or the reset, is not yet complete   *)
(* and the Debug Unit has not stopped the CPU.                             *)
Executing == {"reset", "data", "shifting", "multiplying", "dividing", "sleep"}

(* The registers as every task must leave them: in their ranges, with the  *)
(* bus outputs of the state. A stalled CPU is between two instructions;    *)
(* the clock before the debugger reads the register file has ended its     *)
(* write.                                                                  *)
Settled(m) ==
    /\ m \in CpuRegisters
    /\ m.state = "fetch" => m.bus = [adr |-> m.pc, we |-> FALSE]
    /\ m.state \in {"data", "dbg_data"} => m.bus = m.wishdat /\ m.wishdat \in Request
    /\ m.state \notin {"fetch", "data", "dbg_data"} => m.bus = NoRequest
    /\ m.state = "shifting" => m.busy # 0
    /\ m.state = "dbg_read" => ~m.gpr_write
    /\ m.is_stalled => m.state \notin Executing

(* The inductive invariant. The write enable of the register file falls on *)
(* the first clock of a fetch, before a slave can answer; while there is   *)
(* no strobe there is no operation.                                        *)
CoreInv ==
    /\ Settled(cpu)
    /\ cpu.state = "fetch" /\ waited => ~cpu.gpr_write
    /\ waited \in BOOLEAN /\ pic \in BOOLEAN /\ stb \in BOOLEAN
    /\ IF stb THEN op \in DebugOp ELSE op = NoRequest

(* What the readers of a word take of it.                                  *)
LEMMA WordFields ==
  ASSUME NEW word \in Word
  PROVE  /\ word.addr \in Addr /\ word.flags \in SUBSET Flags /\ word.bit \in BOOLEAN
         /\ word.count \in 0 .. TimerSize - 1
         /\ word.mode \in 0 .. 3 /\ word.ie \in BOOLEAN /\ word.ip \in BOOLEAN
BY DEF Word

(* The states the tasks name.                                              *)
LEMMA StateNames == /\ "reset" \in States /\ "stalled" \in States /\ "dbg_ack" \in States
                    /\ "dbg_read" \in States /\ "dbg_stb" \in States
                    /\ "shifting" \in States /\ "sleep" \in States
                    /\ "multiplying" \in States /\ "dividing" \in States
BY DEF States

(* The registers of a CPU that stalls are in their ranges.                 *)
LEMMA StallTypes ==
  ASSUME NEW m \in CpuRegisters
  PROVE  /\ [m EXCEPT !.state = "stalled", !.stop2 = FALSE] \in CpuRegisters
         /\ [m EXCEPT !.reason_trap = TRUE, !.is_stalled = TRUE, !.state = "stalled"]
              \in CpuRegisters
         /\ [m EXCEPT !.reason_trap = TRUE, !.is_stalled = TRUE,
                      !.state = "stalled", !.stop2 = FALSE] \in CpuRegisters
<1> DEFINE n == [m EXCEPT !.reason_trap = TRUE, !.is_stalled = TRUE]
<1>1. n \in CpuRegisters
  BY DEF CpuRegisters
<1>2. \A r \in CpuRegisters : [r EXCEPT !.state = "stalled", !.stop2 = FALSE] \in CpuRegisters
  BY StateNames, ZenonT(60) DEF CpuRegisters
<1>3. \A r \in CpuRegisters : [r EXCEPT !.state = "stalled"] \in CpuRegisters
  BY StateNames DEF CpuRegisters
<1> HIDE DEF n
<1>4. [n EXCEPT !.state = "stalled"] \in CpuRegisters
      /\ [n EXCEPT !.state = "stalled", !.stop2 = FALSE] \in CpuRegisters
  BY <1>1, <1>2, <1>3
<1> QED BY <1>2, <1>4 DEF n

(* The PC of the next instruction is an address: it wraps.                 *)
LEMMA NextAddrType ==
  ASSUME NEW a \in Addr
  PROVE  NextAddr(a) \in Addr
BY SizeAssumption DEF NextAddr, Addr

(* Fields that StepStateMachine leaves alone, and those it moves. *)
LEMMA StepFacts ==
  ASSUME cpu \in CpuRegisters
  PROVE  /\ StepStateMachine \in CpuRegisters
         /\ StepStateMachine.bus = NoRequest /\ ~StepStateMachine.gpr_write
         /\ cpu.state \notin {"reset", "stalled"} /\ cpu.ie /\ TimerMatch
                => StepStateMachine.ip
         /\ StepStateMachine = [cpu EXCEPT !.bus = NoRequest, !.gpr_write = FALSE,
                !.ttcr = StepStateMachine.ttcr, !.ip = StepStateMachine.ip]
<1> DEFINE m == StopRegisterFileWrite(StopWishboneCycle(cpu))
           t == IF Increments THEN (m.ttcr + 1) % TimerSize
                       ELSE IF cpu.mode = 1 /\ TimerMatch THEN 0 ELSE m.ttcr
           p == m.ip \/ (cpu.ie /\ TimerMatch)
<1>1. m \in CpuRegisters
  BY DEF CpuRegisters, StopRegisterFileWrite, StopWishboneCycle, Request
<1>8. m = [cpu EXCEPT !.bus = NoRequest, !.gpr_write = FALSE] /\ m.ip = cpu.ip
  BY DEF CpuRegisters, StopRegisterFileWrite, StopWishboneCycle
<1> HIDE DEF m
<1>2. t \in 0 .. TimerSize - 1
  BY <1>1, SizeAssumption DEF CpuRegisters
<1>3. p \in BOOLEAN
  OBVIOUS
<1>4. UpdateTickTimer(m) = [m EXCEPT !.ttcr = t, !.ip = p]
  BY DEF UpdateTickTimer
<1>9. cpu.ie /\ TimerMatch => p
  OBVIOUS
<1> HIDE DEF p, t
<1>5. UpdateTickTimer(m) \in CpuRegisters
  BY <1>1, <1>2, <1>3, <1>4, ZenonT(60) DEF CpuRegisters
<1>6. CASE cpu.state \in {"reset", "stalled"}
  <2>1. StepStateMachine = m
    BY <1>6 DEF StepStateMachine, m
  <2>2. StepStateMachine = [cpu EXCEPT !.bus = NoRequest, !.gpr_write = FALSE,
                !.ttcr = StepStateMachine.ttcr, !.ip = StepStateMachine.ip]
    BY <2>1, <1>8 DEF CpuRegisters
  <2> QED BY <1>1, <1>8, <1>6, <2>1, <2>2 DEF CpuRegisters
<1>7. CASE cpu.state \notin {"reset", "stalled"}
  <2>1. StepStateMachine = UpdateTickTimer(m)
    BY <1>7 DEF StepStateMachine, m
  <2>2. StepStateMachine.ip = p /\ StepStateMachine.ttcr = t
    BY <2>1, <1>4, <1>1 DEF CpuRegisters
  <2>3. StepStateMachine.bus = NoRequest /\ StepStateMachine.gpr_write = FALSE
    BY <2>1, <1>4, <1>1, <1>8 DEF CpuRegisters
  <2>4. StepStateMachine = [cpu EXCEPT !.bus = NoRequest, !.gpr_write = FALSE,
                !.ttcr = StepStateMachine.ttcr, !.ip = StepStateMachine.ip]
    BY <2>1, <2>2, <1>4, <1>1, <1>8 DEF CpuRegisters
  <2> QED BY <2>1, <2>2, <2>3, <2>4, <1>5, <1>7, <1>9
<1> QED BY <1>6, <1>7

(* start_wishbone_instruction_fetch_cycle leaves the CPU fetching from its *)
(* PC.                                                                     *)
LEMMA StartFetchSettled ==
  ASSUME NEW m \in CpuRegisters, NEW a \in Addr
  PROVE  Settled(StartFetch(m, a))
BY DEF StartFetch, CpuRegisters, States, Request, Settled, Executing

(* raise_exception leaves the CPU fetching from the vector.                *)
LEMMA RaiseExceptionSettled ==
  ASSUME NEW m \in CpuRegisters, NEW cause \in Causes, NEW p \in Addr, NEW s \in SUBSET Flags
  PROVE  Settled(RaiseException(m, cause, p, s))
<1> DEFINE f == StartFetch(m, Vector[cause])
<1>1. Settled(f)
  BY StartFetchSettled, VectorAssumption
<1>2. RaiseException(m, cause, p, s) =
        [f EXCEPT !.epcr = p, !.esr = s, !.sr = {}, !.handler = HandlerOf(cause)]
  BY DEF RaiseException, RESET_SPR_SR
<1>3. HandlerOf(cause) \in {"exception", "interrupt"}
  BY DEF HandlerOf
<1> HIDE DEF f
<1>4. RaiseException(m, cause, p, s) \in CpuRegisters
  BY <1>1, <1>2, <1>3, ZenonT(60) DEF Settled, CpuRegisters
<1> QED BY <1>1, <1>2, <1>4 DEF Settled, CpuRegisters

(* So do the check for interrupts and an interrupt that is taken.          *)
LEMMA CheckInterruptSettled ==
  ASSUME NEW m \in CpuRegisters, NEW p \in Addr, NEW s \in SUBSET Flags
  PROVE  Settled(CheckInterrupt(m, p, s)) /\ Settled(TakeInterrupt(m, p, s))
BY StartFetchSettled, RaiseExceptionSettled DEF CheckInterrupt, TakeInterrupt, Causes

(* The history variable disturbs nothing.                                  *)
LEMMA CompletedSettled ==
  ASSUME NEW m \in CpuRegisters
  PROVE  /\ Completed(m) \in CpuRegisters
         /\ Settled(m) => Settled(Completed(m))
<1> DEFINE d == IF m.done < 2 THEN m.done + 1 ELSE m.done
<1>1. d \in 0 .. 2
  BY DEF CpuRegisters
<1>2. Completed(m) = [m EXCEPT !.done = d]
  BY DEF Completed
<1> HIDE DEF d
<1>3. Completed(m) \in CpuRegisters
  BY <1>1, <1>2 DEF CpuRegisters
<1>4. Settled(m) => Settled(Completed(m))
  BY <1>2, <1>3 DEF Settled, CpuRegisters
<1> QED BY <1>3, <1>4

(* The last clock of an instruction of several clocks begins a fetch.      *)
LEMMA FinishMultiCycleSettled ==
  ASSUME NEW m \in CpuRegisters, cpu \in CpuRegisters, NEW s \in SUBSET Flags
  PROVE  Settled(FinishMultiCycle(m, s))
<1>1. [m EXCEPT !.sr = s] \in CpuRegisters
  BY DEF CpuRegisters
<1>2. cpu.pc \in Addr
  BY DEF CpuRegisters
<1> QED BY <1>1, <1>2, NextAddrType, CompletedSettled, CheckInterruptSettled
        DEF FinishMultiCycle

(* A write to the stall register keeps the registers in their ranges.      *)
LEMMA WriteEdisType ==
  ASSUME NEW m \in CpuRegisters, NEW val \in BOOLEAN
  PROVE  WriteEdis(m, val) \in CpuRegisters
<1> DEFINE d == IF cpu.is_stalled /\ ~val THEN 0 ELSE m.done
<1>1. d \in 0 .. 2
  BY DEF CpuRegisters
<1>2. WriteEdis(m, val) = [m EXCEPT !.is_stalled = val, !.done = d]
  BY DEF WriteEdis
<1> HIDE DEF d
<1> QED BY <1>1, <1>2, ZenonT(60) DEF CpuRegisters

(* So does a write to any other SPR.                                       *)
LEMMA WriteCpuSprType ==
  ASSUME NEW m \in CpuRegisters, NEW spr \in Sprs, NEW word \in Word
  PROVE  WriteCpuSpr(m, spr, word) \in CpuRegisters
<1> USE WordFields
<1>1. WriteTtmr(m, word) \in CpuRegisters
  BY DEF WriteTtmr, CpuRegisters
<1>2. WriteEdis(m, word.bit) \in CpuRegisters
  BY WriteEdisType
<1>3. ScheduleRegisterWrite(m) \in CpuRegisters
  BY DEF ScheduleRegisterWrite, CpuRegisters
<1>4. [m EXCEPT !.handler = "none"] \in CpuRegisters
  BY DEF CpuRegisters
<1>5. /\ [m EXCEPT !.epcr = word.addr] \in CpuRegisters
      /\ [m EXCEPT !.esr = word.flags] \in CpuRegisters
      /\ [m EXCEPT !.dvr = word.addr] \in CpuRegisters
  BY DEF CpuRegisters
<1>6. /\ [m EXCEPT !.picmr = word.bit] \in CpuRegisters
      /\ [m EXCEPT !.ttcr = word.count] \in CpuRegisters
  BY DEF CpuRegisters
<1>7. /\ [m EXCEPT !.reason_trap = word.bit] \in CpuRegisters
      /\ [m EXCEPT !.trap_enabled = word.bit] \in CpuRegisters
      /\ [m EXCEPT !.stop1 = word.bit, !.stop2 = FALSE] \in CpuRegisters
  BY ZenonT(60) DEF CpuRegisters
<1> QED BY <1>1, <1>2, <1>3, <1>4, <1>5, <1>6, <1>7 DEF WriteCpuSpr

(* The SR and the PC that a write to an SPR leaves are in their ranges.    *)
LEMMA NextTypes ==
  ASSUME cpu \in CpuRegisters, NEW spr \in Sprs, NEW word \in Word, NEW p \in Addr
  PROVE  NextSr(spr, word) \in SUBSET Flags /\ NextPc(spr, word, p) \in Addr
BY WordFields DEF NextSr, NextPc, CpuRegisters

-----------------------------------------------------------------------------
(* The registers an instruction finds: nothing on the bus, nothing being   *)
(* written.                                                                *)
Idle(m) ==
    /\ m \in CpuRegisters
    /\ m.bus = NoRequest /\ ~m.gpr_write /\ m.state = "fetch" /\ ~m.is_stalled

(* The outcome of an instruction: either a next PC, or the outputs of the  *)
(* state it has entered.                                                   *)
Sound(out) ==
    /\ out.m \in CpuRegisters /\ out.sr \in SUBSET Flags /\ out.pc \in Addr
    /\ out.can_interrupt \/ Settled(out.m)

(* An instruction that ends in one clock.                                  *)
LEMMA RetireSound ==
  ASSUME NEW m \in CpuRegisters, NEW p \in Addr, NEW s \in SUBSET Flags
  PROVE  Sound(Retire(m, p, s))
BY CompletedSettled DEF Sound, Retire

(* An instruction that needs more clocks, and has set up the bus for them. *)
LEMMA ContinueSound ==
  ASSUME NEW m, Settled(m), NEW s \in SUBSET Flags, cpu \in CpuRegisters
  PROVE  Sound(Continue(m, s))
<1>1. m \in CpuRegisters /\ cpu.pc \in Addr
  BY DEF Settled, CpuRegisters
<1> QED BY <1>1 DEF Sound, Continue

(* An instruction that faults.                                             *)
LEMMA FaultSound ==
  ASSUME NEW m \in CpuRegisters, NEW cause \in Causes, NEW s \in SUBSET Flags,
         cpu \in CpuRegisters
  PROVE  Sound(Fault(m, cause, s))
<1>1. cpu.pc \in Addr
  BY DEF CpuRegisters
<1>2. Settled(RaiseException(m, cause, cpu.pc, s))
  BY <1>1, RaiseExceptionSettled
<1>3. Settled(Completed(RaiseException(m, cause, cpu.pc, s)))
  BY <1>2, CompletedSettled DEF Settled
<1> QED BY <1>3, ContinueSound DEF Fault

(* A scheduled register write keeps the registers in their ranges.         *)
LEMMA ScheduledType ==
  ASSUME NEW m \in CpuRegisters
  PROVE  ScheduleRegisterWrite(m) \in CpuRegisters
BY DEF ScheduleRegisterWrite, CpuRegisters

(* The flags of an arithmetic instruction make an SR.                      *)
LEMMA SetFlagsType ==
  ASSUME cpu \in CpuRegisters, NEW flags \in SUBSET Flags
  PROVE  SetFlags(flags) \in SUBSET Flags
BY DEF SetFlags, CpuRegisters

(* execute_add and its kin.                                                *)
LEMMA ExecuteAddSound ==
  ASSUME NEW m \in CpuRegisters, cpu \in CpuRegisters, NEW flags \in SUBSET Flags
  PROVE  Sound(ExecuteAdd(m, flags))
<1>1. ScheduleRegisterWrite(m) \in CpuRegisters /\ SetFlags(flags) \in SUBSET Flags
      /\ NextAddr(cpu.pc) \in Addr
  BY ScheduledType, SetFlagsType, NextAddrType DEF CpuRegisters
<1> QED BY <1>1, FaultSound, RetireSound DEF ExecuteAdd, Causes

(* execute_div: a division by zero ends at once.                           *)
LEMMA ExecuteDivSound ==
  ASSUME NEW m, Idle(m), cpu \in CpuRegisters, NEW zero \in BOOLEAN
  PROVE  Sound(ExecuteDiv(m, zero))
<1> DEFINE s == SetFlags(IF zero THEN {"CY"} ELSE {})
<1>1. s \in SUBSET Flags
  BY SetFlagsType DEF Flags
<1>2. NextAddr(cpu.pc) \in Addr /\ m \in CpuRegisters
  BY NextAddrType DEF CpuRegisters, Idle
<1>3. Settled([m EXCEPT !.state = "dividing", !.div_valid = TRUE])
  BY StateNames, ZenonT(60) DEF Idle, Settled, CpuRegisters, Executing
<1>4. ExecuteDiv(m, zero) =
        IF ~zero THEN Continue([m EXCEPT !.state = "dividing", !.div_valid = TRUE], s)
        ELSE IF RangeTrips("CY", s) THEN Fault(m, "range", s)
        ELSE Retire(m, NextAddr(cpu.pc), s)
  BY DEF ExecuteDiv
<1> HIDE DEF s
<1> QED BY <1>1, <1>2, <1>3, <1>4, ContinueSound, FaultSound, RetireSound DEF Causes

(* execute_mul.                                                            *)
LEMMA ExecuteMulSound ==
  ASSUME NEW m, Idle(m), cpu \in CpuRegisters
  PROVE  Sound(ExecuteMul(m))
<1>1. cpu.sr \in SUBSET Flags /\ MulDelay \in 0 .. MaxShift + MulDelay
  BY SizeAssumption DEF CpuRegisters
<1>2. Settled([m EXCEPT !.state = "multiplying", !.busy = MulDelay])
  BY <1>1, StateNames, ZenonT(60) DEF Idle, Settled, CpuRegisters, Executing
<1> QED BY <1>1, <1>2, ContinueSound DEF ExecuteMul

(* execute_shift: the shifter never starts with nothing to shift.          *)
LEMMA ExecuteShiftSound ==
  ASSUME NEW m, Idle(m), cpu \in CpuRegisters, NEW amount \in 0 .. MaxShift
  PROVE  Sound(ExecuteShift(m, amount))
<1>1. cpu.sr \in SUBSET Flags /\ NextAddr(cpu.pc) \in Addr
  BY NextAddrType DEF CpuRegisters
<1>2. CASE amount = 0
  BY <1>1, <1>2, ScheduledType, RetireSound DEF ExecuteShift, Idle
<1>3. CASE amount # 0
  <2>1. amount \in 0 .. MaxShift + MulDelay
    BY SizeAssumption
  <2>2. Settled([m EXCEPT !.state = "shifting", !.busy = amount])
    <3>1. [m EXCEPT !.state = "shifting", !.busy = amount] \in CpuRegisters
      BY <2>1, StateNames, ZenonT(60) DEF Idle, CpuRegisters
    <3> QED BY <1>3, <3>1 DEF Idle, Settled, CpuRegisters, Executing
  <2> QED BY <1>1, <1>3, <2>2, ContinueSound DEF ExecuteShift
<1> QED BY <1>2, <1>3

(* execute_trap, which may stall the CPU.                                  *)
LEMMA ExecuteTrapSound ==
  ASSUME NEW m, Idle(m), cpu \in CpuRegisters
  PROVE  Sound(ExecuteTrap(m))
<1>1. cpu.sr \in SUBSET Flags /\ m \in CpuRegisters
  BY DEF CpuRegisters, Idle
<1>2. Settled([m EXCEPT !.reason_trap = TRUE, !.is_stalled = TRUE, !.state = "stalled"])
  <2>1. [m EXCEPT !.reason_trap = TRUE, !.is_stalled = TRUE, !.state = "stalled"]
          \in CpuRegisters
    BY StallTypes DEF Idle
  <2> QED BY <2>1 DEF Idle, Settled, CpuRegisters, Executing
<1> QED BY <1>1, <1>2, ContinueSound, FaultSound DEF ExecuteTrap, Causes

(* execute_mtspr.                                                          *)
LEMMA ExecuteMtsprSound ==
  ASSUME NEW m \in CpuRegisters, cpu \in CpuRegisters, NEW spr \in Sprs, NEW word \in Word
  PROVE  Sound(ExecuteMtspr(m, spr, word))
<1>1. cpu.sr \in SUBSET Flags /\ NextAddr(cpu.pc) \in Addr
  BY NextAddrType DEF CpuRegisters
<1>2. Sound(Fault(m, "range", cpu.sr)) /\ Sound(Fault(m, "align", cpu.sr))
  BY <1>1, FaultSound DEF Causes
<1>3. Sound(Retire(WriteCpuSpr(m, spr, word), NextPc(spr, word, NextAddr(cpu.pc)),
                   NextSr(spr, word)))
  BY <1>1, WriteCpuSprType, NextTypes, RetireSound
<1> QED BY <1>2, <1>3 DEF ExecuteMtspr

(* start_wishbone_data_cycle drives the request that it remembers.         *)
LEMMA DataCycleSettled ==
  ASSUME NEW m \in CpuRegisters, NEW request \in Request, NEW state \in {"data", "dbg_data"},
         state = "data" => ~m.is_stalled
  PROVE  Settled(StartDataCycle(m, request, state))
BY DEF StartDataCycle, Settled, CpuRegisters, States, Executing

(* Every instruction has one of these outcomes.                            *)
LEMMA ExecuteSound ==
  ASSUME NEW m, Idle(m), cpu \in CpuRegisters, NEW i \in Instruction
  PROVE  Sound(ExecuteInstruction(m, i))
<1>1. /\ cpu.sr \in SUBSET Flags /\ cpu.pc \in Addr /\ cpu.epcr \in Addr
      /\ cpu.esr \in SUBSET Flags /\ NextAddr(cpu.pc) \in Addr
      /\ m \in CpuRegisters /\ ScheduleRegisterWrite(m) \in CpuRegisters
  BY NextAddrType, ScheduledType DEF CpuRegisters, Idle
<1>2. /\ i.word \in Word /\ i.kind \in Kinds /\ i.spr \in Sprs
      /\ i.cause \in Causes /\ i.shift \in 0 .. MaxShift
  BY DEF Instruction
<1>3. i.word.addr \in Addr /\ i.word.flags \in SUBSET Flags /\ i.word.bit \in BOOLEAN
  BY <1>2, WordFields
<1>4. CASE i.kind \in {"nop", "alu", "jump", "jal"}
  BY <1>1, <1>3, <1>4, RetireSound DEF ExecuteInstruction
<1>5. CASE i.kind = "add"
  BY <1>1, <1>3, <1>5, ExecuteAddSound DEF ExecuteInstruction
<1>6. CASE i.kind = "mul"
  BY <1>6, ExecuteMulSound DEF ExecuteInstruction
<1>7. CASE i.kind = "div"
  BY <1>3, <1>7, ExecuteDivSound DEF ExecuteInstruction
<1>8. CASE i.kind = "shift"
  BY <1>2, <1>8, ExecuteShiftSound DEF ExecuteInstruction
<1>9. CASE i.kind \in {"load", "store"}
  <2>1. \A we \in BOOLEAN :
          Settled(StartDataCycle(m, [adr |-> i.word.addr, we |-> we], "data"))
    BY <1>1, <1>3, DataCycleSettled DEF Request, Idle
  <2> QED BY <1>1, <1>9, <2>1, ContinueSound DEF ExecuteInstruction
<1>10. CASE i.kind = "rfe"
  <2>1. [m EXCEPT !.handler = "none"] \in CpuRegisters
    BY <1>1 DEF CpuRegisters
  <2> QED BY <1>1, <1>10, <2>1, RetireSound DEF ExecuteInstruction, ExecuteRfe
<1>11. CASE i.kind = "mtspr"
  BY <1>1, <1>2, <1>11, ExecuteMtsprSound DEF ExecuteInstruction
<1>12. CASE i.kind = "trap"
  BY <1>12, ExecuteTrapSound DEF ExecuteInstruction
<1>13. CASE i.kind = "sleep"
  <2>1. Settled([m EXCEPT !.state = "sleep"])
    BY StateNames DEF Idle, Settled, CpuRegisters, Executing
  <2> QED BY <1>1, <1>13, <2>1, ContinueSound DEF ExecuteInstruction
<1>14. CASE i.kind = "fault"
  BY <1>1, <1>2, <1>14, FaultSound DEF ExecuteInstruction
<1> QED BY <1>2, <1>4, <1>5, <1>6, <1>7, <1>8, <1>9, <1>10, <1>11, <1>12, <1>13, <1>14
        DEF Kinds

(* What follows the task of the instruction, on the same clock.            *)
LEMMA FinishSettled ==
  ASSUME NEW out, Sound(out)
  PROVE  Settled(FinishInstruction(out))
<1> DEFINE m == [out.m EXCEPT !.sr = out.sr]
<1>1. m \in CpuRegisters
  BY DEF Sound, CpuRegisters
<1>2. out.can_interrupt \/ Settled(m)
  BY DEF Sound, Settled, CpuRegisters
<1>3. FinishInstruction(out) =
        IF out.can_interrupt THEN CheckInterrupt(m, out.pc, out.sr) ELSE m
  BY DEF FinishInstruction
<1> HIDE DEF m
<1> QED BY <1>1, <1>2, <1>3, CheckInterruptSettled DEF Sound

-----------------------------------------------------------------------------
(* The Debug Unit begins an operation with the bus outputs of its state.   *)
LEMMA StartDebugOperationSettled ==
  ASSUME NEW m, m \in CpuRegisters, m.bus = NoRequest, ~m.gpr_write,
         cpu \in CpuRegisters, op \in DebugOp
  PROVE  Settled(StartDebugOperation(m))
<1>1. op.spr \in Sprs /\ op.word \in Word /\ op.we \in BOOLEAN /\ op.word.addr \in Addr
  BY WordFields DEF DebugOp
<1>2. CASE ~op.we
  <2>1. Settled([m EXCEPT !.state = "dbg_read"])
    BY StateNames DEF Settled, CpuRegisters, Executing
  <2> QED BY <1>2, <2>1 DEF StartDebugOperation
<1>3. CASE op.we /\ op.spr \in {"READ_MEM_ADDR", "WRITE_MEM_DATA"}
  <2>1. \A we \in BOOLEAN :
          Settled(StartDataCycle(m, [adr |-> op.word.addr, we |-> we], "dbg_data"))
    BY <1>1, DataCycleSettled DEF Request
  <2> QED BY <1>3, <2>1 DEF StartDebugOperation
<1>4. CASE op.we /\ op.spr \notin {"READ_MEM_ADDR", "WRITE_MEM_DATA"}
  <2> DEFINE w == WriteCpuSpr(m, op.spr, op.word)
             s == NextSr(op.spr, op.word)
             p == NextPc(op.spr, op.word, cpu.pc)
  <2>1. cpu.pc \in Addr
    BY DEF CpuRegisters
  <2>2. w \in CpuRegisters /\ s \in SUBSET Flags /\ p \in Addr
    BY <1>1, <2>1, WriteCpuSprType, NextTypes
  <2>3. w.bus = NoRequest
    BY <1>1 DEF WriteCpuSpr, WriteTtmr, WriteEdis, ScheduleRegisterWrite, CpuRegisters
  <2>4. StartDebugOperation(m) = [w EXCEPT !.sr = s, !.pc = p, !.state = "dbg_ack"]
    BY <1>4 DEF StartDebugOperation
  <2> HIDE DEF w, s, p
  <2>5. [w EXCEPT !.sr = s, !.pc = p, !.state = "dbg_ack"] \in CpuRegisters
    BY <2>2, StateNames, ZenonT(60) DEF CpuRegisters
  <2> QED BY <2>2, <2>3, <2>4, <2>5 DEF Settled, CpuRegisters, Executing
<1> QED BY <1>1, <1>2, <1>3, <1>4

(* check_debug_unit_operation_start too, whatever it decides.              *)
LEMMA CheckDebugSettled ==
  ASSUME NEW m, m \in CpuRegisters, m.bus = NoRequest, ~m.gpr_write,
         cpu \in CpuRegisters, stb => op \in DebugOp
  PROVE  Settled(CheckDebugUnitOperationStart(m))
<1>1. CASE stb
  <2> DEFINE d == StartDebugOperation(m)
  <2>1. Settled(d)
    BY <1>1, StartDebugOperationSettled
  <2> HIDE DEF d
  <2>2. [d EXCEPT !.stop2 = FALSE] \in CpuRegisters
    <3>1. d \in CpuRegisters
      BY <2>1 DEF Settled
    <3> QED BY ONLY <3>1 DEF CpuRegisters
  <2>3. Settled([d EXCEPT !.stop2 = FALSE])
    BY <2>1, <2>2 DEF Settled, CpuRegisters
  <2> QED BY <1>1, <2>3 DEF CheckDebugUnitOperationStart, d
<1>2. CASE ~stb
  <2>1. Settled([m EXCEPT !.state = "stalled", !.stop2 = FALSE])
    <3>1. [m EXCEPT !.state = "stalled", !.stop2 = FALSE] \in CpuRegisters
      BY StallTypes
    <3> QED BY <3>1 DEF Settled, CpuRegisters, Executing
  <2>2. Settled([m EXCEPT !.reason_trap = TRUE, !.is_stalled = TRUE,
                          !.state = "stalled", !.stop2 = FALSE])
    <3>1. [m EXCEPT !.reason_trap = TRUE, !.is_stalled = TRUE,
                    !.state = "stalled", !.stop2 = FALSE] \in CpuRegisters
      BY StallTypes
    <3> QED BY <3>1 DEF Settled, CpuRegisters, Executing
  <2> QED BY <1>2, <2>1, <2>2 DEF CheckDebugUnitOperationStart
<1> QED BY <1>1, <1>2

-----------------------------------------------------------------------------
(* The invariant holds at power-up.                                        *)
LEMMA InitInv == Init => CoreInv
<1> SUFFICES ASSUME Init PROVE CoreInv
  OBVIOUS
<1>1. cpu \in CpuRegisters
  <2>1. 0 \in Addr /\ 0 \in 0 .. TimerSize - 1 /\ 0 \in 0 .. MaxShift + MulDelay
    BY SizeAssumption DEF Addr
  <2> QED BY <2>1, StateNames DEF Init, CpuRegisters, RESET_SPR_SR
<1>2. /\ cpu.state = "reset" /\ cpu.bus = NoRequest /\ ~cpu.is_stalled
      /\ ~waited /\ ~pic /\ ~stb /\ op = NoRequest /\ waited \in BOOLEAN
      /\ pic \in BOOLEAN /\ stb \in BOOLEAN
  BY DEF Init
<1> QED BY <1>1, <1>2 DEF CoreInv, Settled, Executing

(* DoStateReset sets every register.                                       *)
LEMMA ResetSettled ==
  ASSUME Settled(cpu), DoStateReset
  PROVE  Settled(cpu') /\ ~waited'
<1> DEFINE m == StartFetch(StepStateMachine, Vector["reset"])
<1>1. Settled(m)
  BY StepFacts, StartFetchSettled, VectorAssumption DEF Settled, Causes
<1>2. cpu' = [m EXCEPT
               !.sr = RESET_SPR_SR, !.epcr = 0, !.esr = {}, !.picmr = FALSE,
               !.mode = 0, !.ie = FALSE, !.ip = FALSE, !.tp = 0, !.ttcr = 0,
               !.trap_enabled = FALSE, !.reason_trap = FALSE,
               !.stop1 = FALSE, !.stop2 = FALSE, !.is_stalled = FALSE,
               !.dvr = 0, !.div_valid = TRUE, !.handler = "none", !.done = 0]
  BY DEF DoStateReset, Edge
<1>3. m.state = "fetch"
  BY StepFacts DEF StartFetch, Settled, CpuRegisters
<1> HIDE DEF m
<1>4. 0 \in Addr /\ 0 \in 0 .. TimerSize - 1 /\ m \in CpuRegisters
  BY <1>1, SizeAssumption DEF Addr, Settled
<1> DEFINE a == [m EXCEPT !.sr = {}, !.epcr = 0, !.esr = {}, !.picmr = FALSE]
           b == [a EXCEPT !.mode = 0]
           c == [b EXCEPT !.ie = FALSE, !.ip = FALSE, !.tp = 0, !.ttcr = 0]
           d == [c EXCEPT !.trap_enabled = FALSE, !.reason_trap = FALSE, !.stop1 = FALSE]
           e == [d EXCEPT !.stop2 = FALSE, !.is_stalled = FALSE, !.dvr = 0]
           f == [e EXCEPT !.div_valid = TRUE, !.handler = "none"]
           g == [f EXCEPT !.done = 0]
<1>5. cpu' = g
  BY <1>2 DEF RESET_SPR_SR
<1>6. a \in CpuRegisters /\ a.bus = m.bus /\ a.state = "fetch" /\ a.pc = m.pc
  BY <1>3, <1>4 DEF CpuRegisters
<1> HIDE DEF a
<1>7. b \in CpuRegisters /\ b.bus = m.bus /\ b.state = "fetch" /\ b.pc = m.pc
  BY <1>6 DEF CpuRegisters
<1> HIDE DEF b
<1>8. c \in CpuRegisters /\ c.bus = m.bus /\ c.state = "fetch" /\ c.pc = m.pc
  BY <1>4, <1>7, ZenonT(60) DEF CpuRegisters
<1> HIDE DEF c
<1>9. d \in CpuRegisters /\ d.bus = m.bus /\ d.state = "fetch" /\ d.pc = m.pc
  BY <1>8 DEF CpuRegisters
<1> HIDE DEF d
<1>10. /\ e \in CpuRegisters /\ e.bus = m.bus /\ e.state = "fetch" /\ e.pc = m.pc
       /\ ~e.is_stalled
  BY <1>4, <1>9, ZenonT(60) DEF CpuRegisters
<1> HIDE DEF e
<1>11. /\ f \in CpuRegisters /\ f.bus = m.bus /\ f.state = "fetch" /\ f.pc = m.pc
       /\ ~f.is_stalled
  BY <1>10 DEF CpuRegisters
<1> HIDE DEF f
<1>12. /\ g \in CpuRegisters /\ g.bus = m.bus /\ g.state = "fetch" /\ g.pc = m.pc
       /\ ~g.is_stalled
  BY <1>11 DEF CpuRegisters
<1> HIDE DEF g
<1>13. Settled(cpu')
  BY <1>1, <1>3, <1>5, <1>12 DEF Settled, Executing
<1> QED BY <1>13 DEF DoStateReset, OffBus

(* A fetch that is not answered is repeated.                               *)
LEMMA FetchWaitSettled ==
  ASSUME Settled(cpu), FetchWait
  PROVE  Settled(cpu') /\ ~cpu'.gpr_write /\ waited' \in BOOLEAN
<1>1. cpu.pc \in Addr /\ cpu \in CpuRegisters
  BY DEF Settled, CpuRegisters
<1>2. cpu' = StartFetch(StepStateMachine, cpu.pc) /\ waited' \in BOOLEAN
  BY DEF FetchWait, Edge, Unanswered
<1>3. ~cpu'.gpr_write
  BY <1>1, <1>2, StepFacts DEF StartFetch, CpuRegisters
<1> QED BY <1>1, <1>2, <1>3, StepFacts, StartFetchSettled

(* The answer to a fetch: a stop, the debugger, an instruction or a bus    *)
(* error.                                                                  *)
LEMMA FetchSettled ==
  ASSUME CoreInv,
         \/ FetchSingleStepped \/ FetchDebugged \/ FetchError
         \/ \E i \in Program : FetchExecute(i)
  PROVE  Settled(cpu') /\ ~waited'
<1> DEFINE m == StepStateMachine
<1>1. /\ cpu \in CpuRegisters /\ m \in CpuRegisters /\ m.bus = NoRequest /\ ~m.gpr_write
      /\ cpu.pc \in Addr /\ cpu.sr \in SUBSET Flags
      /\ m.state = cpu.state /\ m.is_stalled = cpu.is_stalled
  BY StepFacts DEF CoreInv, Settled, CpuRegisters
<1> HIDE DEF m
<1>2. CASE FetchSingleStepped
  <2>1. cpu' = [m EXCEPT !.is_stalled = TRUE, !.stop2 = FALSE, !.state = "stalled"]
    BY <1>2 DEF FetchSingleStepped, Edge, m
  <2>2. cpu' \in CpuRegisters
    BY <1>1, <2>1, StateNames, ZenonT(60) DEF CpuRegisters
  <2>3. Settled(cpu')
    BY <1>1, <2>1, <2>2 DEF CpuRegisters, Settled, Executing
  <2> QED BY <1>2, <2>3 DEF FetchSingleStepped, Answered
<1>3. CASE FetchDebugged
  <2>1. Settled(cpu')
    BY <1>1, <1>3, CheckDebugSettled DEF FetchDebugged, Edge, m, CoreInv
  <2> QED BY <1>3, <2>1 DEF FetchDebugged, Answered
<1>4. CASE FetchError
  <2>1. Settled(cpu')
    BY <1>1, <1>4, RaiseExceptionSettled DEF FetchError, Edge, m, BusError, Causes
  <2> QED BY <1>4, <2>1 DEF FetchError, Answered
<1>5. ASSUME NEW i \in Program, FetchExecute(i)
      PROVE  Settled(cpu') /\ ~waited'
  <2> DEFINE n == [m EXCEPT !.stop2 = cpu.stop1]
  <2>1. ~cpu.is_stalled /\ cpu.state = "fetch" /\ cpu.stop1 \in BOOLEAN
    BY <1>1, <1>5 DEF FetchExecute, DebugUnitActive, CpuRegisters
  <2>2. n \in CpuRegisters
    BY <1>1, <2>1 DEF CpuRegisters
  <2>3. Idle(n)
    BY <1>1, <2>1, <2>2 DEF Idle, CpuRegisters
  <2>4. cpu' = FinishInstruction(ExecuteInstruction(n, i))
    BY <1>5 DEF FetchExecute, Edge, m
  <2> HIDE DEF n
  <2>5. Settled(cpu')
    BY <1>1, <2>3, <2>4, ExecuteSound, FinishSettled, StreamAssumption
  <2> QED BY <1>5, <2>5 DEF FetchExecute, Answered
<1> QED BY <1>2, <1>3, <1>4, <1>5

(* The clocks of a data cycle, of the program or of the debugger.          *)
LEMMA DataSettled ==
  ASSUME CoreInv, KeepDataCycle \/ DataAcknowledged \/ DataError \/ DebugDataAnswered
  PROVE  Settled(cpu') /\ waited' \in BOOLEAN /\ (cpu'.state = "fetch" => ~waited')
<1> DEFINE m == StepStateMachine
<1>1. /\ cpu \in CpuRegisters /\ m \in CpuRegisters /\ m.bus = NoRequest /\ ~m.gpr_write
      /\ cpu.pc \in Addr /\ cpu.sr \in SUBSET Flags
      /\ m.state = cpu.state /\ m.is_stalled = cpu.is_stalled /\ m.wishdat = cpu.wishdat
  BY StepFacts DEF CoreInv, Settled, CpuRegisters
<1> HIDE DEF m
<1>2. CASE KeepDataCycle
  <2>1. cpu' = [m EXCEPT !.bus = cpu.wishdat] /\ cpu.state \in {"data", "dbg_data"}
        /\ waited' \in BOOLEAN
    BY <1>2 DEF KeepDataCycle, Edge, m, Unanswered
  <2>2. cpu' \in CpuRegisters /\ cpu.wishdat \in Request
    BY <1>1, <2>1 DEF CpuRegisters, CoreInv, Settled
  <2> QED BY <1>1, <2>1, <2>2 DEF CpuRegisters, CoreInv, Settled, Executing
<1>3. CASE DataAcknowledged
  <2>1. Settled(cpu')
    BY <1>1, <1>3, ScheduledType, FinishMultiCycleSettled DEF DataAcknowledged, Edge, m
  <2> QED BY <1>3, <2>1 DEF DataAcknowledged, Answered
<1>4. CASE DataError
  <2>1. Settled(BusError(m))
    BY <1>1, RaiseExceptionSettled DEF BusError, Causes
  <2>2. Settled(cpu')
    BY <1>4, <2>1, CompletedSettled DEF DataError, Edge, m, Settled
  <2> QED BY <1>4, <2>2 DEF DataError, Answered
<1>5. CASE DebugDataAnswered
  <2>1. cpu' = [m EXCEPT !.state = "dbg_ack"] /\ ~waited' /\ waited' \in BOOLEAN
    BY <1>5 DEF DebugDataAnswered, Edge, m, Answered
  <2>2. cpu' \in CpuRegisters
    BY <1>1, <2>1, StateNames DEF CpuRegisters
  <2> QED BY <1>1, <2>1, <2>2 DEF CpuRegisters, Settled, Executing
<1> QED BY <1>2, <1>3, <1>4, <1>5

(* The clocks of l.sleep.                                                  *)
LEMMA SleepSettled ==
  ASSUME CoreInv, SleepDebugged \/ SleepGoesOn
  PROVE  Settled(cpu') /\ ~waited'
<1> DEFINE m == StepStateMachine
<1>1. /\ cpu \in CpuRegisters /\ m \in CpuRegisters /\ m.bus = NoRequest /\ ~m.gpr_write
      /\ cpu.pc \in Addr /\ cpu.sr \in SUBSET Flags
      /\ m.state = cpu.state /\ m.is_stalled = cpu.is_stalled
  BY StepFacts DEF CoreInv, Settled, CpuRegisters
<1> HIDE DEF m
<1>2. CASE SleepDebugged
  <2>1. Settled(cpu')
    BY <1>1, <1>2, CheckDebugSettled DEF SleepDebugged, Edge, m, CoreInv
  <2> QED BY <1>2, <2>1 DEF SleepDebugged, OffBus
<1>3. CASE SleepGoesOn
  <2>1. Settled(m)
    BY <1>1, <1>3 DEF SleepGoesOn, DebugUnitActive, Settled, Executing
  <2>2. Settled(Completed(TakeInterrupt(m, NextAddr(cpu.pc), cpu.sr)))
    <3>1. Settled(TakeInterrupt(m, NextAddr(cpu.pc), cpu.sr))
      BY <1>1, CheckInterruptSettled, NextAddrType
    <3> QED BY <3>1, CompletedSettled DEF Settled
  <2>3. Settled(cpu')
    BY <1>3, <2>1, <2>2 DEF SleepGoesOn, Edge, m
  <2> QED BY <1>3, <2>3 DEF SleepGoesOn, OffBus
<1> QED BY <1>2, <1>3

(* The clocks of a shift, a multiplication and a division.                 *)
LEMMA MultiCycleSettled ==
  ASSUME CoreInv,
         \/ Shifting \/ MultiplyingWait \/ MultiplyingDone
         \/ DividingWait \/ DividerAccepts \/ DividingDone
  PROVE  Settled(cpu') /\ ~waited'
<1> DEFINE m == StepStateMachine
<1>1. /\ cpu \in CpuRegisters /\ m \in CpuRegisters /\ m.bus = NoRequest /\ ~m.gpr_write
      /\ cpu.pc \in Addr /\ cpu.sr \in SUBSET Flags /\ cpu.busy \in 0 .. MaxShift + MulDelay
      /\ m.state = cpu.state /\ m.is_stalled = cpu.is_stalled /\ m.busy = cpu.busy
  BY StepFacts DEF CoreInv, Settled, CpuRegisters
<1>2. ScheduleRegisterWrite(m) \in CpuRegisters
  BY <1>1, ScheduledType
<1>3. cpu.state \in Executing => ~m.is_stalled
  BY <1>1 DEF CoreInv, Settled
<1> HIDE DEF m
<1>4. CASE Shifting
  <2>1. [ScheduleRegisterWrite(m) EXCEPT !.busy = 0] \in CpuRegisters
    BY <1>2, SizeAssumption DEF CpuRegisters
  <2>2. Settled(FinishMultiCycle([ScheduleRegisterWrite(m) EXCEPT !.busy = 0], cpu.sr))
    BY <1>1, <2>1, FinishMultiCycleSettled
  <2>3. ASSUME cpu.busy # 1
        PROVE  Settled([m EXCEPT !.busy = @ - 1])
    <3>1. cpu.busy - 1 \in 0 .. MaxShift + MulDelay /\ cpu.busy - 1 # 0
      BY <1>1, <1>4, <2>3, SizeAssumption DEF Shifting, CoreInv, Settled
    <3>2. [m EXCEPT !.busy = @ - 1] = [m EXCEPT !.busy = cpu.busy - 1]
      BY <1>1
    <3>3. [m EXCEPT !.busy = cpu.busy - 1] \in CpuRegisters
      BY <1>1, <3>1 DEF CpuRegisters
    <3> QED BY <1>1, <1>3, <1>4, <3>1, <3>2, <3>3 DEF Shifting, Settled, CpuRegisters, Executing
  <2>4. Settled(cpu')
    BY <1>4, <2>2, <2>3 DEF Shifting, Edge, m
  <2> QED BY <1>4, <2>4 DEF Shifting, OffBus
<1>5. CASE MultiplyingWait
  <2>1. cpu.busy - 1 \in 0 .. MaxShift + MulDelay
    BY <1>1, <1>5, SizeAssumption DEF MultiplyingWait
  <2>2. cpu' = [m EXCEPT !.busy = cpu.busy - 1]
    BY <1>1, <1>5 DEF MultiplyingWait, Edge, m
  <2>3. cpu' \in CpuRegisters
    BY <1>1, <2>1, <2>2 DEF CpuRegisters
  <2>4. Settled(cpu')
    BY <1>1, <1>3, <1>5, <2>2, <2>3 DEF MultiplyingWait, Settled, CpuRegisters, Executing
  <2> QED BY <1>5, <2>4 DEF MultiplyingWait, OffBus
<1>6. CASE MultiplyingDone
  <2>1. PICK flags \in {{}, {"OV"}, {"CY"}} :
          LET next_sr == SetFlags(flags)
              written == [ScheduleRegisterWrite(m) EXCEPT !.sr = next_sr]
          IN  cpu' = IF RangeTrips("OV", next_sr)
                     THEN Completed(RaiseException(written, "range", cpu.pc, next_sr))
                     ELSE FinishMultiCycle(written, next_sr)
    BY <1>6 DEF MultiplyingDone, Edge, m
  <2> DEFINE s == SetFlags(flags)
             w == [ScheduleRegisterWrite(m) EXCEPT !.sr = s]
  <2>2. s \in SUBSET Flags
    BY <1>1, SetFlagsType DEF Flags
  <2> HIDE DEF s
  <2>3. w \in CpuRegisters
    BY <1>2, <2>2 DEF CpuRegisters
  <2> HIDE DEF w
  <2>4. Settled(Completed(RaiseException(w, "range", cpu.pc, s)))
    <3>1. Settled(RaiseException(w, "range", cpu.pc, s))
      BY <1>1, <2>2, <2>3, RaiseExceptionSettled DEF Causes
    <3> QED BY <3>1, CompletedSettled DEF Settled
  <2>5. Settled(FinishMultiCycle(w, s))
    BY <1>1, <2>2, <2>3, FinishMultiCycleSettled
  <2>6. Settled(cpu')
    BY <2>1, <2>4, <2>5 DEF s, w
  <2> QED BY <1>6, <2>6 DEF MultiplyingDone, OffBus
<1>7. CASE DividingWait \/ DividerAccepts
  <2>1. /\ cpu' = m \/ cpu' = [m EXCEPT !.div_valid = FALSE]
        /\ cpu.state = "dividing" /\ ~waited'
    BY <1>7 DEF DividingWait, DividerAccepts, Edge, m, OffBus
  <2>2. \A r \in CpuRegisters : [r EXCEPT !.div_valid = FALSE] \in CpuRegisters
    BY ZenonT(60) DEF CpuRegisters
  <2>3. cpu' \in CpuRegisters
    BY <1>1, <2>1, <2>2
  <2> QED BY <1>1, <1>3, <2>1, <2>3 DEF Settled, CpuRegisters, Executing
<1>8. CASE DividingDone
  <2>1. Settled(cpu')
    BY <1>1, <1>2, <1>8, FinishMultiCycleSettled DEF DividingDone, Edge, m
  <2> QED BY <1>8, <2>1 DEF DividingDone, OffBus
<1> QED BY <1>4, <1>5, <1>6, <1>7, <1>8

(* The clocks of the Debug Unit.                                           *)
LEMMA DebugSettled ==
  ASSUME CoreInv, DebugRegFileRead \/ DebugAckAssert \/ DebugStbDeassert \/ DebugStalled
  PROVE  Settled(cpu') /\ ~waited'
<1> DEFINE m == StepStateMachine
<1>1. /\ cpu \in CpuRegisters /\ m \in CpuRegisters /\ m.bus = NoRequest /\ ~m.gpr_write
      /\ cpu.pc \in Addr
      /\ m.state = cpu.state /\ m.is_stalled = cpu.is_stalled
  BY StepFacts DEF CoreInv, Settled, CpuRegisters
<1> HIDE DEF m
<1>2. CASE DebugRegFileRead \/ DebugAckAssert
  <2>1. /\ \/ cpu' = [m EXCEPT !.state = "dbg_ack"]
           \/ cpu' = [m EXCEPT !.dbg_ack = TRUE, !.state = "dbg_stb"]
        /\ ~waited'
    BY <1>2 DEF DebugRegFileRead, DebugAckAssert, Edge, m, OffBus
  <2>2. cpu' \in CpuRegisters
    <3>1. \A r \in CpuRegisters : [r EXCEPT !.state = "dbg_ack"] \in CpuRegisters
      BY StateNames DEF CpuRegisters
    <3>2. \A r \in CpuRegisters :
            [r EXCEPT !.dbg_ack = TRUE, !.state = "dbg_stb"] \in CpuRegisters
      BY StateNames, ZenonT(60) DEF CpuRegisters
    <3> QED BY <1>1, <2>1, <3>1, <3>2
  <2>3. CASE cpu' = [m EXCEPT !.state = "dbg_ack"]
    BY <1>1, <2>1, <2>2, <2>3, ZenonT(60) DEF Settled, CpuRegisters, Executing
  <2>4. CASE cpu' = [m EXCEPT !.dbg_ack = TRUE, !.state = "dbg_stb"]
    BY <1>1, <2>1, <2>2, <2>4, ZenonT(60) DEF Settled, CpuRegisters, Executing
  <2> QED BY <2>1, <2>3, <2>4
<1>3. CASE DebugStbDeassert
  <2> DEFINE done == [m EXCEPT !.dbg_ack = FALSE]
  <2>1. done \in CpuRegisters /\ done.bus = NoRequest
    BY <1>1, ZenonT(60) DEF CpuRegisters
  <2>2. cpu' = IF stb THEN m
               ELSE IF cpu.is_stalled THEN [done EXCEPT !.state = "stalled"]
               ELSE StartFetch(done, cpu.pc)
    BY <1>3 DEF DebugStbDeassert, Edge, m
  <2> HIDE DEF done
  <2>3. [done EXCEPT !.state = "stalled"] \in CpuRegisters
    BY ONLY <2>1, StateNames DEF CpuRegisters
  <2>4. Settled([done EXCEPT !.state = "stalled"])
    BY <2>1, <2>3 DEF Settled, CpuRegisters, Executing
  <2>5. Settled(StartFetch(done, cpu.pc))
    BY <1>1, <2>1, StartFetchSettled
  <2>6. cpu.state = "dbg_stb" /\ ~waited'
    BY <1>3 DEF DebugStbDeassert, OffBus
  <2>7. Settled(m)
    BY <1>1, <2>6 DEF Settled, Executing
  <2> QED BY <2>2, <2>4, <2>5, <2>6, <2>7
<1>4. CASE DebugStalled
  <2>1. Settled(StartFetch(m, cpu.pc))
    BY <1>1, StartFetchSettled
  <2>2. stb => Settled(StartDebugOperation(m))
    BY <1>1, StartDebugOperationSettled DEF CoreInv
  <2>3. cpu.state = "stalled" /\ ~waited'
    BY <1>4 DEF DebugStalled, OffBus
  <2>4. Settled(m)
    BY <1>1, <2>3 DEF Settled, Executing
  <2> QED BY <1>4, <2>1, <2>2, <2>3, <2>4 DEF DebugStalled, Edge, m
<1> QED BY <1>2, <1>3, <1>4

-----------------------------------------------------------------------------
(* A clock edge changes neither the interrupt line nor the Debug           *)
(* Interface.                                                              *)
LEMMA ClockKeepsOutside == Clock => pic' = pic /\ stb' = stb /\ op' = op
BY DEF Clock, Answers, Edge, DoStateReset, FetchWait, FetchSingleStepped, FetchDebugged,
       FetchExecute, FetchError, KeepDataCycle, DataAcknowledged, DataError,
       SleepDebugged, SleepGoesOn, Shifting, MultiplyingWait, MultiplyingDone,
       DividingWait, DividerAccepts, DividingDone, DebugRegFileRead, DebugAckAssert,
       DebugStbDeassert, DebugStalled, DebugDataAnswered

(* Every clock edge preserves the invariant.                               *)
LEMMA ClockInv == CoreInv /\ Clock => CoreInv'
<1> SUFFICES ASSUME CoreInv, Clock PROVE CoreInv'
  OBVIOUS
<1>0. Settled(cpu) /\ stb \in BOOLEAN /\ pic \in BOOLEAN
  BY DEF CoreInv
<1>1. pic' = pic /\ stb' = stb /\ op' = op
  BY ClockKeepsOutside
<1>2. waited' \in BOOLEAN
  BY DEF Clock, Answers, OffBus, Answered, Unanswered, DoStateReset, FetchWait,
         FetchSingleStepped, FetchDebugged,
         FetchExecute, FetchError, KeepDataCycle, DataAcknowledged, DataError,
         SleepDebugged, SleepGoesOn, Shifting, MultiplyingWait, MultiplyingDone,
         DividingWait, DividerAccepts, DividingDone, DebugRegFileRead, DebugAckAssert,
         DebugStbDeassert, DebugStalled, DebugDataAnswered
<1>3. Settled(cpu') /\ (cpu'.state = "fetch" /\ waited' => ~cpu'.gpr_write)
  BY <1>0, ResetSettled, FetchWaitSettled, FetchSettled, DataSettled, SleepSettled,
     MultiCycleSettled, DebugSettled DEF Clock, Answers
<1>4. Settled(cpu)'
  BY <1>3
<1> QED BY <1>0, <1>1, <1>2, <1>3, <1>4 DEF CoreInv

(* So do the interrupt line and the Debug Interface.                       *)
LEMMA OutsideInv == CoreInv /\ (PicChanges \/ DebugRequest \/ DebugRelease) => CoreInv'
<1> SUFFICES ASSUME CoreInv, PicChanges \/ DebugRequest \/ DebugRelease PROVE CoreInv'
  OBVIOUS
<1>1. cpu' = cpu /\ waited' = waited
  BY DEF PicChanges, DebugRequest, DebugRelease
<1>2. /\ pic' \in BOOLEAN /\ stb' \in BOOLEAN
      /\ IF stb' THEN op' \in DebugOp ELSE op' = NoRequest
  <2>1. CASE PicChanges
    BY <2>1 DEF CoreInv, PicChanges
  <2>2. CASE DebugRequest
    <3>1. pic' = pic /\ stb' = TRUE /\ op' \in DebugOps \cup RunningOps
      BY <2>2 DEF DebugRequest
    <3> QED BY <3>1, StreamAssumption DEF CoreInv
  <2>3. CASE DebugRelease
    BY <2>3 DEF CoreInv, DebugRelease
  <2> QED BY <2>1, <2>2, <2>3
<1>3. Settled(cpu)'
  BY <1>1 DEF CoreInv, Settled
<1> QED BY <1>1, <1>2, <1>3 DEF CoreInv

(* CoreInv is an invariant of the CPU.                                     *)
THEOREM CoreInvariant == Spec => []CoreInv
<1>1. CoreInv /\ UNCHANGED vars => CoreInv'
  BY DEF vars, CoreInv, Settled
<1>2. CoreInv /\ [Next]_vars => CoreInv'
  BY <1>1, ClockInv, OutsideInv DEF Next
<1> QED BY <1>2, InitInv, PTL DEF Spec

(* Every register stays in its range: the PC, the timer and the counters   *)
(* of the shifter and the multiplier wrap or stop where they should.       *)
THEOREM CoreTypeCorrect == Spec => []TypeOK
<1>1. CoreInv => TypeOK
  BY DEF CoreInv, Settled, TypeOK
<1> QED BY <1>1, CoreInvariant, PTL

(* The Wishbone outputs, which the default assignments at the top of the   *)
(* clock edge clear and every path has to set again, always belong to the  *)
(* state of the CPU.                                                       *)
THEOREM BusAlwaysMatchesState == Spec => []BusMatchesState
<1>1. CoreInv => BusMatchesState
  BY DEF CoreInv, Settled, BusMatchesState
<1> QED BY <1>1, CoreInvariant, PTL

(* An instruction that the memory has just delivered, and the debugger,    *)
(* never read the register file through a port that still writes the       *)
(* result of the instruction before.                                       *)
THEOREM RegisterFilePortIsFree == Spec => []RegisterFilePortFree
<1>1. CoreInv => RegisterFilePortFree
  BY DEF CoreInv, Settled, RegisterFilePortFree
<1> QED BY <1>1, CoreInvariant, PTL

(* A request that a slave has seen and not answered is repeated unchanged, *)
(* on every path that rebuilds the bus outputs.                            *)
THEOREM WishboneRequestsAreStable == Spec => WishboneStable
<1>1. CoreInv /\ [Next]_vars => [waited' => cpu'.bus = cpu.bus]_vars
  <2> SUFFICES ASSUME CoreInv, Next, waited'
               PROVE  cpu'.bus = cpu.bus
    BY DEF vars
  <2>1. CASE FetchWait
    <3>1. cpu' = StartFetch(StepStateMachine, cpu.pc) /\ cpu.state = "fetch"
      BY <2>1 DEF FetchWait, Edge
    <3> QED BY <3>1, StepFacts DEF CoreInv, Settled, StartFetch, CpuRegisters
  <2>2. CASE KeepDataCycle
    <3>1. cpu' = [StepStateMachine EXCEPT !.bus = cpu.wishdat]
          /\ cpu.state \in {"data", "dbg_data"}
      BY <2>2 DEF KeepDataCycle, Edge
    <3> QED BY <3>1, StepFacts DEF CoreInv, Settled, CpuRegisters
  <2>3. CASE PicChanges \/ DebugRequest \/ DebugRelease
    BY <2>3 DEF PicChanges, DebugRequest, DebugRelease
  <2> QED BY <2>1, <2>2, <2>3 DEF Next, Clock, Answers, OffBus, Answered, DoStateReset,
         FetchSingleStepped, FetchDebugged, FetchExecute, FetchError, DataAcknowledged,
         DataError, SleepDebugged, SleepGoesOn, Shifting, MultiplyingWait, MultiplyingDone,
         DividingWait, DividerAccepts, DividingDone, DebugRegFileRead, DebugAckAssert,
         DebugStbDeassert, DebugStalled, DebugDataAnswered
<1> QED BY <1>1, CoreInvariant, PTL DEF Spec, WishboneStable

-----------------------------------------------------------------------------
(* Single steps of the CPU, from the invariant above.                      *)

(* The registers of cpu that every task sees: those of the clock before. *)
LEMMA StepKeeps ==
  ASSUME cpu \in CpuRegisters
  PROVE  LET m == StepStateMachine
         IN  /\ m \in CpuRegisters
             /\ m.state = cpu.state /\ m.pc = cpu.pc /\ m.sr = cpu.sr /\ m.epcr = cpu.epcr
             /\ m.esr = cpu.esr /\ m.picmr = cpu.picmr /\ m.handler = cpu.handler
             /\ m.stop1 = cpu.stop1 /\ m.stop2 = cpu.stop2 /\ m.done = cpu.done
             /\ m.is_stalled = cpu.is_stalled
BY StepFacts DEF CpuRegisters

-----------------------------------------------------------------------------
(* A clock edge of a stalled CPU that serves no write of the debugger      *)
(* shows the program nothing new.                                          *)
LEMMA StalledStep ==
  ASSUME CoreInv, Clock, cpu.is_stalled, ~(stb /\ op.we)
  PROVE  Visible' = Visible
<1> DEFINE m == StepStateMachine
<1>1. cpu \in CpuRegisters /\ m \in CpuRegisters
  BY StepFacts DEF CoreInv, Settled
<1>2. /\ m.pc = cpu.pc /\ m.sr = cpu.sr /\ m.epcr = cpu.epcr /\ m.esr = cpu.esr
      /\ m.picmr = cpu.picmr /\ m.handler = cpu.handler
  BY <1>1, StepKeeps
<1> HIDE DEF m
<1>3. cpu.state \notin Executing /\ DebugUnitActive
  BY DEF CoreInv, Settled, DebugUnitActive
<1>4. SUFFICES /\ cpu'.pc = cpu.pc /\ cpu'.sr = cpu.sr /\ cpu'.epcr = cpu.epcr
               /\ cpu'.esr = cpu.esr /\ cpu'.picmr = cpu.picmr /\ cpu'.handler = cpu.handler
  BY DEF Visible
<1>5. CASE FetchWait
  BY <1>1, <1>2, <1>5 DEF FetchWait, Edge, m, StartFetch, CpuRegisters
<1>6. CASE FetchSingleStepped
  BY <1>1, <1>2, <1>6 DEF FetchSingleStepped, Edge, m, CpuRegisters
<1>7. CASE FetchDebugged
  BY <1>1, <1>2, <1>7 DEF FetchDebugged, Edge, m, CpuRegisters, CheckDebugUnitOperationStart,
                          StartDebugOperation
<1>8. CASE KeepDataCycle \/ DebugDataAnswered
  BY <1>1, <1>2, <1>8 DEF KeepDataCycle, DebugDataAnswered, Edge, m, CpuRegisters
<1>9. CASE DebugRegFileRead \/ DebugAckAssert
  <2>1. \/ cpu' = [m EXCEPT !.state = "dbg_ack"]
        \/ cpu' = [m EXCEPT !.dbg_ack = TRUE, !.state = "dbg_stb"]
    BY <1>9 DEF DebugRegFileRead, DebugAckAssert, Edge, m
  <2>2. CASE cpu' = [m EXCEPT !.state = "dbg_ack"]
    BY <1>1, <1>2, <2>2 DEF CpuRegisters
  <2>3. CASE cpu' = [m EXCEPT !.dbg_ack = TRUE, !.state = "dbg_stb"]
    BY <1>1, <1>2, <2>3 DEF CpuRegisters
  <2> QED BY <2>1, <2>2, <2>3
<1>10. CASE DebugStbDeassert
  <2>1. \/ cpu' = m
        \/ cpu' = [[m EXCEPT !.dbg_ack = FALSE] EXCEPT !.state = "stalled"]
        \/ cpu' = StartFetch([m EXCEPT !.dbg_ack = FALSE], cpu.pc)
    BY <1>10 DEF DebugStbDeassert, Edge, m
  <2>2. CASE cpu' = [[m EXCEPT !.dbg_ack = FALSE] EXCEPT !.state = "stalled"]
    BY <1>1, <1>2, <2>2 DEF CpuRegisters
  <2>3. CASE cpu' = StartFetch([m EXCEPT !.dbg_ack = FALSE], cpu.pc)
    BY <1>1, <1>2, <2>3 DEF CpuRegisters, StartFetch
  <2> QED BY <1>2, <2>1, <2>2, <2>3
<1>11. CASE DebugStalled
  BY <1>1, <1>2, <1>11 DEF DebugStalled, Edge, m, CpuRegisters, StartFetch, StartDebugOperation
<1> QED BY <1>3, <1>5, <1>6, <1>7, <1>8, <1>9, <1>10, <1>11
        DEF Clock, Answers, Executing, FetchExecute, FetchError, DataAcknowledged, DataError,
            SleepDebugged, SleepGoesOn, Shifting, MultiplyingWait, MultiplyingDone,
            DividingWait, DividerAccepts, DividingDone, DoStateReset

(* While is_stalled is set nothing executes and no interrupt is taken, on  *)
(* whatever clock it was set: only the debugger changes what the program   *)
(* will see.                                                               *)
THEOREM StalledCpuStaysFrozen == Spec => StalledCpuIsFrozen
<1>1. CoreInv /\ [Next]_vars => [cpu.is_stalled => Visible' = Visible \/ (stb /\ op.we)]_vars
  BY StalledStep DEF Next, PicChanges, DebugRequest, DebugRelease, Visible
<1> QED BY <1>1, CoreInvariant, PTL DEF Spec, StalledCpuIsFrozen

-----------------------------------------------------------------------------
(* Only a write to TTMR touches its interrupt pending bit ...              *)
LEMMA WriteKeepsIp ==
  ASSUME NEW m \in CpuRegisters, NEW spr \in Sprs, NEW word \in Word, spr # "TTMR"
  PROVE  WriteCpuSpr(m, spr, word).ip = m.ip
BY DEF WriteCpuSpr, CpuRegisters, WriteEdis, ScheduleRegisterWrite

(* ... and no fetch, exception, interrupt or completion does ...           *)
LEMMA FetchKeepsIp ==
  ASSUME NEW m \in CpuRegisters, NEW cause, NEW p, NEW s
  PROVE  /\ StartFetch(m, p).ip = m.ip
         /\ RaiseException(m, cause, p, s).ip = m.ip
         /\ TakeInterrupt(m, p, s).ip = m.ip
         /\ CheckInterrupt(m, p, s).ip = m.ip
         /\ Completed(RaiseException(m, cause, p, s)).ip = m.ip
         /\ Completed(TakeInterrupt(m, p, s)).ip = m.ip
         /\ Completed(m).ip = m.ip
         /\ ScheduleRegisterWrite(m).ip = m.ip
<1>1. \A c : RaiseException(m, c, p, s).ip = m.ip
  BY DEF RaiseException, StartFetch, CpuRegisters
<1>2. StartFetch(m, p).ip = m.ip
  BY DEF StartFetch, CpuRegisters
<1>3. TakeInterrupt(m, p, s).ip = m.ip
  BY <1>1 DEF TakeInterrupt
<1>4. CheckInterrupt(m, p, s).ip = m.ip
  BY <1>2, <1>3 DEF CheckInterrupt
<1>5. \A c : Completed(RaiseException(m, c, p, s)).ip = m.ip
  BY DEF RaiseException, StartFetch, CpuRegisters, Completed
<1>6. Completed(TakeInterrupt(m, p, s)).ip = m.ip
  BY <1>5 DEF TakeInterrupt
<1>7. Completed(m).ip = m.ip
  BY DEF Completed, CpuRegisters
<1>8. ScheduleRegisterWrite(m).ip = m.ip
  BY DEF ScheduleRegisterWrite, CpuRegisters
<1> QED BY <1>1, <1>2, <1>3, <1>4, <1>5, <1>6, <1>7, <1>8

(* ... nor does any other instruction ...                                  *)
LEMMA ExecuteKeepsIp ==
  ASSUME NEW m, Idle(m), NEW i \in Instruction, ~(i.kind = "mtspr" /\ i.spr = "TTMR")
  PROVE  ExecuteInstruction(m, i).m.ip = m.ip
<1>1. m \in CpuRegisters /\ i.kind \in Kinds /\ i.spr \in Sprs /\ i.word \in Word
  BY DEF Idle, Instruction
<1>2. ScheduleRegisterWrite(m) \in CpuRegisters /\ ScheduleRegisterWrite(m).ip = m.ip
  BY <1>1, ScheduledType, FetchKeepsIp
<1>3. \A r \in CpuRegisters : \A cause, p, s : Fault(r, cause, s).m.ip = r.ip
                                         /\ Retire(r, p, s).m.ip = r.ip
  BY FetchKeepsIp DEF Fault, Retire, Continue
<1>4. CASE i.kind \in {"nop", "alu", "jump", "jal", "fault"}
  BY <1>1, <1>2, <1>3, <1>4 DEF ExecuteInstruction
<1>5. CASE i.kind = "add"
  BY <1>1, <1>2, <1>3, <1>5 DEF ExecuteInstruction, ExecuteAdd
<1>6. CASE i.kind = "mul"
  BY <1>1, <1>6 DEF ExecuteInstruction, ExecuteMul, Continue, CpuRegisters
<1>7. CASE i.kind = "div"
  <2>1. \A s : Continue([m EXCEPT !.state = "dividing", !.div_valid = TRUE], s).m.ip = m.ip
    BY <1>1 DEF Continue, CpuRegisters
  <2>2. PICK s :
          ExecuteInstruction(m, i) \in
            {Continue([m EXCEPT !.state = "dividing", !.div_valid = TRUE], s),
             Fault(m, "range", s), Retire(m, NextAddr(cpu.pc), s)}
    BY <1>7 DEF ExecuteInstruction, ExecuteDiv
  <2> QED BY <1>1, <1>3, <2>1, <2>2
<1>8. CASE i.kind = "shift"
  <2>1. Continue([m EXCEPT !.state = "shifting", !.busy = i.shift], cpu.sr).m.ip = m.ip
    BY <1>1 DEF Continue, CpuRegisters
  <2> QED BY <1>1, <1>2, <1>3, <1>8, <2>1 DEF ExecuteInstruction, ExecuteShift
<1>9. CASE i.kind \in {"load", "store"}
  BY <1>1, <1>9 DEF ExecuteInstruction, StartDataCycle, Continue, CpuRegisters
<1>10. CASE i.kind = "rfe"
  <2> DEFINE r == [m EXCEPT !.handler = "none"]
  <2>1. r \in CpuRegisters /\ r.ip = m.ip
    BY <1>1 DEF CpuRegisters
  <2>2. ExecuteInstruction(m, i) = Retire(r, cpu.epcr, cpu.esr)
    BY <1>10 DEF ExecuteInstruction, ExecuteRfe
  <2> HIDE DEF r
  <2> QED BY <1>3, <2>1, <2>2
<1>11. CASE i.kind = "mtspr"
  <2>1. WriteCpuSpr(m, i.spr, i.word) \in CpuRegisters
        /\ WriteCpuSpr(m, i.spr, i.word).ip = m.ip
    BY <1>1, <1>11, WriteCpuSprType, WriteKeepsIp
  <2> QED BY <1>1, <1>3, <1>11, <2>1 DEF ExecuteInstruction, ExecuteMtspr
<1>12. CASE i.kind = "trap"
  <2>1. [m EXCEPT !.reason_trap = TRUE, !.is_stalled = TRUE, !.state = "stalled"].ip = m.ip
    BY <1>1 DEF CpuRegisters
  <2> QED BY <1>1, <1>3, <1>12, <2>1 DEF ExecuteInstruction, ExecuteTrap, Continue
<1>13. CASE i.kind = "sleep"
  BY <1>1, <1>13 DEF ExecuteInstruction, Continue, CpuRegisters
<1> QED BY <1>1, <1>4, <1>5, <1>6, <1>7, <1>8, <1>9, <1>10, <1>11, <1>12, <1>13 DEF Kinds

(* ... nor any other operation of the debugger.                            *)
LEMMA DebugKeepsIp ==
  ASSUME NEW m \in CpuRegisters, cpu \in CpuRegisters, op \in DebugOp,
         ~(op.we /\ op.spr = "TTMR")
  PROVE  StartDebugOperation(m) .ip = m.ip
<1>1. op.spr \in Sprs /\ op.word \in Word
  BY DEF DebugOp
<1>2. CASE op.we /\ op.spr \notin {"READ_MEM_ADDR", "WRITE_MEM_DATA"}
  <2>1. /\ WriteCpuSpr(m, op.spr, op.word) \in CpuRegisters
        /\ WriteCpuSpr(m, op.spr, op.word).ip = m.ip
    BY <1>1, <1>2, WriteCpuSprType, WriteKeepsIp
  <2> QED BY <1>2, <2>1 DEF StartDebugOperation, CpuRegisters
<1>3. CASE ~(op.we /\ op.spr \notin {"READ_MEM_ADDR", "WRITE_MEM_DATA"})
  BY <1>3 DEF StartDebugOperation, StartDataCycle, CpuRegisters
<1> QED BY <1>2, <1>3

(* A match that update_tick_timer records on a clock outlives whatever     *)
(* else is done on it.                                                     *)
LEMMA TickStep ==
  ASSUME CoreInv, Clock, cpu.ie, TimerMatch, cpu.state \notin {"reset", "stalled"},
         ~WritesTtmr
  PROVE  cpu'.ip
<1> DEFINE m == StepStateMachine
<1>1. cpu \in CpuRegisters /\ m \in CpuRegisters /\ m.ip /\ m.busy = cpu.busy
  BY StepFacts DEF CoreInv, Settled, CpuRegisters
<1>2. m.state = cpu.state /\ m.is_stalled = cpu.is_stalled /\ m.bus = NoRequest /\ ~m.gpr_write
  BY <1>1, StepKeeps, StepFacts
<1>3. ScheduleRegisterWrite(m) \in CpuRegisters /\ ScheduleRegisterWrite(m).ip
  BY <1>1, ScheduledType, FetchKeepsIp
<1>4. ASSUME NEW r \in CpuRegisters, r.ip, NEW s \in SUBSET Flags
      PROVE  FinishMultiCycle(r, s).ip
  <2>1. Completed([r EXCEPT !.sr = s]) \in CpuRegisters
    <3>1. [r EXCEPT !.sr = s] \in CpuRegisters
      BY <1>4 DEF CpuRegisters
    <3> QED BY <3>1, CompletedSettled
  <2>2. Completed([r EXCEPT !.sr = s]).ip
    BY <1>4 DEF Completed, CpuRegisters
  <2> QED BY <2>1, <2>2, FetchKeepsIp DEF FinishMultiCycle
<1>5. cpu.sr \in SUBSET Flags
  BY <1>1 DEF CpuRegisters
<1> HIDE DEF m
<1>6. stb => StartDebugOperation(m).ip /\ StartDebugOperation(m) \in CpuRegisters
  BY <1>1, <1>2, DebugKeepsIp, StartDebugOperationSettled DEF CoreInv, WritesTtmr, Settled
<1>7. CheckDebugUnitOperationStart(m).ip
  <2>1. stb => [StartDebugOperation(m) EXCEPT !.stop2 = FALSE].ip
    BY <1>6 DEF CpuRegisters
  <2>2. /\ [m EXCEPT !.state = "stalled", !.stop2 = FALSE].ip
        /\ [m EXCEPT !.reason_trap = TRUE, !.is_stalled = TRUE,
                     !.state = "stalled", !.stop2 = FALSE].ip
    BY <1>1 DEF CpuRegisters
  <2> QED BY <2>1, <2>2 DEF CheckDebugUnitOperationStart
<1>8. CASE FetchWait
  BY <1>1, <1>8, FetchKeepsIp DEF FetchWait, Edge, m
<1>9. CASE FetchSingleStepped
  BY <1>1, <1>9 DEF FetchSingleStepped, Edge, m, CpuRegisters
<1>10. CASE FetchDebugged \/ SleepDebugged
  BY <1>7, <1>10 DEF FetchDebugged, SleepDebugged, Edge, m
<1>11. ASSUME NEW i \in Program, FetchExecute(i)
       PROVE  cpu'.ip
  <2> DEFINE n == [m EXCEPT !.stop2 = cpu.stop1]
             out == ExecuteInstruction(n, i)
  <2>1. n \in CpuRegisters /\ n.ip /\ ~n.is_stalled /\ n.state = "fetch" /\ n.bus = NoRequest
        /\ ~n.gpr_write
    BY <1>1, <1>2, <1>11 DEF FetchExecute, DebugUnitActive, CpuRegisters
  <2> HIDE DEF n
  <2>2. Idle(n) /\ i \in Instruction
    BY <2>1, StreamAssumption DEF Idle
  <2>3. out.m.ip /\ Sound(out)
    BY <1>1, <1>11, <2>1, <2>2, ExecuteKeepsIp, ExecuteSound DEF WritesTtmr
  <2>4. cpu' = FinishInstruction(out)
    BY <1>11 DEF FetchExecute, Edge, m, n
  <2> HIDE DEF out
  <2>5. [out.m EXCEPT !.sr = out.sr] \in CpuRegisters /\ [out.m EXCEPT !.sr = out.sr].ip
    BY <2>3 DEF Sound, CpuRegisters
  <2> QED BY <2>4, <2>5, FetchKeepsIp DEF FinishInstruction
<1>12. CASE FetchError \/ DataError
  BY <1>1, <1>12, FetchKeepsIp DEF FetchError, DataError, Edge, m, BusError
<1>13. CASE KeepDataCycle \/ DebugDataAnswered
  BY <1>1, <1>13 DEF KeepDataCycle, DebugDataAnswered, Edge, m, CpuRegisters
<1>14. CASE DataAcknowledged
  BY <1>1, <1>3, <1>4, <1>5, <1>14 DEF DataAcknowledged, Edge, m
<1>15. CASE SleepGoesOn
  BY <1>1, <1>15, FetchKeepsIp DEF SleepGoesOn, Edge, m
<1>16. CASE Shifting
  <2>1. [ScheduleRegisterWrite(m) EXCEPT !.busy = 0] \in CpuRegisters
        /\ [ScheduleRegisterWrite(m) EXCEPT !.busy = 0].ip
    BY <1>3, SizeAssumption DEF CpuRegisters
  <2>2. [m EXCEPT !.busy = @ - 1].ip
    BY <1>1 DEF CpuRegisters
  <2> QED BY <1>4, <1>5, <1>16, <2>1, <2>2 DEF Shifting, Edge, m
<1>17. CASE MultiplyingWait \/ DividingWait \/ DividerAccepts
  BY <1>1, <1>17 DEF MultiplyingWait, DividingWait, DividerAccepts, Edge, m, CpuRegisters
<1>18. CASE MultiplyingDone
  <2>1. PICK flags \in {{}, {"OV"}, {"CY"}} :
          LET next_sr == SetFlags(flags)
              written == [ScheduleRegisterWrite(m) EXCEPT !.sr = next_sr]
          IN  cpu' = IF RangeTrips("OV", next_sr)
                     THEN Completed(RaiseException(written, "range", cpu.pc, next_sr))
                     ELSE FinishMultiCycle(written, next_sr)
    BY <1>18 DEF MultiplyingDone, Edge, m
  <2> DEFINE s == SetFlags(flags)
             w == [ScheduleRegisterWrite(m) EXCEPT !.sr = s]
  <2>2. s \in SUBSET Flags
    BY <1>1, SetFlagsType DEF Flags
  <2> HIDE DEF s
  <2>3. w \in CpuRegisters /\ w.ip
    BY <1>3, <2>2 DEF CpuRegisters
  <2> HIDE DEF w
  <2>4. Completed(RaiseException(w, "range", cpu.pc, s)).ip /\ FinishMultiCycle(w, s).ip
    BY <1>4, <2>2, <2>3, FetchKeepsIp
  <2> QED BY <2>1, <2>4 DEF s, w
<1>19. CASE DividingDone
  BY <1>3, <1>4, <1>5, <1>19 DEF DividingDone, Edge, m
<1>20. CASE DebugRegFileRead \/ DebugAckAssert
  BY <1>1, <1>20, ZenonT(60) DEF DebugRegFileRead, DebugAckAssert, Edge, m, CpuRegisters
<1>21. CASE DebugStbDeassert
  <2>1. \/ cpu' = m
        \/ cpu' = [[m EXCEPT !.dbg_ack = FALSE] EXCEPT !.state = "stalled"]
        \/ cpu' = StartFetch([m EXCEPT !.dbg_ack = FALSE], cpu.pc)
    BY <1>21 DEF DebugStbDeassert, Edge, m
  <2> QED BY <1>1, <2>1, ZenonT(60) DEF CpuRegisters, StartFetch
<1> QED BY <1>8, <1>9, <1>10, <1>11, <1>12, <1>13, <1>14, <1>15, <1>16, <1>17, <1>18, <1>19,
           <1>20, <1>21 DEF Clock, Answers, DoStateReset, DebugStalled

(* The nonblocking assignments of the state's own task come after those of *)
(* the timer and never take back the pending bit it sets, except a write   *)
(* to TTMR.                                                                *)
THEOREM NoTickIsLost == Spec => TickIsRecorded
<1>1. CoreInv /\ [Next]_vars =>
        [cpu.ie /\ TimerMatch /\ cpu.state \notin {"reset", "stalled"} /\ ~cpu'.ip
           => WritesTtmr]_cpu
  BY TickStep DEF Next, PicChanges, DebugRequest, DebugRelease, vars
<1> QED BY <1>1, CoreInvariant, PTL DEF Spec, TickIsRecorded

-----------------------------------------------------------------------------
(* Who sets the single-step mode: the debugger, and only while the CPU is  *)
(* stalled, as GdbToJtagBridge does; and no l.trap stalls the CPU with the *)
(* mode still armed. Without either the mode may stop the CPU at once or   *)
(* after two instructions, and the bridge never asks for it.               *)
SteppedByDebugger ==
    /\ \A i \in Program : i.kind # "trap" /\ ~(i.kind = "mtspr" /\ i.spr = "DMR1")
    /\ \A o \in RunningOps : ~(o.we /\ o.spr = "DMR1")

(* The two flip-flops of the mode. stop_at_next_instruction_2 is armed by  *)
(* the first instruction and waits for its end; until then nothing has     *)
(* been completed since the CPU was resumed.                               *)
StepMode(m) ==
    /\ m.stop2 => m.stop1 /\ m.state \in Executing \cup {"fetch"}
    /\ m.stop1 /\ m.stop2 => m.done = IF m.state = "fetch" THEN 1 ELSE 0
    /\ m.stop1 /\ ~m.stop2 => m.state \notin Executing /\ (m.is_stalled \/ m.done = 0)

(* The inductive invariant behind single steps.                            *)
StepInv ==
    /\ StepMode(cpu)
    /\ stb /\ op.we /\ op.spr = "DMR1" => cpu.is_stalled

(* The mode and the stall register are left alone ...                      *)
Same(m, n) == n.stop1 = m.stop1 /\ n.stop2 = m.stop2 /\ n.is_stalled = m.is_stalled

(* ... and one instruction is counted as complete.                         *)
Counted(m, n) == n.done = IF m.done < 2 THEN m.done + 1 ELSE m.done

(* What the tasks do to the mode and to the count.                         *)
LEMMA TaskSteps ==
  ASSUME NEW m \in CpuRegisters, NEW cause, NEW p, NEW s
  PROVE  /\ StartFetch(m, p).state = "fetch" /\ Same(m, StartFetch(m, p))
         /\ StartFetch(m, p).done = m.done
         /\ RaiseException(m, cause, p, s).state = "fetch"
         /\ Same(m, RaiseException(m, cause, p, s))
         /\ RaiseException(m, cause, p, s).done = m.done
         /\ Same(m, Completed(m)) /\ Counted(m, Completed(m)) /\ Completed(m).state = m.state
         /\ Same(m, ScheduleRegisterWrite(m)) /\ ScheduleRegisterWrite(m).done = m.done
         /\ ScheduleRegisterWrite(m).state = m.state
<1>1. /\ StartFetch(m, p).state = "fetch" /\ Same(m, StartFetch(m, p))
      /\ StartFetch(m, p).done = m.done
  BY DEF StartFetch, CpuRegisters, Same
<1>2. RaiseException(m, cause, p, s).state = "fetch" /\ Same(m, RaiseException(m, cause, p, s))
         /\ RaiseException(m, cause, p, s).done = m.done
  BY DEF RaiseException, StartFetch, CpuRegisters, Same
<1>3. /\ Same(m, Completed(m)) /\ Counted(m, Completed(m)) /\ Completed(m).state = m.state
  BY DEF Completed, CpuRegisters, Same, Counted
<1>4. Same(m, ScheduleRegisterWrite(m)) /\ ScheduleRegisterWrite(m).done = m.done
      /\ ScheduleRegisterWrite(m).state = m.state
  BY DEF ScheduleRegisterWrite, CpuRegisters, Same
<1> QED BY <1>1, <1>2, <1>3, <1>4

(* What the ends of an instruction do to them.                             *)
LEMMA CompletionSteps ==
  ASSUME NEW m \in CpuRegisters, cpu \in CpuRegisters, NEW cause \in Causes,
         NEW p \in Addr, NEW s \in SUBSET Flags
  PROVE  /\ \A n \in {Completed(RaiseException(m, cause, p, s)), Completed(TakeInterrupt(m, p, s)),
                      FinishMultiCycle(m, s)} :
              n.state = "fetch" /\ Same(m, n) /\ Counted(m, n)
         /\ LET n == CheckInterrupt(m, p, s)
            IN  n.state = "fetch" /\ Same(m, n) /\ n.done = m.done
<1>1. ASSUME NEW c \in Causes
      PROVE  LET n == Completed(RaiseException(m, c, p, s))
             IN  n.state = "fetch" /\ Same(m, n) /\ Counted(m, n)
  <2>1. RaiseException(m, c, p, s) \in CpuRegisters
    BY RaiseExceptionSettled DEF Settled
  <2> QED BY <2>1, TaskSteps DEF Same, Counted
<1>2. LET n == Completed(TakeInterrupt(m, p, s))
      IN  n.state = "fetch" /\ Same(m, n) /\ Counted(m, n)
  BY <1>1 DEF TakeInterrupt, Causes
<1>3. \A r \in CpuRegisters, q \in Addr : \A t :
        LET n == CheckInterrupt(r, q, t)
        IN  n.state = "fetch" /\ Same(r, n) /\ n.done = r.done
  BY TaskSteps DEF CheckInterrupt, TakeInterrupt
<1>4. LET n == FinishMultiCycle(m, s)
      IN  n.state = "fetch" /\ Same(m, n) /\ Counted(m, n)
  <2> DEFINE w == [m EXCEPT !.sr = s]
  <2>1. w \in CpuRegisters /\ Same(m, w) /\ w.done = m.done
    BY DEF CpuRegisters, Same
  <2> HIDE DEF w
  <2>2. Completed(w) \in CpuRegisters /\ NextAddr(cpu.pc) \in Addr
    BY <2>1, CompletedSettled, NextAddrType DEF CpuRegisters
  <2>3. Same(w, Completed(w)) /\ Counted(w, Completed(w))
    BY <2>1, TaskSteps
  <2>4. FinishMultiCycle(m, s) = CheckInterrupt(Completed(w), NextAddr(cpu.pc), s)
    BY DEF FinishMultiCycle, w
  <2>5. LET n == CheckInterrupt(Completed(w), NextAddr(cpu.pc), s)
        IN  n.state = "fetch" /\ Same(Completed(w), n) /\ n.done = Completed(w).done
    BY <2>2, <1>3
  <2> QED BY <2>1, <2>3, <2>4, <2>5 DEF Same, Counted
<1> QED BY <1>1, <1>2, <1>3, <1>4

(* The mode is left alone; the stall register may be written.              *)
SameStops(m, n) == n.stop1 = m.stop1 /\ n.stop2 = m.stop2

(* What an instruction leaves: complete, with the next fetch begun or due, *)
(* or still to be completed.                                               *)
Stepped(m, out) ==
    /\ SameStops(m, out.m)
    /\ \/ out.m.state = "fetch" /\ Counted(m, out.m)
       \/ ~out.can_interrupt /\ out.m.state \in Executing /\ out.m.done = m.done

(* An instruction of the program does not touch the mode, and is counted   *)
(* once if it ends at once.                                                *)
LEMMA ExecuteSteps ==
  ASSUME NEW m, Idle(m), cpu \in CpuRegisters, ~cpu.is_stalled, NEW i \in Instruction,
         i.kind # "trap", ~(i.kind = "mtspr" /\ i.spr = "DMR1")
  PROVE  Stepped(m, ExecuteInstruction(m, i))
<1>1. /\ m \in CpuRegisters /\ i.kind \in Kinds /\ i.spr \in Sprs /\ i.word \in Word
      /\ i.cause \in Causes /\ m.state = "fetch" /\ cpu.pc \in Addr /\ cpu.sr \in SUBSET Flags
  BY DEF Idle, Instruction, CpuRegisters
<1>2. ScheduleRegisterWrite(m) \in CpuRegisters /\ Same(m, ScheduleRegisterWrite(m))
      /\ ScheduleRegisterWrite(m).done = m.done /\ ScheduleRegisterWrite(m).state = "fetch"
  BY <1>1, ScheduledType, TaskSteps
<1>3. ASSUME NEW r \in CpuRegisters, SameStops(m, r), r.done = m.done, r.state = "fetch",
             NEW p, NEW s
      PROVE  Stepped(m, Retire(r, p, s))
  <2>1. Same(r, Completed(r)) /\ Counted(r, Completed(r)) /\ Completed(r).state = "fetch"
    BY <1>3, TaskSteps
  <2> QED BY <1>3, <2>1 DEF Retire, Stepped, Same, SameStops, Counted
<1>4. ASSUME NEW r \in CpuRegisters, SameStops(m, r), r.done = m.done,
             NEW cause \in Causes, NEW s \in SUBSET Flags
      PROVE  Stepped(m, Fault(r, cause, s))
  <2> DEFINE n == Completed(RaiseException(r, cause, cpu.pc, s))
  <2>1. n.state = "fetch" /\ Same(r, n) /\ Counted(r, n)
    BY <1>1, CompletionSteps
  <2>2. Fault(r, cause, s).m = n
    BY DEF Fault, Continue
  <2> HIDE DEF n
  <2> QED BY <1>4, <2>1, <2>2 DEF Stepped, Same, SameStops, Counted
<1>5. ASSUME NEW n, SameStops(m, n), n.done = m.done, n.state \in Executing, NEW s
      PROVE  Stepped(m, Continue(n, s))
  BY <1>5 DEF Continue, Stepped
<1>6. SameStops(m, m) /\ SameStops(m, ScheduleRegisterWrite(m))
  BY <1>2 DEF SameStops, Same
<1>7. CASE i.kind \in {"nop", "alu", "jump", "jal", "fault"}
  BY <1>1, <1>2, <1>3, <1>4, <1>6, <1>7 DEF ExecuteInstruction
<1>8. CASE i.kind = "add"
  <2>1. SetFlags(i.word.flags) \in SUBSET Flags
    BY <1>1, SetFlagsType, WordFields
  <2> QED BY <1>2, <1>3, <1>4, <1>6, <1>8, <2>1 DEF ExecuteInstruction, ExecuteAdd, Causes
<1>9. CASE i.kind = "mul"
  <2> DEFINE n == [m EXCEPT !.state = "multiplying", !.busy = MulDelay]
  <2>1. SameStops(m, n) /\ n.done = m.done /\ n.state \in Executing
    BY <1>1 DEF CpuRegisters, SameStops, Executing
  <2> HIDE DEF n
  <2> QED BY <1>5, <1>9, <2>1 DEF ExecuteInstruction, ExecuteMul, n
<1>10. CASE i.kind = "div"
  <2> DEFINE n == [m EXCEPT !.state = "dividing", !.div_valid = TRUE]
             t == SetFlags(IF i.word.bit THEN {"CY"} ELSE {})
  <2>1. SameStops(m, n) /\ n.done = m.done /\ n.state \in Executing
    BY <1>1 DEF CpuRegisters, SameStops, Executing
  <2>2. t \in SUBSET Flags
    BY <1>1, SetFlagsType DEF Flags
  <2>3. ExecuteInstruction(m, i) \in
          {Continue(n, t), Fault(m, "range", t), Retire(m, NextAddr(cpu.pc), t)}
    BY <1>10 DEF ExecuteInstruction, ExecuteDiv
  <2> HIDE DEF n, t
  <2>4. Stepped(m, Fault(m, "range", t))
    BY <1>1, <1>4, <1>6, <2>2 DEF Causes
  <2> QED BY <1>1, <1>3, <1>5, <1>6, <2>1, <2>3, <2>4
<1>11. CASE i.kind = "shift"
  <2> DEFINE n == [m EXCEPT !.state = "shifting", !.busy = i.shift]
  <2>1. SameStops(m, n) /\ n.done = m.done /\ n.state \in Executing
    BY <1>1 DEF CpuRegisters, SameStops, Executing
  <2>2. ExecuteInstruction(m, i) \in
          {Continue(n, cpu.sr), Retire(ScheduleRegisterWrite(m), NextAddr(cpu.pc), cpu.sr)}
    BY <1>11 DEF ExecuteInstruction, ExecuteShift
  <2> HIDE DEF n
  <2> QED BY <1>2, <1>3, <1>5, <1>6, <2>1, <2>2
<1>12. CASE i.kind \in {"load", "store"}
  <2> DEFINE n(we) == StartDataCycle(m, [adr |-> i.word.addr, we |-> we], "data")
  <2>1. \A we \in BOOLEAN :
          SameStops(m, n(we)) /\ n(we).done = m.done /\ n(we).state \in Executing
    BY <1>1 DEF CpuRegisters, SameStops, Executing, StartDataCycle
  <2>2. ExecuteInstruction(m, i) \in {Continue(n(TRUE), cpu.sr), Continue(n(FALSE), cpu.sr)}
    BY <1>12 DEF ExecuteInstruction
  <2> HIDE DEF n
  <2> QED BY <1>5, <2>1, <2>2
<1>13. CASE i.kind = "rfe"
  <2> DEFINE r == [m EXCEPT !.handler = "none"]
  <2>1. r \in CpuRegisters /\ SameStops(m, r) /\ r.done = m.done /\ r.state = "fetch"
    BY <1>1 DEF CpuRegisters, SameStops
  <2>2. ExecuteInstruction(m, i) = Retire(r, cpu.epcr, cpu.esr)
    BY <1>13 DEF ExecuteInstruction, ExecuteRfe
  <2> HIDE DEF r
  <2> QED BY <1>3, <2>1, <2>2
<1>14. CASE i.kind = "mtspr"
  <2> DEFINE r == WriteCpuSpr(m, i.spr, i.word)
  <2>1. r \in CpuRegisters
    BY <1>1, WriteCpuSprType
  <2>2. SameStops(m, r) /\ r.done = m.done /\ r.state = "fetch"
    <3>1. CASE i.spr \notin {"EDIS", "TTMR", "GPR"}
      BY <1>1, <1>14, <3>1 DEF WriteCpuSpr, CpuRegisters, SameStops
    <3>2. CASE i.spr = "EDIS"
      <4>1. r = [m EXCEPT !.is_stalled = i.word.bit, !.done = m.done]
        BY <1>1, <3>2 DEF WriteCpuSpr, WriteEdis, CpuRegisters
      <4> QED BY <1>1, <4>1 DEF CpuRegisters, SameStops
    <3>3. CASE i.spr = "TTMR"
      BY <1>1, <3>3 DEF WriteCpuSpr, WriteTtmr, CpuRegisters, SameStops
    <3>4. CASE i.spr = "GPR"
      BY <1>1, <3>4 DEF WriteCpuSpr, ScheduleRegisterWrite, CpuRegisters, SameStops
    <3> QED BY <3>1, <3>2, <3>3, <3>4
  <2>3. Stepped(m, Fault(m, "range", cpu.sr)) /\ Stepped(m, Fault(m, "align", cpu.sr))
    BY <1>1, <1>4, <1>6 DEF Causes
  <2>4. ExecuteInstruction(m, i) \in
          {Fault(m, "range", cpu.sr), Fault(m, "align", cpu.sr),
           Retire(r, NextPc(i.spr, i.word, NextAddr(cpu.pc)), NextSr(i.spr, i.word))}
    BY <1>14 DEF ExecuteInstruction, ExecuteMtspr
  <2> HIDE DEF r
  <2> QED BY <1>3, <2>1, <2>2, <2>3, <2>4
<1>15. CASE i.kind = "sleep"
  <2> DEFINE n == [m EXCEPT !.state = "sleep"]
  <2>1. SameStops(m, n) /\ n.done = m.done /\ n.state \in Executing
    BY <1>1 DEF CpuRegisters, SameStops, Executing
  <2> HIDE DEF n
  <2> QED BY <1>5, <1>15, <2>1 DEF ExecuteInstruction, n
<1> QED BY <1>1, <1>7, <1>8, <1>9, <1>10, <1>11, <1>12, <1>13, <1>14, <1>15 DEF Kinds

(* The interrupt taken after it changes nothing of that.                   *)
LEMMA FinishSteps ==
  ASSUME NEW m, Idle(m), cpu \in CpuRegisters, NEW out, Sound(out), Stepped(m, out)
  PROVE  LET n == FinishInstruction(out)
         IN  /\ SameStops(m, n)
             /\ \/ n.state = "fetch" /\ Counted(m, n)
                \/ n.state \in Executing /\ n.done = m.done
<1> DEFINE w == [out.m EXCEPT !.sr = out.sr]
<1>1. w \in CpuRegisters /\ Same(out.m, w) /\ w.done = out.m.done /\ w.state = out.m.state
  BY DEF Sound, CpuRegisters, Same
<1>2. FinishInstruction(out) =
        IF out.can_interrupt THEN CheckInterrupt(w, out.pc, out.sr) ELSE w
  BY DEF FinishInstruction
<1> HIDE DEF w
<1>3. CASE out.can_interrupt
  <2> DEFINE n == CheckInterrupt(w, out.pc, out.sr)
  <2>1. n.state = "fetch" /\ Same(w, n) /\ n.done = w.done
    BY <1>1, CompletionSteps DEF Sound, Causes
  <2>2. FinishInstruction(out) = n
    BY <1>2, <1>3
  <2>3. SameStops(m, out.m) /\ Counted(m, out.m)
    BY <1>3 DEF Stepped
  <2> HIDE DEF n
  <2> QED BY <1>1, <2>1, <2>2, <2>3 DEF Same, SameStops, Counted
<1>4. CASE ~out.can_interrupt
  <2>1. FinishInstruction(out) = w
    BY <1>2, <1>4
  <2> QED BY <1>1, <2>1 DEF Stepped, Same, SameStops, Counted
<1> QED BY <1>3, <1>4

(* The states of the Debug Unit.                                           *)
DebugStates == {"dbg_read", "dbg_data", "dbg_ack", "dbg_stb", "stalled"}

(* What an operation of the debugger does to a CPU that it finds between   *)
(* two instructions.                                                       *)
LEMMA DebugSteps ==
  ASSUME NEW m \in CpuRegisters, cpu \in CpuRegisters, op \in DebugOp,
         m.is_stalled = cpu.is_stalled,
         m.stop1 => cpu.is_stalled \/ m.done = 0,
         op.we /\ op.spr = "DMR1" => cpu.is_stalled
  PROVE  LET n == StartDebugOperation(m)
         IN  /\ n.state \in DebugStates
             /\ n.stop1 => n.is_stalled \/ n.done = 0
             /\ op.we /\ op.spr = "DMR1" => n.is_stalled
             /\ n.stop2 => m.stop2
<1>1. op.spr \in Sprs /\ op.word \in Word /\ op.word.bit \in BOOLEAN
  BY WordFields DEF DebugOp
<1>2. CASE ~op.we
  BY <1>2 DEF StartDebugOperation, CpuRegisters, DebugStates
<1>3. CASE op.we /\ op.spr \in {"READ_MEM_ADDR", "WRITE_MEM_DATA"}
  BY <1>3 DEF StartDebugOperation, StartDataCycle, CpuRegisters, DebugStates
<1>4. CASE op.we /\ op.spr \notin {"READ_MEM_ADDR", "WRITE_MEM_DATA"}
  <2> DEFINE w == WriteCpuSpr(m, op.spr, op.word)
             n == StartDebugOperation(m)
  <2>1. w \in CpuRegisters
    BY <1>1, WriteCpuSprType
  <2>2. n.state = "dbg_ack" /\ Same(w, n) /\ n.done = w.done
    <3>1. n = [w EXCEPT !.sr = NextSr(op.spr, op.word), !.pc = NextPc(op.spr, op.word, cpu.pc),
                        !.state = "dbg_ack"]
      BY <1>4 DEF StartDebugOperation
    <3> HIDE DEF w, n
    <3> QED BY <2>1, <3>1 DEF CpuRegisters, Same
  <2>3. /\ w.stop1 => w.is_stalled \/ w.done = 0
        /\ op.we /\ op.spr = "DMR1" => w.is_stalled
        /\ w.stop2 => m.stop2
    <3>1. CASE op.spr \notin {"EDIS", "TTMR", "GPR", "DMR1"}
      BY <1>1, <3>1 DEF WriteCpuSpr, CpuRegisters
    <3>2. CASE op.spr = "EDIS"
      <4> DEFINE d == IF cpu.is_stalled /\ ~op.word.bit THEN 0 ELSE m.done
      <4>1. w = [m EXCEPT !.is_stalled = op.word.bit, !.done = d]
        BY <3>2 DEF WriteCpuSpr, WriteEdis
      <4>2. w.stop1 = m.stop1 /\ w.stop2 = m.stop2 /\ w.is_stalled = op.word.bit /\ w.done = d
        BY ONLY <4>1, m \in CpuRegisters DEF CpuRegisters
      <4> QED BY <3>2, <4>2
    <3>3. CASE op.spr = "TTMR"
      BY <1>1, <3>3 DEF WriteCpuSpr, WriteTtmr, CpuRegisters
    <3>4. CASE op.spr = "GPR"
      BY <1>1, <3>4 DEF WriteCpuSpr, ScheduleRegisterWrite, CpuRegisters
    <3>5. CASE op.spr = "DMR1"
      BY <1>1, <1>4, <3>5 DEF WriteCpuSpr, CpuRegisters
    <3> QED BY <3>1, <3>2, <3>3, <3>4, <3>5
  <2> HIDE DEF w, n
  <2> QED BY <2>2, <2>3 DEF Same, DebugStates, n
<1> QED BY <1>1, <1>2, <1>3, <1>4 DEF DebugOp

(* check_debug_unit_operation_start leaves the single-step mode.           *)
LEMMA CheckDebugSteps ==
  ASSUME NEW m \in CpuRegisters, cpu \in CpuRegisters, ~m.gpr_write, m.bus = NoRequest,
         m.is_stalled = cpu.is_stalled, stb \in BOOLEAN, stb => op \in DebugOp,
         m.stop1 => cpu.is_stalled \/ m.done = 0,
         stb /\ op.we /\ op.spr = "DMR1" => cpu.is_stalled
  PROVE  LET n == CheckDebugUnitOperationStart(m)
         IN  StepMode(n) /\ (stb /\ op.we /\ op.spr = "DMR1" => n.is_stalled)
<1> DEFINE n == CheckDebugUnitOperationStart(m)
<1>1. DebugStates \cap (Executing \cup {"fetch"}) = {}
  BY DEF DebugStates, Executing
<1>2. CASE stb
  <2> DEFINE d == StartDebugOperation(m)
  <2>1. /\ d.state \in DebugStates /\ (d.stop1 => d.is_stalled \/ d.done = 0)
        /\ (op.we /\ op.spr = "DMR1" => d.is_stalled)
    BY <1>2, DebugSteps
  <2>2. d \in CpuRegisters
    BY <1>2, StartDebugOperationSettled DEF Settled
  <2>3. n = [d EXCEPT !.stop2 = FALSE]
    BY <1>2 DEF CheckDebugUnitOperationStart
  <2> HIDE DEF d, n
  <2>4. /\ n.state = d.state /\ n.stop1 = d.stop1 /\ ~n.stop2
        /\ n.is_stalled = d.is_stalled /\ n.done = d.done
    BY <2>2, <2>3 DEF CpuRegisters
  <2>5. StepMode(n) /\ (stb /\ op.we /\ op.spr = "DMR1" => n.is_stalled)
    BY <1>1, <2>1, <2>4 DEF StepMode
  <2> QED BY <2>5 DEF n
<1>3. CASE ~stb
  <2>1. \/ n = [m EXCEPT !.state = "stalled", !.stop2 = FALSE] /\ cpu.is_stalled
        \/ n = [m EXCEPT !.reason_trap = TRUE, !.is_stalled = TRUE,
                         !.state = "stalled", !.stop2 = FALSE]
    BY <1>3 DEF CheckDebugUnitOperationStart
  <2> HIDE DEF n
  <2>2. n.state = "stalled" /\ ~n.stop2 /\ n.is_stalled
    <3>1. CASE n = [m EXCEPT !.state = "stalled", !.stop2 = FALSE] /\ cpu.is_stalled
      BY <3>1 DEF CpuRegisters
    <3>2. CASE n = [m EXCEPT !.reason_trap = TRUE, !.is_stalled = TRUE,
                             !.state = "stalled", !.stop2 = FALSE]
      BY <3>2 DEF CpuRegisters
    <3> QED BY <2>1, <3>1, <3>2
  <2>3. StepMode(n)
    BY <2>2 DEF StepMode, Executing
  <2> QED BY <1>3, <2>3 DEF n
<1> QED BY <1>2, <1>3

(* Every clock edge preserves the invariant of the single-step mode.       *)
LEMMA ClockSteps ==
  ASSUME SteppedByDebugger, CoreInv, StepInv, Clock
  PROVE  StepMode(cpu') /\ (stb /\ op.we /\ op.spr = "DMR1" => cpu'.is_stalled)
<1> DEFINE m == StepStateMachine
<1>1. /\ cpu \in CpuRegisters /\ m \in CpuRegisters /\ m.bus = NoRequest /\ ~m.gpr_write
      /\ cpu.pc \in Addr /\ cpu.sr \in SUBSET Flags /\ NextAddr(cpu.pc) \in Addr
      /\ stb \in BOOLEAN /\ (stb => op \in DebugOp)
  BY StepFacts, NextAddrType DEF CoreInv, Settled, CpuRegisters
<1>2. m.state = cpu.state /\ Same(cpu, m) /\ m.done = cpu.done
  BY <1>1, StepKeeps DEF Same
<1>3. StepMode(cpu) /\ StepMode(m)
  BY <1>2 DEF StepInv, StepMode, Same
<1>4. stb /\ op.we /\ op.spr = "DMR1" => cpu.is_stalled
  BY DEF StepInv
<1>5. ScheduleRegisterWrite(m) \in CpuRegisters /\ Same(m, ScheduleRegisterWrite(m))
      /\ ScheduleRegisterWrite(m).done = m.done
  BY <1>1, ScheduledType, TaskSteps
<1> HIDE DEF m
(* A step that completes an instruction of several clocks.                 *)
<1>6. ASSUME cpu.state \in Executing, cpu'.state = "fetch", Same(m, cpu'), Counted(m, cpu')
      PROVE  StepMode(cpu') /\ (stb /\ op.we /\ op.spr = "DMR1" => cpu'.is_stalled)
  BY <1>2, <1>3, <1>4, <1>6 DEF StepMode, Same, Counted, Executing
(* A step that changes neither the state nor the mode.                     *)
<1>7. ASSUME cpu'.state = cpu.state, Same(m, cpu'), cpu'.done = m.done
      PROVE  StepMode(cpu') /\ (stb /\ op.we /\ op.spr = "DMR1" => cpu'.is_stalled)
  BY <1>2, <1>3, <1>4, <1>7 DEF StepMode, Same
(* A step from one state of the Debug Unit to another.                     *)
<1>8. ASSUME cpu.state \in DebugStates, cpu'.state \in DebugStates, Same(m, cpu'),
             cpu'.done = m.done
      PROVE  StepMode(cpu') /\ (stb /\ op.we /\ op.spr = "DMR1" => cpu'.is_stalled)
  BY <1>2, <1>3, <1>4, <1>8 DEF StepMode, Same, Executing, DebugStates
(* The Debug Unit lets the CPU go on.                                      *)
<1>9. ASSUME cpu.state \in DebugStates, cpu'.state = "fetch", Same(m, cpu'), cpu'.done = m.done,
             ~cpu.is_stalled
      PROVE  StepMode(cpu') /\ (stb /\ op.we /\ op.spr = "DMR1" => cpu'.is_stalled)
  BY <1>2, <1>3, <1>4, <1>9 DEF StepMode, Same, Executing, DebugStates
<1>10. CASE DoStateReset
  <2>1. ~cpu'.stop1 /\ ~cpu'.stop2 /\ ~cpu.is_stalled
    <3> DEFINE f == StartFetch(m, Vector["reset"])
    <3>1. f \in CpuRegisters
      BY <1>1, StartFetchSettled, VectorAssumption DEF Settled, Causes
    <3>2. cpu' = [f EXCEPT
               !.sr = RESET_SPR_SR, !.epcr = 0, !.esr = {}, !.picmr = FALSE,
               !.mode = 0, !.ie = FALSE, !.ip = FALSE, !.tp = 0, !.ttcr = 0,
               !.trap_enabled = FALSE, !.reason_trap = FALSE,
               !.stop1 = FALSE, !.stop2 = FALSE, !.is_stalled = FALSE,
               !.dvr = 0, !.div_valid = TRUE, !.handler = "none", !.done = 0]
      BY <1>10 DEF DoStateReset, Edge, m
    <3> HIDE DEF f
    <3>3. ~cpu'.stop1 /\ ~cpu'.stop2
      BY <3>1, <3>2 DEF CpuRegisters
    <3> QED BY <1>10, <3>3 DEF DoStateReset, CoreInv, Settled, Executing
  <2> QED BY <1>4, <2>1 DEF StepMode
<1>11. CASE FetchWait
  BY <1>1, <1>7, <1>11, TaskSteps DEF FetchWait, Edge, m
<1>12. CASE FetchSingleStepped
  <2>1. cpu' = [m EXCEPT !.is_stalled = TRUE, !.stop2 = FALSE, !.state = "stalled"]
    BY <1>12 DEF FetchSingleStepped, Edge, m
  <2>2. cpu'.is_stalled /\ ~cpu'.stop2 /\ cpu'.state = "stalled"
    BY <1>1, <2>1 DEF CpuRegisters
  <2> QED BY <2>2 DEF StepMode, Executing
<1>13. CASE FetchDebugged \/ SleepDebugged
  <2>1. cpu' = CheckDebugUnitOperationStart(m)
    BY <1>13 DEF FetchDebugged, SleepDebugged, Edge, m
  <2>2. m.is_stalled = cpu.is_stalled /\ (m.stop1 => cpu.is_stalled \/ m.done = 0)
    BY <1>2, <1>3, <1>13 DEF FetchDebugged, SleepDebugged, StepMode, Same, Executing
  <2> QED BY <1>1, <1>4, <2>1, <2>2, CheckDebugSteps
<1>14. ASSUME NEW i \in Program, FetchExecute(i)
       PROVE  StepMode(cpu') /\ (stb /\ op.we /\ op.spr = "DMR1" => cpu'.is_stalled)
  <2> DEFINE n == [m EXCEPT !.stop2 = cpu.stop1]
             out == ExecuteInstruction(n, i)
  <2>1. /\ ~cpu.is_stalled /\ ~stb /\ cpu.state = "fetch" /\ ~cpu.stop2
        /\ cpu.stop1 \in BOOLEAN
    BY <1>1, <1>14 DEF FetchExecute, DebugUnitActive, CpuRegisters
  <2>2. /\ n \in CpuRegisters /\ n.is_stalled = cpu.is_stalled /\ n.state = "fetch"
        /\ n.bus = NoRequest /\ ~n.gpr_write
        /\ n.stop1 = cpu.stop1 /\ n.stop2 = cpu.stop1 /\ n.done = cpu.done
    BY <1>1, <1>2, <2>1 DEF CpuRegisters, Same
  <2> HIDE DEF n
  <2>3. Idle(n) /\ i \in Instruction
    BY <2>1, <2>2, StreamAssumption DEF Idle
  <2>4. Sound(out) /\ Stepped(n, out)
    BY <1>1, <2>1, <2>3, ExecuteSound, ExecuteSteps DEF SteppedByDebugger
  <2>5. cpu' = FinishInstruction(out)
    BY <1>14 DEF FetchExecute, Edge, m, n
  <2> HIDE DEF out
  <2>6. /\ SameStops(n, cpu')
        /\ \/ cpu'.state = "fetch" /\ Counted(n, cpu')
           \/ cpu'.state \in Executing /\ cpu'.done = n.done
    BY <1>1, <2>3, <2>4, <2>5, FinishSteps
  <2>7. cpu.stop1 => cpu.done = 0
    BY <1>3, <2>1 DEF StepMode
  <2> QED BY <2>1, <2>2, <2>6, <2>7 DEF StepMode, SameStops, Counted, Executing
<1>15. CASE FetchError
  <2>1. cpu'.state = "fetch" /\ Same(m, cpu') /\ cpu'.done = m.done
    BY <1>1, <1>15, TaskSteps DEF FetchError, BusError, Edge, m
  <2> QED BY <1>7, <1>15, <2>1 DEF FetchError
<1>16. CASE KeepDataCycle
  BY <1>1, <1>2, <1>7, <1>16 DEF KeepDataCycle, Edge, m, CpuRegisters, Same
<1>17. CASE DataAcknowledged
  BY <1>1, <1>5, <1>6, <1>17, CompletionSteps DEF DataAcknowledged, Edge, m, Executing, Causes,
     Same, Counted
<1>18. CASE DataError
  BY <1>1, <1>6, <1>18, CompletionSteps DEF DataError, BusError, Edge, m, Executing, Causes
<1>19. CASE SleepGoesOn
  BY <1>1, <1>2, <1>6, <1>7, <1>19, CompletionSteps
     DEF SleepGoesOn, Edge, m, Executing, Causes, Same
<1>20. CASE Shifting
  <2> DEFINE w == [ScheduleRegisterWrite(m) EXCEPT !.busy = 0]
  <2>1. w \in CpuRegisters /\ Same(m, w) /\ w.done = m.done
    BY <1>5, SizeAssumption DEF CpuRegisters, Same
  <2>2. cpu' = IF cpu.busy = 1 THEN FinishMultiCycle(w, cpu.sr) ELSE [m EXCEPT !.busy = @ - 1]
    BY <1>20 DEF Shifting, Edge, m
  <2> HIDE DEF w
  <2>3. LET n == [m EXCEPT !.busy = @ - 1]
        IN  n.state = m.state /\ Same(m, n) /\ n.done = m.done
    BY <1>1 DEF CpuRegisters, Same
  <2>4. LET n == FinishMultiCycle(w, cpu.sr)
        IN  n.state = "fetch" /\ Same(m, n) /\ Counted(m, n)
    BY <1>1, <2>1, CompletionSteps DEF Causes, Same, Counted
  <2> QED BY <1>2, <1>6, <1>7, <1>20, <2>2, <2>3, <2>4 DEF Shifting, Executing
<1>21. CASE MultiplyingWait \/ DividingWait \/ DividerAccepts
  <2>1. \/ cpu' = m \/ cpu' = [m EXCEPT !.busy = @ - 1] \/ cpu' = [m EXCEPT !.div_valid = FALSE]
    BY <1>21 DEF MultiplyingWait, DividingWait, DividerAccepts, Edge, m
  <2>2. cpu'.state = m.state /\ Same(m, cpu') /\ cpu'.done = m.done
    BY <1>1, <2>1 DEF CpuRegisters, Same
  <2> QED BY <1>2, <1>7, <2>2
<1>22. CASE MultiplyingDone
  <2>1. PICK flags \in {{}, {"OV"}, {"CY"}} :
          LET next_sr == SetFlags(flags)
              written == [ScheduleRegisterWrite(m) EXCEPT !.sr = next_sr]
          IN  cpu' = IF RangeTrips("OV", next_sr)
                     THEN Completed(RaiseException(written, "range", cpu.pc, next_sr))
                     ELSE FinishMultiCycle(written, next_sr)
    BY <1>22 DEF MultiplyingDone, Edge, m
  <2> DEFINE s == SetFlags(flags)
             w == [ScheduleRegisterWrite(m) EXCEPT !.sr = s]
  <2>2. s \in SUBSET Flags
    BY <1>1, SetFlagsType DEF Flags
  <2> HIDE DEF s
  <2>3. w \in CpuRegisters /\ Same(m, w) /\ w.done = m.done
    BY <1>5, <2>2 DEF CpuRegisters, Same
  <2> HIDE DEF w
  <2>4. cpu' \in {Completed(RaiseException(w, "range", cpu.pc, s)), FinishMultiCycle(w, s)}
    BY <2>1 DEF s, w
  <2>5. cpu'.state = "fetch" /\ Same(w, cpu') /\ Counted(w, cpu')
    BY <1>1, <2>2, <2>3, <2>4, CompletionSteps DEF Causes
  <2> QED BY <1>6, <1>22, <2>3, <2>5 DEF MultiplyingDone, Executing, Same, Counted
<1>23. CASE DividingDone
  <2>1. LET n == FinishMultiCycle(ScheduleRegisterWrite(m), cpu.sr)
        IN  n.state = "fetch" /\ Same(m, n) /\ Counted(m, n)
    BY <1>1, <1>5, CompletionSteps DEF Causes, Same, Counted
  <2> QED BY <1>6, <1>23, <2>1 DEF DividingDone, Edge, m, Executing
<1>24. CASE DebugRegFileRead \/ DebugDataAnswered \/ DebugAckAssert
  <2>1. \/ cpu' = [m EXCEPT !.state = "dbg_ack"]
        \/ cpu' = [m EXCEPT !.dbg_ack = TRUE, !.state = "dbg_stb"]
    BY <1>24 DEF DebugRegFileRead, DebugDataAnswered, DebugAckAssert, Edge, m
  <2>2. Same(m, cpu') /\ cpu'.done = m.done /\ cpu'.state \in DebugStates
    <3>1. CASE cpu' = [m EXCEPT !.state = "dbg_ack"]
      BY <1>1, <3>1 DEF CpuRegisters, Same, DebugStates
    <3>2. CASE cpu' = [m EXCEPT !.dbg_ack = TRUE, !.state = "dbg_stb"]
      BY <1>1, <3>2 DEF CpuRegisters, Same, DebugStates
    <3> QED BY <2>1, <3>1, <3>2
  <2> QED BY <1>8, <1>24, <2>2
          DEF DebugRegFileRead, DebugDataAnswered, DebugAckAssert, DebugStates
<1>25. CASE DebugStbDeassert
  <2> DEFINE r == [m EXCEPT !.dbg_ack = FALSE]
  <2>1. r \in CpuRegisters /\ Same(m, r) /\ r.done = m.done
    BY <1>1, ZenonT(60) DEF CpuRegisters, Same
  <2>2. \/ cpu' = m
        \/ cpu' = [r EXCEPT !.state = "stalled"]
        \/ cpu' = StartFetch(r, cpu.pc) /\ ~cpu.is_stalled
    BY <1>25 DEF DebugStbDeassert, Edge, m
  <2>3. cpu.state \in DebugStates
    BY <1>25 DEF DebugStbDeassert, DebugStates
  <2> HIDE DEF r
  <2>4. CASE cpu' = m
    BY <1>2, <1>7, <2>4 DEF Same
  <2>5. CASE cpu' = [r EXCEPT !.state = "stalled"]
    <3>1. Same(r, cpu') /\ cpu'.done = r.done /\ cpu'.state = "stalled"
      BY <2>1, <2>5 DEF CpuRegisters, Same
    <3> QED BY <1>8, <2>1, <2>3, <3>1 DEF Same, DebugStates
  <2>6. CASE cpu' = StartFetch(r, cpu.pc) /\ ~cpu.is_stalled
    BY <1>9, <2>1, <2>3, <2>6, TaskSteps DEF Same
  <2> QED BY <2>2, <2>4, <2>5, <2>6
<1>26. CASE DebugStalled
  <2>1. cpu.state = "stalled" /\ cpu.state \in DebugStates
    BY <1>26 DEF DebugStalled, DebugStates
  <2>2. CASE stb
    <3>1. cpu' = StartDebugOperation(m)
      BY <1>26, <2>2 DEF DebugStalled, Edge, m
    <3>2. m.is_stalled = cpu.is_stalled /\ ~m.stop2 /\ (m.stop1 => cpu.is_stalled \/ m.done = 0)
      BY <1>2, <1>3, <2>1 DEF StepMode, Same, Executing
    <3>3. /\ cpu'.state \in DebugStates /\ (cpu'.stop1 => cpu'.is_stalled \/ cpu'.done = 0)
          /\ (op.we /\ op.spr = "DMR1" => cpu'.is_stalled) /\ ~cpu'.stop2
      BY <1>1, <1>4, <2>2, <3>1, <3>2, DebugSteps
    <3> QED BY <3>3 DEF StepMode, DebugStates, Executing
  <2>3. CASE ~stb
    <3>1. \/ cpu' = m
          \/ cpu' = StartFetch(m, cpu.pc) /\ ~cpu.is_stalled
      BY <1>26, <2>3 DEF DebugStalled, Edge, m
    <3>2. CASE cpu' = m
      BY <1>2, <1>7, <3>2 DEF Same
    <3>3. CASE cpu' = StartFetch(m, cpu.pc) /\ ~cpu.is_stalled
      BY <1>1, <1>9, <2>1, <3>3, TaskSteps
    <3> QED BY <3>1, <3>2, <3>3
  <2> QED BY <2>2, <2>3
<1> QED BY <1>10, <1>11, <1>12, <1>13, <1>14, <1>15, <1>16, <1>17, <1>18, <1>19, <1>20, <1>21,
           <1>22, <1>23, <1>24, <1>25, <1>26 DEF Clock, Answers

(* The Debug Interface does, too: it asks for DMR1 of a stalled CPU only.  *)
LEMMA OutsideSteps ==
  ASSUME SteppedByDebugger, CoreInv, StepInv, PicChanges \/ DebugRequest \/ DebugRelease
  PROVE  StepInv'
<1>1. cpu' = cpu
  BY DEF PicChanges, DebugRequest, DebugRelease
<1>2. stb' /\ op'.we /\ op'.spr = "DMR1" => cpu.is_stalled
  <2>1. CASE DebugRequest
    <3>1. ~cpu.is_stalled => op' \in RunningOps
      BY <2>1 DEF DebugRequest
    <3> QED BY <3>1 DEF SteppedByDebugger
  <2> QED BY <2>1 DEF PicChanges, DebugRelease, StepInv
<1> QED BY <1>1, <1>2 DEF StepInv, StepMode

(* StepInv is an invariant if the single-step mode belongs to the          *)
(* debugger.                                                               *)
THEOREM StepInvariant ==
  SteppedByDebugger /\ Spec => []StepInv
<1> SUFFICES ASSUME SteppedByDebugger
             PROVE  Spec => []StepInv
  OBVIOUS
<1>1. Init => StepInv
  BY DEF Init, StepInv, StepMode, Executing
<1>2. CoreInv /\ StepInv /\ [Next]_vars => StepInv'
  <2> SUFFICES ASSUME CoreInv, StepInv, [Next]_vars PROVE StepInv'
    OBVIOUS
  <2>1. CASE Clock
    <3>1. stb' = stb /\ op' = op
      BY <2>1, ClockKeepsOutside
    <3> QED BY <2>1, <3>1, ClockSteps DEF StepInv, StepMode
  <2>2. CASE UNCHANGED vars
    BY <2>2 DEF vars, StepInv, StepMode
  <2> QED BY <2>1, <2>2, OutsideSteps DEF Next
<1> QED BY <1>1, <1>2, CoreInvariant, PTL DEF Spec

(* A CPU resumed in single-step mode is stalled again after exactly one    *)
(* instruction, whatever it is: one that faults, one of many clocks, one   *)
(* with an interrupt at its end.                                           *)
THEOREM SingleStepsAreExact ==
  SteppedByDebugger /\ Spec => SingleStepIsExact
<1> SUFFICES ASSUME SteppedByDebugger
             PROVE  Spec => SingleStepIsExact
  OBVIOUS
<1>1. StepInv /\ [Next]_vars => [FetchSingleStepped => cpu.done = 1]_vars
  BY DEF StepInv, StepMode, FetchSingleStepped
<1>2. Spec => []StepInv
  BY StepInvariant
<1> QED BY <1>1, <1>2, PTL DEF Spec, SingleStepIsExact
=============================================================================

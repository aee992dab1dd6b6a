-------------------------- MODULE Or10Arch_proofs ---------------------------
(***************************************************************************)
(* The CPU implements Or1kArch, for every program, address space, vector   *)
(* table and debugger: clock by clock, what it does to PC, SR, EPCR and    *)
(* ESR is one instruction, one exception, one interrupt or one write of    *)
(* the debugger, or nothing.                                               *)
(***************************************************************************)
EXTENDS Or10Core_proofs

(* What a state of several clocks says of the instruction being executed:  *)
(* it is one of the program, of this kind. A division has cleared the      *)
(* flags when it began, and so its end has nothing to add.                 *)
InProgress(m) ==
    /\ m.state = "data" => \E i \in Program : i.kind \in {"load", "store"}
    /\ m.state = "shifting" => \E i \in Program : i.kind = "shift"
    /\ m.state = "multiplying" => \E i \in Program : i.kind = "mul"
    /\ m.state = "dividing" => /\ \E i \in Program : i.kind = "div" /\ ~i.word.bit
                               /\ "OV" \notin m.sr /\ "CY" \notin m.sr
    /\ m.state = "sleep" => \E i \in Program : i.kind = "sleep"
    /\ m.state = "reset" => m.sr = {} /\ m.epcr = 0 /\ m.esr = {}

(* The inductive invariant, on top of CoreInv: the instruction in          *)
(* progress, and whose operation the strobe is for.                        *)
ArchInv ==
    /\ InProgress(cpu)
    /\ stb => op \in DebugOps \cup RunningOps

(* The registers of the architecture as n presents them; in the state      *)
(* "reset" the PC is not there yet.                                        *)
View(n, p, s, e, es) ==
    n.state # "reset" /\ n.pc = p /\ n.sr = s /\ n.epcr = e /\ n.esr = es

-----------------------------------------------------------------------------
(* What the operators of Or1kArch say of each kind of instruction, in the  *)
(* terms of the CPU.                                                       *)
LEMMA EffectOf ==
  ASSUME cpu \in CpuRegisters, cpu.state # "reset", NEW i \in Instruction
  PROVE  /\ i.kind \in {"jump", "jal"} =>
              Arch!Context(i.word.addr, cpu.sr) \in Arch!Effect(i)
         /\ i.kind \in {"nop", "alu", "shift", "load", "store", "sleep"} =>
              Arch!Context(NextAddr(cpu.pc), cpu.sr) \in Arch!Effect(i)
         /\ i.kind = "rfe" => Arch!Context(cpu.epcr, cpu.esr) \in Arch!Effect(i)
         /\ i.kind = "mtspr" /\ i.spr \notin {"invalid", "misaligned"} =>
              Arch!Context(NextPc(i.spr, i.word, NextAddr(cpu.pc)), NextSr(i.spr, i.word))
                \in Arch!Effect(i)
<1>1. i.kind \in {"jump", "jal"} => Arch!Context(i.word.addr, cpu.sr) \in Arch!Effect(i)
  BY DEF Arch!Effect, Arch!Arithmetic
<1>2. Arch!FollowingPc = NextAddr(cpu.pc)
  BY DEF Arch!FollowingPc, NextAddr
<1>3. i.kind \in {"nop", "alu", "shift", "load", "store", "sleep"} =>
              Arch!Context(NextAddr(cpu.pc), cpu.sr) \in Arch!Effect(i)
  BY <1>2 DEF Arch!Effect, Arch!Arithmetic
<1>4. i.kind = "rfe" => Arch!Context(cpu.epcr, cpu.esr) \in Arch!Effect(i)
  BY DEF Arch!Effect, Arch!Arithmetic
<1>5. i.kind = "mtspr" /\ i.spr \notin {"invalid", "misaligned"} =>
              Arch!Context(NextPc(i.spr, i.word, NextAddr(cpu.pc)), NextSr(i.spr, i.word))
                \in Arch!Effect(i)
  BY <1>2 DEF Arch!Effect, Arch!Arithmetic, NextPc, NextSr
<1> QED BY <1>1, <1>3, <1>4, <1>5

(* The flag that may raise a range exception.                              *)
TrapFlag(i) == IF i.kind = "div" THEN "CY" ELSE "OV"

(* The flags an arithmetic instruction may produce.                        *)
ResultFlags(i) == CASE i.kind = "add" -> {i.word.flags}
                    [] i.kind = "mul" -> {{}, {"OV"}, {"CY"}}
                    [] i.kind = "div" -> {IF i.word.bit THEN {"CY"} ELSE {}}

(* A result that raises a range exception is a cause of one, and any other *)
(* is an effect.                                                           *)
LEMMA ArithmeticOf ==
  ASSUME cpu \in CpuRegisters, cpu.state # "reset", NEW i \in Instruction,
         i.kind \in {"add", "mul", "div"}, NEW f \in ResultFlags(i)
  PROVE  IF RangeTrips(TrapFlag(i), SetFlags(f))
         THEN [cause |-> "range", esr |-> SetFlags(f)] \in Arch!Causes(i)
         ELSE Arch!Context(NextAddr(cpu.pc), SetFlags(f)) \in Arch!Effect(i)
<1>1. Arch!FollowingPc = NextAddr(cpu.pc)
  BY DEF Arch!FollowingPc, NextAddr
<1>2. \A flags : Arch!WithFlags(flags) = SetFlags(flags)
  BY DEF Arch!WithFlags, SetFlags
<1>3. Arch!Results(i) = {SetFlags(flags) : flags \in ResultFlags(i)}
  BY <1>2 DEF Arch!Results, ResultFlags
<1>4. SetFlags(f) \in Arch!Results(i)
  BY <1>3
<1>5. Arch!TrapFlag(i) = TrapFlag(i)
  BY DEF Arch!TrapFlag, TrapFlag
<1>6. \A flag, s : Arch!Trips(flag, s) = RangeTrips(flag, s)
  BY DEF Arch!Trips, RangeTrips
<1>7. CASE RangeTrips(TrapFlag(i), SetFlags(f))
  <2>1. Arch!Causes(i) = {[cause |-> "range", esr |-> r] :
                            r \in {r \in Arch!Results(i) : Arch!Trips(Arch!TrapFlag(i), r)}}
    BY DEF Arch!Causes, Arch!Arithmetic
  <2>2. SetFlags(f) \in {r \in Arch!Results(i) : Arch!Trips(Arch!TrapFlag(i), r)}
    BY <1>4, <1>5, <1>6, <1>7
  <2> QED BY <1>7, <2>1, <2>2
<1>8. CASE ~RangeTrips(TrapFlag(i), SetFlags(f))
  <2>1. Arch!Effect(i) = {Arch!Context(Arch!FollowingPc, s) :
                            s \in {r \in Arch!Results(i) : ~Arch!Trips(Arch!TrapFlag(i), r)}}
    BY DEF Arch!Effect, Arch!Arithmetic
  <2>2. SetFlags(f) \in {r \in Arch!Results(i) : ~Arch!Trips(Arch!TrapFlag(i), r)}
    BY <1>4, <1>5, <1>6, <1>8
  <2> QED BY <1>1, <1>8, <2>1, <2>2
<1> QED BY <1>7, <1>8

(* The other causes.                                                       *)
LEMMA CausesOf ==
  ASSUME cpu \in CpuRegisters, cpu.state # "reset", NEW i \in Instruction
  PROVE  /\ i.kind = "fault" => [cause |-> i.cause, esr |-> cpu.sr] \in Arch!Causes(i)
         /\ i.kind = "trap" => [cause |-> "trap", esr |-> cpu.sr] \in Arch!Causes(i)
         /\ i.kind = "mtspr" /\ i.spr = "invalid" =>
              [cause |-> "range", esr |-> cpu.sr] \in Arch!Causes(i)
         /\ i.kind = "mtspr" /\ i.spr = "misaligned" =>
              [cause |-> "align", esr |-> cpu.sr] \in Arch!Causes(i)
BY DEF Arch!Causes, Arch!Arithmetic

-----------------------------------------------------------------------------
(* A step of the CPU that shows the registers of the architecture change   *)
(* in one of the ways Or1kArch allows is a step of Or1kArch.               *)
SavedBy(i, e, es) ==
    /\ e = IF i.kind = "mtspr" /\ i.spr = "EPCR" THEN i.word.addr ELSE cpu.epcr
    /\ es = IF i.kind = "mtspr" /\ i.spr = "ESR" THEN i.word.flags ELSE cpu.esr

(* An instruction that hands on its context.                               *)
LEMMA ExecuteStep ==
  ASSUME cpu.state # "reset", NEW i \in Program, NEW p, NEW s, NEW e, NEW es,
         Arch!Context(p, s) \in Arch!Effect(i), SavedBy(i, e, es), View(cpu', p, s, e, es)
  PROVE  Arch!Next
<1>1. PICK next \in Arch!Effect(i) : next = Arch!Context(p, s)
  OBVIOUS
<1>2. next.pc = p /\ next.sr = s
  BY <1>1 DEF Arch!Context
<1>3. Arch!Execute(i)
  BY <1>2 DEF Arch!Execute, Arch!Saved, SavedBy, View
<1> QED BY <1>3 DEF Arch!Next

(* An interrupt taken at its end, which saves that context.                *)
LEMMA InterruptStep ==
  ASSUME cpu.state # "reset", NEW i \in Program, NEW p, NEW s, InterruptPending,
         Arch!Context(p, s) \in Arch!Effect(i),
         View(cpu', Vector[IF ExternalPending THEN "external" ELSE "tick"], {}, p, s)
  PROVE  Arch!Next
<1>1. PICK next \in Arch!Effect(i) : next = Arch!Context(p, s)
  OBVIOUS
<1>2. next.pc = p /\ next.sr = s
  BY <1>1 DEF Arch!Context
<1>3. Arch!Interrupted(i)
  <2>1. CASE ExternalPending
    BY <1>2, <2>1 DEF Arch!Interrupted, View, ExternalPending
  <2>2. CASE ~ExternalPending
    BY <1>2, <2>2 DEF Arch!Interrupted, View, InterruptPending, TickPending
  <2> QED BY <2>1, <2>2
<1> QED BY <1>3 DEF Arch!Next

(* A fault, with SR reset after l.mul and overwritten with the flags after *)
(* any other instruction.                                                  *)
LEMMA FaultStep ==
  ASSUME cpu.state # "reset", NEW i \in Program, NEW cause, NEW r,
         [cause |-> cause, esr |-> r] \in Arch!Causes(i),
         View(cpu', Vector[cause], IF i.kind = "mul" THEN {} ELSE r, cpu.pc, r)
  PROVE  Arch!Next
<1>1. PICK fault \in Arch!Causes(i) : fault = [cause |-> cause, esr |-> r]
  OBVIOUS
<1>2. fault.cause = cause /\ fault.esr = r
  BY <1>1
<1>3. Arch!Faulting(i)
  BY <1>2 DEF Arch!Faulting, Arch!HandlerSr, View
<1> QED BY <1>3 DEF Arch!Next

(* A bus error.                                                            *)
LEMMA BusFaultStep ==
  ASSUME cpu.state # "reset", View(cpu', Vector["bus"], {}, cpu.pc, cpu.sr)
  PROVE  Arch!Next
BY DEF Arch!Next, Arch!BusFault, View

(* The first clock of a division.                                          *)
LEMMA DivisionStep ==
  ASSUME cpu.state # "reset", NEW i \in Program, i.kind = "div",
         View(cpu', cpu.pc, SetFlags({}), cpu.epcr, cpu.esr)
  PROVE  Arch!Next
BY DEF Arch!Next, Arch!DivisionBegins, View, SetFlags, Arch!WithFlags

(* A clock that shows nothing new.                                         *)
LEMMA StutterStep ==
  ASSUME cpu.state # "reset", View(cpu', cpu.pc, cpu.sr, cpu.epcr, cpu.esr)
  PROVE  UNCHANGED Arch!arch
BY DEF Arch!arch, View

-----------------------------------------------------------------------------
(* What the tasks of the CPU do to the registers of the architecture.      *)
Shows(m, n) == n.pc = m.pc /\ n.sr = m.sr /\ n.epcr = m.epcr /\ n.esr = m.esr

(* The vector of the interrupt that takes precedence.                      *)
InterruptVector == Vector[IF ExternalPending THEN "external" ELSE "tick"]

(* A fetch, an exception and the tasks that touch none of the four         *)
(* registers.                                                              *)
LEMMA TaskViews ==
  ASSUME NEW m \in CpuRegisters, NEW cause, NEW p, NEW s
  PROVE  /\ StartFetch(m, p).state = "fetch" /\ View(StartFetch(m, p), p, m.sr, m.epcr, m.esr)
         /\ RaiseException(m, cause, p, s).state = "fetch"
         /\ View(RaiseException(m, cause, p, s), Vector[cause], {}, p, s)
         /\ Completed(m).state = m.state /\ Shows(m, Completed(m))
         /\ ScheduleRegisterWrite(m).state = m.state /\ Shows(m, ScheduleRegisterWrite(m))
<1>1. StartFetch(m, p).state = "fetch" /\ View(StartFetch(m, p), p, m.sr, m.epcr, m.esr)
  BY DEF StartFetch, CpuRegisters, View
<1>2. RaiseException(m, cause, p, s).state = "fetch"
      /\ View(RaiseException(m, cause, p, s), Vector[cause], {}, p, s)
  BY DEF RaiseException, StartFetch, CpuRegisters, View, RESET_SPR_SR
<1>3. Completed(m).state = m.state /\ Shows(m, Completed(m))
  BY DEF Completed, CpuRegisters, Shows
<1>4. ScheduleRegisterWrite(m).state = m.state /\ Shows(m, ScheduleRegisterWrite(m))
  BY DEF ScheduleRegisterWrite, CpuRegisters, Shows
<1> QED BY <1>1, <1>2, <1>3, <1>4

(* The ends of an instruction: with a fault, with an interrupt, with       *)
(* neither.                                                                *)
LEMMA CompletionViews ==
  ASSUME NEW m \in CpuRegisters, cpu \in CpuRegisters, NEW cause \in Causes,
         NEW p \in Addr, NEW s \in SUBSET Flags
  PROVE  /\ LET n == Completed(RaiseException(m, cause, p, s))
            IN  n.state = "fetch" /\ View(n, Vector[cause], {}, p, s)
         /\ LET n == Completed(TakeInterrupt(m, p, s))
            IN  n.state = "fetch" /\ View(n, InterruptVector, {}, p, s)
         /\ LET n == CheckInterrupt(m, p, s)
            IN  n.state = "fetch" /\ IF InterruptPending THEN View(n, InterruptVector, {}, p, s)
                                     ELSE View(n, p, m.sr, m.epcr, m.esr)
         /\ LET n == FinishMultiCycle(m, s)
                a == NextAddr(cpu.pc)
            IN  n.state = "fetch" /\ IF InterruptPending THEN View(n, InterruptVector, {}, a, s)
                                     ELSE View(n, a, s, m.epcr, m.esr)
<1>1. ASSUME NEW c \in Causes
      PROVE  LET n == Completed(RaiseException(m, c, p, s))
             IN  n.state = "fetch" /\ View(n, Vector[c], {}, p, s)
  <2>1. RaiseException(m, c, p, s) \in CpuRegisters
    BY RaiseExceptionSettled DEF Settled
  <2> QED BY <2>1, TaskViews DEF View, Shows
<1>2. LET n == Completed(TakeInterrupt(m, p, s))
      IN  n.state = "fetch" /\ View(n, InterruptVector, {}, p, s)
  BY <1>1 DEF TakeInterrupt, InterruptVector, Causes
<1>3. \A r \in CpuRegisters : \A q, t :
        LET n == CheckInterrupt(r, q, t)
        IN  n.state = "fetch" /\ IF InterruptPending THEN View(n, InterruptVector, {}, q, t)
                                 ELSE View(n, q, r.sr, r.epcr, r.esr)
  <2> TAKE r \in CpuRegisters
  <2> TAKE q, t
  <2>1. CASE InterruptPending
    BY <2>1, TaskViews DEF CheckInterrupt, TakeInterrupt, InterruptVector
  <2>2. CASE ~InterruptPending
    BY <2>2, TaskViews DEF CheckInterrupt
  <2> QED BY <2>1, <2>2
<1>4. LET n == FinishMultiCycle(m, s)
          a == NextAddr(cpu.pc)
      IN  n.state = "fetch" /\ IF InterruptPending THEN View(n, InterruptVector, {}, a, s)
                               ELSE View(n, a, s, m.epcr, m.esr)
  <2> DEFINE w == [m EXCEPT !.sr = s]
             c == Completed(w)
  <2>1. w \in CpuRegisters /\ w.sr = s /\ w.epcr = m.epcr /\ w.esr = m.esr
    BY DEF CpuRegisters
  <2>2. FinishMultiCycle(m, s) = CheckInterrupt(c, NextAddr(cpu.pc), s)
    BY DEF FinishMultiCycle
  <2> HIDE DEF w
  <2>3. c \in CpuRegisters /\ c.sr = s /\ c.epcr = m.epcr /\ c.esr = m.esr
    BY <2>1, CompletedSettled, TaskViews DEF Shows
  <2> HIDE DEF c
  <2>4. LET n == CheckInterrupt(c, NextAddr(cpu.pc), s)
        IN  n.state = "fetch"
            /\ IF InterruptPending THEN View(n, InterruptVector, {}, NextAddr(cpu.pc), s)
               ELSE View(n, NextAddr(cpu.pc), c.sr, c.epcr, c.esr)
    BY <1>3, <2>3
  <2> QED BY <2>2, <2>3, <2>4
<1> QED BY <1>1, <1>2, <1>3, <1>4

(* write_cpu_spr leaves PC and SR to its callers.                          *)
LEMMA WriteViews ==
  ASSUME NEW m \in CpuRegisters, NEW spr \in Sprs, NEW word \in Word
  PROVE  LET n == WriteCpuSpr(m, spr, word)
         IN  /\ n.state = m.state /\ n.pc = m.pc /\ n.sr = m.sr
             /\ n.epcr = IF spr = "EPCR" THEN word.addr ELSE m.epcr
             /\ n.esr = IF spr = "ESR" THEN word.flags ELSE m.esr
<1> DEFINE n == WriteCpuSpr(m, spr, word)
<1>1. CASE spr \notin {"EPCR", "ESR", "TTMR", "EDIS"}
  <2>1. n.state = m.state /\ Shows(m, n)
    BY <1>1 DEF WriteCpuSpr, CpuRegisters, Shows, ScheduleRegisterWrite
  <2> QED BY <1>1, <2>1 DEF Shows
<1>2. CASE spr \in {"EPCR", "ESR"}
  BY <1>2 DEF WriteCpuSpr, CpuRegisters
<1>3. CASE spr = "TTMR"
  BY <1>3 DEF WriteCpuSpr, WriteTtmr, CpuRegisters
<1>4. CASE spr = "EDIS"
  BY <1>4 DEF WriteCpuSpr, WriteEdis, CpuRegisters
<1> QED BY <1>1, <1>2, <1>3, <1>4

-----------------------------------------------------------------------------
(* The three ways the clock that executes an instruction can end.          *)
Retires(i, out) ==
    /\ out.can_interrupt
    /\ Arch!Context(out.pc, out.sr) \in Arch!Effect(i)
    /\ SavedBy(i, out.m.epcr, out.m.esr)

(* A fault saves the PC of the instruction and SR, with the flags that     *)
(* caused it.                                                              *)
Faults(i, out) ==
    /\ ~out.can_interrupt /\ out.m.state = "fetch" /\ i.kind # "mul"
    /\ \E cause : /\ [cause |-> cause, esr |-> out.sr] \in Arch!Causes(i)
                  /\ View(out.m, Vector[cause], {}, cpu.pc, out.sr)

(* More clocks follow; a division has changed SR, any other instruction    *)
(* nothing.                                                                *)
GoesOn(i, out) ==
    /\ ~out.can_interrupt
    /\ \/ out.m.state = "data" /\ i.kind \in {"load", "store"} /\ out.sr = cpu.sr
       \/ out.m.state = "shifting" /\ i.kind = "shift" /\ out.sr = cpu.sr
       \/ out.m.state = "multiplying" /\ i.kind = "mul" /\ out.sr = cpu.sr
       \/ out.m.state = "dividing" /\ i.kind = "div" /\ ~i.word.bit /\ out.sr = SetFlags({})
       \/ out.m.state = "sleep" /\ i.kind = "sleep" /\ out.sr = cpu.sr
       \/ out.m.state = "stalled" /\ out.sr = cpu.sr
    /\ out.m.pc = cpu.pc /\ out.m.epcr = cpu.epcr /\ out.m.esr = cpu.esr

(* Every instruction ends its clock in one of the three ways.              *)
LEMMA ExecuteOutcome ==
  ASSUME NEW m, Idle(m), cpu \in CpuRegisters, cpu.state # "reset", Shows(cpu, m),
         NEW i \in Instruction
  PROVE  LET out == ExecuteInstruction(m, i)
         IN  Retires(i, out) \/ Faults(i, out) \/ GoesOn(i, out)
<1> DEFINE out == ExecuteInstruction(m, i)
<1>1. /\ m \in CpuRegisters /\ i.kind \in Kinds /\ i.spr \in Sprs /\ i.word \in Word
      /\ i.cause \in Causes /\ cpu.pc \in Addr /\ cpu.sr \in SUBSET Flags
  BY DEF Idle, Instruction, CpuRegisters
<1>2. ScheduleRegisterWrite(m) \in CpuRegisters /\ Shows(cpu, ScheduleRegisterWrite(m))
  BY <1>1, ScheduledType, TaskViews DEF Shows
<1>3. ASSUME NEW r \in CpuRegisters, NEW p, NEW s,
             Arch!Context(p, s) \in Arch!Effect(i), SavedBy(i, r.epcr, r.esr)
      PROVE  Retires(i, Retire(r, p, s))
  <2>1. Completed(r).epcr = r.epcr /\ Completed(r).esr = r.esr
    BY TaskViews DEF Shows
  <2> QED BY <1>3, <2>1 DEF Retire, Retires
<1>4. ASSUME NEW r \in CpuRegisters, NEW cause \in Causes, NEW s \in SUBSET Flags,
             [cause |-> cause, esr |-> s] \in Arch!Causes(i), i.kind # "mul"
      PROVE  Faults(i, Fault(r, cause, s))
  <2> DEFINE n == Completed(RaiseException(r, cause, cpu.pc, s))
  <2>1. n.state = "fetch" /\ View(n, Vector[cause], {}, cpu.pc, s)
    BY <1>1, CompletionViews
  <2>2. Fault(r, cause, s).m = n /\ Fault(r, cause, s).sr = s
        /\ ~Fault(r, cause, s).can_interrupt
    BY DEF Fault, Continue
  <2> HIDE DEF n
  <2> QED BY <1>4, <2>1, <2>2 DEF Faults
<1>5. SavedBy(i, cpu.epcr, cpu.esr) \/ i.kind = "mtspr"
  BY DEF SavedBy
<1>6. CASE i.kind \in {"nop", "alu", "jump", "jal"}
  <2>1. PICK r \in {m, ScheduleRegisterWrite(m)} :
          out = Retire(r, IF i.kind \in {"jump", "jal"} THEN i.word.addr
                          ELSE NextAddr(cpu.pc), cpu.sr)
    BY <1>6 DEF ExecuteInstruction
  <2>2. r \in CpuRegisters /\ r.epcr = cpu.epcr /\ r.esr = cpu.esr
    BY <1>1, <1>2 DEF Shows
  <2> HIDE DEF out
  <2>3. Retires(i, out)
    BY <1>3, <1>5, <1>6, <2>1, <2>2, EffectOf
  <2> QED BY <2>3 DEF out
<1>7. CASE i.kind = "fault"
  BY <1>1, <1>4, <1>7, CausesOf DEF ExecuteInstruction
<1>8. CASE i.kind = "add"
  <2> DEFINE s == SetFlags(i.word.flags)
  <2>1. s \in SUBSET Flags
    BY <1>1, SetFlagsType, WordFields
  <2>2. IF RangeTrips("OV", s) THEN [cause |-> "range", esr |-> s] \in Arch!Causes(i)
        ELSE Arch!Context(NextAddr(cpu.pc), s) \in Arch!Effect(i)
    BY <1>8, ArithmeticOf DEF ResultFlags, TrapFlag
  <2>3. out = IF RangeTrips("OV", s) THEN Fault(ScheduleRegisterWrite(m), "range", s)
              ELSE Retire(ScheduleRegisterWrite(m), NextAddr(cpu.pc), s)
    BY <1>8 DEF ExecuteInstruction, ExecuteAdd
  <2>4. ScheduleRegisterWrite(m).epcr = cpu.epcr /\ ScheduleRegisterWrite(m).esr = cpu.esr
    BY <1>2 DEF Shows
  <2> HIDE DEF s, out
  <2>5. CASE RangeTrips("OV", s)
    BY <1>2, <1>4, <1>8, <2>1, <2>2, <2>3, <2>5 DEF Causes, out
  <2>6. CASE ~RangeTrips("OV", s)
    BY <1>2, <1>3, <1>5, <1>8, <2>1, <2>2, <2>3, <2>4, <2>6 DEF out
  <2> QED BY <2>5, <2>6
<1>9. CASE i.kind = "mul"
  <2>1. out.m = [m EXCEPT !.state = "multiplying", !.busy = MulDelay]
        /\ out.sr = cpu.sr /\ ~out.can_interrupt
    BY <1>9 DEF ExecuteInstruction, ExecuteMul, Continue
  <2> HIDE DEF out
  <2>2. GoesOn(i, out)
    BY <1>1, <1>9, <2>1 DEF GoesOn, Shows, CpuRegisters
  <2> QED BY <2>2 DEF out
<1>10. CASE i.kind = "div"
  <2> DEFINE s == SetFlags(IF i.word.bit THEN {"CY"} ELSE {})
             n == [m EXCEPT !.state = "dividing", !.div_valid = TRUE]
  <2>1. s \in SUBSET Flags
    BY <1>1, SetFlagsType DEF Flags
  <2>2. IF RangeTrips("CY", s) THEN [cause |-> "range", esr |-> s] \in Arch!Causes(i)
        ELSE Arch!Context(NextAddr(cpu.pc), s) \in Arch!Effect(i)
    BY <1>10, ArithmeticOf DEF ResultFlags, TrapFlag
  <2>3. out = IF ~i.word.bit THEN Continue(n, s)
              ELSE IF RangeTrips("CY", s) THEN Fault(m, "range", s)
              ELSE Retire(m, NextAddr(cpu.pc), s)
    BY <1>10 DEF ExecuteInstruction, ExecuteDiv
  <2>4. n.state = "dividing" /\ n.pc = cpu.pc /\ n.epcr = cpu.epcr /\ n.esr = cpu.esr
    BY <1>1 DEF CpuRegisters, Shows
  <2>5. ~i.word.bit => s = SetFlags({})
    OBVIOUS
  <2> HIDE DEF s, n, out
  <2>6. CASE ~i.word.bit
    <3>1. GoesOn(i, out)
      BY <1>10, <2>3, <2>4, <2>5, <2>6 DEF GoesOn, Continue
    <3> QED BY <3>1 DEF out
  <2>7. CASE i.word.bit /\ RangeTrips("CY", s)
    BY <1>1, <1>4, <1>10, <2>1, <2>2, <2>3, <2>7 DEF Causes, out
  <2>8. CASE i.word.bit /\ ~RangeTrips("CY", s)
    <3>1. Retires(i, out)
      BY <1>1, <1>3, <1>5, <1>10, <2>1, <2>2, <2>3, <2>8 DEF Shows
    <3> QED BY <3>1 DEF out
  <2> QED BY <2>6, <2>7, <2>8
<1>11. CASE i.kind = "shift"
  <2>1. CASE i.shift = 0
    <3>1. out = Retire(ScheduleRegisterWrite(m), NextAddr(cpu.pc), cpu.sr)
      BY <1>11, <2>1 DEF ExecuteInstruction, ExecuteShift
    <3> HIDE DEF out
    <3>2. Retires(i, out)
      BY <1>2, <1>3, <1>5, <1>11, <3>1, EffectOf DEF Shows
    <3> QED BY <3>2 DEF out
  <2>2. CASE i.shift # 0
    <3>1. out.m = [m EXCEPT !.state = "shifting", !.busy = i.shift]
          /\ out.sr = cpu.sr /\ ~out.can_interrupt
      BY <1>11, <2>2 DEF ExecuteInstruction, ExecuteShift, Continue
    <3> HIDE DEF out
    <3>2. GoesOn(i, out)
      BY <1>1, <1>11, <3>1 DEF GoesOn, Shows, CpuRegisters
    <3> QED BY <3>2 DEF out
  <2> QED BY <2>1, <2>2
<1>12. CASE i.kind \in {"load", "store"}
  <2>1. /\ \E we \in BOOLEAN :
             out.m = StartDataCycle(m, [adr |-> i.word.addr, we |-> we], "data")
        /\ out.sr = cpu.sr /\ ~out.can_interrupt
    BY <1>12 DEF ExecuteInstruction, Continue
  <2> HIDE DEF out
  <2>2. GoesOn(i, out)
    BY <1>1, <1>12, <2>1 DEF GoesOn, Shows, CpuRegisters, StartDataCycle
  <2> QED BY <2>2 DEF out
<1>13. CASE i.kind = "rfe"
  <2> DEFINE r == [m EXCEPT !.handler = "none"]
  <2>1. r \in CpuRegisters /\ r.epcr = cpu.epcr /\ r.esr = cpu.esr
    BY <1>1 DEF CpuRegisters, Shows
  <2>2. out = Retire(r, cpu.epcr, cpu.esr)
    BY <1>13 DEF ExecuteInstruction, ExecuteRfe
  <2> HIDE DEF r, out
  <2>3. Retires(i, out)
    BY <1>3, <1>5, <1>13, <2>1, <2>2, EffectOf
  <2> QED BY <2>3 DEF out
<1>14. CASE i.kind = "mtspr"
  <2> DEFINE r == WriteCpuSpr(m, i.spr, i.word)
  <2>1. CASE i.spr \in {"invalid", "misaligned"}
    BY <1>1, <1>4, <1>14, <2>1, CausesOf DEF ExecuteInstruction, ExecuteMtspr, Causes
  <2>2. CASE i.spr \notin {"invalid", "misaligned"}
    <3>1. r \in CpuRegisters /\ SavedBy(i, r.epcr, r.esr)
      BY <1>1, <1>14, WriteCpuSprType, WriteViews DEF SavedBy, Shows
    <3>2. out = Retire(r, NextPc(i.spr, i.word, NextAddr(cpu.pc)), NextSr(i.spr, i.word))
      BY <1>14, <2>2 DEF ExecuteInstruction, ExecuteMtspr
    <3> HIDE DEF r, out
    <3>3. Retires(i, out)
      BY <1>3, <1>14, <2>2, <3>1, <3>2, EffectOf
    <3> QED BY <3>3 DEF out
  <2> QED BY <2>1, <2>2
<1>15. CASE i.kind = "trap"
  <2>1. CASE cpu.trap_enabled
    <3>1. out.m = [m EXCEPT !.reason_trap = TRUE, !.is_stalled = TRUE, !.state = "stalled"]
          /\ out.sr = cpu.sr /\ ~out.can_interrupt
      BY <1>15, <2>1 DEF ExecuteInstruction, ExecuteTrap, Continue
    <3> HIDE DEF out
    <3>2. GoesOn(i, out)
      BY <1>1, <3>1 DEF GoesOn, Shows, CpuRegisters
    <3> QED BY <3>2 DEF out
  <2>2. CASE ~cpu.trap_enabled
    BY <1>1, <1>4, <1>15, <2>2, CausesOf DEF ExecuteInstruction, ExecuteTrap, Causes
  <2> QED BY <2>1, <2>2
<1>16. CASE i.kind = "sleep"
  <2>1. out.m = [m EXCEPT !.state = "sleep"] /\ out.sr = cpu.sr /\ ~out.can_interrupt
    BY <1>16 DEF ExecuteInstruction, Continue
  <2> HIDE DEF out
  <2>2. GoesOn(i, out)
    BY <1>1, <1>16, <2>1 DEF GoesOn, Shows, CpuRegisters
  <2> QED BY <2>2 DEF out
<1> QED BY <1>1, <1>6, <1>7, <1>8, <1>9, <1>10, <1>11, <1>12, <1>13, <1>14, <1>15, <1>16
        DEF Kinds

-----------------------------------------------------------------------------
(* One clock: the registers of the architecture make a step or stay.       *)
Allowed == (Arch!Next \/ UNCHANGED Arch!arch) /\ InProgress(cpu')

(* Nothing is in progress during a fetch.                                  *)
LEMMA FetchingAllowed ==
  ASSUME cpu'.state = "fetch", Arch!Next \/ UNCHANGED Arch!arch
  PROVE  Allowed
BY DEF Allowed, InProgress

(* The clock that executes an instruction is a step of Or1kArch.           *)
LEMMA FinishAllowed ==
  ASSUME cpu \in CpuRegisters, cpu.state # "reset", NEW i \in Program, NEW out, Sound(out),
         Retires(i, out) \/ Faults(i, out) \/ GoesOn(i, out),
         cpu' = FinishInstruction(out)
  PROVE  Allowed
<1> DEFINE w == [out.m EXCEPT !.sr = out.sr]
<1>1. /\ w \in CpuRegisters /\ w.sr = out.sr /\ w.state = out.m.state /\ w.pc = out.m.pc
      /\ w.epcr = out.m.epcr /\ w.esr = out.m.esr
  BY DEF Sound, CpuRegisters
<1>2. cpu' = IF out.can_interrupt THEN CheckInterrupt(w, out.pc, out.sr) ELSE w
  BY DEF FinishInstruction
<1> HIDE DEF w
<1>3. CASE Retires(i, out)
  <2>1. /\ cpu'.state = "fetch"
        /\ IF InterruptPending THEN View(cpu', InterruptVector, {}, out.pc, out.sr)
           ELSE View(cpu', out.pc, out.sr, out.m.epcr, out.m.esr)
    BY <1>1, <1>2, <1>3, CompletionViews DEF Retires, Sound, Causes
  <2>2. Arch!Next
    BY <1>3, <2>1, ExecuteStep, InterruptStep DEF Retires, InterruptVector
  <2> QED BY <2>1, <2>2, FetchingAllowed
<1>4. CASE Faults(i, out)
  <2>1. PICK cause : /\ [cause |-> cause, esr |-> out.sr] \in Arch!Causes(i)
                     /\ View(out.m, Vector[cause], {}, cpu.pc, out.sr)
    BY <1>4 DEF Faults
  <2>2. cpu'.state = "fetch" /\ View(cpu', Vector[cause], out.sr, cpu.pc, out.sr)
    BY <1>1, <1>2, <1>4, <2>1 DEF Faults, View
  <2>3. Arch!Next
    BY <1>4, <2>1, <2>2, FaultStep DEF Faults
  <2> QED BY <2>2, <2>3, FetchingAllowed
<1>5. CASE GoesOn(i, out)
  <2>1. /\ cpu'.state = out.m.state /\ cpu'.state # "reset"
        /\ View(cpu', cpu.pc, out.sr, cpu.epcr, cpu.esr)
    BY <1>1, <1>2, <1>5 DEF GoesOn, View
  <2>2. CASE cpu'.state # "dividing"
    <3>1. UNCHANGED Arch!arch
      BY <1>5, <2>1, <2>2, StutterStep DEF GoesOn
    <3>2. InProgress(cpu')
      BY <1>5, <2>1, <2>2 DEF GoesOn, InProgress
    <3> QED BY <3>1, <3>2 DEF Allowed
  <2>3. CASE cpu'.state = "dividing"
    <3>1. i.kind = "div" /\ ~i.word.bit /\ out.sr = SetFlags({})
      BY <1>5, <2>1, <2>3 DEF GoesOn
    <3>2. Arch!Next
      BY <2>1, <3>1, DivisionStep
    <3>3. InProgress(cpu')
      BY <2>1, <2>3, <3>1 DEF View, InProgress, SetFlags
    <3> QED BY <3>2, <3>3 DEF Allowed
  <2> QED BY <2>2, <2>3
<1> QED BY <1>3, <1>4, <1>5

(* The last clock of an instruction that takes several.                    *)
LEMMA MultiCycleAllowed ==
  ASSUME cpu \in CpuRegisters, cpu.state # "reset", NEW i \in Program, i.kind # "mtspr",
         NEW m \in CpuRegisters, m.epcr = cpu.epcr, m.esr = cpu.esr,
         NEW s \in SUBSET Flags, Arch!Context(NextAddr(cpu.pc), s) \in Arch!Effect(i),
         cpu' = FinishMultiCycle(m, s)
  PROVE  Allowed
<1>1. /\ cpu'.state = "fetch"
      /\ IF InterruptPending THEN View(cpu', InterruptVector, {}, NextAddr(cpu.pc), s)
         ELSE View(cpu', NextAddr(cpu.pc), s, m.epcr, m.esr)
  <2>1. cpu.pc \in Addr
    BY DEF CpuRegisters
  <2> QED BY <2>1, CompletionViews DEF Causes
<1>2. SavedBy(i, m.epcr, m.esr)
  BY DEF SavedBy
<1>3. Arch!Next
  BY <1>1, <1>2, ExecuteStep, InterruptStep DEF InterruptVector
<1> QED BY <1>1, <1>3, FetchingAllowed

(* A clock that leaves the four registers alone.                           *)
LEMMA UnchangedAllowed ==
  ASSUME cpu.state # "reset", InProgress(cpu), Shows(cpu, cpu'),
         cpu'.state = cpu.state \/ cpu'.state \in DebugStates \cup {"fetch"}
  PROVE  Allowed
<1>1. cpu'.state # "reset"
  BY DEF DebugStates
<1>2. UNCHANGED Arch!arch
  BY <1>1, StutterStep DEF Shows, View
<1>3. InProgress(cpu')
  BY DEF InProgress, Shows, DebugStates
<1> QED BY <1>2, <1>3 DEF Allowed

(* The debugger's write is the one Or1kArch allows.                        *)
LEMMA DebugAllowed ==
  ASSUME cpu \in CpuRegisters, cpu.state # "reset", op \in DebugOps \cup RunningOps,
         NEW m \in CpuRegisters, Shows(cpu, m), m.bus = NoRequest, ~m.gpr_write,
         LET d == StartDebugOperation(m)
         IN  cpu' = d \/ cpu' = [d EXCEPT !.stop2 = FALSE]
  PROVE  Allowed
<1> DEFINE d == StartDebugOperation(m)
           w == WriteCpuSpr(m, op.spr, op.word)
           write == [kind |-> "mtspr", spr |-> op.spr, word |-> op.word]
           Writes == /\ op.we
                     /\ d.pc = NextPc(op.spr, op.word, cpu.pc)
                     /\ d.sr = NextSr(op.spr, op.word)
                     /\ SavedBy(write, d.epcr, d.esr)
<1>1. op \in DebugOp /\ op.spr \in Sprs /\ op.word \in Word /\ op.we \in BOOLEAN
  BY StreamAssumption DEF DebugOp
<1>2. /\ w \in CpuRegisters
      /\ w.epcr = IF op.spr = "EPCR" THEN op.word.addr ELSE m.epcr
      /\ w.esr = IF op.spr = "ESR" THEN op.word.flags ELSE m.esr
  <2>1. w \in CpuRegisters
    BY <1>1, WriteCpuSprType
  <2>2. LET n == WriteCpuSpr(m, op.spr, op.word)
        IN  /\ n.epcr = IF op.spr = "EPCR" THEN op.word.addr ELSE m.epcr
            /\ n.esr = IF op.spr = "ESR" THEN op.word.flags ELSE m.esr
    BY <1>1, WriteViews
  <2> QED BY <2>1, <2>2
<1>3. d \in CpuRegisters
  BY <1>1, StartDebugOperationSettled DEF Settled
<1> HIDE DEF w
<1>4. d.state \in DebugStates /\ (Shows(cpu, d) \/ Writes)
  <2>1. CASE ~op.we
    <3>1. d = [m EXCEPT !.state = "dbg_read"]
      BY <2>1 DEF StartDebugOperation
    <3> HIDE DEF d
    <3> QED BY <3>1 DEF CpuRegisters, Shows, DebugStates
  <2>2. CASE op.we /\ op.spr \in {"READ_MEM_ADDR", "WRITE_MEM_DATA"}
    <3>1. \E request : d = StartDataCycle(m, request, "dbg_data")
      BY <2>2 DEF StartDebugOperation
    <3> HIDE DEF d
    <3> QED BY <3>1 DEF StartDataCycle, CpuRegisters, Shows, DebugStates
  <2>3. CASE op.we /\ op.spr \notin {"READ_MEM_ADDR", "WRITE_MEM_DATA"}
    <3>1. d = [w EXCEPT !.sr = NextSr(op.spr, op.word), !.pc = NextPc(op.spr, op.word, cpu.pc),
                        !.state = "dbg_ack"]
      BY <2>3 DEF StartDebugOperation, w
    <3> HIDE DEF d
    <3>2. /\ d.state = "dbg_ack" /\ d.pc = NextPc(op.spr, op.word, cpu.pc)
          /\ d.sr = NextSr(op.spr, op.word) /\ d.epcr = w.epcr /\ d.esr = w.esr
      BY <1>2, <3>1 DEF CpuRegisters
    <3>3. SavedBy(write, d.epcr, d.esr)
      BY <1>2, <3>2 DEF SavedBy, Shows
    <3> QED BY <2>3, <3>2, <3>3 DEF DebugStates
  <2> QED BY <1>1, <2>1, <2>2, <2>3
<1>5. cpu'.state = d.state /\ Shows(d, cpu')
  <2>1. cpu' = d \/ cpu' = [d EXCEPT !.stop2 = FALSE]
    OBVIOUS
  <2> HIDE DEF d
  <2> QED BY <1>3, <2>1 DEF CpuRegisters, Shows
<1> HIDE DEF d
<1>6. InProgress(cpu')
  BY <1>4, <1>5 DEF InProgress, DebugStates
<1>7. cpu'.state # "reset"
  BY <1>4, <1>5 DEF DebugStates
<1>8. CASE Shows(cpu, d)
  BY <1>5, <1>6, <1>7, <1>8, StutterStep DEF Shows, View, Allowed
<1>9. CASE Writes
  <2>1. Arch!DebuggerWrites(op)
    BY <1>5, <1>7, <1>9 DEF Arch!DebuggerWrites, Arch!Saved, SavedBy, Shows, NextPc, NextSr
  <2> QED BY <1>6, <2>1 DEF Allowed, Arch!Next
<1> QED BY <1>4, <1>8, <1>9

(* A fetch repeated at cpureg_pc shows nothing new.                        *)
LEMMA RefetchShows ==
  ASSUME NEW m \in CpuRegisters, Shows(cpu, m)
  PROVE  StartFetch(m, cpu.pc).state = "fetch" /\ Shows(cpu, StartFetch(m, cpu.pc))
BY DEF StartFetch, CpuRegisters, Shows

(* check_debug_unit_operation_start is the debugger's write or nothing.    *)
LEMMA CheckDebugAllowed ==
  ASSUME CoreInv, ArchInv, cpu.state # "reset",
         cpu' = CheckDebugUnitOperationStart(StepStateMachine)
  PROVE  Allowed
<1> DEFINE m == StepStateMachine
<1>1. cpu \in CpuRegisters /\ m \in CpuRegisters /\ m.bus = NoRequest /\ ~m.gpr_write
  BY StepFacts DEF CoreInv, Settled
<1>2. Shows(cpu, m)
  BY <1>1, StepKeeps DEF Shows
<1> HIDE DEF m
<1>3. CASE stb
  <2>1. cpu' = [StartDebugOperation(m) EXCEPT !.stop2 = FALSE]
    BY <1>3 DEF CheckDebugUnitOperationStart, m
  <2>2. op \in DebugOps \cup RunningOps
    BY <1>3 DEF ArchInv
  <2> QED BY <1>1, <1>2, <2>1, <2>2, DebugAllowed
<1>4. CASE ~stb
  <2>1. \/ cpu' = [m EXCEPT !.state = "stalled", !.stop2 = FALSE]
        \/ cpu' = [m EXCEPT !.reason_trap = TRUE, !.is_stalled = TRUE,
                            !.state = "stalled", !.stop2 = FALSE]
    BY <1>4 DEF CheckDebugUnitOperationStart, m
  <2>2. Shows(m, cpu') /\ cpu'.state = "stalled"
    BY <1>1, <2>1, ZenonT(60) DEF CpuRegisters, Shows
  <2>3. Shows(cpu, cpu') /\ cpu'.state \in DebugStates
    BY <1>2, <2>2 DEF Shows, DebugStates
  <2> QED BY <2>3, UnchangedAllowed DEF ArchInv
<1> QED BY <1>3, <1>4

(* The reset shows the PC that the initial state stands for.               *)
LEMMA ResetAllowed ==
  ASSUME CoreInv, ArchInv, DoStateReset
  PROVE  Allowed
<1> DEFINE f == StartFetch(StepStateMachine, Vector["reset"])
<1>1. StepStateMachine \in CpuRegisters
  BY StepFacts DEF CoreInv, Settled
<1>2. f \in CpuRegisters
  BY <1>1, StartFetchSettled, VectorAssumption DEF Settled, Causes
<1>3. f.state = "fetch" /\ f.pc = Vector["reset"]
  BY <1>1, TaskViews DEF View
<1>4. cpu' = [f EXCEPT
               !.sr = RESET_SPR_SR, !.epcr = 0, !.esr = {}, !.picmr = FALSE,
               !.mode = 0, !.ie = FALSE, !.ip = FALSE, !.tp = 0, !.ttcr = 0,
               !.trap_enabled = FALSE, !.reason_trap = FALSE,
               !.stop1 = FALSE, !.stop2 = FALSE, !.is_stalled = FALSE,
               !.dvr = 0, !.div_valid = TRUE, !.handler = "none", !.done = 0]
  BY DEF DoStateReset, Edge
<1> HIDE DEF f
<1>5. /\ cpu'.state = "fetch" /\ cpu'.pc = Vector["reset"] /\ cpu'.sr = {}
      /\ cpu'.epcr = 0 /\ cpu'.esr = {}
  BY <1>2, <1>3, <1>4 DEF CpuRegisters, RESET_SPR_SR
<1>6. cpu.state = "reset" /\ cpu.sr = {} /\ cpu.epcr = 0 /\ cpu.esr = {}
  BY DEF DoStateReset, ArchInv, InProgress
<1>7. UNCHANGED Arch!arch
  BY <1>5, <1>6 DEF Arch!arch
<1> QED BY <1>5, <1>7, FetchingAllowed

(* Every clock edge is a step of Or1kArch or shows nothing new.            *)
LEMMA ClockAllowed ==
  ASSUME CoreInv, ArchInv, Clock
  PROVE  Allowed
<1> DEFINE m == StepStateMachine
           g == ScheduleRegisterWrite(m)
<1>1. /\ cpu \in CpuRegisters /\ m \in CpuRegisters /\ m.bus = NoRequest /\ ~m.gpr_write
      /\ cpu.pc \in Addr /\ cpu.sr \in SUBSET Flags /\ NextAddr(cpu.pc) \in Addr
  BY StepFacts, NextAddrType DEF CoreInv, Settled, CpuRegisters
<1>2. /\ m.state = cpu.state /\ m.is_stalled = cpu.is_stalled /\ Shows(cpu, m)
      /\ m.epcr = cpu.epcr /\ m.esr = cpu.esr
  BY <1>1, StepKeeps DEF Shows
<1> HIDE DEF m
<1>3. g \in CpuRegisters /\ g.epcr = cpu.epcr /\ g.esr = cpu.esr
  BY <1>1, <1>2, ScheduledType, TaskViews DEF Shows
<1> HIDE DEF g
<1>4. InProgress(cpu)
  BY DEF ArchInv
<1>5. CASE DoStateReset
  BY <1>5, ResetAllowed
<1>6. CASE FetchWait
  <2>1. cpu.state = "fetch" /\ cpu' = StartFetch(m, cpu.pc)
    BY <1>6 DEF FetchWait, Edge, m
  <2>2. cpu'.state = "fetch" /\ Shows(cpu, cpu')
    BY <1>1, <1>2, <2>1, RefetchShows
  <2> QED BY <1>4, <2>1, <2>2, UnchangedAllowed
<1>7. CASE FetchSingleStepped
  <2>1. cpu.state = "fetch"
        /\ cpu' = [m EXCEPT !.is_stalled = TRUE, !.stop2 = FALSE, !.state = "stalled"]
    BY <1>7 DEF FetchSingleStepped, Edge, m
  <2>2. cpu'.state \in DebugStates /\ Shows(cpu, cpu')
    BY <1>1, <1>2, <2>1 DEF CpuRegisters, Shows, DebugStates
  <2> QED BY <1>4, <2>1, <2>2, UnchangedAllowed
<1>8. CASE FetchDebugged \/ SleepDebugged
  BY <1>8, CheckDebugAllowed DEF FetchDebugged, SleepDebugged, Edge
<1>9. ASSUME NEW i \in Program, FetchExecute(i)
      PROVE  Allowed
  <2> DEFINE n == [m EXCEPT !.stop2 = cpu.stop1]
             out == ExecuteInstruction(n, i)
  <2>1. ~cpu.is_stalled /\ cpu.state = "fetch" /\ cpu.stop1 \in BOOLEAN
    BY <1>1, <1>9 DEF FetchExecute, DebugUnitActive, CpuRegisters
  <2>2. /\ n \in CpuRegisters /\ n.is_stalled = m.is_stalled /\ n.state = m.state
        /\ n.bus = NoRequest /\ ~n.gpr_write /\ Shows(m, n)
    BY <1>1, <2>1 DEF CpuRegisters, Shows
  <2> HIDE DEF n
  <2>3. Idle(n) /\ Shows(cpu, n) /\ i \in Instruction
    BY <1>2, <2>1, <2>2, StreamAssumption DEF Idle, Shows
  <2>4. Sound(out)
    BY <1>1, <2>1, <2>3, ExecuteSound
  <2>5. Retires(i, out) \/ Faults(i, out) \/ GoesOn(i, out)
    BY <1>1, <2>1, <2>3, ExecuteOutcome
  <2>6. cpu' = FinishInstruction(out)
    BY <1>9 DEF FetchExecute, Edge, m, n
  <2> HIDE DEF out
  <2> QED BY <1>1, <2>1, <2>4, <2>5, <2>6, FinishAllowed
<1>10. CASE FetchError \/ DataError
  <2>1. /\ cpu.state # "reset"
        /\ \/ cpu' = RaiseException(m, "bus", cpu.pc, cpu.sr)
           \/ cpu' = Completed(RaiseException(m, "bus", cpu.pc, cpu.sr))
    BY <1>10 DEF FetchError, DataError, BusError, Edge, m
  <2>2. cpu'.state = "fetch" /\ View(cpu', Vector["bus"], {}, cpu.pc, cpu.sr)
    BY <1>1, <2>1, TaskViews, CompletionViews DEF Causes
  <2> QED BY <2>1, <2>2, BusFaultStep, FetchingAllowed
<1>11. CASE KeepDataCycle
  <2>1. cpu.state \in {"data", "dbg_data"} /\ cpu' = [m EXCEPT !.bus = cpu.wishdat]
    BY <1>11 DEF KeepDataCycle, Edge, m
  <2>2. cpu'.state = cpu.state /\ Shows(cpu, cpu')
    BY <1>1, <1>2, <2>1 DEF CpuRegisters, Shows
  <2> QED BY <1>4, <2>1, <2>2, UnchangedAllowed
<1>12. CASE DataAcknowledged
  <2>1. cpu.state = "data" /\ \E n \in {m, g} : cpu' = FinishMultiCycle(n, cpu.sr)
    BY <1>12 DEF DataAcknowledged, Edge, m, g
  <2>2. PICK i \in Program : i.kind \in {"load", "store"}
    BY <1>4, <2>1 DEF InProgress
  <2>3. Arch!Context(NextAddr(cpu.pc), cpu.sr) \in Arch!Effect(i)
    BY <1>1, <2>1, <2>2, EffectOf, StreamAssumption
  <2> QED BY <1>1, <1>2, <1>3, <2>1, <2>2, <2>3, MultiCycleAllowed
<1>13. CASE SleepGoesOn
  <2>1. cpu.state = "sleep"
    BY <1>13 DEF SleepGoesOn
  <2>2. PICK i \in Program : i.kind = "sleep"
    BY <1>4, <2>1 DEF InProgress
  <2>3. CASE InterruptPending
    <3>1. cpu' = Completed(TakeInterrupt(m, NextAddr(cpu.pc), cpu.sr))
      BY <1>13, <2>3 DEF SleepGoesOn, Edge, m
    <3>2. cpu'.state = "fetch" /\ View(cpu', InterruptVector, {}, NextAddr(cpu.pc), cpu.sr)
      BY <1>1, <3>1, CompletionViews DEF Causes
    <3>3. Arch!Context(NextAddr(cpu.pc), cpu.sr) \in Arch!Effect(i)
      BY <1>1, <2>1, <2>2, EffectOf, StreamAssumption
    <3>4. Arch!Next
      BY <2>1, <2>3, <3>2, <3>3, InterruptStep DEF InterruptVector
    <3> QED BY <3>2, <3>4, FetchingAllowed
  <2>4. CASE ~InterruptPending
    <3>1. cpu' = m
      BY <1>13, <2>4 DEF SleepGoesOn, Edge, m
    <3> QED BY <1>2, <1>4, <2>1, <3>1, UnchangedAllowed
  <2> QED BY <2>3, <2>4
<1>14. CASE Shifting
  <2>1. cpu.state = "shifting"
    BY <1>14 DEF Shifting
  <2>2. CASE cpu.busy = 1
    <3> DEFINE w == [g EXCEPT !.busy = 0]
    <3>1. cpu' = FinishMultiCycle(w, cpu.sr)
      BY <1>14, <2>2 DEF Shifting, Edge, m, g
    <3>2. w \in CpuRegisters /\ w.epcr = cpu.epcr /\ w.esr = cpu.esr
      BY <1>3, SizeAssumption DEF CpuRegisters
    <3> HIDE DEF w
    <3>3. PICK i \in Program : i.kind = "shift"
      BY <1>4, <2>1 DEF InProgress
    <3>4. Arch!Context(NextAddr(cpu.pc), cpu.sr) \in Arch!Effect(i)
      BY <1>1, <2>1, <3>3, EffectOf, StreamAssumption
    <3> QED BY <1>1, <2>1, <3>1, <3>2, <3>3, <3>4, MultiCycleAllowed
  <2>3. CASE cpu.busy # 1
    <3>1. cpu' = [m EXCEPT !.busy = @ - 1]
      BY <1>14, <2>3 DEF Shifting, Edge, m
    <3>2. cpu'.state = cpu.state /\ Shows(cpu, cpu')
      BY <1>1, <1>2, <3>1 DEF CpuRegisters, Shows
    <3> QED BY <1>4, <2>1, <3>2, UnchangedAllowed
  <2> QED BY <2>2, <2>3
<1>15. CASE MultiplyingWait \/ DividingWait \/ DividerAccepts
  <2>1. /\ cpu.state # "reset"
        /\ \/ cpu' = m \/ cpu' = [m EXCEPT !.busy = @ - 1] \/ cpu' = [m EXCEPT !.div_valid = FALSE]
    BY <1>15 DEF MultiplyingWait, DividingWait, DividerAccepts, Edge, m
  <2>2. cpu'.state = m.state /\ Shows(m, cpu')
    BY <1>1, <2>1 DEF CpuRegisters, Shows
  <2>3. cpu'.state = cpu.state /\ Shows(cpu, cpu')
    BY <1>2, <2>2 DEF Shows
  <2> QED BY <1>4, <2>1, <2>3, UnchangedAllowed
<1>16. CASE MultiplyingDone
  <2>1. PICK flags \in {{}, {"OV"}, {"CY"}} :
          LET next_sr == SetFlags(flags)
              written == [g EXCEPT !.sr = next_sr]
          IN  cpu' = IF RangeTrips("OV", next_sr)
                     THEN Completed(RaiseException(written, "range", cpu.pc, next_sr))
                     ELSE FinishMultiCycle(written, next_sr)
    BY <1>16 DEF MultiplyingDone, Edge, m, g
  <2>2. cpu.state = "multiplying"
    BY <1>16 DEF MultiplyingDone
  <2>3. PICK i \in Program : i.kind = "mul"
    BY <1>4, <2>2 DEF InProgress
  <2> DEFINE s == SetFlags(flags)
             w == [g EXCEPT !.sr = s]
  <2>4. s \in SUBSET Flags
    BY <1>1, SetFlagsType DEF Flags
  <2>5. IF RangeTrips("OV", s) THEN [cause |-> "range", esr |-> s] \in Arch!Causes(i)
        ELSE Arch!Context(NextAddr(cpu.pc), s) \in Arch!Effect(i)
    BY <1>1, <2>2, <2>3, ArithmeticOf, StreamAssumption DEF ResultFlags, TrapFlag
  <2>6. cpu' = IF RangeTrips("OV", s) THEN Completed(RaiseException(w, "range", cpu.pc, s))
               ELSE FinishMultiCycle(w, s)
    BY <2>1
  <2> HIDE DEF s
  <2>7. w \in CpuRegisters /\ w.epcr = cpu.epcr /\ w.esr = cpu.esr
    BY <1>3, <2>4 DEF CpuRegisters
  <2> HIDE DEF w
  <2>8. CASE RangeTrips("OV", s)
    <3>1. cpu'.state = "fetch" /\ View(cpu', Vector["range"], {}, cpu.pc, s)
      BY <1>1, <2>4, <2>6, <2>7, <2>8, CompletionViews DEF Causes
    <3>2. Arch!Next
      BY <2>2, <2>3, <2>5, <2>8, <3>1, FaultStep
    <3> QED BY <3>1, <3>2, FetchingAllowed
  <2>9. CASE ~RangeTrips("OV", s)
    BY <1>1, <2>2, <2>3, <2>4, <2>5, <2>6, <2>7, <2>9, MultiCycleAllowed
  <2> QED BY <2>8, <2>9
<1>17. CASE DividingDone
  <2>1. cpu.state = "dividing" /\ cpu' = FinishMultiCycle(g, cpu.sr)
    BY <1>17 DEF DividingDone, Edge, m, g
  <2>2. PICK i \in Program : i.kind = "div" /\ ~i.word.bit
    BY <1>4, <2>1 DEF InProgress
  <2>3. "OV" \notin cpu.sr /\ "CY" \notin cpu.sr
    BY <1>4, <2>1 DEF InProgress
  <2>4. SetFlags({}) = cpu.sr /\ ~RangeTrips("CY", cpu.sr)
    BY <2>3 DEF SetFlags, RangeTrips
  <2>5. {} \in ResultFlags(i)
    BY <2>2 DEF ResultFlags
  <2>6. Arch!Context(NextAddr(cpu.pc), cpu.sr) \in Arch!Effect(i)
    BY <1>1, <2>1, <2>2, <2>4, <2>5, ArithmeticOf, StreamAssumption DEF TrapFlag
  <2> QED BY <1>1, <1>3, <2>1, <2>2, <2>6, MultiCycleAllowed
<1>18. CASE DebugRegFileRead \/ DebugDataAnswered \/ DebugAckAssert
  <2>1. /\ cpu.state # "reset"
        /\ \/ cpu' = [m EXCEPT !.state = "dbg_ack"]
           \/ cpu' = [m EXCEPT !.dbg_ack = TRUE, !.state = "dbg_stb"]
    BY <1>18 DEF DebugRegFileRead, DebugDataAnswered, DebugAckAssert, Edge, m
  <2>2. cpu'.state \in DebugStates /\ Shows(cpu, cpu')
    <3>1. CASE cpu' = [m EXCEPT !.state = "dbg_ack"]
      BY <1>1, <1>2, <3>1 DEF CpuRegisters, Shows, DebugStates
    <3>2. CASE cpu' = [m EXCEPT !.dbg_ack = TRUE, !.state = "dbg_stb"]
      BY <1>1, <1>2, <3>2 DEF CpuRegisters, Shows, DebugStates
    <3> QED BY <2>1, <3>1, <3>2
  <2> QED BY <1>4, <2>1, <2>2, UnchangedAllowed
<1>19. CASE DebugStbDeassert
  <2> DEFINE r == [m EXCEPT !.dbg_ack = FALSE]
  <2>1. r \in CpuRegisters /\ Shows(cpu, r)
    BY <1>1, <1>2, ZenonT(60) DEF CpuRegisters, Shows
  <2>2. /\ cpu.state = "dbg_stb"
        /\ \/ cpu' = m
           \/ cpu' = [r EXCEPT !.state = "stalled"]
           \/ cpu' = StartFetch(r, cpu.pc)
    BY <1>19 DEF DebugStbDeassert, Edge, m
  <2> HIDE DEF r
  <2>3. cpu'.state \in DebugStates \cup {"fetch"} /\ Shows(cpu, cpu')
    <3>1. CASE cpu' = m
      BY <1>2, <2>2, <3>1 DEF DebugStates
    <3>2. CASE cpu' = [r EXCEPT !.state = "stalled"]
      BY <2>1, <3>2 DEF CpuRegisters, Shows, DebugStates
    <3>3. CASE cpu' = StartFetch(r, cpu.pc)
      BY <2>1, <3>3, RefetchShows
    <3> QED BY <2>2, <3>1, <3>2, <3>3
  <2> QED BY <1>4, <2>2, <2>3, UnchangedAllowed
<1>20. CASE DebugStalled
  <2>1. cpu.state = "stalled"
    BY <1>20 DEF DebugStalled
  <2>2. CASE stb
    <3>1. cpu' = StartDebugOperation(m) /\ op \in DebugOps \cup RunningOps
      BY <1>20, <2>2 DEF DebugStalled, Edge, m, ArchInv
    <3> QED BY <1>1, <1>2, <2>1, <3>1, DebugAllowed
  <2>3. CASE ~stb
    <3>1. cpu' = m \/ cpu' = StartFetch(m, cpu.pc)
      BY <1>20, <2>3 DEF DebugStalled, Edge, m
    <3>2. cpu'.state \in DebugStates \cup {"fetch"} /\ Shows(cpu, cpu')
      BY <1>1, <1>2, <2>1, <3>1, RefetchShows DEF DebugStates
    <3> QED BY <1>4, <2>1, <3>2, UnchangedAllowed
  <2> QED BY <2>2, <2>3
<1> QED BY <1>5, <1>6, <1>7, <1>8, <1>9, <1>10, <1>11, <1>12, <1>13, <1>14, <1>15, <1>16,
           <1>17, <1>18, <1>19, <1>20 DEF Clock, Answers

(* The interrupt line and the Debug Interface show nothing new.            *)
LEMMA OutsideAllowed ==
  ASSUME ArchInv, PicChanges \/ DebugRequest \/ DebugRelease
  PROVE  ArchInv' /\ UNCHANGED Arch!arch
<1>1. cpu' = cpu
  BY DEF PicChanges, DebugRequest, DebugRelease
<1>2. stb' => op' \in DebugOps \cup RunningOps
  BY DEF PicChanges, DebugRequest, DebugRelease, ArchInv
<1>3. InProgress(cpu')
  BY <1>1 DEF ArchInv
<1>4. UNCHANGED Arch!arch
  BY <1>1 DEF Arch!arch
<1> QED BY <1>2, <1>3, <1>4 DEF ArchInv, InProgress

(* ArchInv is an invariant of the CPU.                                     *)
THEOREM ArchInvariant == Spec => []ArchInv
<1>1. Init => ArchInv
  BY DEF Init, ArchInv, InProgress, RESET_SPR_SR
<1>2. CoreInv /\ ArchInv /\ [Next]_vars => ArchInv'
  <2> SUFFICES ASSUME CoreInv, ArchInv, [Next]_vars PROVE ArchInv'
    OBVIOUS
  <2>1. CASE Clock
    <3>1. InProgress(cpu') /\ stb' = stb /\ op' = op
      BY <2>1, ClockAllowed, ClockKeepsOutside DEF Allowed
    <3> QED BY <3>1 DEF ArchInv, InProgress
  <2>2. CASE UNCHANGED vars
    BY <2>2 DEF vars, ArchInv, InProgress
  <2> QED BY <2>1, <2>2, OutsideAllowed DEF Next
<1> QED BY <1>1, <1>2, CoreInvariant, PTL DEF Spec

(* The refinement: instruction by instruction the CPU does what Or1kArch   *)
(* says. Exceptions are precise and an interrupt saves the PC and the SR   *)
(* the program goes on with, whatever fetches, data cycles, clocks of the  *)
(* multiplier and the divider, and debugger's accesses lie between.        *)
THEOREM CoreImplementsArchitecture == Spec => ImplementsOr1kArch
<1>1. Init => Arch!Init
  BY DEF Init, Arch!Init, RESET_SPR_SR
<1>2. CoreInv /\ ArchInv /\ [Next]_vars => [Arch!Next]_(Arch!arch)
  <2> SUFFICES ASSUME CoreInv, ArchInv, [Next]_vars PROVE Arch!Next \/ UNCHANGED Arch!arch
    OBVIOUS
  <2>1. CASE Clock
    BY <2>1, ClockAllowed DEF Allowed
  <2>2. CASE UNCHANGED vars
    BY <2>2 DEF vars, Arch!arch
  <2> QED BY <2>1, <2>2, OutsideAllowed DEF Next
<1> QED BY <1>1, <1>2, CoreInvariant, ArchInvariant, PTL
        DEF Spec, ImplementsOr1kArch, Arch!Spec
=============================================================================
